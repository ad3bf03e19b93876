--------------------------- MODULE SshHostProofs ---------------------------
(***************************************************************************)
(* What holds on a managed host for any number of grants, renewals,         *)
(* failed commands, deaths of the daemon and edits: a closed grant has left *)
(* nothing there, open access is under a complete dead-man, and the         *)
(* rewriting of authorized_keys loses no line that was not exposed.         *)
(***************************************************************************)
EXTENDS SshHost, TLAPS

(***************************************************************************)
(* The inductive invariant.                                                 *)
(***************************************************************************)
Ops == {"none", "open", "renew", "unwind", "revert"}
States == {"closed", "opening", "open", "needs-revert"}
ScriptLines == {"idle", "due", "reload", "strip", "fill", "replace", "mark", "unschedule", "forget"}
HostFiles == [own : {"default", "emergency"}, included : BOOLEAN,
              dropin : BOOLEAN, loaded : BOOLEAN, keys : Keys, tmp : Keys,
              cat : Handles, awk : Handles,
              script : BOOLEAN, deadline : Nat, cron : BOOLEAN, fired : BOOLEAN]
Jobs == [op : Ops, todo : {<<>>, <<"ssh">>}, stuck : SUBSET {"ssh", "keys"},
         copy : Keys, expires : Nat]

Typed ==
    /\ clock \in Nat \ {0}
    /\ edits \in 0 .. MaxEdits
    /\ host \in HostFiles
    /\ script \in ScriptLines
    /\ grant \in [state : States, expires : Nat]
    /\ pc \in Commands \union {"idle", "down"}
    /\ job \in Jobs
    /\ mishaps \subseteq Mishaps
    /\ exposed \in Exposures

Install == {"write-script", "write-deadline", "read-cron", "write-cron", "check-cron",
            "check-deadline"}
Undoes == job.op \in {"unwind", "revert"}

\* Which command belongs to which operation, and where the grant then stands.
\* A revert does the keys first, with nothing stuck yet, then the posture.
Control ==
    /\ job.op = "none" => pc \in {"idle", "down"}
    /\ pc = "idle" => grant.state # "opening"
    /\ job.op \in {"open", "unwind"} => grant.state = "opening"
    /\ job.op = "renew" => grant.state = "open" /\ pc \in Install
    /\ job.op = "revert" => grant.state = "needs-revert"
    /\ job.op = "open" => pc \in (Posture \ {"remove-dropin"}) \union Keyed \union Install
    /\ job.op = "unwind" => pc \in (Posture \ {"write-dropin"}) \union Keyed
    /\ job.op = "revert" => pc \in (Posture \ {"write-dropin"}) \union Keyed \union Removal
    /\ Undoes /\ pc \in Keyed => job.todo = <<"ssh">> /\ job.stuck = {}
    /\ Undoes /\ pc \in Posture => job.todo = <<>> /\ job.stuck \subseteq {"keys"}
    /\ job.op \in {"open", "renew"} => job.expires > 0
    /\ job.copy.fence # "torn"

KeysClean == host.keys.fence \notin {"whole", "torn"}

\* What has been undone stays undone: no script runs into an open, and no
\* rewrite of the keys puts a fence back.
CleanInv ==
    /\ grant.state = "opening" => script = "idle"
    /\ ScriptRewrites => host.tmp.fence \notin {"whole", "torn"}
    /\ grant.state = "closed" => ~Access
    /\ Opens /\ pc \in Posture => KeysClean
    /\ Undoes /\ pc \in Posture /\ job.stuck = {} => KeysClean
    /\ Undoes /\ pc = "reload" => ~host.dropin
    /\ Undoes /\ pc = "posture" => ~host.dropin /\ ~host.loaded
    /\ pc \in Removal => ~Access

\* Where the script is, what it has undone is undone, and at rest it is armed;
\* an open has the parts of the dead-man it has written.
GuardInv ==
    /\ grant.state = "open" =>
          /\ script = "idle" /\ Access => Armed
          /\ script \notin {"idle", "due"} => ~host.dropin
          /\ script \notin {"idle", "due", "reload"} => ~host.loaded
          /\ ScriptRewrites => host.tmp # Absent
          /\ script \in {"mark", "unschedule", "forget"} => KeysClean
    /\ Opens /\ pc \in Install \ {"write-script"} => host.script
    /\ Opens /\ pc = "check-deadline" => host.cron

\* A copy of the keys under way has every line that is not exposed.  Who fills
\* the temporary file has just emptied it, or has met the other there; then
\* every line is exposed.
Kept(keys) == 1 .. edits \subseteq Exposed \union Lines(keys)
AllExposed == 1 .. edits \subseteq Exposed
Fresh(handle) == handle = "tmp" /\ host.tmp = Empty
LinesInv ==
    /\ Kept(host.keys)
    /\ pc \in {"write-keys", "fill-keys"} => Kept(job.copy)
    /\ (pc = "move-keys" \/ script = "replace") /\ host.tmp # Absent => Kept(host.tmp)
    /\ pc = "fill-keys" => Fresh(host.cat) \/ AllExposed
    /\ script = "fill" => Fresh(host.awk) \/ AllExposed
    /\ DaemonRewrites /\ ScriptRewrites => AllExposed

IInv ==
    /\ Typed
    /\ Control
    /\ "overlap" \notin mishaps => CleanInv
    /\ mishaps = {} => GuardInv
    /\ LinesInv

(***************************************************************************)
(* A command that fails.                                                    *)
(***************************************************************************)
LEMMA Channels ==
    /\ <<"ssh">> # <<>> /\ Head(<<"ssh">>) = "ssh" /\ Tail(<<"ssh">>) = <<>>
    /\ <<"keys", "ssh">> # <<>> /\ Head(<<"keys", "ssh">>) = "keys"
    /\ Tail(<<"keys", "ssh">>) = <<"ssh">>
  OBVIOUS

\* What the script and the file need of a rewrite that the daemon is out of.
ScriptLinesOK ==
    /\ Kept(host.keys)
    /\ script = "replace" /\ host.tmp # Absent => Kept(host.tmp)
    /\ script = "fill" => Fresh(host.awk) \/ AllExposed

\* What a command that fails may have done: none of it is access the grant
\* does not account for.
Mild ==
    /\ UNCHANGED <<clock, script, edits>>
    /\ host' \in HostFiles /\ exposed' \in Exposures
    /\ mishaps' \subseteq Mishaps
    /\ mishaps \subseteq mishaps'
    /\ "overlap" \in mishaps' => "overlap" \in mishaps
    /\ pc \in Posture => host'.keys = host.keys
    /\ "overlap" \notin mishaps /\ ScriptRewrites => host'.tmp.fence \notin {"whole", "torn"}
    /\ mishaps' = {} /\ job.op = "renew" =>
          /\ host'.dropin = host.dropin /\ host'.loaded = host.loaded
          /\ host'.keys = host.keys /\ host'.tmp = host.tmp
          /\ Armed => Armed'
    /\ ScriptLinesOK'

Unwinds(command, todo) ==
    /\ pc' = command
    /\ job' = [job EXCEPT !.todo = todo, !.stuck = {}, !.op = "unwind"]
    /\ grant' = grant

\* By what the daemon was doing, where a failure leads.
LEMMA Failures ==
    ASSUME IInv, pc \in Commands, Fail
    PROVE  \/ Opens /\ pc \in Posture /\ Unwinds("remove-dropin", <<>>)
           \/ Opens /\ pc \notin Posture /\ Unwinds("read-keys", <<"ssh">>)
           \/ job.op = "renew" /\ Finish("open")
           \/ Undoes /\ pc \notin Keyed /\ Finish("needs-revert")
           \/ /\ Undoes /\ pc \in Keyed
              /\ pc' = "remove-dropin" /\ grant' = grant
              /\ job' = [job EXCEPT !.todo = <<>>, !.stuck = {"keys"}]
  <1> USE Channels
  <1>1. CASE Opens /\ NextRevert(IF pc \in Posture THEN <<"ssh">> ELSE <<"keys", "ssh">>, {})
    BY <1>1 DEF NextRevert, Opens, Unwinds, IInv, Typed, Jobs
  <1>2. CASE job.op = "renew" /\ Finish("open")
    BY <1>2
  <1>3. CASE /\ Undoes
             /\ IF pc \in Removal THEN Finish("needs-revert")
                ELSE NextRevert(job.todo, job.stuck \union {IF pc \in Keyed THEN "keys" ELSE "ssh"})
    <2>1. CASE pc \in Keyed
      <3>1. job.todo = <<"ssh">> /\ job.stuck = {} /\ pc \notin Removal
        BY <1>3, <2>1 DEF IInv, Control, Keyed, Removal
      <3>2. NextRevert(<<"ssh">>, {"keys"})
        BY <1>3, <2>1, <3>1
      <3> QED
        BY <1>3, <2>1, <3>2 DEF NextRevert, Undoes, IInv, Typed, Jobs
    <2>2. CASE pc \notin Keyed /\ pc \notin Removal
      <3>1. job.todo = <<>>
        BY <1>3, <2>2 DEF IInv, Control, Keyed, Removal, Undoes, Posture
      <3> QED
        BY <1>3, <2>2, <3>1 DEF NextRevert
    <2>3. CASE pc \in Removal
      BY <1>3, <2>3 DEF Removal, Keyed
    <2> QED
      BY <2>1, <2>2, <2>3
  <1> QED
    BY <1>1, <1>2, <1>3 DEF Fail, Undoes

LEMMA FailKeeps ==
    ASSUME IInv, pc \in Commands, Fail, Mild
    PROVE  IInv'
  <1>0. IInv /\ Mild /\ pc \in Commands
    OBVIOUS
  <1>1. CASE Opens /\ pc \in Posture /\ Unwinds("remove-dropin", <<>>)
    <2>1. Typed' /\ Control'
      BY <1>0, <1>1 DEF IInv, Typed, Control, Mild, Unwinds, Opens, Undoes, Jobs, Ops, Commands,
                        Posture, Keyed, Removal, Install
    <2>2. "overlap" \notin mishaps' => CleanInv'
      BY <1>0, <1>1 DEF IInv, Typed, Control, CleanInv, ScriptRewrites, Mild, Unwinds, Opens, Undoes, Jobs,
                        Posture, Keyed, Removal, Install, KeysClean
    <2>3. mishaps' = {} => GuardInv'
      BY <1>0, <1>1 DEF IInv, Typed, Control, GuardInv, Mild, Unwinds, Opens, Jobs
    <2>4. LinesInv'
      BY <1>0, <1>1 DEF IInv, Mild, Unwinds, LinesInv, ScriptLinesOK, DaemonRewrites
    <2> QED
      BY <2>1, <2>2, <2>3, <2>4 DEF IInv
  <1>2. CASE Opens /\ pc \notin Posture /\ Unwinds("read-keys", <<"ssh">>)
    <2>1. Typed' /\ Control'
      BY <1>0, <1>2 DEF IInv, Typed, Control, Mild, Unwinds, Opens, Undoes, Jobs, Ops, Commands,
                        Posture, Keyed, Removal, Install
    <2>2. "overlap" \notin mishaps' => CleanInv'
      BY <1>0, <1>2 DEF IInv, Typed, Control, CleanInv, ScriptRewrites, Mild, Unwinds, Opens, Undoes, Jobs,
                        Posture, Keyed, Removal, Install, KeysClean
    <2>3. mishaps' = {} => GuardInv'
      BY <1>0, <1>2 DEF IInv, Typed, Control, GuardInv, Mild, Unwinds, Opens, Jobs
    <2>4. LinesInv'
      BY <1>0, <1>2 DEF IInv, Mild, Unwinds, LinesInv, ScriptLinesOK, DaemonRewrites
    <2> QED
      BY <2>1, <2>2, <2>3, <2>4 DEF IInv
  <1>3. CASE job.op = "renew" /\ Finish("open")
    <2>1. Typed' /\ Control'
      BY <1>0, <1>3 DEF IInv, Typed, Control, Mild, Finish, NoJob, Absent, Undoes, Jobs, Keys,
                        States, Ops, Commands, Posture, Keyed, Removal, Install
    <2>2. "overlap" \notin mishaps' => CleanInv'
      BY <1>0, <1>3 DEF IInv, Typed, Control, CleanInv, ScriptRewrites, Mild, Finish, NoJob, Opens, Undoes,
                        Posture, Removal
    <2>3. mishaps' = {} => GuardInv'
      BY <1>0, <1>3 DEF IInv, Typed, Control, GuardInv, Mild, Finish, NoJob, Opens, KeysClean, ScriptRewrites,
                        Access, Install
    <2>4. LinesInv'
      BY <1>0, <1>3 DEF IInv, Mild, Finish, LinesInv, ScriptLinesOK, DaemonRewrites
    <2> QED
      BY <2>1, <2>2, <2>3, <2>4 DEF IInv
  <1>4. CASE Undoes /\ Finish("needs-revert")
    <2>1. Typed' /\ Control'
      BY <1>0, <1>4 DEF IInv, Typed, Control, Mild, Finish, NoJob, Absent, Undoes, Jobs, Keys,
                        States, Ops, Commands, Posture, Keyed, Removal, Install
    <2>2. "overlap" \notin mishaps' => CleanInv'
      BY <1>0, <1>4 DEF IInv, Typed, Control, CleanInv, ScriptRewrites, Mild, Finish, NoJob, Opens, Undoes,
                        Posture, Removal
    <2>3. mishaps' = {} => GuardInv'
      BY <1>0, <1>4 DEF IInv, Typed, Control, GuardInv, Mild, Finish, NoJob, Opens
    <2>4. LinesInv'
      BY <1>0, <1>4 DEF IInv, Mild, Finish, LinesInv, ScriptLinesOK, DaemonRewrites
    <2> QED
      BY <2>1, <2>2, <2>3, <2>4 DEF IInv
  <1>5. CASE /\ Undoes /\ pc \in Keyed
             /\ pc' = "remove-dropin" /\ grant' = grant
             /\ job' = [job EXCEPT !.todo = <<>>, !.stuck = {"keys"}]
    <2>1. Typed' /\ Control'
      BY <1>0, <1>5 DEF IInv, Typed, Control, Mild, Undoes, Jobs, Commands,
                        Posture, Keyed, Removal, Install
    <2>2. "overlap" \notin mishaps' => CleanInv'
      BY <1>0, <1>5 DEF IInv, Typed, Control, CleanInv, ScriptRewrites, Mild, Opens, Undoes, Jobs,
                        Posture, Keyed, Removal, Install, KeysClean
    <2>3. mishaps' = {} => GuardInv'
      BY <1>0, <1>5 DEF IInv, Typed, Control, GuardInv, Mild, Undoes, Opens, Jobs
    <2>4. LinesInv'
      BY <1>0, <1>5 DEF IInv, Mild, LinesInv, ScriptLinesOK, DaemonRewrites
    <2> QED
      BY <2>1, <2>2, <2>3, <2>4 DEF IInv
  <1> QED
    BY <1>1, <1>2, <1>3, <1>4, <1>5, Failures

(***************************************************************************)
(* The commands that leave authorized_keys and its temporary file alone.    *)
(***************************************************************************)
Settings == <<host.keys, host.tmp, host.cat, host.awk, clock, script, mishaps, edits, exposed>>
Rewrite == {"write-keys", "fill-keys", "move-keys"}

LEMMA QuietCommand ==
    ASSUME IInv, pc \in Commands, host' \in HostFiles, UNCHANGED Settings,
           pc \in Install => /\ host'.dropin = host.dropin /\ host'.loaded = host.loaded
                             /\ Armed => Armed'
    PROVE  /\ Mild
           /\ pc' \notin Rewrite => LinesInv'
  <1>1. ScriptLinesOK /\ UNCHANGED <<host.keys, host.tmp, host.awk, script, edits, exposed>>
    BY DEF Settings, IInv, LinesInv, ScriptLinesOK
  <1>2. ScriptLinesOK'
    BY <1>1 DEF ScriptLinesOK, Kept, Exposed, AllExposed, Fresh
  <1>3. Mild
    BY <1>2 DEF IInv, Typed, Control, CleanInv, Mild, Settings, ScriptRewrites
  <1>4. pc' \notin Rewrite => LinesInv'
    BY <1>2 DEF LinesInv, ScriptLinesOK, Rewrite, DaemonRewrites
  <1> QED
    BY <1>3, <1>4

\* The sets of commands and of operations, expanded from here on.
USE DEF Ops, Commands, Posture, Keyed, Removal, Install, Opens, Undoes, KeysClean,
        ScriptRewrites, DaemonRewrites, Rewrite

LEMMA WriteDropinKeeps ==
    ASSUME IInv, WriteDropin
    PROVE  IInv'
  <1> DEFINE after == [host EXCEPT !.dropin = TRUE]
  <1>0. /\ pc = "write-dropin" /\ after \in HostFiles /\ host \in HostFiles
        /\ after.keys = host.keys /\ after.tmp = host.tmp
        /\ after.cat = host.cat /\ after.awk = host.awk
        /\ Opens
    BY SshHostAssumption DEF WriteDropin, IInv, Typed, Control, Jobs, HostFiles
  <1>1. CASE host' \in {host, after} /\ Fail /\ UNCHANGED <<clock, script, mishaps, edits, exposed>>
    <2>1. Mild
      BY <1>0, <1>1, QuietCommand DEF Settings, HostFiles, Armed
    <2> QED
      BY <1>0, <1>1, <2>1, FailKeeps
  <1>2. CASE /\ host' = after /\ Send("reload")
             /\ UNCHANGED <<clock, script, mishaps, edits, exposed>>
    <2>0. pc' \notin Rewrite
      BY <1>2 DEF Send, Finish, Installed
    <2>1. LinesInv'
      BY <1>0, <1>2, <2>0, QuietCommand DEF Settings, HostFiles, Armed
    <2>2. Typed' /\ Control'
      BY <1>0, <1>2 DEF IInv, Typed, Control, Jobs, Send
    <2>3. "overlap" \notin mishaps' => CleanInv'
      BY <1>0, <1>2 DEF IInv, Typed, HostFiles, Jobs, Control, CleanInv, Send, Access
    <2>4. mishaps' = {} => GuardInv'
      BY <1>0, <1>2 DEF IInv, Typed, HostFiles, Jobs, Control, GuardInv, Send, Access, Armed, CleanInv
    <2> QED
      BY <2>1, <2>2, <2>3, <2>4 DEF IInv
  <1> QED
    BY <1>1, <1>2 DEF WriteDropin, Remote

LEMMA RemoveDropinKeeps ==
    ASSUME IInv, RemoveDropin
    PROVE  IInv'
  <1> DEFINE after == [host EXCEPT !.dropin = FALSE]
  <1>0. /\ pc = "remove-dropin" /\ after \in HostFiles /\ host \in HostFiles
        /\ after.keys = host.keys /\ after.tmp = host.tmp
        /\ after.cat = host.cat /\ after.awk = host.awk
        /\ Undoes
    BY SshHostAssumption DEF RemoveDropin, IInv, Typed, Control, Jobs, HostFiles
  <1>1. CASE host' \in {host, after} /\ Fail /\ UNCHANGED <<clock, script, mishaps, edits, exposed>>
    <2>1. Mild
      BY <1>0, <1>1, QuietCommand DEF Settings, HostFiles, Armed
    <2> QED
      BY <1>0, <1>1, <2>1, FailKeeps
  <1>2. CASE /\ host' = after /\ Send("reload")
             /\ UNCHANGED <<clock, script, mishaps, edits, exposed>>
    <2>0. pc' \notin Rewrite
      BY <1>2 DEF Send, Finish, Installed
    <2>1. LinesInv'
      BY <1>0, <1>2, <2>0, QuietCommand DEF Settings, HostFiles, Armed
    <2>2. Typed' /\ Control'
      BY <1>0, <1>2 DEF IInv, Typed, Control, Jobs, Send
    <2>3. "overlap" \notin mishaps' => CleanInv'
      BY <1>0, <1>2 DEF IInv, Typed, HostFiles, Jobs, Control, CleanInv, Send, Access
    <2>4. mishaps' = {} => GuardInv'
      BY <1>0, <1>2 DEF IInv, Typed, HostFiles, Jobs, Control, GuardInv, Send, Access, Armed, CleanInv
    <2> QED
      BY <2>1, <2>2, <2>3, <2>4 DEF IInv
  <1> QED
    BY <1>1, <1>2 DEF RemoveDropin, Remote

LEMMA ReloadSshdKeeps ==
    ASSUME IInv, ReloadSshd
    PROVE  IInv'
  <1> DEFINE after == [host EXCEPT !.loaded = host.dropin /\ host.included]
  <1>0. /\ pc = "reload" /\ after \in HostFiles /\ host \in HostFiles
        /\ after.keys = host.keys /\ after.tmp = host.tmp
        /\ after.cat = host.cat /\ after.awk = host.awk
        /\ Opens \/ Undoes
    BY SshHostAssumption DEF ReloadSshd, IInv, Typed, Control, Jobs, HostFiles
  <1>1. CASE host' \in {host, after} /\ Fail /\ UNCHANGED <<clock, script, mishaps, edits, exposed>>
    <2>1. Mild
      BY <1>0, <1>1, QuietCommand DEF Settings, HostFiles, Armed
    <2> QED
      BY <1>0, <1>1, <2>1, FailKeeps
  <1>2. CASE /\ host' = after /\ Send("posture")
             /\ UNCHANGED <<clock, script, mishaps, edits, exposed>>
    <2>0. pc' \notin Rewrite
      BY <1>2 DEF Send, Finish, Installed
    <2>1. LinesInv'
      BY <1>0, <1>2, <2>0, QuietCommand DEF Settings, HostFiles, Armed
    <2>2. Typed' /\ Control'
      BY <1>0, <1>2 DEF IInv, Typed, Control, Jobs, Send
    <2>3. "overlap" \notin mishaps' => CleanInv'
      BY <1>0, <1>2 DEF IInv, Typed, HostFiles, Jobs, Control, CleanInv, Send, Access
    <2>4. mishaps' = {} => GuardInv'
      BY <1>0, <1>2 DEF IInv, Typed, HostFiles, Jobs, Control, GuardInv, Send, Access, Armed, CleanInv
    <2> QED
      BY <2>1, <2>2, <2>3, <2>4 DEF IInv
  <1> QED
    BY <1>1, <1>2 DEF ReloadSshd, Remote

LEMMA WriteScriptKeeps ==
    ASSUME IInv, WriteScript
    PROVE  IInv'
  <1> DEFINE after == [host EXCEPT !.script = TRUE]
  <1>0. /\ pc = "write-script" /\ after \in HostFiles /\ host \in HostFiles
        /\ after.keys = host.keys /\ after.tmp = host.tmp
        /\ after.cat = host.cat /\ after.awk = host.awk
        /\ job.op \in {"open", "renew"}
    BY SshHostAssumption DEF WriteScript, IInv, Typed, Control, Jobs, HostFiles
  <1>1. CASE host' \in {host, after} /\ Fail /\ UNCHANGED <<clock, script, mishaps, edits, exposed>>
    <2>1. Mild
      BY <1>0, <1>1, QuietCommand DEF Settings, HostFiles, Armed
    <2> QED
      BY <1>0, <1>1, <2>1, FailKeeps
  <1>2. CASE /\ host' = after /\ Send("write-deadline")
             /\ UNCHANGED <<clock, script, mishaps, edits, exposed>>
    <2>0. pc' \notin Rewrite
      BY <1>2 DEF Send, Finish, Installed
    <2>1. LinesInv'
      BY <1>0, <1>2, <2>0, QuietCommand DEF Settings, HostFiles, Armed
    <2>2. Typed' /\ Control'
      BY <1>0, <1>2 DEF IInv, Typed, Control, Jobs, Send
    <2>3. "overlap" \notin mishaps' => CleanInv'
      BY <1>0, <1>2 DEF IInv, Typed, HostFiles, Jobs, Control, CleanInv, Send, Access
    <2>4. mishaps' = {} => GuardInv'
      BY <1>0, <1>2 DEF IInv, Typed, HostFiles, Jobs, Control, GuardInv, Send, Access, Armed, CleanInv
    <2> QED
      BY <2>1, <2>2, <2>3, <2>4 DEF IInv
  <1> QED
    BY <1>1, <1>2 DEF WriteScript, Remote

LEMMA WriteDeadlineKeeps ==
    ASSUME IInv, WriteDeadline
    PROVE  IInv'
  <1> DEFINE after == [host EXCEPT !.deadline = job.expires]
  <1>0. /\ pc = "write-deadline" /\ after \in HostFiles /\ host \in HostFiles
        /\ after.keys = host.keys /\ after.tmp = host.tmp
        /\ after.cat = host.cat /\ after.awk = host.awk
        /\ job.op \in {"open", "renew"} /\ job.expires \in Nat \ {0}
    <2>1. pc = "write-deadline" /\ job.op \in {"open", "renew"} /\ job.expires \in Nat \ {0}
      BY DEF WriteDeadline, IInv, Typed, Control, Jobs
    <2>2. host \in HostFiles
      BY DEF IInv, Typed
    <2> QED
      BY <2>1, <2>2 DEF HostFiles
  <1>1. CASE host' \in {host, after} /\ Fail /\ UNCHANGED <<clock, script, mishaps, edits, exposed>>
    <2>1. Mild
      BY <1>0, <1>1, QuietCommand DEF Settings, HostFiles, Armed, NoDeadline
    <2> QED
      BY <1>0, <1>1, <2>1, FailKeeps
  <1>2. CASE /\ host' = after /\ Send("read-cron")
             /\ UNCHANGED <<clock, script, mishaps, edits, exposed>>
    <2>0. pc' \notin Rewrite
      BY <1>2 DEF Send, Finish, Installed
    <2>1. LinesInv'
      BY <1>0, <1>2, <2>0, QuietCommand DEF Settings, HostFiles, Armed, NoDeadline
    <2>2. Typed' /\ Control'
      BY <1>0, <1>2 DEF IInv, Typed, Control, Jobs, Send, NoDeadline
    <2>3. "overlap" \notin mishaps' => CleanInv'
      BY <1>0, <1>2 DEF IInv, Typed, HostFiles, Jobs, Control, CleanInv, Send, Access, NoDeadline
    <2>4. mishaps' = {} => GuardInv'
      BY <1>0, <1>2 DEF IInv, Typed, HostFiles, Jobs, Control, GuardInv, Send, Access, Armed, CleanInv, NoDeadline
    <2> QED
      BY <2>1, <2>2, <2>3, <2>4 DEF IInv
  <1> QED
    BY <1>1, <1>2 DEF WriteDeadline, Remote

LEMMA WriteCronKeeps ==
    ASSUME IInv, WriteCron
    PROVE  IInv'
  <1> DEFINE after == [host EXCEPT !.cron = TRUE]
  <1>0. /\ pc = "write-cron" /\ after \in HostFiles /\ host \in HostFiles
        /\ after.keys = host.keys /\ after.tmp = host.tmp
        /\ after.cat = host.cat /\ after.awk = host.awk
        /\ job.op \in {"open", "renew"}
    BY SshHostAssumption DEF WriteCron, IInv, Typed, Control, Jobs, HostFiles
  <1>1. CASE host' \in {host, after} /\ Fail /\ UNCHANGED <<clock, script, mishaps, edits, exposed>>
    <2>1. Mild
      BY <1>0, <1>1, QuietCommand DEF Settings, HostFiles, Armed
    <2> QED
      BY <1>0, <1>1, <2>1, FailKeeps
  <1>2. CASE /\ host' = after /\ Send("check-cron")
             /\ UNCHANGED <<clock, script, mishaps, edits, exposed>>
    <2>0. pc' \notin Rewrite
      BY <1>2 DEF Send, Finish, Installed
    <2>1. LinesInv'
      BY <1>0, <1>2, <2>0, QuietCommand DEF Settings, HostFiles, Armed
    <2>2. Typed' /\ Control'
      BY <1>0, <1>2 DEF IInv, Typed, Control, Jobs, Send
    <2>3. "overlap" \notin mishaps' => CleanInv'
      BY <1>0, <1>2 DEF IInv, Typed, HostFiles, Jobs, Control, CleanInv, Send, Access
    <2>4. mishaps' = {} => GuardInv'
      BY <1>0, <1>2 DEF IInv, Typed, HostFiles, Jobs, Control, GuardInv, Send, Access, Armed, CleanInv
    <2> QED
      BY <2>1, <2>2, <2>3, <2>4 DEF IInv
  <1> QED
    BY <1>1, <1>2 DEF WriteCron, Remote

LEMMA ClearCronKeeps ==
    ASSUME IInv, ClearCron
    PROVE  IInv'
  <1> DEFINE after == [host EXCEPT !.cron = FALSE]
  <1>0. /\ pc = "clear-cron" /\ after \in HostFiles /\ host \in HostFiles
        /\ after.keys = host.keys /\ after.tmp = host.tmp
        /\ after.cat = host.cat /\ after.awk = host.awk
        /\ job.op = "revert"
    BY SshHostAssumption DEF ClearCron, IInv, Typed, Control, Jobs, HostFiles
  <1>1. CASE host' \in {host, after} /\ Fail /\ UNCHANGED <<clock, script, mishaps, edits, exposed>>
    <2>1. Mild
      BY <1>0, <1>1, QuietCommand DEF Settings, HostFiles, Armed
    <2> QED
      BY <1>0, <1>1, <2>1, FailKeeps
  <1>2. CASE /\ host' = after /\ Send("remove-files")
             /\ UNCHANGED <<clock, script, mishaps, edits, exposed>>
    <2>0. pc' \notin Rewrite
      BY <1>2 DEF Send, Finish, Installed
    <2>1. LinesInv'
      BY <1>0, <1>2, <2>0, QuietCommand DEF Settings, HostFiles, Armed
    <2>2. Typed' /\ Control'
      BY <1>0, <1>2 DEF IInv, Typed, Control, Jobs, Send
    <2>3. "overlap" \notin mishaps' => CleanInv'
      BY <1>0, <1>2 DEF IInv, Typed, HostFiles, Jobs, Control, CleanInv, Send, Access
    <2>4. mishaps' = {} => GuardInv'
      BY <1>0, <1>2 DEF IInv, Typed, HostFiles, Jobs, Control, GuardInv, Send, Access, Armed, CleanInv
    <2> QED
      BY <2>1, <2>2, <2>3, <2>4 DEF IInv
  <1> QED
    BY <1>1, <1>2 DEF ClearCron, Remote

LEMMA RemoveFilesKeeps ==
    ASSUME IInv, RemoveFiles
    PROVE  IInv'
  <1> USE DEF NoDeadline
  <1> DEFINE after == [host EXCEPT !.fired = FALSE, !.script = FALSE, !.deadline = NoDeadline]
  <1>0. /\ pc = "remove-files" /\ after \in HostFiles /\ host \in HostFiles
        /\ after.keys = host.keys /\ after.tmp = host.tmp
        /\ after.cat = host.cat /\ after.awk = host.awk
        /\ job.op = "revert"
    BY SshHostAssumption DEF RemoveFiles, IInv, Typed, Control, Jobs, HostFiles
  <1>1. CASE host' \in {host, after} /\ Fail /\ UNCHANGED <<clock, script, mishaps, edits, exposed>>
    <2>1. Mild
      BY <1>0, <1>1, QuietCommand DEF Settings, HostFiles, Armed
    <2> QED
      BY <1>0, <1>1, <2>1, FailKeeps
  <1>2. CASE /\ host' = after /\ Finish("closed")
             /\ UNCHANGED <<clock, script, mishaps, edits, exposed>>
    <2>0. pc' \notin Rewrite
      BY <1>2 DEF Send, Finish, Installed
    <2>1. LinesInv'
      BY <1>0, <1>2, <2>0, QuietCommand DEF Settings, HostFiles, Armed
    <2>2. Typed' /\ Control'
      BY <1>0, <1>2 DEF IInv, Typed, Control, Jobs, Send, Finish, NoJob, NoDeadline, Keys, Absent, States
    <2>3. "overlap" \notin mishaps' => CleanInv'
      BY <1>0, <1>2 DEF IInv, Typed, HostFiles, Jobs, Control, CleanInv, Send, Access, Finish, NoJob, NoDeadline, Keys, Absent, States
    <2>4. mishaps' = {} => GuardInv'
      BY <1>0, <1>2 DEF IInv, Typed, HostFiles, Jobs, Control, GuardInv, Send, Access, Armed, CleanInv, Finish, NoJob, NoDeadline, Keys, Absent, States
    <2> QED
      BY <2>1, <2>2, <2>3, <2>4 DEF IInv
  <1> QED
    BY <1>1, <1>2 DEF RemoveFiles, Remote

(***************************************************************************)
(* The commands that only read.                                             *)
(***************************************************************************)
LEMMA ReadOnly ==
    ASSUME IInv, pc \in Commands, UNCHANGED <<host, clock, script, mishaps, edits, exposed>>
    PROVE  /\ Mild
           /\ Fail => IInv'
           /\ pc' \notin Rewrite => LinesInv'
  <1>1. host' \in HostFiles /\ UNCHANGED Settings /\ (Armed => Armed')
    BY DEF IInv, Typed, Settings, Armed
  <1>2. Mild /\ (pc' \notin Rewrite => LinesInv')
    BY <1>1, QuietCommand
  <1> QED
    BY <1>2, FailKeeps

LEMMA ReadCronKeeps ==
    ASSUME IInv, ReadCron
    PROVE  IInv'
  <1>0. /\ pc = "read-cron" /\ UNCHANGED <<host, clock, script, mishaps, edits, exposed>>
        /\ job.op \in {"open", "renew"}
    BY DEF ReadCron, Remote, IInv, Typed, Control, Jobs
  <1>1. CASE Fail
    BY <1>0, <1>1, ReadOnly
  <1>2. CASE Send(IF host.cron THEN "check-cron" ELSE "write-cron")
    <2>1. LinesInv'
      BY <1>0, <1>2, ReadOnly DEF Send, Installed
    <2>2. Typed' /\ Control'
      BY <1>0, <1>2 DEF IInv, Typed, Control, Jobs, Send
    <2>3. "overlap" \notin mishaps' => CleanInv'
      BY <1>0, <1>2 DEF IInv, Typed, Jobs, Control, CleanInv, Send, Access
    <2>4. mishaps' = {} => GuardInv'
      BY <1>0, <1>2 DEF IInv, Typed, Jobs, Control, GuardInv, Send, Access, Armed, CleanInv
    <2> QED
      BY <2>1, <2>2, <2>3, <2>4 DEF IInv
  <1> QED
    BY <1>1, <1>2 DEF ReadCron, Remote

LEMMA CheckCronKeeps ==
    ASSUME IInv, CheckCron
    PROVE  IInv'
  <1>0. /\ pc = "check-cron" /\ UNCHANGED <<host, clock, script, mishaps, edits, exposed>>
        /\ job.op \in {"open", "renew"}
    BY DEF CheckCron, Remote, IInv, Typed, Control, Jobs
  <1>1. CASE Fail
    BY <1>0, <1>1, ReadOnly
  <1>2. CASE host.cron /\ Send("check-deadline")
    <2>1. LinesInv'
      BY <1>0, <1>2, ReadOnly DEF Send, Installed
    <2>2. Typed' /\ Control'
      BY <1>0, <1>2 DEF IInv, Typed, Control, Jobs, Send
    <2>3. "overlap" \notin mishaps' => CleanInv'
      BY <1>0, <1>2 DEF IInv, Typed, Jobs, Control, CleanInv, Send, Access
    <2>4. mishaps' = {} => GuardInv'
      BY <1>0, <1>2 DEF IInv, Typed, Jobs, Control, GuardInv, Send, Access, Armed, CleanInv
    <2> QED
      BY <2>1, <2>2, <2>3, <2>4 DEF IInv
  <1> QED
    BY <1>1, <1>2 DEF CheckCron, Remote

LEMMA CheckDeadlineKeeps ==
    ASSUME IInv, CheckDeadline
    PROVE  IInv'
  <1>0. /\ pc = "check-deadline" /\ UNCHANGED <<host, clock, script, mishaps, edits, exposed>>
        /\ job.op \in {"open", "renew"} /\ job.expires \in Nat \ {0}
    BY DEF CheckDeadline, Remote, IInv, Typed, Control, Jobs
  <1>1. CASE Fail
    BY <1>0, <1>1, ReadOnly
  <1>2. CASE host.deadline = job.expires /\ Installed
    <2>1. LinesInv'
      BY <1>0, <1>2, ReadOnly DEF Send, Installed
    <2>2. Typed' /\ Control'
      BY <1>0, <1>2 DEF IInv, Typed, Control, Jobs, Send, Installed, NoJob, Absent, Keys, States, NoDeadline
    <2>3. "overlap" \notin mishaps' => CleanInv'
      BY <1>0, <1>2 DEF IInv, Typed, Jobs, Control, CleanInv, Send, Access, Installed, NoJob, Absent, Keys, States, NoDeadline
    <2>4. mishaps' = {} => GuardInv'
      BY <1>0, <1>2 DEF IInv, Typed, Jobs, Control, GuardInv, Send, Access, Armed, CleanInv, Installed, NoJob, Absent, Keys, States, NoDeadline
    <2> QED
      BY <2>1, <2>2, <2>3, <2>4 DEF IInv
  <1> QED
    BY <1>1, <1>2 DEF CheckDeadline, Remote

LEMMA ListCronKeeps ==
    ASSUME IInv, ListCron
    PROVE  IInv'
  <1>0. /\ pc = "list-cron" /\ UNCHANGED <<host, clock, script, mishaps, edits, exposed>>
        /\ job.op = "revert"
    BY DEF ListCron, Remote, IInv, Typed, Control, Jobs
  <1>1. CASE Fail
    BY <1>0, <1>1, ReadOnly
  <1>2. CASE Send(IF host.cron THEN "clear-cron" ELSE "remove-files")
    <2>1. LinesInv'
      BY <1>0, <1>2, ReadOnly DEF Send, Installed
    <2>2. Typed' /\ Control'
      BY <1>0, <1>2 DEF IInv, Typed, Control, Jobs, Send
    <2>3. "overlap" \notin mishaps' => CleanInv'
      BY <1>0, <1>2 DEF IInv, Typed, Jobs, Control, CleanInv, Send, Access
    <2>4. mishaps' = {} => GuardInv'
      BY <1>0, <1>2 DEF IInv, Typed, Jobs, Control, GuardInv, Send, Access, Armed, CleanInv
    <2> QED
      BY <2>1, <2>2, <2>3, <2>4 DEF IInv
  <1> QED
    BY <1>1, <1>2 DEF ListCron, Remote

\* A revert has done with a channel: the next one, or the dead-man, or the end.
LEMMA RevertGoesOn ==
    ASSUME IInv, Undoes, pc \in {"posture", "check-keys"}, NextRevert(job.todo, job.stuck),
           UNCHANGED <<host, clock, script, mishaps, edits, exposed>>,
           pc = "check-keys" => KeysClean
    PROVE  IInv'
  <1>0. pc \in Commands /\ UNCHANGED <<host, clock, script, mishaps, edits, exposed>>
    OBVIOUS
  <1>1. \/ /\ pc = "check-keys" /\ pc' = "remove-dropin" /\ grant' = grant
           /\ job' = [job EXCEPT !.todo = <<>>, !.stuck = {}]
        \/ /\ pc = "posture" /\ job.stuck # {} /\ Finish("needs-revert")
        \/ /\ pc = "posture" /\ job.stuck = {} /\ job.op = "revert"
           /\ pc' = "list-cron" /\ job' = [job EXCEPT !.stuck = {}] /\ grant' = grant
        \/ /\ pc = "posture" /\ job.stuck = {} /\ job.op = "unwind" /\ Finish("closed")
    <2>1. CASE pc = "check-keys"
      <3>1. NextRevert(<<"ssh">>, {})
        BY <2>1 DEF IInv, Control
      <3>2. job.op \in {"unwind", "revert"} /\ job \in Jobs
        BY DEF IInv, Typed
      <3> QED
        BY <2>1, <3>1, <3>2, Channels DEF NextRevert, Jobs
    <2>2. CASE pc = "posture"
      <3>1. job.todo = <<>>
        BY <2>2 DEF IInv, Control
      <3> QED
        BY <2>2, <3>1 DEF NextRevert
    <2> QED
      BY <2>1, <2>2
  <1>2. LinesInv'
    <2>1. pc' \notin Rewrite
      BY <1>1 DEF Finish
    <2> QED
      BY <1>0, <2>1, ReadOnly
  <1>3. Typed' /\ Control'
    <2>1. CASE pc = "check-keys"
      <3>1. /\ pc' = "remove-dropin" /\ grant' = grant
            /\ job' = [job EXCEPT !.todo = <<>>, !.stuck = {}]
        BY <1>1, <2>1 DEF Finish
      <3> QED
        BY <1>0, <2>1, <3>1 DEF IInv, Typed, Control, Jobs
    <2>2. CASE pc = "posture" /\ \E state \in {"needs-revert", "closed"} : Finish(state)
      BY <1>0, <2>2 DEF IInv, Typed, Control, Jobs, Finish, NoJob, Absent, Keys, States
    <2>3. CASE /\ pc = "posture" /\ job.stuck = {} /\ job.op = "revert"
               /\ pc' = "list-cron" /\ job' = [job EXCEPT !.stuck = {}] /\ grant' = grant
      BY <1>0, <2>3 DEF IInv, Typed, Control, Jobs
    <2> QED
      BY <1>1, <2>1, <2>2, <2>3
  <1>4. "overlap" \notin mishaps' => CleanInv'
    BY <1>0, <1>1 DEF IInv, Typed, Jobs, Control, CleanInv, Finish, NoJob, Access
  <1>5. mishaps' = {} => GuardInv'
    BY <1>0, <1>1 DEF IInv, Typed, Jobs, Control, GuardInv, Finish, NoJob, Access, Armed, CleanInv
  <1> QED
    BY <1>2, <1>3, <1>4, <1>5 DEF IInv

LEMMA CheckPostureKeeps ==
    ASSUME IInv, CheckPosture
    PROVE  IInv'
  <1>0. /\ pc = "posture" /\ UNCHANGED <<host, clock, script, mishaps, edits, exposed>>
        /\ Opens \/ Undoes
    BY DEF CheckPosture, Remote, IInv, Typed, Control, Jobs
  <1>1. CASE Fail
    BY <1>0, <1>1, ReadOnly
  <1>2. CASE Opens /\ Send("read-keys")
    <2>1. LinesInv'
      BY <1>0, <1>2, ReadOnly DEF Send
    <2>2. Typed' /\ Control'
      BY <1>0, <1>2 DEF IInv, Typed, Control, Jobs, Send
    <2>3. "overlap" \notin mishaps' => CleanInv'
      BY <1>0, <1>2 DEF IInv, Typed, Jobs, Control, CleanInv, Send, Access
    <2>4. mishaps' = {} => GuardInv'
      BY <1>0, <1>2 DEF IInv, Typed, Jobs, Control, GuardInv, Send, Access, Armed
    <2> QED
      BY <2>1, <2>2, <2>3, <2>4 DEF IInv
  <1>3. CASE ~Opens /\ NextRevert(job.todo, job.stuck)
    <2>1. Undoes
      BY <1>0, <1>3
    <2> QED
      BY <1>0, <1>3, <2>1, RevertGoesOn
  <1> QED
    BY <1>1, <1>2, <1>3 DEF CheckPosture, Remote

LEMMA CheckKeysKeeps ==
    ASSUME IInv, CheckKeys
    PROVE  IInv'
  <1>0. /\ pc = "check-keys" /\ UNCHANGED <<host, clock, script, mishaps, edits, exposed>>
        /\ Opens \/ Undoes
    BY DEF CheckKeys, Remote, IInv, Typed, Control, Jobs
  <1>1. CASE Fail
    BY <1>0, <1>1, ReadOnly
  <1>2. CASE Opens /\ Send("write-script")
    <2>1. LinesInv'
      BY <1>0, <1>2, ReadOnly DEF Send
    <2>2. Typed' /\ Control'
      BY <1>0, <1>2 DEF IInv, Typed, Control, Jobs, Send
    <2>3. "overlap" \notin mishaps' => CleanInv'
      BY <1>0, <1>2 DEF IInv, Typed, Jobs, Control, CleanInv, Send, Access
    <2>4. mishaps' = {} => GuardInv'
      BY <1>0, <1>2 DEF IInv, Typed, Jobs, Control, GuardInv, Send, Access, Armed
    <2> QED
      BY <2>1, <2>2, <2>3, <2>4 DEF IInv
  <1>3. CASE ~Opens /\ KeysLanded /\ NextRevert(job.todo, job.stuck)
    <2>1. Undoes /\ KeysClean
      BY <1>0, <1>3 DEF KeysLanded
    <2> QED
      BY <1>0, <1>3, <2>1, RevertGoesOn
  <1> QED
    BY <1>1, <1>2, <1>3 DEF CheckKeys, Remote

LEMMA ReadKeysKeeps ==
    ASSUME IInv, ReadKeys
    PROVE  IInv'
  <1>0. /\ pc = "read-keys" /\ UNCHANGED <<host, clock, script, mishaps, edits, exposed>>
        /\ Opens \/ Undoes
    BY DEF ReadKeys, Remote, IInv, Typed, Control, Jobs
  <1>1. CASE Fail
    BY <1>0, <1>1, ReadOnly
  <1>2. CASE /\ host.keys.fence # "torn"
             /\ job' = [job EXCEPT !.copy = host.keys]
             /\ pc' \in {"write-keys", "check-keys"}
             /\ UNCHANGED grant
    <2>1. LinesInv'
      BY <1>0, <1>2 DEF IInv, Typed, Jobs, LinesInv, Kept, Exposed, AllExposed, Fresh
    <2>2. Typed' /\ Control'
      BY <1>0, <1>2 DEF IInv, Typed, Control, Jobs, HostFiles
    <2>3. "overlap" \notin mishaps' => CleanInv'
      BY <1>0, <1>2 DEF IInv, Typed, Jobs, Control, CleanInv, Access
    <2>4. mishaps' = {} => GuardInv'
      BY <1>0, <1>2 DEF IInv, Typed, Jobs, Control, GuardInv, Access, Armed
    <2> QED
      BY <2>1, <2>2, <2>3, <2>4 DEF IInv
  <1> QED
    BY <1>1, <1>2 DEF ReadKeys, Remote

(***************************************************************************)
(* The rewrite of authorized_keys, and a write that is cut short.           *)
(***************************************************************************)
LEMMA WantedKeys ==
    ASSUME IInv, pc \in Rewrite
    PROVE  /\ Wanted \in Keys /\ Lines(Wanted) = Lines(job.copy)
           /\ Opens \/ Undoes
           /\ Undoes => Wanted.fence \notin {"whole", "torn"}
           /\ "overlap" \notin mishaps /\ ScriptRewrites => Undoes
  <1>1. job.copy \in Keys /\ job.copy.fence # "torn" /\ (Opens \/ Undoes)
    BY DEF IInv, Typed, Jobs, Control
  <1>2. Wanted \in Keys /\ Lines(Wanted) = Lines(job.copy)
    BY <1>1 DEF Wanted, fence_upsert, fence_remove, Keys, Lines, Empty
  <1>3. Undoes => Wanted.fence \notin {"whole", "torn"}
    BY <1>1 DEF Wanted, fence_upsert, fence_remove, Keys, Empty
  <1>4. "overlap" \notin mishaps /\ ScriptRewrites => Undoes
    BY <1>1 DEF IInv, Control, CleanInv
  <1> QED
    BY <1>1, <1>2, <1>3, <1>4

Others(g, h) ==
    /\ g.dropin = h.dropin /\ g.loaded = h.loaded
    /\ g.script = h.script /\ g.cron = h.cron /\ g.deadline = h.deadline

\* What is written goes to the file the writer holds open, if it has a name; a
\* file just emptied then holds just that.
LEMMA FilledFile ==
    ASSUME NEW h \in HostFiles, NEW handle \in Handles, NEW new \in Keys,
           NEW g \in Filled(h, handle, new)
    PROVE  /\ g \in HostFiles /\ Others(g, h)
           /\ g.cat = h.cat /\ g.awk = h.awk
           /\ g.keys \in {h.keys, new} /\ g.tmp \in {h.tmp, new}
           /\ handle = "tmp" /\ h.tmp = Empty => g.tmp = new /\ g.keys = h.keys
  <1>1. CASE handle = "tmp"
    <2>1. g = [h EXCEPT !.tmp = new] \/ (h.tmp # Empty /\ g = [h EXCEPT !.tmp = h.tmp])
      BY <1>1 DEF Filled
    <2> QED
      BY <1>1, <2>1 DEF HostFiles, Others
  <1>2. CASE handle = "keys"
    <2>1. g = [h EXCEPT !.keys = new] \/ g = [h EXCEPT !.keys = h.keys]
      BY <1>2 DEF Filled
    <2> QED
      BY <1>2, <2>1 DEF HostFiles, Others
  <1>3. CASE handle \notin {"tmp", "keys"}
    BY <1>3 DEF Filled, Handles, Others
  <1> QED
    BY <1>1, <1>2, <1>3

LEMMA MovedFile ==
    ASSUME NEW h \in HostFiles
    PROVE  /\ Moved(h) \in HostFiles /\ Others(Moved(h), h)
           /\ Moved(h).tmp = Absent
           /\ Moved(h).keys = IF h.tmp = Absent THEN h.keys ELSE h.tmp
  <1>1. Absent \in Keys /\ Follows(h.cat) \in Handles /\ Follows(h.awk) \in Handles
    BY DEF Absent, Keys, Follows, Handles, HostFiles
  <1> QED
    BY <1>1 DEF Moved, HostFiles, Others

LEMMA NoFile == Absent \in Keys /\ Empty \in Keys /\ Empty # Absent
  BY DEF Absent, Empty, Keys

\* The shell empties the temporary file.  If the script is at its own rewrite
\* then, every line is exposed.
LEMMA WriteKeysKeeps ==
    ASSUME IInv, WriteKeys
    PROVE  IInv'
  <1> DEFINE after == [host EXCEPT !.tmp = Empty, !.cat = "tmp"]
             left == [after EXCEPT !.cat = "none"]
  <1>0. /\ pc = "write-keys" /\ UNCHANGED <<clock, script, mishaps, edits>>
        /\ host \in HostFiles /\ (Opens \/ Undoes)
        /\ edits \in 0 .. MaxEdits /\ exposed \in Exposures /\ MaxEdits \in Nat
    BY WantedKeys, SshHostAssumption DEF WriteKeys, IInv, Typed
  <1>1. /\ after \in HostFiles /\ left \in HostFiles
        /\ after.tmp = Empty /\ after.keys = host.keys /\ Others(after, host)
        /\ left.tmp = Empty /\ left.keys = host.keys /\ Others(left, host)
        /\ after.cat = "tmp" /\ after.awk = host.awk /\ left.awk = host.awk
    BY <1>0, NoFile DEF HostFiles, Handles, Others
  <1>2. CASE UNCHANGED <<host, exposed>> /\ Fail
    BY <1>0, <1>2, ReadOnly
  <1> HIDE DEF after, left
  <1>3. ASSUME Truncates(ScriptRewrites)
        PROVE  /\ exposed' \in Exposures
               /\ Exposed \subseteq Exposed' \/ AllExposed'
               /\ ScriptRewrites => AllExposed'
    <2>1. 1 .. edits \subseteq 1 .. MaxEdits
      BY <1>0
    <2>2. CASE ScriptRewrites
      <3>1. exposed' = [exposed EXCEPT !.raced = 1 .. edits]
        BY <1>3, <2>2 DEF Truncates
      <3>2. /\ exposed' \in Exposures /\ exposed'.raced = 1 .. edits
            /\ exposed'.late = exposed.late /\ exposed'.torn = exposed.torn
        BY <1>0, <2>1, <3>1 DEF Exposures
      <3>3. AllExposed'
        BY <1>0, <3>2 DEF AllExposed, Exposed
      <3> QED
        BY <3>2, <3>3
    <2>3. CASE ~ScriptRewrites
      BY <1>0, <1>3, <2>3 DEF Truncates, Exposed
    <2> QED
      BY <2>2, <2>3
  <1>4. CASE host' = left /\ Truncates(ScriptRewrites) /\ Fail
    <2>1. ScriptLinesOK'
      BY <1>0, <1>1, <1>3, <1>4 DEF ScriptLinesOK, IInv, LinesInv, Kept, AllExposed
    <2>2. "overlap" \notin mishaps /\ ScriptRewrites => host'.tmp.fence \notin {"whole", "torn"}
      BY <1>1, <1>4 DEF Empty
    <2>3. Mild
      BY <1>0, <1>1, <1>3, <1>4, <2>1, <2>2 DEF Mild, IInv, Typed
    <2> QED
      BY <1>0, <1>4, <2>3, FailKeeps
  <1>5. CASE host' = after /\ Send("fill-keys") /\ Truncates(ScriptRewrites)
    <2>1. LinesInv'
      <3>1. Kept(host.keys)' /\ Kept(job.copy)'
        BY <1>0, <1>1, <1>3, <1>5 DEF IInv, LinesInv, Kept, AllExposed, Send
      <3>2. Fresh(host.cat)'
        BY <1>1, <1>5 DEF Fresh
      <3>3. ScriptRewrites' => AllExposed' /\ Kept(host.tmp)'
        BY <1>0, <1>3, <1>5 DEF AllExposed, Kept
      <3> QED
        BY <1>5, <3>1, <3>2, <3>3 DEF LinesInv, Send
    <2>2. Typed' /\ Control'
      BY <1>0, <1>1, <1>3, <1>5 DEF IInv, Typed, Control, Jobs, Send
    <2>3. "overlap" \notin mishaps' => CleanInv'
      BY <1>0, <1>1, <1>5 DEF IInv, Typed, Jobs, Control, CleanInv, Send, Access, Others, Empty
    <2>4. mishaps' = {} => GuardInv'
      BY <1>0, <1>1, <1>5 DEF IInv, Typed, Jobs, Control, GuardInv, Send, Access, Armed
    <2> QED
      BY <2>1, <2>2, <2>3, <2>4 DEF IInv
  <1> QED
    BY <1>2, <1>4, <1>5 DEF WriteKeys, after, left

\* cat writes to the file it holds open: fresh, or shared, and then every line
\* is exposed already.
LEMMA FillKeysKeeps ==
    ASSUME IInv, FillKeys
    PROVE  IInv'
  <1>0. /\ pc = "fill-keys" /\ UNCHANGED <<clock, script, mishaps, edits, exposed>>
        /\ host \in HostFiles /\ host.cat \in Handles
        /\ Wanted \in Keys /\ Lines(Wanted) = Lines(job.copy)
        /\ Opens \/ Undoes
        /\ "overlap" \notin mishaps /\ ScriptRewrites => Wanted.fence \notin {"whole", "torn"}
    BY WantedKeys DEF FillKeys, IInv, Typed, HostFiles
  <1>1. PICK h \in Filled(host, host.cat, Wanted) \union {host} :
           /\ host' = [h EXCEPT !.cat = "none"]
           /\ \/ h \in Filled(host, host.cat, Wanted) /\ Send("move-keys") /\ UNCHANGED spent
              \/ Faulty /\ Fail
    BY DEF FillKeys
  <1>2. /\ h \in HostFiles /\ Others(h, host) /\ h.awk = host.awk
        /\ h.keys \in {host.keys, Wanted} /\ h.tmp \in {host.tmp, Wanted}
        /\ h \in Filled(host, host.cat, Wanted) /\ Fresh(host.cat) => h.tmp = Wanted
    BY <1>0, FilledFile DEF Others, Fresh
  <1>3. /\ host' \in HostFiles /\ Others(host', host) /\ host'.awk = host.awk
        /\ host'.keys = h.keys /\ host'.tmp = h.tmp
    BY <1>1, <1>2 DEF HostFiles, Handles, Others
  <1>4. Kept(host.keys)' /\ Kept(job.copy)
    BY <1>0, <1>2, <1>3 DEF IInv, LinesInv, Kept, Exposed
  <1>5. ScriptRewrites => AllExposed'
    BY <1>0 DEF IInv, LinesInv, AllExposed, Exposed
  <1>6. "overlap" \notin mishaps /\ ScriptRewrites => host'.tmp.fence \notin {"whole", "torn"}
    BY <1>0, <1>2, <1>3 DEF IInv, CleanInv
  <1>7. CASE Fail
    <2>1. ScriptLinesOK'
      BY <1>0, <1>4, <1>5 DEF ScriptLinesOK, Kept, AllExposed
    <2>2. Mild
      BY <1>0, <1>3, <1>6, <2>1 DEF Mild, IInv, Typed
    <2> QED
      BY <1>0, <1>7, <2>2, FailKeeps
  <1>8. CASE h \in Filled(host, host.cat, Wanted) /\ Send("move-keys")
    <2>1. Kept(host.tmp)'
      <3>1. CASE Fresh(host.cat)
        BY <1>0, <1>2, <1>3, <1>4, <1>8, <3>1 DEF Kept, Exposed
      <3>2. CASE AllExposed
        BY <1>0, <3>2 DEF Kept, AllExposed, Exposed
      <3> QED
        BY <1>0, <3>1, <3>2 DEF IInv, LinesInv
    <2>2. LinesInv'
      BY <1>0, <1>4, <1>5, <1>8, <2>1 DEF LinesInv, Send
    <2>3. Typed' /\ Control'
      BY <1>0, <1>3, <1>8 DEF IInv, Typed, Control, Jobs, Send
    <2>4. "overlap" \notin mishaps' => CleanInv'
      BY <1>0, <1>3, <1>6, <1>8 DEF IInv, Typed, Jobs, Control, CleanInv, Send, Access
    <2>5. mishaps' = {} => GuardInv'
      BY <1>0, <1>3, <1>8 DEF IInv, Typed, Jobs, Control, GuardInv, Send, Access, Armed
    <2> QED
      BY <2>2, <2>3, <2>4, <2>5 DEF IInv
  <1> QED
    BY <1>1, <1>7, <1>8

LEMMA MoveKeysKeeps ==
    ASSUME IInv, MoveKeys
    PROVE  IInv'
  <1>0. /\ pc = "move-keys" /\ UNCHANGED <<clock, script, mishaps, edits, exposed>>
        /\ host \in HostFiles /\ (Opens \/ Undoes)
    BY DEF MoveKeys, Remote, IInv, Typed, Control, Jobs
  <1>1. CASE UNCHANGED host /\ Fail
    BY <1>0, <1>1, ReadOnly
  <1>2. /\ Moved(host) \in HostFiles /\ Others(Moved(host), host) /\ Moved(host).tmp = Absent
        /\ Moved(host).keys = IF host.tmp = Absent THEN host.keys ELSE host.tmp
    BY <1>0, MovedFile
  <1>3. ASSUME host' = Moved(host)
        PROVE  Kept(host.keys)' /\ (ScriptRewrites => AllExposed')
    BY <1>0, <1>2, <1>3 DEF IInv, LinesInv, Kept, Exposed, AllExposed
  <1>4. CASE host' = Moved(host) /\ Fail
    <2>1. ScriptLinesOK'
      BY <1>0, <1>2, <1>3, <1>4 DEF ScriptLinesOK
    <2>2. host'.tmp.fence \notin {"whole", "torn"}
      BY <1>2, <1>4 DEF Absent
    <2>3. Mild
      BY <1>0, <1>2, <1>4, <2>1, <2>2 DEF Mild, IInv, Typed
    <2> QED
      BY <1>0, <1>4, <2>3, FailKeeps
  <1>5. CASE host' = Moved(host) /\ Send("check-keys")
    <2>1. LinesInv'
      BY <1>0, <1>2, <1>3, <1>5 DEF LinesInv, Send
    <2>2. Typed' /\ Control'
      BY <1>0, <1>2, <1>5 DEF IInv, Typed, Control, Jobs, Send
    <2>3. "overlap" \notin mishaps' => CleanInv'
      BY <1>0, <1>2, <1>5 DEF IInv, Typed, Jobs, Control, CleanInv, Send, Absent
    <2>4. mishaps' = {} => GuardInv'
      BY <1>0, <1>5 DEF IInv, Typed, Jobs, Control, GuardInv, Send
    <2> QED
      BY <2>1, <2>2, <2>3, <2>4 DEF IInv
  <1> QED
    BY <1>0, <1>1, <1>4, <1>5 DEF MoveKeys, Remote

\* A write cut short may empty the file, and then its lines are exposed.
LEMMA CutIsMild ==
    ASSUME IInv, Cut
    PROVE  Mild /\ pc \in Writes /\ "cut" \in mishaps'
  <1>0. /\ pc \in Writes /\ host' \in CutShort(pc) /\ mishaps' = mishaps \union {"cut"}
        /\ exposed' = IF pc = "fill-keys" THEN [exposed EXCEPT !.late = 1 .. edits] ELSE exposed
        /\ UNCHANGED <<clock, script, edits>>
        /\ host \in HostFiles /\ edits \in 0 .. MaxEdits /\ MaxEdits \in Nat
        /\ exposed \in Exposures
    BY SshHostAssumption DEF Cut, IInv, Typed
  <1>1. CASE pc = "fill-keys"
    <2>0. PICK k \in Partial(Wanted) : \E h \in Filled(host, host.cat, k) :
             host' = [Moved(h) EXCEPT !.cat = "none"]
      BY <1>0, <1>1 DEF CutShort
    <2>1. PICK h \in Filled(host, host.cat, k) : host' = [Moved(h) EXCEPT !.cat = "none"]
      BY <2>0
    <2>2. k \in Keys /\ host.cat \in Handles
      BY <1>0, <1>1, NoFile, WantedKeys DEF Partial, Keys, HostFiles
    <2>3. h \in HostFiles
      BY <1>0, <2>2, FilledFile
    <2>4. Moved(h) \in HostFiles /\ Moved(h).tmp = Absent
      BY <2>3, MovedFile
    <2>5. host' \in HostFiles /\ host'.tmp = Absent
      BY <2>1, <2>4 DEF HostFiles, Handles
    <2>6. exposed' \in Exposures /\ AllExposed'
      <3>1. 1 .. edits \subseteq 1 .. MaxEdits
        BY <1>0
      <3>2. exposed' \in Exposures /\ exposed'.late = 1 .. edits
        BY <1>0, <1>1, <3>1 DEF Exposures
      <3> QED
        BY <1>0, <3>2 DEF AllExposed, Exposed
    <2>7. ScriptLinesOK'
      BY <2>6 DEF ScriptLinesOK, Kept, AllExposed
    <2>8. job.op # "renew" /\ pc \notin Posture
      BY <1>1 DEF IInv, Control
    <2> QED
      BY <1>0, <1>1, <2>5, <2>6, <2>7, <2>8 DEF Mild, IInv, Typed, Mishaps, Absent
  <1>2. CASE pc # "fill-keys"
    <2>1. host' \in {[host EXCEPT !.dropin = FALSE], [host EXCEPT !.script = FALSE],
                     [host EXCEPT !.deadline = 0], [host EXCEPT !.cron = FALSE]}
      BY <1>0, <1>2 DEF Writes, CutShort, NoDeadline
    <2>2. /\ host' \in HostFiles /\ host'.keys = host.keys /\ host'.tmp = host.tmp
          /\ host'.awk = host.awk
      <3>1. CASE host' = [host EXCEPT !.dropin = FALSE]
        BY <1>0, <3>1 DEF HostFiles
      <3>2. CASE host' = [host EXCEPT !.script = FALSE]
        BY <1>0, <3>2 DEF HostFiles
      <3>3. CASE host' = [host EXCEPT !.deadline = 0]
        BY <1>0, <3>3 DEF HostFiles
      <3>4. CASE host' = [host EXCEPT !.cron = FALSE]
        BY <1>0, <3>4 DEF HostFiles
      <3> QED
        BY <2>1, <3>1, <3>2, <3>3, <3>4
    <2>3. ScriptLinesOK'
      BY <1>0, <1>2, <2>2 DEF ScriptLinesOK, IInv, LinesInv, Kept, Exposed, AllExposed, Fresh
    <2>4. "overlap" \notin mishaps /\ ScriptRewrites => host'.tmp.fence \notin {"whole", "torn"}
      BY <2>2 DEF IInv, CleanInv
    <2> QED
      BY <1>0, <1>2, <2>2, <2>3, <2>4 DEF Mild, IInv, Typed, Mishaps
  <1> QED
    BY <1>0, <1>1, <1>2

LEMMA DropConnectionKeeps ==
    ASSUME IInv, DropConnection
    PROVE  IInv'
  <1>1. Mild /\ pc \in Commands /\ Fail
    BY CutIsMild DEF DropConnection, Writes
  <1> QED
    BY <1>1, FailKeeps

(***************************************************************************)
(* The daemon's operations.                                                 *)
(***************************************************************************)
LEMMA BeginKeeps ==
    ASSUME IInv, NEW op \in {"open", "renew", "revert"}, NEW state \in States, NEW command,
           NEW todo \in {<<>>, <<"ssh">>},
           Begin(op, state, command, todo),
           mishaps' \subseteq Mishaps,
           \/ /\ op = "open" /\ state = "opening" /\ command = "write-dropin"
              /\ mishaps' = IF script = "idle" /\ ~Access THEN {} ELSE {"overlap"}
           \/ /\ op = "renew" /\ state = "open" /\ command = "write-script"
              /\ grant.state = "open" /\ UNCHANGED mishaps
           \/ /\ op = "revert" /\ state = "needs-revert" /\ command = "read-keys"
              /\ todo = <<"ssh">> /\ UNCHANGED mishaps
    PROVE  IInv'
  <1>0. /\ UNCHANGED <<clock, host, script, edits, exposed>>
        /\ pc = "idle" /\ pc' = command
        /\ job'.op = op /\ job'.todo = todo /\ job'.stuck = {} /\ job'.copy = Absent
        /\ grant' \in [state : States, expires : Nat] /\ grant'.state = state
        /\ mishaps' \subseteq Mishaps
    BY DEF Begin, NoJob, IInv, Typed
  <1>1. job' \in Jobs /\ (op # "revert" => job'.expires > 0)
    <2>1. clock + TTL \in Nat /\ clock + TTL > 0
      BY SshHostAssumption DEF IInv, Typed
    <2> QED
      BY <2>1 DEF Begin, NoJob, Jobs, Absent, Keys
  <1>2. Typed'
    BY <1>0, <1>1 DEF IInv, Typed
  <1>3. Control'
    BY <1>0, <1>1 DEF Control, Absent
  <1>4. "overlap" \notin mishaps' => CleanInv'
    BY <1>0 DEF IInv, Control, CleanInv, Access
  <1>5. mishaps' = {} => GuardInv'
    BY <1>0 DEF IInv, GuardInv, Access, Armed
  <1>6. LinesInv'
    BY <1>0 DEF IInv, LinesInv, Kept, Exposed, AllExposed, Fresh
  <1> QED
    BY <1>2, <1>3, <1>4, <1>5, <1>6 DEF IInv

LEMMA OperationKeeps ==
    ASSUME IInv, Open \/ Renew \/ Revert
    PROVE  IInv'
  <1>1. CASE Open
    BY <1>1, BeginKeeps DEF Open, States, Mishaps
  <1>2. CASE Renew
    BY <1>2, BeginKeeps DEF Renew, States, IInv, Typed
  <1>3. CASE Revert
    BY <1>3, BeginKeeps DEF Revert, States, IInv, Typed
  <1> QED
    BY <1>1, <1>2, <1>3

LEMMA CrashKeeps ==
    ASSUME IInv, Crash
    PROVE  IInv'
  <1> DEFINE after == [host EXCEPT !.cat = "none"]
  <1>0. /\ pc' = "down" /\ grant' = grant /\ job' = NoJob /\ NoJob \in Jobs
        /\ UNCHANGED <<clock, script, edits>>
    BY NoFile DEF Crash, Cut, NoJob, Jobs
  <1>1. /\ host' \in HostFiles /\ mishaps' \subseteq Mishaps /\ exposed' \in Exposures
        /\ mishaps \subseteq mishaps'
        /\ "overlap" \in mishaps' => "overlap" \in mishaps
        /\ "overlap" \notin mishaps /\ ScriptRewrites => host'.tmp.fence \notin {"whole", "torn"}
        /\ grant.state = "closed" /\ Access' => Access
        /\ mishaps' = {} => host'.keys = host.keys /\ host'.tmp = host.tmp /\ Others(host', host)
        /\ ScriptLinesOK'
    <2>1. CASE Cut
      <3>1. grant.state # "closed"
        BY <2>1 DEF Cut, Writes, IInv, Control, Typed, Jobs
      <3> QED
        BY <2>1, <3>1, CutIsMild DEF Mild
    <2>2. CASE host' = after /\ UNCHANGED <<clock, script, mishaps, edits, exposed>>
      <3>1. /\ host' \in HostFiles /\ host'.keys = host.keys /\ host'.tmp = host.tmp
            /\ host'.awk = host.awk /\ Others(host', host)
        BY <2>2 DEF IInv, Typed, HostFiles, Handles, Others
      <3>2. ScriptLinesOK'
        BY <2>2, <3>1 DEF ScriptLinesOK, IInv, LinesInv, Kept, Exposed, AllExposed, Fresh
      <3> QED
        BY <2>2, <3>1, <3>2 DEF IInv, Typed, CleanInv, Access, Others
    <2> QED
      BY <2>1, <2>2 DEF Crash
  <1>2. Typed' /\ Control'
    BY <1>0, <1>1 DEF IInv, Typed, Control, NoJob, Absent
  <1>3. "overlap" \notin mishaps' => CleanInv'
    BY <1>0, <1>1 DEF IInv, CleanInv, NoJob
  <1>4. mishaps' = {} => GuardInv'
    BY <1>0, <1>1 DEF IInv, GuardInv, NoJob, Access, Armed, Others
  <1>5. LinesInv'
    BY <1>0, <1>1 DEF LinesInv, ScriptLinesOK
  <1> QED
    BY <1>2, <1>3, <1>4, <1>5 DEF IInv

LEMMA RestartKeeps ==
    ASSUME IInv, Restart
    PROVE  IInv'
  <1>0. /\ pc = "down" /\ pc' = "idle"
        /\ UNCHANGED <<clock, host, script, job, mishaps, edits, exposed>>
        /\ job.op = "none"
        /\ grant' \in [state : States, expires : Nat]
        /\ grant'.state # "opening"
        /\ grant'.state \in {"open", "closed"} => grant'.state = grant.state
    BY DEF Restart, IInv, Typed, Control, Jobs, States
  <1>1. Typed' /\ Control'
    BY <1>0 DEF IInv, Typed, Control
  <1>2. "overlap" \notin mishaps' => CleanInv'
    BY <1>0 DEF IInv, CleanInv, Access
  <1>3. mishaps' = {} => GuardInv'
    BY <1>0 DEF IInv, GuardInv, Access, Armed
  <1>4. LinesInv'
    BY <1>0 DEF IInv, LinesInv, Kept, Exposed, AllExposed, Fresh
  <1> QED
    BY <1>1, <1>2, <1>3, <1>4 DEF IInv

(***************************************************************************)
(* The script.                                                              *)
(***************************************************************************)
\* A line of the script that leaves the keys and the temporary file alone.
LEMMA PlainLine ==
    ASSUME IInv, NEW at \in ScriptLines, NEW then \in ScriptLines \ {"fill", "replace"},
           NEW after \in HostFiles, Line(at, then, after), UNCHANGED exposed,
           after.keys = host.keys, after.tmp = host.tmp, after.cat = host.cat
    PROVE  LinesInv'
  BY DEF Line, IInv, LinesInv, Kept, Exposed, AllExposed, Fresh

LEMMA CronFiresKeeps ==
    ASSUME IInv, CronFires
    PROVE  IInv'
  <1>0. /\ script = "idle" /\ script' = "due" /\ host' = host
        /\ UNCHANGED <<clock, grant, pc, job, edits, exposed>>
        /\ mishaps' = mishaps \union {m \in {"overlap"} : grant.state = "opening"}
    BY DEF CronFires, Line
  <1>1. Typed' /\ Control'
    BY <1>0 DEF IInv, Typed, Control, ScriptLines, Mishaps
  <1>2. "overlap" \notin mishaps' => CleanInv'
    BY <1>0 DEF IInv, CleanInv, Access
  <1>3. mishaps' = {} => GuardInv'
    BY <1>0 DEF IInv, GuardInv, Access, Armed
  <1>4. LinesInv'
    BY <1>0 DEF IInv, LinesInv, Kept, Exposed, AllExposed, Fresh
  <1> QED
    BY <1>1, <1>2, <1>3, <1>4 DEF IInv

\* The lines that undo the posture.
LEMMA PostureLineKeeps ==
    ASSUME IInv, DropDropin \/ ReloadOrTrue
    PROVE  IInv'
  <1> DEFINE reloaded == [host EXCEPT !.loaded = host.dropin /\ host.included]
             dropped == [host EXCEPT !.dropin = FALSE]
  <1>0. /\ host \in HostFiles /\ reloaded \in HostFiles /\ dropped \in HostFiles
        /\ reloaded.keys = host.keys /\ reloaded.tmp = host.tmp /\ reloaded.cat = host.cat
        /\ dropped.keys = host.keys /\ dropped.tmp = host.tmp /\ dropped.cat = host.cat
    BY DEF IInv, Typed, HostFiles
  <1>1. /\ \/ Line("due", "reload", dropped) /\ UNCHANGED mishaps
           \/ Line("reload", "strip", reloaded) /\ UNCHANGED mishaps
           \/ Line("reload", "strip", host) /\ mishaps' = mishaps \union {"botched"}
        /\ UNCHANGED exposed
    BY DEF DropDropin, ReloadOrTrue, Runs, Stumbles
  <1>2. Typed' /\ Control'
    BY <1>0, <1>1 DEF IInv, Typed, Control, Line, ScriptLines, Mishaps
  <1>3. "overlap" \notin mishaps' => CleanInv'
    BY <1>0, <1>1 DEF IInv, CleanInv, Line, Access, HostFiles
  <1>4. mishaps' = {} => GuardInv'
    BY <1>0, <1>1 DEF IInv, GuardInv, Line, Access, Armed, HostFiles
  <1>5. LinesInv'
    BY <1>0, <1>1, PlainLine DEF ScriptLines
  <1> QED
    BY <1>2, <1>3, <1>4, <1>5 DEF IInv

LEMMA TruncateTmpKeeps ==
    ASSUME IInv, TruncateTmp
    PROVE  IInv'
  <1> DEFINE after == [host EXCEPT !.tmp = Empty, !.awk = "tmp"]
  <1>0. /\ host \in HostFiles /\ exposed \in Exposures
        /\ edits \in 0 .. MaxEdits /\ MaxEdits \in Nat
    BY SshHostAssumption DEF IInv, Typed
  <1>1. /\ after \in HostFiles /\ after.tmp = Empty /\ after.awk = "tmp"
        /\ after.keys = host.keys /\ after.cat = host.cat /\ Others(after, host)
    BY <1>0, NoFile DEF HostFiles, Handles, Others
  <1> HIDE DEF after
  <1>2. CASE /\ Line("strip", "fill", after) /\ Truncates(DaemonRewrites)
             /\ UNCHANGED mishaps
    <2>1. /\ exposed' \in Exposures
          /\ Exposed \subseteq Exposed' \/ AllExposed'
          /\ DaemonRewrites => AllExposed'
      <3>1. 1 .. edits \subseteq 1 .. MaxEdits
        BY <1>0
      <3>2. CASE DaemonRewrites
        <4>1. exposed' = [exposed EXCEPT !.raced = 1 .. edits] /\ edits' = edits
          BY <1>2, <3>2 DEF Truncates, Line
        <4>2. /\ exposed' \in Exposures /\ exposed'.raced = 1 .. edits
              /\ exposed'.late = exposed.late /\ exposed'.torn = exposed.torn
          BY <1>0, <3>1, <4>1 DEF Exposures
        <4>3. AllExposed'
          BY <4>1, <4>2 DEF AllExposed, Exposed
        <4> QED
          BY <4>2, <4>3
      <3>3. CASE ~DaemonRewrites
        BY <1>0, <1>2, <3>3 DEF Truncates, Exposed
      <3> QED
        BY <3>2, <3>3
    <2>2. Typed' /\ Control'
      BY <1>1, <1>2, <2>1 DEF IInv, Typed, Control, Line, ScriptLines
    <2>3. "overlap" \notin mishaps' => CleanInv'
      BY <1>1, <1>2 DEF IInv, CleanInv, Line, Access, Others, Empty
    <2>4. mishaps' = {} => GuardInv'
      BY <1>1, <1>2, NoFile DEF IInv, GuardInv, Line, Access, Armed, Others
    <2>5. LinesInv'
      <3>1. Kept(host.keys)' /\ (pc \in {"write-keys", "fill-keys"} => Kept(job.copy)')
        BY <1>1, <1>2, <2>1 DEF IInv, LinesInv, Kept, AllExposed, Line
      <3>2. Fresh(host.awk)'
        BY <1>1, <1>2 DEF Fresh, Line
      <3>3. DaemonRewrites => AllExposed' /\ Kept(host.tmp)'
        BY <2>1 DEF AllExposed, Kept
      <3> QED
        BY <1>2, <3>1, <3>2, <3>3 DEF LinesInv, Line
    <2> QED
      BY <2>2, <2>3, <2>4, <2>5 DEF IInv
  <1>3. CASE /\ Line("strip", "mark", host) /\ UNCHANGED exposed
             /\ mishaps' = mishaps \union {"botched"}
    <2>1. Typed' /\ Control'
      BY <1>3 DEF IInv, Typed, Control, Line, ScriptLines, Mishaps
    <2>2. "overlap" \notin mishaps' => CleanInv'
      BY <1>3 DEF IInv, CleanInv, Line, Access
    <2>3. LinesInv'
      BY <1>0, <1>3, PlainLine DEF ScriptLines
    <2> QED
      BY <1>3, <2>1, <2>2, <2>3 DEF IInv
  <1> QED
    BY <1>2, <1>3 DEF TruncateTmp, Stumbles, after

LEMMA StrippedKeys ==
    ASSUME host \in HostFiles
    PROVE  Stripped \in Keys /\ Stripped.fence = "none" /\ Stripped # Absent
  BY DEF HostFiles, Stripped, Keys, Empty, Absent, Lines

\* awk writes to the file it holds open, all but the fence; what it drops below
\* a torn one is exposed.
LEMMA StripFenceKeeps ==
    ASSUME IInv, StripFence
    PROVE  IInv'
  <1>0. /\ host \in HostFiles /\ host.awk \in Handles /\ exposed \in Exposures
        /\ Stripped \in Keys /\ Stripped.fence = "none" /\ Stripped # Absent
    BY StrippedKeys DEF IInv, Typed, HostFiles
  <1>1. CASE /\ \E h \in Filled(host, host.awk, Stripped) :
                    Line("fill", "replace", [h EXCEPT !.awk = "none"])
             /\ exposed' = [exposed EXCEPT !.torn = @ \union (Lines(host.keys) \ Lines(Stripped))]
             /\ UNCHANGED <<spent, mishaps>>
    <2>0. PICK h \in Filled(host, host.awk, Stripped) :
             Line("fill", "replace", [h EXCEPT !.awk = "none"])
      BY <1>1
    <2>1. /\ h \in HostFiles /\ Others(h, host) /\ h.cat = host.cat
          /\ h.keys \in {host.keys, Stripped} /\ h.tmp \in {host.tmp, Stripped}
          /\ Fresh(host.awk) => h.tmp = Stripped
      BY <1>0, FilledFile DEF Fresh
    <2>2. /\ host' \in HostFiles /\ Others(host', host) /\ host'.cat = host.cat
          /\ host'.keys = h.keys /\ host'.tmp = h.tmp
          /\ script = "fill" /\ script' = "replace"
          /\ UNCHANGED <<clock, grant, pc, job, edits, mishaps>>
      BY <1>1, <2>0, <2>1 DEF HostFiles, Handles, Others, Line
    <2>3. /\ exposed' \in Exposures
          /\ exposed'.torn = exposed.torn \union (Lines(host.keys) \ Lines(Stripped))
          /\ exposed'.late = exposed.late /\ exposed'.raced = exposed.raced
      <3>1. Lines(host.keys) \subseteq 1 .. MaxEdits
        BY <1>0 DEF Lines, HostFiles, Keys
      <3> QED
        BY <1>0, <1>1, <3>1 DEF Exposures
    <2>4. /\ Exposed \subseteq Exposed'
          /\ Lines(host.keys) \subseteq Exposed' \union Lines(Stripped)
      BY <2>3 DEF Exposed
    <2>5. /\ Kept(host.keys)' /\ 1 .. edits \subseteq Exposed' \union Lines(Stripped)
          /\ pc \in {"write-keys", "fill-keys"} => Kept(job.copy)'
          /\ AllExposed => AllExposed'
      <3>1. 1 .. edits \subseteq Exposed \union Lines(host.keys)
        BY DEF IInv, LinesInv, Kept
      <3>2. 1 .. edits \subseteq Exposed' \union Lines(Stripped)
        BY <2>4, <3>1
      <3>3. Kept(host.keys)'
        BY <2>1, <2>2, <2>4, <3>1, <3>2 DEF Kept
      <3>4. pc \in {"write-keys", "fill-keys"} => Kept(job.copy)'
        BY <2>2, <2>4 DEF IInv, LinesInv, Kept
      <3>5. AllExposed => AllExposed'
        BY <2>2, <2>4 DEF AllExposed
      <3> QED
        BY <3>2, <3>3, <3>4, <3>5
    <2>6. Kept(host.tmp)' /\ (DaemonRewrites => AllExposed')
      <3>1. CASE Fresh(host.awk)
        BY <2>1, <2>2, <2>5, <3>1 DEF IInv, LinesInv, Kept
      <3>2. CASE AllExposed
        BY <2>5, <3>2 DEF Kept, AllExposed
      <3> QED
        BY <2>2, <2>5, <3>1, <3>2 DEF IInv, LinesInv
    <2>7. LinesInv'
      BY <2>2, <2>5, <2>6 DEF LinesInv
    <2>8. Typed' /\ Control'
      BY <2>2, <2>3 DEF IInv, Typed, Control, ScriptLines
    <2>9. "overlap" \notin mishaps' => CleanInv'
      BY <1>0, <2>1, <2>2 DEF IInv, CleanInv, Access, Others
    <2>10. mishaps' = {} => GuardInv'
      BY <1>0, <2>1, <2>2 DEF IInv, GuardInv, Access, Armed, Others
    <2> QED
      BY <2>7, <2>8, <2>9, <2>10 DEF IInv
  <1>2. CASE /\ Line("fill", "mark", [host EXCEPT !.awk = "none"]) /\ UNCHANGED exposed
             /\ mishaps' = mishaps \union {"botched"}
    <2>0. /\ host' \in HostFiles /\ host'.keys = host.keys /\ host'.tmp = host.tmp
          /\ host'.cat = host.cat /\ Others(host', host)
      BY <1>0, <1>2 DEF Line, HostFiles, Handles, Others
    <2>1. Typed' /\ Control'
      BY <1>2, <2>0 DEF IInv, Typed, Control, Line, ScriptLines, Mishaps
    <2>2. "overlap" \notin mishaps' => CleanInv'
      BY <1>2, <2>0 DEF IInv, CleanInv, Line, Access, Others
    <2>3. LinesInv'
      BY <1>2, <2>0 DEF Line, IInv, LinesInv, Kept, Exposed, AllExposed, Fresh
    <2> QED
      BY <1>2, <2>1, <2>2, <2>3 DEF IInv
  <1> QED
    BY <1>1, <1>2 DEF StripFence, Stumbles

LEMMA ReplaceKeysKeeps ==
    ASSUME IInv, ReplaceKeys
    PROVE  IInv'
  <1>0. /\ host \in HostFiles
        /\ script = "replace" /\ script' = "mark" /\ host' = Moved(host)
        /\ UNCHANGED <<clock, grant, pc, job, edits, mishaps, exposed>>
    BY DEF IInv, Typed, ReplaceKeys, Runs, Line
  <1>1. /\ host' \in HostFiles /\ host'.tmp = Absent /\ Others(host', host)
        /\ host'.keys = IF host.tmp = Absent THEN host.keys ELSE host.tmp
    BY <1>0, MovedFile
  <1>2. Typed' /\ Control'
    BY <1>0, <1>1 DEF IInv, Typed, Control, ScriptLines
  <1>3. "overlap" \notin mishaps' => CleanInv'
    BY <1>0, <1>1 DEF IInv, CleanInv, Access, Others
  <1>4. mishaps' = {} => GuardInv'
    <2>1. CASE host.tmp = Absent
      BY <1>0, <1>1, <2>1 DEF IInv, GuardInv, CleanInv, Access, Armed, Others
    <2>2. CASE host.tmp # Absent
      BY <1>0, <1>1, <2>2 DEF IInv, GuardInv, CleanInv, Access, Armed, Others
    <2> QED
      BY <2>1, <2>2
  <1>5. LinesInv'
    BY <1>0, <1>1 DEF IInv, LinesInv, Kept, Exposed, AllExposed
  <1> QED
    BY <1>2, <1>3, <1>4, <1>5 DEF IInv

\* The lines that take the dead-man out.
LEMMA LastLineKeeps ==
    ASSUME IInv, MarkFired \/ Unschedule \/ ForgetDeadline
    PROVE  IInv'
  <1>0. \E at \in {"mark", "unschedule", "forget"}, then \in {"unschedule", "forget", "idle"} :
           Line(at, then, host') /\ UNCHANGED <<mishaps, exposed>>
    BY DEF MarkFired, Unschedule, ForgetDeadline, Runs, Line
  <1>1. /\ host \in HostFiles /\ host' \in HostFiles
        /\ host'.keys = host.keys /\ host'.tmp = host.tmp /\ host'.cat = host.cat
        /\ host'.dropin = host.dropin /\ host'.loaded = host.loaded /\ host'.script = host.script
    <2>1. host' \in {[host EXCEPT !.fired = TRUE], [host EXCEPT !.cron = FALSE],
                     [host EXCEPT !.deadline = 0]}
      BY DEF MarkFired, Unschedule, ForgetDeadline, Runs, Line, NoDeadline
    <2>2. host \in HostFiles
      BY DEF IInv, Typed
    <2>3. CASE host' = [host EXCEPT !.fired = TRUE]
      BY <2>2, <2>3 DEF HostFiles
    <2>4. CASE host' = [host EXCEPT !.cron = FALSE]
      BY <2>2, <2>4 DEF HostFiles
    <2>5. CASE host' = [host EXCEPT !.deadline = 0]
      BY <2>2, <2>5 DEF HostFiles
    <2> QED
      BY <2>1, <2>2, <2>3, <2>4, <2>5
  <1>2. Opens /\ mishaps = {} => script = "idle"
    BY DEF IInv, Control, CleanInv
  <1>3. Typed' /\ Control'
    BY <1>0, <1>1 DEF IInv, Typed, Control, Line, ScriptLines
  <1>4. "overlap" \notin mishaps' => CleanInv'
    BY <1>0, <1>1 DEF IInv, CleanInv, Line, Access
  <1>5. mishaps' = {} => GuardInv'
    BY <1>0, <1>1, <1>2 DEF IInv, GuardInv, Line, Access
  <1>6. LinesInv'
    BY <1>0, <1>1, PlainLine DEF ScriptLines
  <1> QED
    BY <1>3, <1>4, <1>5, <1>6 DEF IInv

LEMMA ScriptKeeps ==
    ASSUME IInv, Script
    PROVE  IInv'
  BY CronFiresKeeps, PostureLineKeeps, TruncateTmpKeeps, StripFenceKeeps, ReplaceKeysKeeps,
     LastLineKeeps
  DEF Script

(***************************************************************************)
(* The administrator, and time.                                             *)
(***************************************************************************)
\* An edit is outside the fence, or in it, or in the main configuration.
LEMMA EditKeeps ==
    ASSUME IInv, NEW after \in HostFiles, NEW lost \in BOOLEAN, Edit(after, lost),
           after.tmp = host.tmp, after.cat = host.cat, after.awk = host.awk, Others(after, host),
           after.keys.fence \in {"whole", "torn"} <=> host.keys.fence \in {"whole", "torn"},
           Lines(host.keys) \subseteq Lines(after.keys),
           \/ lost
           \/ edits + 1 \in Lines(after.keys) /\ ~Rewriting
    PROVE  IInv'
  <1>0. /\ edits \in Nat /\ edits' = edits + 1 /\ edits' \in 0 .. MaxEdits
        /\ host' = after
        /\ exposed' = IF lost THEN [exposed EXCEPT !.late = @ \union {edits'}] ELSE exposed
        /\ UNCHANGED <<clock, script, grant, pc, job, mishaps>>
        /\ MaxEdits \in Nat /\ exposed \in Exposures
    BY SshHostAssumption DEF Edit, IInv, Typed
  <1>1. exposed' \in Exposures /\ Exposed \subseteq Exposed' /\ (lost => edits + 1 \in Exposed')
    <2>1. edits' \in 1 .. MaxEdits
      BY <1>0
    <2>2. CASE lost
      <3>1. exposed' = [exposed EXCEPT !.late = @ \union {edits'}]
        BY <1>0, <2>2
      <3>2. /\ exposed' \in Exposures /\ exposed'.late = exposed.late \union {edits'}
            /\ exposed'.raced = exposed.raced /\ exposed'.torn = exposed.torn
        BY <1>0, <2>1, <3>1 DEF Exposures
      <3> QED
        BY <1>0, <3>2 DEF Exposed
    <2>3. CASE ~lost
      BY <1>0, <2>3 DEF Exposed
    <2> QED
      BY <2>2, <2>3
  <1>2. 1 .. edits' = 1 .. edits \union {edits + 1}
    BY <1>0
  <1>3. Kept(host.keys)'
    BY <1>0, <1>1, <1>2 DEF IInv, LinesInv, Kept
  <1>4. ASSUME Rewriting
        PROVE  LinesInv'
    <2>1. lost
      BY <1>4
    <2>2. pc \in {"write-keys", "fill-keys"} => Kept(job.copy)'
      BY <1>0, <1>1, <1>2, <2>1 DEF IInv, LinesInv, Kept
    <2>3. (pc = "move-keys" \/ script = "replace") /\ host.tmp # Absent => Kept(host.tmp)'
      BY <1>0, <1>1, <1>2, <2>1 DEF IInv, LinesInv, Kept
    <2>4. AllExposed => AllExposed'
      BY <1>0, <1>1, <1>2, <2>1 DEF AllExposed
    <2> QED
      BY <1>0, <1>3, <2>2, <2>3, <2>4 DEF IInv, LinesInv, Fresh
  <1>5. ASSUME ~Rewriting
        PROVE  LinesInv'
    BY <1>0, <1>3, <1>5 DEF LinesInv, Rewriting
  <1>6. LinesInv'
    BY <1>4, <1>5
  <1>7. Typed' /\ Control'
    BY <1>0, <1>1 DEF IInv, Typed, Control
  <1>8. "overlap" \notin mishaps' => CleanInv'
    BY <1>0 DEF IInv, CleanInv, Access, Others
  <1>9. mishaps' = {} => GuardInv'
    BY <1>0 DEF IInv, GuardInv, Access, Armed, Others
  <1> QED
    BY <1>6, <1>7, <1>8, <1>9 DEF IInv

LEMMA AdministratorKeeps ==
    ASSUME IInv, AddLine \/ TearFence \/ Drift \/ Mend
    PROVE  IInv'
  <1>0. host \in HostFiles /\ edits \in Nat /\ Rewriting \in BOOLEAN
    BY DEF IInv, Typed, Rewriting
  <1>1. CASE AddLine
    <2> DEFINE above == [host EXCEPT !.keys.above = @ \union {edits + 1}]
               below == [host EXCEPT !.keys.below = @ \union {edits + 1}]
    <2>1. edits + 1 \in 1 .. MaxEdits
      BY <1>0, <1>1, SshHostAssumption DEF AddLine, Edit
    <2>2. \A after \in {above, below} :
             /\ after \in HostFiles /\ Lines(after.keys) = Lines(host.keys) \union {edits + 1}
             /\ after.keys.fence = host.keys.fence
             /\ after.tmp = host.tmp /\ after.cat = host.cat /\ after.awk = host.awk
             /\ Others(after, host)
      <3>1. /\ above \in HostFiles /\ Lines(above.keys) = Lines(host.keys) \union {edits + 1}
            /\ above.keys.fence = host.keys.fence
            /\ above.tmp = host.tmp /\ above.cat = host.cat /\ above.awk = host.awk
            /\ Others(above, host)
        BY <1>0, <2>1 DEF HostFiles, Keys, Lines, Others
      <3>2. /\ below \in HostFiles /\ Lines(below.keys) = Lines(host.keys) \union {edits + 1}
            /\ below.keys.fence = host.keys.fence
            /\ below.tmp = host.tmp /\ below.cat = host.cat /\ below.awk = host.awk
            /\ Others(below, host)
        BY <1>0, <2>1 DEF HostFiles, Keys, Lines, Others
      <3> HIDE DEF above, below
      <3> QED
        BY <3>1, <3>2
    <2>3. \E after \in {above, below} : Edit(after, Rewriting)
      BY <1>1 DEF AddLine
    <2> HIDE DEF above, below
    <2>4. PICK after \in {above, below} : Edit(after, Rewriting)
      BY <2>3
    <2> QED
      BY <1>0, <2>2, <2>4, EditKeeps
  <1>2. CASE TearFence
    <2> DEFINE after == [host EXCEPT !.keys.fence = "torn"]
    <2>2. /\ after \in HostFiles /\ Lines(after.keys) = Lines(host.keys)
          /\ after.keys.fence = "torn" /\ host.keys.fence = "whole"
          /\ after.tmp = host.tmp /\ after.cat = host.cat /\ after.awk = host.awk
          /\ Others(after, host)
      BY <1>0, <1>2 DEF HostFiles, Keys, Lines, Others, TearFence
    <2>3. Edit(after, TRUE)
      BY <1>2 DEF TearFence
    <2> HIDE DEF after
    <2> QED
      BY <2>2, <2>3, EditKeeps
  <1>3. CASE Drift
    <2> DEFINE after == [host EXCEPT !.own = "emergency"]
    <2>2. /\ after \in HostFiles /\ after.keys = host.keys
          /\ after.tmp = host.tmp /\ after.cat = host.cat /\ after.awk = host.awk
          /\ Others(after, host)
      BY <1>0 DEF HostFiles, Others
    <2>3. Edit(after, TRUE)
      BY <1>3 DEF Drift
    <2> HIDE DEF after
    <2> QED
      BY <2>2, <2>3, EditKeeps
  <1>4. CASE Mend
    <2>1. /\ host' \in HostFiles /\ Lines(host'.keys) = Lines(host.keys)
          /\ host'.keys.fence \in {"whole", "torn"} => host.keys.fence \in {"whole", "torn"}
          /\ host'.tmp = host.tmp /\ host'.cat = host.cat /\ host'.awk = host.awk
          /\ Others(host', host)
      BY <1>0, <1>4 DEF Mend, HostFiles, Keys, Lines, Others
    <2>2. UNCHANGED <<clock, script, grant, pc, job, mishaps, edits, exposed>>
      BY <1>4 DEF Mend
    <2>3. Typed' /\ Control'
      BY <2>1, <2>2 DEF IInv, Typed, Control
    <2>4. "overlap" \notin mishaps' => CleanInv'
      BY <2>1, <2>2 DEF IInv, CleanInv, Access, Others
    <2>5. mishaps' = {} => GuardInv'
      BY <2>1, <2>2 DEF IInv, GuardInv, Access, Armed, Others
    <2>6. LinesInv'
      BY <2>1, <2>2 DEF IInv, LinesInv, Kept, Exposed, AllExposed, Fresh
    <2> QED
      BY <2>3, <2>4, <2>5, <2>6 DEF IInv
  <1> QED
    BY <1>1, <1>2, <1>3, <1>4

\* Nothing in the invariant depends on how late it is, or on the bounds.
LEMMA TimeKeeps ==
    ASSUME IInv, Tick \/ UNCHANGED vars
    PROVE  IInv'
  <1>0. /\ clock' \in Nat \ {0}
        /\ UNCHANGED <<host, script, grant, pc, job, mishaps, edits, exposed>>
    BY DEF Tick, vars, IInv, Typed
  <1>1. Typed' /\ Control'
    BY <1>0 DEF IInv, Typed, Control
  <1>2. "overlap" \notin mishaps' => CleanInv'
    BY <1>0 DEF IInv, CleanInv, Access
  <1>3. mishaps' = {} => GuardInv'
    BY <1>0 DEF IInv, GuardInv, Access, Armed
  <1>4. LinesInv'
    BY <1>0 DEF IInv, LinesInv, Kept, Exposed, AllExposed, Fresh
  <1> QED
    BY <1>1, <1>2, <1>3, <1>4 DEF IInv

(***************************************************************************)
(* The theorems.                                                            *)
(***************************************************************************)
LEMMA DriverKeeps ==
    ASSUME IInv, Driver
    PROVE  IInv'
  <1>1. CASE WriteDropin \/ RemoveDropin \/ ReloadSshd \/ CheckPosture
    BY <1>1, WriteDropinKeeps, RemoveDropinKeeps, ReloadSshdKeeps, CheckPostureKeeps
  <1>2. CASE ReadKeys \/ WriteKeys \/ FillKeys \/ MoveKeys \/ CheckKeys
    BY <1>2, ReadKeysKeeps, WriteKeysKeeps, FillKeysKeeps, MoveKeysKeeps, CheckKeysKeeps
  <1>3. CASE WriteScript \/ WriteDeadline \/ ReadCron \/ WriteCron \/ CheckCron \/ CheckDeadline
    BY <1>3, WriteScriptKeeps, WriteDeadlineKeeps, ReadCronKeeps, WriteCronKeeps, CheckCronKeeps,
       CheckDeadlineKeeps
  <1>4. CASE ListCron \/ ClearCron \/ RemoveFiles \/ DropConnection
    BY <1>4, ListCronKeeps, ClearCronKeeps, RemoveFilesKeeps, DropConnectionKeeps
  <1> QED
    BY <1>1, <1>2, <1>3, <1>4 DEF Driver

LEMMA Invariant == Spec => []IInv
  <1>1. Init => IInv
    <2> SUFFICES ASSUME Init
                 PROVE  IInv
      OBVIOUS
    <2>1. host \in HostFiles /\ ~Access
      BY NoFile DEF Init, HostFiles, Handles, NoDeadline, Access, Empty
    <2>2. Typed
      BY <2>1, NoFile, SshHostAssumption DEF Init, Typed, NoJob, NoGrant, Jobs, States, ScriptLines,
                                             Exposures
    <2>3. Control
      BY DEF Init, Control, NoJob, NoGrant, Absent
    <2>4. CleanInv /\ GuardInv
      BY <2>1 DEF Init, CleanInv, GuardInv, NoJob, NoGrant
    <2>5. LinesInv
      BY DEF Init, LinesInv, Kept, NoJob
    <2> QED
      BY <2>2, <2>3, <2>4, <2>5 DEF IInv
  <1>2. IInv /\ [Next]_vars => IInv'
    <2> SUFFICES ASSUME IInv, [Next]_vars
                 PROVE  IInv'
      OBVIOUS
    <2>1. CASE Open \/ Renew \/ Revert
      BY <2>1, OperationKeeps
    <2>2. CASE Driver
      BY <2>2, DriverKeeps
    <2>3. CASE Crash \/ Restart
      BY <2>3, CrashKeeps, RestartKeeps
    <2>4. CASE Script
      BY <2>4, ScriptKeeps
    <2>5. CASE AddLine \/ TearFence \/ Drift \/ Mend
      BY <2>5, AdministratorKeeps
    <2>6. CASE Tick \/ UNCHANGED vars
      BY <2>6, TimeKeeps
    <2> QED
      BY <2>1, <2>2, <2>3, <2>4, <2>5, <2>6 DEF Next
  <1> QED
    BY <1>1, <1>2, PTL DEF Spec

\* drive_one_revert and the unwinding of drive_open: whatever commands failed
\* and wherever the daemon died on the way, a grant is recorded closed only when
\* neither the drop-in nor what sshd loaded nor the fence is left on the host.
THEOREM ClosedLeavesNothing == Spec => []ClosedHostIsClean
  <1>1. IInv => ClosedHostIsClean
    BY DEF IInv, CleanInv, ClosedHostIsClean
  <1> QED
    BY <1>1, Invariant, PTL

\* The installation of deadman.rs before the open is committed, and its script:
\* at every instant the access of an open grant is under a complete dead-man,
\* or the script is at work on it.
THEOREM AccessIsGuarded == Spec => []Guarded
  <1>1. IInv => Guarded
    BY DEF IInv, Typed, ScriptLines, GuardInv, Guarded, Access
  <1> QED
    BY <1>1, Invariant, PTL

\* The rewrites of ssh.rs and of the script's awk, over one temporary file and
\* step by step: a line of the administrator is lost only if it was added while
\* the file was rewritten, or was there when a rewrite was cut short, when the
\* two rewrites met, or below a torn fence when the script dropped it.
THEOREM ForeignLinesSurvive == Spec => []LinesKept
  <1>1. IInv => LinesKept
    BY DEF IInv, LinesInv, Kept, LinesKept
  <1> QED
    BY <1>1, Invariant, PTL
=============================================================================
