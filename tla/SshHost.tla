------------------------------ MODULE SshHost ------------------------------
(***************************************************************************)
(* What the ssh-borne drivers and the dead-man do on one managed host, one  *)
(* remote command at a time: the posture and authorized-keys drivers of     *)
(* daemon/src/drivers/ssh.rs, the install and removal of the dead-man of    *)
(* daemon/src/drivers/deadman.rs, and the script of core/src/deadman.rs     *)
(* that cron runs on the host meanwhile.                                    *)
(*                                                                          *)
(* The daemon works in the order of lifecycle.rs: an open applies the       *)
(* posture, then the keys, then installs the dead-man; a revert undoes the  *)
(* keys, then the posture, then removes the dead-man.  Any command may      *)
(* fail before or after it took effect, the daemon may die between any two  *)
(* of them, and an administrator edits the same files.                      *)
(***************************************************************************)
EXTENDS Naturals, Sequences, FiniteSets

CONSTANTS
    TTL,            \* the ttl of every grant and renewal
    MaxTime,        \* bound: the clock stops here
    LastOp,         \* bound: no grant is opened or renewed after this instant
    MaxGrants,      \* bound: opens attempted
    MaxRenewals,    \* bound: renewals attempted
    MaxFaults,      \* bound: failed commands
    MaxCrashes,     \* bound: deaths of the daemon
    MaxEdits        \* bound: the administrator's edits

ASSUME SshHostAssumption ==
    /\ TTL \in Nat \ {0}
    /\ {MaxTime, LastOp, MaxGrants, MaxRenewals, MaxFaults, MaxCrashes, MaxEdits} \subseteq Nat

VARIABLES
    clock,      \* the time the host and the daemon read
    host,       \* the files and the processes of the host
    script,     \* where cron's run of the dead-man script is
    grant,      \* the stored grant: its state and its expiry
    pc,         \* the daemon's next remote command
    job,        \* the locals of the daemon's current operation
    spent,      \* what has been used of each bound
    mishaps,    \* what went wrong on the host in this grant, out of Mishaps
    edits,      \* how many edits the administrator has made
    exposed     \* those lost to a rewrite of the file are among these, by cause

vars == <<clock, host, script, grant, pc, job, spent, mishaps, edits, exposed>>

\* overlap: the script ran while an open of this host was under way, or the
\* open began on access that such a run had left behind.
\* botched: a line of the script failed.
\* cut: the connection or the daemon died with a file's content unsent.
Mishaps == {"overlap", "botched", "cut"}

\* A file of keys: the administrator's lines above and below the fence, and the
\* fence, torn when its END line is gone.
Absent == [above |-> {}, below |-> {}, fence |-> "absent"]
Empty == [above |-> {}, below |-> {}, fence |-> "none"]
NoDeadline == 0
NoGrant == [state |-> "closed", expires |-> 0]
NoJob == [op |-> "none", todo |-> <<>>, stuck |-> {}, copy |-> Absent, expires |-> 0]

Keys == [above : SUBSET (1 .. MaxEdits), below : SUBSET (1 .. MaxEdits),
         fence : {"absent", "none", "whole", "torn"}]
Lines(keys) == keys.above \union keys.below

\* What the daemon's cat and the script's awk hold open for writing: the
\* temporary file, which a mv turns into authorized_keys, and the next one into
\* a file without a name.
Handles == {"none", "tmp", "keys", "gone"}

\* late: added while the file was rewritten, or there when a rewrite was cut
\* short.  raced: there when the two rewrites met in the temporary file.
\* torn: below a fence without END when the script dropped it.
Exposures == [late : SUBSET (1 .. MaxEdits), raced : SUBSET (1 .. MaxEdits),
              torn : SUBSET (1 .. MaxEdits)]
Commands ==
    {"write-dropin", "remove-dropin", "reload", "posture",
     "read-keys", "write-keys", "fill-keys", "move-keys", "check-keys",
     "write-script", "write-deadline", "read-cron", "write-cron", "check-cron", "check-deadline",
     "list-cron", "clear-cron", "remove-files"}

\* The host's files are whole or absent, an operation is under way exactly when
\* the daemon has a command to send, and every bound is kept.
TypeOK ==
    /\ clock \in 0 .. MaxTime
    /\ host \in [own : {"default", "emergency"}, included : BOOLEAN,
                 dropin : BOOLEAN, loaded : BOOLEAN, keys : Keys, tmp : Keys,
                 cat : Handles, awk : Handles,
                 script : BOOLEAN, deadline : Nat, cron : BOOLEAN, fired : BOOLEAN]
    /\ script \in {"idle", "due", "reload", "strip", "fill", "replace", "mark", "unschedule",
                   "forget"}
    /\ exposed \in Exposures
    /\ grant \in [state : {"closed", "opening", "open", "needs-revert"}, expires : Nat]
    /\ pc \in Commands \union {"idle", "down"}
    /\ job.op \in {"none", "open", "renew", "unwind", "revert"}
    /\ (pc \in Commands) <=> (job.op # "none")
    /\ job.copy \in Keys
    /\ job.stuck \subseteq {"ssh", "keys"}
    /\ mishaps \subseteq Mishaps
    /\ grant.state = "opening" => pc = "down" \/ job.op \in {"open", "unwind"}

Init ==
    /\ clock = 1
    /\ \E included \in BOOLEAN :
          host = [own |-> "default", included |-> included, dropin |-> FALSE, loaded |-> FALSE,
                  keys |-> Empty, tmp |-> Absent, cat |-> "none", awk |-> "none",
                  script |-> FALSE, deadline |-> NoDeadline, cron |-> FALSE, fired |-> FALSE]
    /\ script = "idle"
    /\ grant = NoGrant
    /\ pc = "idle"
    /\ job = NoJob
    /\ spent = [grants |-> 0, renewals |-> 0, faults |-> 0, crashes |-> 0]
    /\ mishaps = {}
    /\ edits = 0
    /\ exposed = [late |-> {}, raced |-> {}, torn |-> {}]

\* What `sshd -T` answers: it reads the configuration, not the running server.
effective_posture ==
    IF host.dropin /\ host.included THEN "emergency" ELSE host.own

\* What the drivers put on the host, in force or about to be.
Access == host.dropin \/ host.loaded \/ host.keys.fence \in {"whole", "torn"}

Opens == job.op = "open"

(***************************************************************************)
(* The outcome of a driver, as lifecycle.rs and channel.rs take it.         *)
(***************************************************************************)

Spend(what) == spent' = [spent EXCEPT ![what] = @ + 1]

Send(command) == pc' = command /\ UNCHANGED <<job, grant>>

\* The operation is over.
Finish(state) ==
    /\ pc' = "idle"
    /\ job' = NoJob
    /\ grant' = [grant EXCEPT !.state = state]

\* Mutant: an open that could not be unwound is recorded closed all the same.
NextRevertUnheeding(todo, stuck) ==
    IF todo # <<>>
    THEN /\ pc' = IF Head(todo) = "keys" THEN "read-keys" ELSE "remove-dropin"
         /\ job' = [job EXCEPT !.todo = Tail(todo), !.op = IF @ = "open" THEN "unwind" ELSE @]
         /\ UNCHANGED grant
    ELSE IF job.op = "revert" THEN pc' = "list-cron" /\ UNCHANGED <<job, grant>>
    ELSE Finish("closed")

\* The next channel of a revert, or its end: everything is attempted, what
\* failed stays with the grant, and only a revert that left nothing stuck goes
\* on to the dead-man.  An unwound open never takes the dead-man out.
NextRevert(todo, stuck) ==
    IF todo # <<>>
    THEN /\ pc' = IF Head(todo) = "keys" THEN "read-keys" ELSE "remove-dropin"
         /\ job' = [job EXCEPT !.todo = Tail(todo), !.stuck = stuck,
                               !.op = IF @ = "open" THEN "unwind" ELSE @]
         /\ UNCHANGED grant
    ELSE IF stuck # {} THEN Finish("needs-revert")
    ELSE IF job.op = "revert" THEN pc' = "list-cron" /\ job' = [job EXCEPT !.stuck = {}] /\ UNCHANGED grant
    ELSE Finish("closed")

Keyed == {"read-keys", "write-keys", "fill-keys", "move-keys", "check-keys"}
Removal == {"list-cron", "clear-cron", "remove-files"}
Posture == {"write-dropin", "remove-dropin", "reload", "posture"}

\* An error of the current command, by what the daemon was doing.
Fail ==
    \/ /\ Opens
       /\ NextRevert(IF pc \in Posture THEN <<"ssh">> ELSE <<"keys", "ssh">>, {})
    \/ job.op = "renew" /\ Finish("open")
    \/ /\ job.op \in {"unwind", "revert"}
       /\ IF pc \in Removal THEN Finish("needs-revert")
          ELSE NextRevert(job.todo, job.stuck \union {IF pc \in Keyed THEN "keys" ELSE "ssh"})

Faulty == spent.faults < MaxFaults /\ Spend("faults")

\* A command that leaves the host as `after`: it runs and is answered, or the
\* transport fails before it ran or before it was answered.
Remote(after, then) ==
    /\ \/ host' = after /\ then /\ UNCHANGED spent
       \/ Faulty /\ host' \in {host, after} /\ Fail
    /\ UNCHANGED <<clock, script, mishaps, edits, exposed>>

(***************************************************************************)
(* The rewriting of authorized_keys, by the daemon's cat and the script's   *)
(* awk alike: the shell truncates the temporary file, the program fills     *)
(* what it holds open, and mv puts the temporary file in place.             *)
(***************************************************************************)

Filled(h, handle, new) ==
    LET over(old) == IF old = Empty THEN {new} ELSE {old, new}
    IN  CASE handle = "tmp" -> {[h EXCEPT !.tmp = k] : k \in over(h.tmp)}
          [] handle = "keys" -> {[h EXCEPT !.keys = k] : k \in over(h.keys)}
          [] OTHER -> {h}

Follows(handle) ==
    IF handle = "tmp" THEN "keys" ELSE IF handle = "keys" THEN "gone" ELSE handle

Moved(h) ==
    IF h.tmp = Absent THEN h
    ELSE [h EXCEPT !.keys = h.tmp, !.tmp = Absent, !.cat = Follows(@), !.awk = Follows(@)]

DaemonRewrites == pc \in {"fill-keys", "move-keys"}
ScriptRewrites == script \in {"fill", "replace"}

\* The temporary file is truncated, under the other's hands if it is at it too.
Truncates(raced) ==
    exposed' = IF raced THEN [exposed EXCEPT !.raced = 1 .. edits] ELSE exposed

fence_upsert(keys) == [keys EXCEPT !.fence = "whole"]
fence_remove(keys) ==
    IF keys.fence = "whole" THEN [Empty EXCEPT !.above = Lines(keys)] ELSE keys
Wanted == IF Opens THEN fence_upsert(job.copy) ELSE fence_remove(job.copy)

\* The commands that read their input to its end and put what they read in
\* place: an input cut short leaves the file empty, or the keys without the end
\* of the fence.
Partial(keys) ==
    IF keys.fence = "whole" THEN {Empty, [keys EXCEPT !.below = {}, !.fence = "torn"]} ELSE {Empty}

CutShort(command) ==
    CASE command = "write-dropin" -> {[host EXCEPT !.dropin = FALSE]}
      [] command = "fill-keys" ->
            UNION {{[Moved(h) EXCEPT !.cat = "none"] : h \in Filled(host, host.cat, k)}
                      : k \in Partial(Wanted)}
      [] command = "write-script" -> {[host EXCEPT !.script = FALSE]}
      [] command = "write-deadline" -> {[host EXCEPT !.deadline = NoDeadline]}
      [] command \in {"write-cron", "clear-cron"} -> {[host EXCEPT !.cron = FALSE]}

Writes == {"write-dropin", "fill-keys", "write-script", "write-deadline", "write-cron", "clear-cron"}

Cut ==
    /\ pc \in Writes
    /\ host' \in CutShort(pc)
    /\ mishaps' = mishaps \union {"cut"}
    /\ exposed' = IF pc = "fill-keys" THEN [exposed EXCEPT !.late = 1 .. edits] ELSE exposed
    /\ UNCHANGED <<clock, script, edits>>

DropConnection == Cut /\ Faulty /\ Fail

(***************************************************************************)
(* The posture driver.                                                      *)
(***************************************************************************)

WriteDropin ==
    /\ pc = "write-dropin"
    /\ Remote([host EXCEPT !.dropin = TRUE], Send("reload"))

RemoveDropin ==
    /\ pc = "remove-dropin"
    /\ Remote([host EXCEPT !.dropin = FALSE], Send("reload"))

ReloadSshd ==
    /\ pc = "reload"
    /\ Remote([host EXCEPT !.loaded = host.dropin /\ host.included], Send("posture"))

CheckPosture ==
    /\ pc = "posture"
    /\ Remote(host,
          IF effective_posture # (IF Opens THEN "emergency" ELSE "default") THEN Fail
          ELSE IF Opens THEN Send("read-keys")
          ELSE NextRevert(job.todo, job.stuck))

(***************************************************************************)
(* The authorized-keys driver.                                              *)
(***************************************************************************)

\* A malformed fence is refused; a revert that finds no fence writes nothing.
ReadKeys ==
    /\ pc = "read-keys"
    /\ Remote(host,
          IF host.keys.fence = "torn" THEN Fail
          ELSE /\ job' = [job EXCEPT !.copy = host.keys]
               /\ pc' = IF Opens \/ host.keys.fence = "whole" THEN "write-keys" ELSE "check-keys"
               /\ UNCHANGED grant)

\* cat > tmp && mv tmp file: one remote command in three steps.  One that stops
\* on the way leaves the temporary file behind.
WriteKeys ==
    /\ pc = "write-keys"
    /\ LET after == [host EXCEPT !.tmp = Empty, !.cat = "tmp"]
       IN  \/ /\ host' = after /\ Send("fill-keys")
              /\ Truncates(ScriptRewrites)
              /\ UNCHANGED spent
           \/ /\ Faulty /\ Fail
              /\ \/ UNCHANGED <<host, exposed>>
                 \/ host' = [after EXCEPT !.cat = "none"] /\ Truncates(ScriptRewrites)
    /\ UNCHANGED <<clock, script, mishaps, edits>>

FillKeys ==
    /\ pc = "fill-keys"
    /\ LET filled == Filled(host, host.cat, Wanted)
       IN  \E h \in filled \union {host} :
              /\ host' = [h EXCEPT !.cat = "none"]
              /\ \/ h \in filled /\ Send("move-keys") /\ UNCHANGED spent
                 \/ Faulty /\ Fail
    /\ UNCHANGED <<clock, script, mishaps, edits, exposed>>

MoveKeys ==
    /\ pc = "move-keys"
    /\ Remote(Moved(host), IF host.tmp = Absent THEN Fail ELSE Send("check-keys"))

\* The file is read back: as written after an open, without a fence after a
\* revert.
KeysLanded == IF Opens THEN host.keys = Wanted ELSE host.keys.fence \notin {"whole", "torn"}

CheckKeys ==
    /\ pc = "check-keys"
    /\ Remote(host,
          IF ~KeysLanded THEN Fail
          ELSE IF Opens THEN Send("write-script")
          ELSE NextRevert(job.todo, job.stuck))

(***************************************************************************)
(* The dead-man: install (a renewal installs it again) and remove.          *)
(***************************************************************************)

WriteScript ==
    /\ pc = "write-script"
    /\ Remote([host EXCEPT !.script = TRUE], Send("write-deadline"))

\* Mutant: the deadline is written in place, not by replacement.
WriteDeadlineInPlace ==
    /\ pc = "write-deadline"
    /\ \/ Remote([host EXCEPT !.deadline = job.expires], Send("read-cron"))
       \/ /\ Faulty /\ Fail
          /\ host' = [host EXCEPT !.deadline = NoDeadline]
          /\ UNCHANGED <<clock, script, mishaps, edits, exposed>>

WriteDeadline ==
    /\ pc = "write-deadline"
    /\ Remote([host EXCEPT !.deadline = job.expires], Send("read-cron"))

ReadCron ==
    /\ pc = "read-cron"
    /\ Remote(host, Send(IF host.cron THEN "check-cron" ELSE "write-cron"))

WriteCron ==
    /\ pc = "write-cron"
    /\ Remote([host EXCEPT !.cron = TRUE], Send("check-cron"))

CheckCron ==
    /\ pc = "check-cron"
    /\ Remote(host, IF host.cron THEN Send("check-deadline") ELSE Fail)

\* The deadline reads back as written: the open or the renewal is committed.
Installed ==
    /\ pc' = "idle"
    /\ job' = NoJob
    /\ grant' = [state |-> "open", expires |-> job.expires]

CheckDeadline ==
    /\ pc = "check-deadline"
    /\ Remote(host, IF host.deadline = job.expires THEN Installed ELSE Fail)

ListCron ==
    /\ pc = "list-cron"
    /\ Remote(host, Send(IF host.cron THEN "clear-cron" ELSE "remove-files"))

ClearCron ==
    /\ pc = "clear-cron"
    /\ Remote([host EXCEPT !.cron = FALSE], Send("remove-files"))

RemoveFiles ==
    /\ pc = "remove-files"
    /\ Remote([host EXCEPT !.fired = FALSE, !.script = FALSE, !.deadline = NoDeadline],
              Finish("closed"))

(***************************************************************************)
(* The daemon's operations.                                                 *)
(***************************************************************************)

Begin(op, state, command, todo) ==
    /\ pc = "idle"
    /\ job' = [NoJob EXCEPT !.op = op, !.expires = IF op = "revert" THEN 0 ELSE clock + TTL,
                            !.todo = todo]
    /\ pc' = command
    /\ grant' = [grant EXCEPT !.state = state]
    /\ UNCHANGED <<clock, host, script, edits, exposed>>

Open ==
    /\ grant.state = "closed" /\ clock <= LastOp
    /\ spent.grants < MaxGrants /\ Spend("grants")
    /\ Begin("open", "opening", "write-dropin", <<>>)
    /\ mishaps' = IF script = "idle" /\ ~Access THEN {} ELSE {"overlap"}

Renew ==
    /\ grant.state = "open" /\ clock < grant.expires /\ clock <= LastOp
    /\ spent.renewals < MaxRenewals /\ Spend("renewals")
    /\ Begin("renew", "open", "write-script", <<>>)
    /\ UNCHANGED mishaps

\* A close, an observed expiry, or the next pass over a grant still stuck.
Revert ==
    /\ grant.state \in {"open", "needs-revert"}
    /\ Begin("revert", "needs-revert", "read-keys", <<"ssh">>)
    /\ UNCHANGED <<spent, mishaps>>

Crash ==
    /\ pc # "down"
    /\ spent.crashes < MaxCrashes
    /\ Spend("crashes")
    /\ pc' = "down"
    /\ job' = NoJob
    /\ UNCHANGED grant
    /\ \/ Cut
       \/ /\ host' = [host EXCEPT !.cat = "none"]
          /\ UNCHANGED <<clock, script, mishaps, edits, exposed>>

\* Boot: an open cut short needs revert, and so does a durably open grant one
\* of whose channels reads back closed.
Verified == effective_posture = "emergency" /\ host.keys.fence \in {"whole", "torn"}

Restart ==
    /\ pc = "down"
    /\ pc' = "idle"
    /\ grant' = [grant EXCEPT !.state =
          IF @ = "opening" \/ (@ = "open" /\ ~Verified) THEN "needs-revert" ELSE @]
    /\ UNCHANGED <<clock, host, script, job, spent, mishaps, edits, exposed>>

(***************************************************************************)
(* The dead-man script, line by line, as cron runs it on the host.          *)
(***************************************************************************)

Line(at, then, after) ==
    /\ script = at
    /\ script' = then
    /\ host' = after
    /\ UNCHANGED <<clock, grant, pc, job, edits>>

Runs(at, then, after) == Line(at, then, after) /\ UNCHANGED <<spent, mishaps, exposed>>

\* A line that fails on the host: the script goes on without it.
Stumbles(at, then, after) ==
    /\ Line(at, then, after)
    /\ Faulty
    /\ mishaps' = mishaps \union {"botched"}
    /\ UNCHANGED exposed

Due == host.deadline # NoDeadline /\ clock >= host.deadline

CronFires ==
    /\ host.cron /\ host.script /\ Due
    /\ Line("idle", "due", host)
    /\ mishaps' = mishaps \union {m \in {"overlap"} : grant.state = "opening"}
    /\ UNCHANGED <<spent, exposed>>

\* Mutant: the script removes the drop-in and does not reload sshd.
DropDropinOnly == Runs("due", "strip", [host EXCEPT !.dropin = FALSE])

DropDropin == Runs("due", "reload", [host EXCEPT !.dropin = FALSE])

ReloadOrTrue ==
    \/ Runs("reload", "strip", [host EXCEPT !.loaded = host.dropin /\ host.included])
    \/ Stumbles("reload", "strip", host)

\* awk ... > tmp && mv tmp file, as above.  A step that fails ends it.
TruncateTmp ==
    \/ /\ Line("strip", "fill", [host EXCEPT !.tmp = Empty, !.awk = "tmp"])
       /\ Truncates(DaemonRewrites)
       /\ UNCHANGED <<spent, mishaps>>
    \/ Stumbles("strip", "mark", host)

\* awk drops everything from BEGIN to END, or to the end of a file that has no
\* END.
Stripped == [Empty EXCEPT !.above = IF host.keys.fence = "torn" THEN host.keys.above
                                    ELSE Lines(host.keys)]

\* Mutant: the script moves its temporary file whether or not awk succeeded.
StripFenceAnyhow ==
    \/ /\ \E h \in Filled(host, host.awk, Stripped) :
             Line("fill", "replace", [h EXCEPT !.awk = "none"])
       /\ exposed' = [exposed EXCEPT !.torn = @ \union (Lines(host.keys) \ Lines(Stripped))]
       /\ UNCHANGED <<spent, mishaps>>
    \/ Stumbles("fill", "replace", [host EXCEPT !.awk = "none"])

StripFence ==
    \/ /\ \E h \in Filled(host, host.awk, Stripped) :
             Line("fill", "replace", [h EXCEPT !.awk = "none"])
       /\ exposed' = [exposed EXCEPT !.torn = @ \union (Lines(host.keys) \ Lines(Stripped))]
       /\ UNCHANGED <<spent, mishaps>>
    \/ Stumbles("fill", "mark", [host EXCEPT !.awk = "none"])

ReplaceKeys == Runs("replace", "mark", Moved(host))

MarkFired == Runs("mark", "unschedule", [host EXCEPT !.fired = TRUE])
Unschedule == Runs("unschedule", "forget", [host EXCEPT !.cron = FALSE])
ForgetDeadline == Runs("forget", "idle", [host EXCEPT !.deadline = NoDeadline])

Script ==
    \/ CronFires \/ DropDropin \/ ReloadOrTrue \/ TruncateTmp \/ StripFence \/ ReplaceKeys
    \/ MarkFired \/ Unschedule \/ ForgetDeadline

(***************************************************************************)
(* The administrator, and time.                                             *)
(***************************************************************************)

Rewriting == pc = "write-keys" \/ DaemonRewrites \/ ScriptRewrites

Edit(after, lost) ==
    /\ edits < MaxEdits
    /\ edits' = edits + 1
    /\ host' = after
    /\ exposed' = IF lost THEN [exposed EXCEPT !.late = @ \union {edits'}] ELSE exposed
    /\ UNCHANGED <<clock, script, grant, pc, job, spent, mishaps>>

\* A line added to authorized_keys above the fence or below it.
AddLine ==
    \/ Edit([host EXCEPT !.keys.above = @ \union {edits + 1}], Rewriting)
    \/ /\ host.keys.fence \in {"whole", "torn"}
       /\ Edit([host EXCEPT !.keys.below = @ \union {edits + 1}], Rewriting)

\* Somebody edits the fence, or the main sshd_config drifts from the posture
\* the inventory declares.
TearFence == host.keys.fence = "whole" /\ Edit([host EXCEPT !.keys.fence = "torn"], TRUE)
Drift == Edit([host EXCEPT !.own = "emergency"], TRUE)

\* Both are repaired by hand: the drivers only report them.
Mend ==
    /\ host.own = "emergency" \/ host.keys.fence = "torn"
    /\ host' = [host EXCEPT !.own = "default",
                            !.keys = IF @.fence = "torn"
                                     THEN [above |-> Lines(@), below |-> {}, fence |-> "none"]
                                     ELSE @]
    /\ UNCHANGED <<clock, script, grant, pc, job, spent, mishaps, edits, exposed>>

Tick ==
    /\ clock < MaxTime
    /\ clock' = clock + 1
    /\ UNCHANGED <<host, script, grant, pc, job, spent, mishaps, edits, exposed>>

Driver ==
    \/ WriteDropin \/ RemoveDropin \/ ReloadSshd \/ CheckPosture
    \/ ReadKeys \/ WriteKeys \/ FillKeys \/ MoveKeys \/ CheckKeys
    \/ WriteScript \/ WriteDeadline \/ ReadCron \/ WriteCron \/ CheckCron \/ CheckDeadline
    \/ ListCron \/ ClearCron \/ RemoveFiles \/ DropConnection

Next ==
    \/ Open \/ Renew \/ Revert \/ Driver \/ Crash \/ Restart
    \/ Script \/ AddLine \/ TearFence \/ Drift \/ Mend \/ Tick

\* Time passes and cron runs on the host; nothing is owed by the daemon.
Spec == Init /\ [][Next]_vars /\ WF_vars(Tick) /\ WF_vars(Script)

(***************************************************************************)
(* Properties.                                                              *)
(***************************************************************************)

\* drive_one_revert and the unwinding of drive_open: a grant is recorded closed
\* only when nothing the drivers put on the host is left there, however the
\* commands on the way failed, unless the script ran into the open.
ClosedHostIsClean == grant.state = "closed" /\ "overlap" \notin mishaps => ~Access

\* README.md: access "reverts on schedule even if the daemon dies".  While an
\* open grant's access is on the host, the schedule, the script and the
\* deadline are all there, or the script is at work and has yet to reach it.
Armed == host.cron /\ host.script /\ host.deadline # NoDeadline
Guarded ==
    grant.state = "open" /\ mishaps = {}
        => /\ host.dropin \/ host.loaded => Armed \/ script \in {"due", "reload"}
           /\ host.keys.fence \in {"whole", "torn"} =>
                  Armed \/ script \in {"due", "reload", "strip", "fill", "replace"}

\* ssh.rs: the driver preserves "every byte outside" the fence.  Whatever the
\* order of the daemon's commands and the script's lines, and whatever failed,
\* no line of the administrator is lost, but for lines added while the file was
\* rewritten, a rewrite cut short, the two rewrites meeting in their temporary
\* file, and what the script drops below a torn fence.
Exposed == exposed.late \union exposed.raced \union exposed.torn
LinesKept == 1 .. edits \subseteq Exposed \union Lines(host.keys)

\* deadman.rs: the host ends the access of an open grant "with no daemon
\* participation", wherever the daemon stopped.
HostEndsAccess == grant.state = "open" /\ Access ~> (~Access \/ mishaps # {})

(***************************************************************************)
(* What the repository says of this code and the code does not keep.        *)
(***************************************************************************)

\* docs/ROADMAP.md: when a reschedule fails, "the renewal is refused and the
\* backstop still fires on time".
BackstopStillFires == grant.state = "open" /\ Access => Armed \/ script # "idle" \/ mishaps \ {"cut"} # {}

\* docs/ROADMAP.md: "keys outside the fence are never touched, and a fence that
\* has been hand-edited is reported, not clobbered".
TornFenceSpared == 1 .. edits \subseteq exposed.late \union exposed.raced \union Lines(host.keys)

\* core/src/ssh.rs: the fence is removed "preserving every byte outside it": a
\* line that was there before the daemon and the script began to rewrite the
\* file is there after it.
BothRewritesKeepLines == 1 .. edits \subseteq exposed.late \union exposed.torn \union Lines(host.keys)
=============================================================================
