--------------------------- MODULE DriversProofs ---------------------------
(***************************************************************************)
(* For any hosts and threads that share a driver, and any number of opens,  *)
(* faults and restarts: a grant is closed only over a closed target, and    *)
(* the password that was handed out is the one that works.                  *)
(***************************************************************************)
EXTENDS Drivers, TLAPS

(***************************************************************************)
(* The inductive invariant.                                                 *)
(***************************************************************************)
Outside == {"down", "idle", "apply", "revert", "commit", "take"}
Ops == {"none", "apply", "unwind", "revert", "reestablish"}
Outcomes == {"closed", "open", "needs-revert", "failed"}
Jobs == [host : Hosts \union {None}, op : Ops, secret : Nat, outcome : Outcomes]
Targets == [on : BOOLEAN, secret : Nat, owner : {"nobody", "ours", "stranger"},
            staged : BOOLEAN, stray : BOOLEAN,
            inbox : Seq({"open", "revert"}), topic : {"open", "closed"}]

Typed ==
    /\ channel \in {"bmc", "vnc", "http", "mqtt"}
    /\ probed \in BOOLEAN
    /\ target \in [Hosts -> Targets]
    /\ tunnel \in [Hosts -> {"none", "connecting", "bound", "exited"}]
    /\ grant \in [Hosts -> States]
    /\ pc \in [Threads -> Steps \union Outside]
    /\ job \in [Threads -> Jobs]
    /\ mutex \in Threads \union {None}
    /\ drawn \in Nat /\ last \in 0 .. drawn /\ issued \in [Hosts -> 0 .. drawn]
    /\ restore \subseteq Hosts

\* The steps of the drivers, by what they are part of.
OnSteps == {"get", "patch-on", "read-on", "stage", "set", "unstage",
            "request-on", "probe-on", "publish-on", "poll-on"}
TunnelSteps == {"spawn", "probe-port"}
OffSteps == {"patch-off", "read-off", "take-down", "port-free", "clear", "wipe",
             "request-off", "probe-off", "publish-off", "poll-off"}
StepsOf(c) ==
    CASE c = "bmc" -> {"get", "patch-on", "read-on", "patch-off", "read-off"}
      [] c = "vnc" -> {"stage", "set", "unstage", "spawn", "probe-port",
                       "take-down", "port-free", "clear", "wipe"}
      [] c = "http" -> {"request-on", "probe-on", "request-off", "probe-off"}
      [] c = "mqtt" -> {"publish-on", "poll-on", "publish-off", "poll-off"}

Working(t) == pc[t] \notin {"idle", "down"}

\* What a thread is at, by its operation.
PlaceOK(t) ==
    /\ job[t].host \in Hosts /\ job[t].secret <= drawn
    /\ pc[t] \in Steps => pc[t] \in StepsOf(channel)
    /\ job[t].op = "apply" => pc[t] \in OnSteps \union TunnelSteps \union {"apply", "commit", "take"}
    /\ job[t].op = "unwind" => pc[t] \in OffSteps \union {"commit"}
    /\ job[t].op = "revert" => pc[t] \in OffSteps \union {"revert", "commit"}
    /\ job[t].op = "reestablish" => pc[t] \in TunnelSteps \union {"commit"}
    /\ job[t].op # "none"

\* How an operation may have come out when it commits.
OutcomeOK(t) ==
    /\ pc[t] \in {"commit", "take"} /\ job[t].op = "apply" => job[t].outcome = "open"
    /\ pc[t] = "commit" => job[t].outcome # "failed"
    /\ pc[t] = "commit" /\ job[t].op \in {"unwind", "revert"} => job[t].outcome # "open"
    /\ pc[t] = "commit" /\ job[t].op = "reestablish" => job[t].outcome # "closed"

\* The grant that a thread has in flight.
GrantOf(t) ==
    CASE job[t].op \in {"apply", "unwind"} -> IF pc[t] = "take" THEN "open" ELSE "opening"
      [] job[t].op = "revert" -> "needs-revert"
      [] OTHER -> "open"

\* Nothing of a grant is at the target, and nothing is on its way to it.
Off(h) == ~InForce(h) /\ target[h].inbox = <<>>

\* What a revert has done so far.
UndoneOK(t) ==
    LET h == job[t].host IN
    /\ pc[t] \in {"port-free", "clear", "wipe"} => tunnel[h] = "none"
    /\ pc[t] = "wipe" => ~target[h].on
    /\ pc[t] = "commit" /\ job[t].outcome = "closed" /\ probed /\ h \notin stale => Off(h)

\* The password of an apply: the target has it, and the driver has no other.
SecretOK(t) ==
    LET h == job[t].host IN
    job[t].op = "apply" =>
        /\ issued[h] = NoSecret
        /\ pc[t] \in {"read-on", "spawn", "probe-port", "commit", "take"}
              \/ (pc[t] = "unstage" /\ job[t].outcome # "failed") =>
              target[h].secret \in {NoSecret, job[t].secret}
        /\ pc[t] \in {"commit", "take"} /\ h \notin mixed => last \in {NoSecret, job[t].secret}

ThreadOK(t) ==
    /\ ~Working(t) => job[t] = Idle
    /\ Working(t) => /\ PlaceOK(t) /\ OutcomeOK(t) /\ grant[job[t].host] = GrantOf(t)
                     /\ UndoneOK(t) /\ SecretOK(t)
    /\ pc[t] \in Steps <=> mutex = t

\* Two threads are never at work on one host.
Apart == \A s, t \in Threads : Working(s) /\ Working(t) /\ job[s].host = job[t].host => s = t

\* An open in flight has its thread, or the daemon is down.
InFlight(h) ==
    grant[h] = "opening" => \E t \in Threads : pc[t] = "down" \/ (Working(t) /\ job[t].host = h)

DownTogether == \A s, t \in Threads : pc[s] = "down" => pc[t] = "down"

\* What is left to re-establish is open, and nobody is at work on it; nothing
\* else is under way meanwhile.
RestoreOK ==
    restore # {} =>
        /\ \A h \in restore : grant[h] = "open"
        /\ \A t \in Threads : Working(t) => job[t].op = "reestablish" /\ job[t].host \notin restore

\* What only one channel uses, the others leave alone.
TargetOK(h) ==
    /\ channel # "vnc" => tunnel[h] = "none"
    /\ channel # "bmc" => target[h].owner = "nobody"
    /\ channel # "mqtt" => target[h].inbox = <<>>
    /\ channel \in {"http", "mqtt"} => target[h].secret = NoSecret

ClosedOK(h) == grant[h] = "closed" /\ probed /\ h \notin stale => Off(h)

WorksAt(h) ==
    h \notin mixed /\ grant[h] = "open" /\ NoSecret \notin {issued[h], target[h].secret}
        => issued[h] = target[h].secret

HostOK(h) == TargetOK(h) /\ ClosedOK(h) /\ WorksAt(h) /\ InFlight(h)

NoSecrets == channel \in {"http", "mqtt"} => drawn = 0

IInv ==
    /\ Typed
    /\ Apart /\ DownTogether /\ RestoreOK /\ NoSecrets
    /\ \A t \in Threads : ThreadOK(t)
    /\ \A h \in Hosts : HostOK(h)

USE DEF Steps, Outside, OnSteps, TunnelSteps, OffSteps, States, NoSecret

(***************************************************************************)
(* A step at one host.                                                      *)
(***************************************************************************)
\* Another thread keeps its place, and its password unless its host is in mixed.
Unmoved(s) ==
    /\ pc'[s] = pc[s] /\ job'[s] = job[s]
    /\ mutex' = s <=> mutex = s
    /\ job[s].op = "apply" /\ pc[s] \in {"commit", "take"} /\ job[s].host \notin mixed' =>
          job[s].host \notin mixed /\ last' \in {last, NoSecret}

\* Another host is not touched.
Untouched(k) ==
    /\ target'[k] = target[k] /\ tunnel'[k] = tunnel[k]
    /\ grant'[k] = grant[k] /\ issued'[k] = issued[k]
    /\ k \in stale' <=> k \in stale
    /\ k \in mixed => k \in mixed'

\* Thread t does something at host h.
LocalTo(t, h) ==
    /\ UNCHANGED <<channel, probed>>
    /\ drawn <= drawn'
    /\ \A s \in Threads \ {t} : Unmoved(s)
    /\ \A k \in Hosts \ {h} : Untouched(k)

\* A thread at another host.
LEMMA OtherThread ==
    ASSUME Typed, Typed', UNCHANGED <<channel, probed>>, drawn <= drawn', NEW s \in Threads,
           ThreadOK(s), Unmoved(s), Working(s) => Untouched(job[s].host)
    PROVE  ThreadOK(s)'
  <1>0. /\ pc'[s] = pc[s] /\ job'[s] = job[s] /\ (mutex' = s <=> mutex = s)
        /\ job[s] \in Jobs /\ job[s].secret \in Nat /\ drawn \in Nat /\ drawn' \in Nat
    BY DEF Unmoved, Typed, Jobs
  <1>1. CASE ~Working(s)
    BY <1>0, <1>1 DEF ThreadOK, Working
  <1>2. CASE Working(s)
    <2>h. PICK k \in Hosts : k = job[s].host
      BY <1>2 DEF ThreadOK, PlaceOK
    <2>1. Untouched(k)
      BY <1>2, <2>h
    <2>2. PlaceOK(s)'
      <3>1. PlaceOK(s) /\ StepsOf(channel') = StepsOf(channel)
        BY <1>2 DEF ThreadOK
      <3>2. job[s].secret <= drawn'
        BY <1>0, <3>1 DEF PlaceOK
      <3> QED
        BY <1>0, <3>1, <3>2 DEF PlaceOK
    <2>3. OutcomeOK(s)'
      BY <1>0, <1>2 DEF ThreadOK, OutcomeOK
    <2>4. grant'[job'[s].host] = GrantOf(s)'
      BY <1>0, <1>2, <2>h, <2>1 DEF ThreadOK, GrantOf, Untouched
    <2>5. UndoneOK(s)'
      BY <1>0, <1>2, <2>h, <2>1 DEF ThreadOK, UndoneOK, Untouched, Off, InForce
    <2>6. SecretOK(s)'
      BY <1>0, <1>2, <2>h, <2>1 DEF ThreadOK, SecretOK, Untouched, Unmoved
    <2> QED
      BY <1>0, <1>2, <2>2, <2>3, <2>4, <2>5, <2>6 DEF ThreadOK, Working
  <1> QED
    BY <1>1, <1>2

\* Nothing but what happens at h has to be shown of a step of t there.
LEMMA LocalStep ==
    ASSUME IInv, Typed', NEW t \in Threads, NEW h \in Hosts, LocalTo(t, h),
           \A s \in Threads \ {t} : Working(s) => job[s].host # h,
           Working(t) => job[t].host = h, pc[t] # "down", pc'[t] # "down",
           ThreadOK(t)', Working(t)' => job'[t].host = h,
           TargetOK(h)', ClosedOK(h)', WorksAt(h)',
           grant'[h] = "opening" => Working(t)',
           restore' \subseteq restore,
           restore' # {} => h \notin restore' /\ (Working(t)' => job'[t].op = "reestablish"),
           NoSecrets'
    PROVE  IInv'
  <1>0. \A s \in Threads \ {t} : pc'[s] = pc[s] /\ job'[s] = job[s]
    BY DEF LocalTo, Unmoved
  <1>1. \A s \in Threads : ThreadOK(s)'
    <2> SUFFICES ASSUME NEW s \in Threads \ {t} PROVE ThreadOK(s)'
      OBVIOUS
    <2>1. Working(s) => job[s].host \in Hosts \ {h}
      BY DEF IInv, ThreadOK, PlaceOK
    <2> QED
      BY <2>1, OtherThread DEF IInv, LocalTo
  <1>2. Apart'
    BY <1>0 DEF Apart, IInv, Working
  <1>3. DownTogether'
    BY <1>0 DEF DownTogether, IInv
  <1>4. RestoreOK'
    <2>1. \A k \in restore' : grant'[k] = "open"
      BY DEF IInv, RestoreOK, LocalTo, Untouched, Typed
    <2>2. \A s \in Threads \ {t} : restore' # {} /\ Working(s)' =>
                 job'[s].op = "reestablish" /\ job'[s].host \notin restore'
      BY <1>0 DEF IInv, RestoreOK, Working
    <2> QED
      BY <2>1, <2>2 DEF RestoreOK
  <1>5. \A k \in Hosts : HostOK(k)'
    <2>1. ASSUME NEW k \in Hosts \ {h}
          PROVE  HostOK(k)'
      <3>1. TargetOK(k)' /\ ClosedOK(k)' /\ WorksAt(k)'
        BY DEF IInv, HostOK, TargetOK, ClosedOK, WorksAt, Off, InForce, LocalTo, Untouched
      <3>2. InFlight(k)'
        <4>1. SUFFICES ASSUME grant'[k] = "opening"
                       PROVE  \E u \in Threads : pc'[u] = "down" \/ (Working(u)' /\ job'[u].host = k)
          BY DEF InFlight
        <4>2. PICK u \in Threads : pc[u] = "down" \/ (Working(u) /\ job[u].host = k)
          BY <4>1 DEF IInv, HostOK, InFlight, LocalTo, Untouched
        <4>3. u # t
          BY <4>2
        <4> QED
          BY <1>0, <4>2, <4>3 DEF Working
      <3> QED
        BY <3>1, <3>2 DEF HostOK
    <2>2. InFlight(h)'
      BY DEF InFlight
    <2> QED
      BY <2>1, <2>2 DEF HostOK
  <1> QED
    BY <1>1, <1>2, <1>3, <1>4, <1>5 DEF IInv
(***************************************************************************)
(* A step of a driver.                                                      *)
(***************************************************************************)
\* What every step of thread t inside the driver leaves alone.
InDriver(t) ==
    /\ pc[t] \in Steps
    /\ UNCHANGED <<channel, probed, grant, issued, restore>>
    /\ \A s \in Threads \ {t} : pc'[s] = pc[s] /\ job'[s] = job[s]
    /\ \A k \in Hosts \ {job[t].host} :
          target'[k] = target[k] /\ tunnel'[k] = tunnel[k] /\ (k \in stale' <=> k \in stale)
    /\ UNCHANGED <<last, mixed>> \/ (Remember(t) /\ job[t].op = "apply")

\* What such a step may make of the target.
Lawful(t) ==
    /\ target' \in [Hosts -> Targets]
    /\ tunnel' \in [Hosts -> {"none", "connecting", "bound", "exited"}]
    /\ drawn' \in Nat /\ drawn <= drawn'
    /\ NoSecrets'
    /\ \A h \in Hosts : h = job[t].host => TargetOK(h)'
    /\ job[t].op = "reestablish" => target'[job[t].host].secret = target[job[t].host].secret

LEMMA AtWork ==
    ASSUME IInv, NEW t \in Threads, pc[t] \in Steps
    PROVE  /\ Working(t) /\ job[t].host \in Hosts /\ job[t] \in Jobs
           /\ PlaceOK(t) /\ OutcomeOK(t) /\ UndoneOK(t) /\ SecretOK(t)
           /\ grant[job[t].host] = GrantOf(t) /\ mutex = t
           /\ job[t].op \in {"apply", "unwind", "revert", "reestablish"}
  <1>1. Working(t)
    BY DEF Working
  <1>2. ThreadOK(t) /\ job[t] \in Jobs
    BY DEF IInv, Typed
  <1> QED
    BY <1>1, <1>2 DEF ThreadOK, PlaceOK, Jobs, Ops

LEMMA DriverStep ==
    ASSUME IInv, NEW t \in Threads, InDriver(t), Lawful(t),
           pc' \in [Threads -> Steps \union Outside], job' \in [Threads -> Jobs],
           mutex' \in {t, None}, job'[t].host = job[t].host,
           job[t].op = "reestablish" => job'[t].op = "reestablish",
           pc'[t] \notin {"idle", "down"}, ThreadOK(t)'
    PROVE  IInv'
  <1>1. PICK h \in Hosts : h = job[t].host
    BY AtWork DEF InDriver
  <1>2. /\ Working(t) /\ PlaceOK(t) /\ SecretOK(t) /\ grant[h] = GrantOf(t) /\ mutex = t
        /\ job[t] \in Jobs /\ pc[t] \in Steps
        /\ job[t].op \in {"apply", "unwind", "revert", "reestablish"}
    BY AtWork, <1>1 DEF InDriver
  <1>3. Typed /\ Apart /\ RestoreOK /\ WorksAt(h)
    BY DEF IInv, HostOK
  <1>4. last' \in 0 .. drawn'
    <2>1. job[t].secret \in Nat /\ job[t].secret <= drawn /\ drawn \in Nat /\ last \in 0 .. drawn
      BY <1>2, <1>3 DEF PlaceOK, Jobs, Typed
    <2> QED
      BY <2>1 DEF InDriver, Lawful, Remember
  <1>5. Typed'
    <2>1. issued' \in [Hosts -> 0 .. drawn']
      BY <1>3 DEF InDriver, Lawful, Typed
    <2> QED
      BY <1>3, <1>4, <2>1 DEF InDriver, Lawful, Typed
  <1>6. \A s \in Threads \ {t} : Working(s) => job[s].host # h
    BY <1>1, <1>2, <1>3 DEF Apart
  <1>7. LocalTo(t, h)
    <2>1. ASSUME NEW s \in Threads \ {t}
          PROVE  Unmoved(s)
      <3>1. pc'[s] = pc[s] /\ job'[s] = job[s]
        BY DEF InDriver
      <3>2. mutex' = s <=> mutex = s
        BY <1>2, DriversAssumption
      <3>3. ASSUME job[s].op = "apply", pc[s] \in {"commit", "take"}, job[s].host \notin mixed'
            PROVE  job[s].host \notin mixed /\ last' \in {last, NoSecret}
        BY <3>3 DEF InDriver, Remember
      <3> QED
        BY <3>1, <3>2, <3>3 DEF Unmoved
    <2>2. ASSUME NEW k \in Hosts \ {h}
          PROVE  Untouched(k)
      BY <1>1 DEF InDriver, Remember, Untouched
    <2> QED
      BY <2>1, <2>2 DEF LocalTo, InDriver, Lawful
  <1>8. grant'[h] # "closed" /\ Working(t)'
    BY <1>2 DEF InDriver, GrantOf, Working
  <1>9. WorksAt(h)'
    <2>1. CASE job[t].op = "reestablish"
      BY <1>1, <1>3, <2>1 DEF InDriver, Lawful, WorksAt, Remember
    <2>2. CASE job[t].op # "reestablish"
      <3>1. grant'[h] # "open"
        BY <1>2, <2>2 DEF InDriver, GrantOf, PlaceOK
      <3> QED
        BY <3>1 DEF WorksAt
    <2> QED
      BY <2>1, <2>2
  <1>10. restore' # {} => h \notin restore' /\ job'[t].op = "reestablish"
    BY <1>1, <1>2, <1>3 DEF InDriver, RestoreOK
  <1>11. pc[t] # "down" /\ pc'[t] # "down" /\ restore' \subseteq restore
    BY <1>2 DEF InDriver
  <1>12. TargetOK(h)' /\ NoSecrets' /\ ClosedOK(h)'
    BY <1>1, <1>8 DEF Lawful, ClosedOK
  <1> QED
    BY <1>1, <1>2, <1>5, <1>6, <1>7, <1>8, <1>9, <1>10, <1>11, <1>12, LocalStep

\* The driver fails: an apply turns into its own revert, anything else is to be
\* reverted later.
LEMMA FailStep ==
    ASSUME IInv, NEW t \in Threads, InDriver(t), Lawful(t), Fail(t)
    PROVE  IInv'
  <1>1. /\ Working(t) /\ job[t].host \in Hosts /\ job[t] \in Jobs /\ PlaceOK(t)
        /\ grant[job[t].host] = GrantOf(t) /\ mutex = t /\ pc[t] \in Steps
        /\ job[t].op \in {"apply", "unwind", "revert", "reestablish"}
    BY AtWork DEF InDriver
  <1>2. Typed
    BY DEF IInv
  <1>3. job[t].secret \in Nat /\ job[t].secret <= drawn' /\ drawn \in Nat
    <2>1. job[t].secret \in Nat /\ job[t].secret <= drawn /\ drawn \in Nat /\ drawn' \in Nat
      BY <1>1, <1>2 DEF PlaceOK, Jobs, Typed, Lawful
    <2> QED
      BY <2>1 DEF Lawful
  <1>4. CASE job[t].op = "apply"
    <2>1. job' = [job EXCEPT ![t].op = "unwind"] /\ pc' = [pc EXCEPT ![t] = FirstOf("revert")] /\ mutex' = mutex
      BY <1>4 DEF Fail, Go
    <2>2. /\ FirstOf("revert") \in {"patch-off", "take-down", "request-off", "publish-off"}
          /\ FirstOf("revert") \in StepsOf(channel)
      BY <1>2 DEF FirstOf, StepsOf, Typed
    <2>3. job' \in [Threads -> Jobs] /\ pc' \in [Threads -> Steps \union Outside]
      BY <1>2, <2>1, <2>2 DEF Typed, Jobs, Ops
    <2>4. /\ pc'[t] = FirstOf("revert") /\ job'[t].op = "unwind"
          /\ job'[t].host = job[t].host /\ job'[t].secret = job[t].secret
      BY <1>1, <1>2, <2>1 DEF Typed, Jobs
    <2>5. PlaceOK(t)'
      <3>1. StepsOf(channel') = StepsOf(channel)
        BY DEF InDriver
      <3> QED
        BY <1>1, <1>3, <2>2, <2>4, <3>1 DEF PlaceOK
    <2>6. ThreadOK(t)'
      <3>1. OutcomeOK(t)' /\ UndoneOK(t)' /\ SecretOK(t)'
        BY <2>2, <2>4 DEF OutcomeOK, UndoneOK, SecretOK
      <3>2. grant'[job'[t].host] = GrantOf(t)'
        BY <1>1, <1>4, <2>2, <2>4 DEF InDriver, GrantOf
      <3> QED
        BY <1>1, <2>1, <2>2, <2>4, <2>5, <3>1, <3>2 DEF ThreadOK, Working
    <2> QED
      BY <1>1, <1>4, <2>1, <2>2, <2>3, <2>4, <2>6, DriverStep
  <1>5. CASE job[t].op # "apply"
    <2>1. job' = [job EXCEPT ![t].outcome = "needs-revert"] /\ pc' = [pc EXCEPT ![t] = "commit"] /\ mutex' = None
      BY <1>5 DEF Fail, Unlock, Go
    <2>3. job' \in [Threads -> Jobs] /\ pc' \in [Threads -> Steps \union Outside]
      BY <1>2, <2>1 DEF Typed, Jobs, Outcomes
    <2>4. /\ pc'[t] = "commit" /\ job'[t].op = job[t].op /\ job'[t].outcome = "needs-revert"
          /\ job'[t].host = job[t].host /\ job'[t].secret = job[t].secret
      BY <1>1, <1>2, <2>1 DEF Typed, Jobs
    <2>5. PlaceOK(t)'
      BY <1>1, <1>3, <1>5, <2>4 DEF PlaceOK
    <2>6. ThreadOK(t)'
      <3>1. OutcomeOK(t)' /\ UndoneOK(t)' /\ SecretOK(t)'
        BY <1>5, <2>4 DEF OutcomeOK, UndoneOK, SecretOK
      <3>2. grant'[job'[t].host] = GrantOf(t)'
        BY <1>1, <1>5, <2>4 DEF InDriver, GrantOf
      <3> QED
        BY <1>1, <2>1, <2>4, <2>5, <3>1, <3>2, DriversAssumption DEF ThreadOK, Working
    <2> QED
      BY <1>1, <1>5, <2>1, <2>3, <2>4, <2>6, DriverStep
  <1> QED
    BY <1>4, <1>5

\* The driver succeeds: a revert has left nothing behind, and the password of
\* an apply is the target's and the driver's.
Achieved(t) ==
    \A h \in Hosts : h = job[t].host =>
        /\ job[t].op \in {"unwind", "revert"} /\ probed /\ h \notin stale' => Off(h)'
        /\ job[t].op = "apply" => target'[h].secret \in {NoSecret, job[t].secret}
                                 /\ last' \in {NoSecret, job[t].secret}

LEMMA DoneStep ==
    ASSUME IInv, NEW t \in Threads, InDriver(t), Lawful(t), Done(t), Achieved(t)
    PROVE  IInv'
  <1>1. /\ Working(t) /\ job[t].host \in Hosts /\ job[t] \in Jobs /\ PlaceOK(t) /\ SecretOK(t)
        /\ grant[job[t].host] = GrantOf(t) /\ mutex = t /\ pc[t] \in Steps
        /\ job[t].op \in {"apply", "unwind", "revert", "reestablish"}
    BY AtWork DEF InDriver
  <1>2. Typed
    BY DEF IInv
  <1>3. job[t].secret \in Nat /\ job[t].secret <= drawn' /\ drawn \in Nat
    <2>1. job[t].secret \in Nat /\ job[t].secret <= drawn /\ drawn \in Nat /\ drawn' \in Nat
      BY <1>1, <1>2 DEF PlaceOK, Jobs, Typed, Lawful
    <2> QED
      BY <2>1 DEF Lawful
  <1>4. PICK o \in {"open", "closed"} :
           /\ job' = [job EXCEPT ![t].outcome = o] /\ pc' = [pc EXCEPT ![t] = "commit"] /\ mutex' = None
           /\ o = "open" <=> job[t].op \in {"apply", "reestablish"}
    BY DEF Done, Unlock, Go
  <1>5. job' \in [Threads -> Jobs] /\ pc' \in [Threads -> Steps \union Outside]
    BY <1>2, <1>4 DEF Typed, Jobs, Outcomes
  <1>6. /\ pc'[t] = "commit" /\ job'[t].op = job[t].op /\ job'[t].outcome = o
        /\ job'[t].host = job[t].host /\ job'[t].secret = job[t].secret
    BY <1>1, <1>2, <1>4 DEF Typed, Jobs
  <1>7. ThreadOK(t)'
    <2>1. PlaceOK(t)'
      BY <1>1, <1>3, <1>6 DEF PlaceOK
    <2>2. OutcomeOK(t)'
      BY <1>1, <1>4, <1>6 DEF OutcomeOK
    <2>3. UndoneOK(t)'
      <3>1. PICK h \in Hosts : h = job[t].host
        BY <1>1
      <3>2. job'[t].outcome = "closed" /\ probed' /\ h \notin stale' => Off(h)'
        BY <1>1, <1>4, <1>6, <3>1 DEF Achieved, InDriver
      <3> QED
        BY <1>6, <3>1, <3>2 DEF UndoneOK
    <2>4. SecretOK(t)'
      BY <1>1, <1>6 DEF Achieved, SecretOK, InDriver
    <2>5. grant'[job'[t].host] = GrantOf(t)'
      BY <1>1, <1>6 DEF InDriver, GrantOf
    <2> QED
      BY <1>1, <1>4, <1>6, <2>1, <2>2, <2>3, <2>4, <2>5, DriversAssumption DEF ThreadOK, Working
  <1> QED
    BY <1>1, <1>4, <1>5, <1>6, <1>7, DriverStep

\* The driver goes on to its next step.
LEMMA MoveStep ==
    ASSUME IInv, NEW t \in Threads, InDriver(t), Lawful(t), NEW step \in StepsOf(channel) \ {"reestablish"},
           pc' = [pc EXCEPT ![t] = step], job' \in [Threads -> Jobs], mutex' = mutex,
           job'[t].host = job[t].host, job'[t].op = job[t].op, job'[t].secret <= drawn',
           job[t].op = "apply" => step \in OnSteps \union TunnelSteps,
           job[t].op \in {"unwind", "revert"} => step \in OffSteps,
           job[t].op = "reestablish" => step \in TunnelSteps,
           UndoneOK(t)', SecretOK(t)'
    PROVE  IInv'
  <1>1. /\ Working(t) /\ job[t].host \in Hosts /\ job[t] \in Jobs
        /\ grant[job[t].host] = GrantOf(t) /\ mutex = t /\ pc[t] \in Steps
        /\ job[t].op \in {"apply", "unwind", "revert", "reestablish"}
    BY AtWork DEF InDriver
  <1>2. Typed
    BY DEF IInv
  <1>3. step \in Steps
    BY <1>2 DEF Typed, StepsOf
  <1>4. pc' \in [Threads -> Steps \union Outside] /\ pc'[t] = step
    BY <1>2, <1>3 DEF Typed
  <1>5. ThreadOK(t)'
    <2>1. PlaceOK(t)'
      <3>1. StepsOf(channel') = StepsOf(channel)
        BY DEF InDriver
      <3> QED
        BY <1>1, <1>4, <3>1 DEF PlaceOK
    <2>2. OutcomeOK(t)'
      BY <1>3, <1>4 DEF OutcomeOK
    <2>3. grant'[job'[t].host] = GrantOf(t)'
      BY <1>1, <1>3, <1>4 DEF InDriver, GrantOf
    <2> QED
      BY <1>1, <1>3, <1>4, <2>1, <2>2, <2>3 DEF ThreadOK, Working
  <1> QED
    BY <1>1, <1>3, <1>4, <1>5, DriverStep

\* The thread goes on, fails or is done, and no other thread moves.
Acts(t) == Fail(t) \/ Done(t) \/ \E step \in Steps : Proceed(t, step)

LEMMA OneThread ==
    ASSUME IInv, NEW t \in Threads, pc[t] \in Steps, Acts(t)
    PROVE  \A s \in Threads \ {t} : pc'[s] = pc[s] /\ job'[s] = job[s]
  <1>1. pc \in [Threads -> Steps \union Outside] /\ job \in [Threads -> Jobs]
    BY DEF IInv, Typed
  <1>2. ASSUME NEW step, Proceed(t, step)
        PROVE  \A s \in Threads \ {t} : pc'[s] = pc[s] /\ job'[s] = job[s]
    BY <1>1, <1>2 DEF Proceed, Go
  <1>3. ASSUME NEW outcome, Unlock(t, outcome)
        PROVE  \A s \in Threads \ {t} : pc'[s] = pc[s] /\ job'[s] = job[s]
    BY <1>1, <1>3 DEF Unlock, Go
  <1>4. CASE Fail(t) /\ job[t].op = "apply"
    BY <1>1, <1>4 DEF Fail, Go
  <1> QED
    BY <1>2, <1>3, <1>4 DEF Acts, Fail, Done

\* A target of this channel.
Fits(after) ==
    /\ after \in Targets
    /\ channel # "bmc" => after.owner = "nobody"
    /\ channel # "mqtt" => after.inbox = <<>>
    /\ channel \in {"http", "mqtt"} => after.secret = NoSecret

\* A step that changes nothing but the target, and may draw a password.
LEMMA TargetStep ==
    ASSUME IInv, NEW t \in Threads, pc[t] \in Steps,
           \A s \in Threads \ {t} : pc'[s] = pc[s] /\ job'[s] = job[s],
           NEW after, Fits(after), target' \in {target, [target EXCEPT ![job[t].host] = after]},
           job[t].op = "reestablish" => after.secret = T(t).secret,
           UNCHANGED <<channel, probed, tunnel, grant, issued, restore, stale>>,
           UNCHANGED <<last, mixed>> \/ (Remember(t) /\ job[t].op = "apply"),
           drawn' = drawn \/ (drawn' = drawn + 1 /\ channel \in {"bmc", "vnc"})
    PROVE  InDriver(t) /\ Lawful(t)
  <1>1. PICK h \in Hosts : h = job[t].host
    BY AtWork
  <1>2. Typed /\ TargetOK(h) /\ NoSecrets
    BY DEF IInv, HostOK
  <1>3. InDriver(t)
    BY <1>1, <1>2 DEF InDriver, Typed
  <1>4. target' \in [Hosts -> Targets] /\ target'[h] \in {target[h], after}
    BY <1>1, <1>2 DEF Typed, Fits
  <1>5. TargetOK(h)'
    BY <1>2, <1>4 DEF TargetOK, Fits
  <1>6. drawn' \in Nat /\ drawn <= drawn' /\ NoSecrets'
    BY <1>2 DEF Typed, NoSecrets
  <1>7. job[t].op = "reestablish" => target'[h].secret = target[h].secret
    BY <1>1, <1>4 DEF T
  <1> QED
    BY <1>1, <1>2, <1>3, <1>4, <1>5, <1>6, <1>7 DEF Lawful, Typed

\* The same for a request that went wrong, wherever it went wrong.
LEMMA RequestFails ==
    ASSUME IInv, NEW t \in Threads, pc[t] \in Steps, Fail(t),
           NEW after, Fits(after), target' \in {target, [target EXCEPT ![job[t].host] = after]},
           job[t].op = "reestablish" => after.secret = T(t).secret,
           UNCHANGED <<channel, probed, tunnel, last, grant, issued, restore, mixed, stale>>,
           drawn' = drawn \/ (drawn' = drawn + 1 /\ channel \in {"bmc", "vnc"})
    PROVE  IInv'
  <1>1. \A s \in Threads \ {t} : pc'[s] = pc[s] /\ job'[s] = job[s]
    BY OneThread DEF Acts
  <1>2. InDriver(t) /\ Lawful(t)
    BY <1>1, TargetStep
  <1> QED
    BY <1>2, FailStep

\* The target of the host a thread is at.
LEMMA TargetFits ==
    ASSUME IInv, NEW t \in Threads, pc[t] \in Steps
    PROVE  Fits(T(t)) /\ target = [target EXCEPT ![job[t].host] = T(t)]
  <1>1. PICK h \in Hosts : h = job[t].host
    BY AtWork
  <1>2. target \in [Hosts -> Targets] /\ TargetOK(h)
    BY DEF IInv, Typed, HostOK
  <1> QED
    BY <1>1, <1>2 DEF T, Fits, TargetOK

\* Which channel and which operations a step belongs to.
LEMMA StepBelongs ==
    ASSUME IInv, NEW t \in Threads, pc[t] \in Steps
    PROVE  /\ pc[t] \in StepsOf(channel)
           /\ channel = "bmc" => pc[t] \in {"get", "patch-on", "read-on", "patch-off", "read-off"}
           /\ channel = "vnc" => pc[t] \in {"stage", "set", "unstage", "spawn", "probe-port",
                                            "take-down", "port-free", "clear", "wipe"}
           /\ channel = "http" => pc[t] \in {"request-on", "probe-on", "request-off", "probe-off"}
           /\ channel = "mqtt" => pc[t] \in {"publish-on", "poll-on", "publish-off", "poll-off"}
           /\ channel \in {"bmc", "vnc", "http", "mqtt"}
           /\ pc[t] \in OnSteps => job[t].op = "apply"
           /\ pc[t] \in OffSteps => job[t].op \in {"unwind", "revert"}
           /\ pc[t] \in TunnelSteps => job[t].op \in {"apply", "reestablish"}
  <1>1. PlaceOK(t) /\ job[t].op \in {"apply", "unwind", "revert", "reestablish"}
    BY AtWork
  <1>2. pc[t] \in StepsOf(channel) /\ channel \in {"bmc", "vnc", "http", "mqtt"}
    BY <1>1 DEF PlaceOK, IInv, Typed
  <1>3. /\ pc[t] \in OnSteps => job[t].op = "apply"
        /\ pc[t] \in OffSteps => job[t].op \in {"unwind", "revert"}
        /\ pc[t] \in TunnelSteps => job[t].op \in {"apply", "reestablish"}
    BY <1>1 DEF PlaceOK
  <1> QED
    BY <1>2, <1>3 DEF StepsOf

LEMMA ProceedStep ==
    ASSUME IInv, NEW t \in Threads, InDriver(t), Lawful(t), NEW step \in StepsOf(channel), Proceed(t, step),
           job[t].op = "apply" => step \in {"patch-on", "probe-on", "poll-on"},
           job[t].op \in {"unwind", "revert"} => step \in OffSteps,
           job[t].op # "reestablish", UndoneOK(t)'
    PROVE  IInv'
  <1>1. /\ job[t].host \in Hosts /\ job[t] \in Jobs /\ SecretOK(t) /\ PlaceOK(t) /\ pc[t] \in Steps
        /\ job[t].op \in {"apply", "unwind", "revert", "reestablish"}
    BY AtWork DEF InDriver
  <1>2. Typed
    BY DEF IInv
  <1>3. pc' = [pc EXCEPT ![t] = step] /\ mutex' = mutex /\ job' = job
    BY DEF Proceed, Go
  <1>4. step \in Steps /\ step # "reestablish" /\ pc'[t] = step
    BY <1>2, <1>3 DEF Typed, StepsOf
  <1>5. job[t].secret <= drawn'
    <2>1. job[t].secret \in Nat /\ job[t].secret <= drawn /\ drawn \in Nat /\ drawn' \in Nat /\ drawn <= drawn'
      BY <1>1, <1>2 DEF PlaceOK, Jobs, Typed, Lawful
    <2> QED
      BY <2>1
  <1>6. SecretOK(t)'
    BY <1>1, <1>3, <1>4 DEF SecretOK, InDriver
  <1> QED
    BY <1>1, <1>2, <1>3, <1>4, <1>5, <1>6, MoveStep DEF Typed

(***************************************************************************)
(* bmc.                                                                     *)
(***************************************************************************)
LEMMA GetAccountStep ==
    ASSUME IInv, NEW t \in Threads, GetAccount(t)
    PROVE  IInv'
  <1>1. /\ pc[t] = "get" /\ (Fail(t) \/ Proceed(t, "patch-on"))
        /\ target' \in {target, [target EXCEPT ![job[t].host] = T(t)]}
        /\ UNCHANGED <<channel, probed, tunnel, last, grant, issued, restore, drawn, mixed, stale>>
    BY DEF GetAccount, Request, At
  <1>2. channel = "bmc" /\ job[t].op = "apply" /\ Fits(T(t))
    BY <1>1, StepBelongs, TargetFits
  <1>3. CASE Fail(t)
    BY <1>1, <1>2, <1>3, RequestFails
  <1>4. CASE Proceed(t, "patch-on")
    <2>1. InDriver(t) /\ Lawful(t)
      BY <1>1, <1>2, <1>4, OneThread, TargetStep DEF Acts
    <2>2. UndoneOK(t)' /\ "patch-on" \in StepsOf(channel)
      <3>1. pc'[t] = "patch-on"
        BY <1>4 DEF Proceed, Go, IInv, Typed
      <3> QED
        BY <1>2, <3>1 DEF UndoneOK, StepsOf
    <2> QED
      BY <1>2, <1>4, <2>1, <2>2, ProceedStep
  <1> QED
    BY <1>1, <1>3, <1>4

LEMMA PatchOnStep ==
    ASSUME IInv, NEW t \in Threads, PatchOn(t)
    PROVE  IInv'
  <1>1. pc[t] = "patch-on"
    BY DEF PatchOn, At
  <1>2. channel = "bmc" /\ job[t].op = "apply" /\ Fits(T(t))
    BY <1>1, StepBelongs, TargetFits
  <1>3. /\ job[t].host \in Hosts /\ job[t] \in Jobs /\ SecretOK(t) /\ Typed
    BY <1>1, AtWork DEF IInv
  <1>4. PICK after : after = [T(t) EXCEPT !.on = TRUE, !.owner = "ours", !.secret = drawn + 1]
    OBVIOUS
  <1>5. Fits(after) /\ after.secret = drawn + 1
    <2>1. T(t) \in Targets /\ T(t).inbox = <<>> /\ drawn + 1 \in Nat
      BY <1>2, <1>3 DEF Fits, Typed
    <2>2. after \in Targets /\ after.secret = drawn + 1 /\ after.inbox = T(t).inbox
      BY <1>4, <2>1 DEF Targets
    <2> QED
      BY <1>2, <2>1, <2>2 DEF Fits
  <1>6. /\ drawn' = drawn + 1
        /\ UNCHANGED <<channel, probed, tunnel, last, grant, issued, restore, mixed, stale>>
        /\ \/ /\ target' = [target EXCEPT ![job[t].host] = after]
              /\ job' = [job EXCEPT ![t].secret = drawn + 1]
              /\ pc' = [pc EXCEPT ![t] = "read-on"]
              /\ mutex' = mutex
           \/ target' \in {target, [target EXCEPT ![job[t].host] = after]} /\ Fail(t)
    BY <1>3, <1>4 DEF PatchOn, Go, T, Typed, Targets
  <1>7. CASE Fail(t) /\ target' \in {target, [target EXCEPT ![job[t].host] = after]}
    BY <1>1, <1>2, <1>5, <1>6, <1>7, RequestFails
  <1>8. CASE /\ target' = [target EXCEPT ![job[t].host] = after]
             /\ job' = [job EXCEPT ![t].secret = drawn + 1]
             /\ pc' = [pc EXCEPT ![t] = "read-on"]
             /\ mutex' = mutex
    <2>1. /\ \A s \in Threads \ {t} : pc'[s] = pc[s] /\ job'[s] = job[s]
          /\ pc'[t] = "read-on" /\ job'[t].host = job[t].host /\ job'[t].op = job[t].op
          /\ job'[t].secret = drawn' /\ job' \in [Threads -> Jobs] /\ drawn' \in Nat
      BY <1>3, <1>6, <1>8 DEF Typed, Jobs
    <2>2. InDriver(t) /\ Lawful(t)
      BY <1>1, <1>2, <1>5, <1>6, <1>8, <2>1, TargetStep
    <2>3. UndoneOK(t)' /\ "read-on" \in StepsOf(channel) \ {"reestablish"} /\ job'[t].secret <= drawn'
      BY <1>2, <2>1 DEF UndoneOK, StepsOf
    <2>4. SecretOK(t)'
      <3>1. target'[job[t].host].secret = drawn'
        BY <1>3, <1>5, <1>6, <1>8 DEF Typed
      <3> QED
        BY <1>2, <1>3, <1>6, <2>1, <3>1 DEF SecretOK
    <2> QED
      BY <1>2, <1>8, <2>1, <2>2, <2>3, <2>4, MoveStep
  <1> QED
    BY <1>6, <1>7, <1>8

LEMMA ReadOnStep ==
    ASSUME IInv, NEW t \in Threads, ReadOn(t)
    PROVE  IInv'
  <1>1. /\ pc[t] = "read-on" /\ target' = target
        /\ UNCHANGED <<channel, probed, tunnel, grant, issued, restore, drawn, stale>>
        /\ (Done(t) /\ Remember(t)) \/ (Fail(t) /\ UNCHANGED <<last, mixed>>)
    BY DEF ReadOn, At
  <1>2. channel = "bmc" /\ job[t].op = "apply" /\ Fits(T(t)) /\ SecretOK(t)
    BY <1>1, StepBelongs, TargetFits, AtWork
  <1>3. CASE Fail(t) /\ UNCHANGED <<last, mixed>>
    BY <1>1, <1>2, <1>3, RequestFails
  <1>4. CASE Done(t) /\ Remember(t)
    <2>1. InDriver(t) /\ Lawful(t)
      BY <1>1, <1>2, <1>4, OneThread, TargetStep DEF Acts
    <2>2. Achieved(t)
      BY <1>1, <1>2, <1>4 DEF Achieved, SecretOK, Remember
    <2> QED
      BY <1>4, <2>1, <2>2, DoneStep
  <1> QED
    BY <1>1, <1>3, <1>4

LEMMA PatchOffStep ==
    ASSUME IInv, NEW t \in Threads, PatchOff(t)
    PROVE  IInv'
  <1>1. PICK after : after = [T(t) EXCEPT !.on = FALSE]
    OBVIOUS
  <1>2. /\ pc[t] = "patch-off" /\ (Fail(t) \/ Proceed(t, "read-off"))
        /\ target' \in {target, [target EXCEPT ![job[t].host] = after]}
        /\ UNCHANGED <<channel, probed, tunnel, last, grant, issued, restore, drawn, mixed, stale>>
    BY <1>1 DEF PatchOff, Request, At
  <1>3. channel = "bmc" /\ job[t].op \in {"unwind", "revert"} /\ Fits(T(t))
    BY <1>2, StepBelongs, TargetFits
  <1>4. Fits(after)
    BY <1>1, <1>3 DEF Fits, Targets
  <1>5. CASE Fail(t)
    BY <1>2, <1>3, <1>4, <1>5, RequestFails
  <1>6. CASE Proceed(t, "read-off")
    <2>1. InDriver(t) /\ Lawful(t)
      BY <1>2, <1>3, <1>4, <1>6, OneThread, TargetStep DEF Acts
    <2>2. UndoneOK(t)' /\ "read-off" \in StepsOf(channel)
      <3>1. pc'[t] = "read-off"
        BY <1>6 DEF Proceed, Go, IInv, Typed
      <3> QED
        BY <1>3, <3>1 DEF UndoneOK, StepsOf
    <2> QED
      BY <1>3, <1>6, <2>1, <2>2, ProceedStep
  <1> QED
    BY <1>2, <1>5, <1>6

LEMMA ReadOffStep ==
    ASSUME IInv, NEW t \in Threads, ReadOff(t)
    PROVE  IInv'
  <1>1. /\ pc[t] = "read-off" /\ (Fail(t) \/ (Done(t) /\ Reads(t, FALSE)))
        /\ target' \in {target, [target EXCEPT ![job[t].host] = T(t)]}
        /\ UNCHANGED <<channel, probed, tunnel, last, grant, issued, restore, drawn, mixed, stale>>
    BY DEF ReadOff, Request, At
  <1>2. channel = "bmc" /\ job[t].op \in {"unwind", "revert"} /\ Fits(T(t)) /\ target' = target
    BY <1>1, StepBelongs, TargetFits
  <1>3. CASE Fail(t)
    BY <1>1, <1>2, <1>3, RequestFails
  <1>4. CASE Done(t) /\ Reads(t, FALSE)
    <2>1. InDriver(t) /\ Lawful(t)
      BY <1>1, <1>2, <1>4, OneThread, TargetStep DEF Acts
    <2>2. Achieved(t)
      <3>1. SUFFICES ASSUME NEW h \in Hosts, h = job[t].host
                     PROVE  Off(h)'
        BY <1>2 DEF Achieved
      <3>2. ~target[h].on /\ TargetOK(h)
        BY <1>4, <3>1 DEF Reads, T, IInv, HostOK
      <3> QED
        BY <1>1, <1>2, <3>2 DEF Off, InForce, TargetOK
    <2> QED
      BY <1>4, <2>1, <2>2, DoneStep
  <1> QED
    BY <1>1, <1>3, <1>4

(***************************************************************************)
(* vnc.                                                                     *)
(***************************************************************************)
LEMMA StageStep ==
    ASSUME IInv, NEW t \in Threads, Stage(t)
    PROVE  IInv'
  <1>1. pc[t] = "stage"
    BY DEF Stage, At
  <1>2. channel = "vnc" /\ job[t].op = "apply" /\ Fits(T(t))
    BY <1>1, StepBelongs, TargetFits
  <1>3. /\ job[t].host \in Hosts /\ job[t] \in Jobs /\ SecretOK(t) /\ Typed
    BY <1>1, AtWork DEF IInv
  <1>4. PICK after : after = [T(t) EXCEPT !.staged = TRUE]
    OBVIOUS
  <1>5. Fits(after)
    BY <1>2, <1>4 DEF Fits, Targets
  <1>6. /\ drawn' = drawn + 1
        /\ UNCHANGED <<channel, probed, tunnel, last, grant, issued, restore, mixed, stale>>
        /\ \/ /\ target' = [target EXCEPT ![job[t].host] = after]
              /\ job' = [job EXCEPT ![t].secret = drawn + 1]
              /\ pc' = [pc EXCEPT ![t] = "set"]
              /\ mutex' = mutex
           \/ target' \in {target, [target EXCEPT ![job[t].host] = after]} /\ Fail(t)
    BY <1>3, <1>4 DEF Stage, Go, T, Typed, Targets
  <1>7. CASE Fail(t) /\ target' \in {target, [target EXCEPT ![job[t].host] = after]}
    BY <1>1, <1>2, <1>5, <1>6, <1>7, RequestFails
  <1>8. CASE /\ target' = [target EXCEPT ![job[t].host] = after]
             /\ job' = [job EXCEPT ![t].secret = drawn + 1]
             /\ pc' = [pc EXCEPT ![t] = "set"]
             /\ mutex' = mutex
    <2>1. /\ \A s \in Threads \ {t} : pc'[s] = pc[s] /\ job'[s] = job[s]
          /\ pc'[t] = "set" /\ job'[t].host = job[t].host /\ job'[t].op = job[t].op
          /\ job'[t].secret = drawn' /\ job' \in [Threads -> Jobs] /\ drawn' \in Nat
      BY <1>3, <1>6, <1>8 DEF Typed, Jobs
    <2>2. InDriver(t) /\ Lawful(t)
      BY <1>1, <1>2, <1>5, <1>6, <1>8, <2>1, TargetStep
    <2>3. /\ UndoneOK(t)' /\ SecretOK(t)' /\ job'[t].secret <= drawn'
          /\ "set" \in StepsOf(channel) \ {"reestablish"}
      BY <1>2, <1>3, <1>6, <2>1 DEF UndoneOK, SecretOK, StepsOf
    <2> QED
      BY <1>2, <1>8, <2>1, <2>2, <2>3, MoveStep
  <1> QED
    BY <1>6, <1>7, <1>8

LEMMA SetPasswordStep ==
    ASSUME IInv, NEW t \in Threads, SetPassword(t)
    PROVE  IInv'
  <1>1. pc[t] = "set"
    BY DEF SetPassword, At
  <1>2. channel = "vnc" /\ job[t].op = "apply" /\ Fits(T(t))
    BY <1>1, StepBelongs, TargetFits
  <1>3. /\ job[t].host \in Hosts /\ job[t] \in Jobs /\ SecretOK(t) /\ PlaceOK(t) /\ Typed
    BY <1>1, AtWork DEF IInv
  <1>4. PICK after : after = [T(t) EXCEPT !.secret = job[t].secret, !.on = TRUE]
    OBVIOUS
  <1>5. Fits(after) /\ after.secret = job[t].secret
    <2>1. T(t) \in Targets /\ job[t].secret \in Nat
      BY <1>2, <1>3 DEF Fits, Jobs
    <2>2. /\ after \in Targets /\ after.secret = job[t].secret
          /\ after.inbox = T(t).inbox /\ after.owner = T(t).owner
      BY <1>4, <2>1 DEF Targets
    <2> QED
      BY <1>2, <2>2 DEF Fits
  <1>6. /\ UNCHANGED <<channel, probed, tunnel, last, mutex, grant, issued, restore, drawn, mixed, stale>>
        /\ pc' = [pc EXCEPT ![t] = "unstage"]
        /\ \/ target' = [target EXCEPT ![job[t].host] = after] /\ job' = job
           \/ /\ target' \in {target, [target EXCEPT ![job[t].host] = after]}
              /\ job' = [job EXCEPT ![t].outcome = "failed"]
    BY <1>3, <1>4 DEF SetPassword, Go, T, Typed, Targets
  <1>7. /\ \A s \in Threads \ {t} : pc'[s] = pc[s] /\ job'[s] = job[s]
        /\ pc'[t] = "unstage" /\ job'[t].host = job[t].host /\ job'[t].op = job[t].op
        /\ job'[t].secret = job[t].secret /\ job' \in [Threads -> Jobs]
        /\ job' # job => job'[t].outcome = "failed"
    BY <1>3, <1>6 DEF Typed, Jobs, Outcomes
  <1>8. InDriver(t) /\ Lawful(t)
    BY <1>1, <1>2, <1>5, <1>6, <1>7, TargetStep
  <1>9. /\ UndoneOK(t)' /\ job'[t].secret <= drawn'
        /\ "unstage" \in StepsOf(channel) \ {"reestablish"}
    BY <1>2, <1>3, <1>6, <1>7 DEF UndoneOK, PlaceOK, StepsOf
  <1>10. SecretOK(t)'
    <2>1. job'[t].outcome # "failed" => target'[job[t].host].secret = job[t].secret
      BY <1>3, <1>5, <1>6, <1>7 DEF Typed, Jobs
    <2> QED
      BY <1>2, <1>3, <1>6, <1>7, <2>1 DEF SecretOK
  <1> QED
    BY <1>2, <1>6, <1>7, <1>8, <1>9, <1>10, MoveStep

LEMMA UnstageStep ==
    ASSUME IInv, NEW t \in Threads, Unstage(t)
    PROVE  IInv'
  <1>1. pc[t] = "unstage"
    BY DEF Unstage, At
  <1>2. channel = "vnc" /\ job[t].op = "apply" /\ Fits(T(t))
    BY <1>1, StepBelongs, TargetFits
  <1>3. /\ job[t].host \in Hosts /\ job[t] \in Jobs /\ SecretOK(t) /\ PlaceOK(t) /\ Typed
    BY <1>1, AtWork DEF IInv
  <1>4. PICK after : after = [T(t) EXCEPT !.staged = FALSE]
    OBVIOUS
  <1>5. Fits(after) /\ after.secret = T(t).secret
    BY <1>2, <1>4 DEF Fits, Targets
  <1>6. /\ UNCHANGED <<channel, probed, tunnel, last, grant, issued, restore, drawn, mixed, stale>>
        /\ target' \in {target, [target EXCEPT ![job[t].host] = after]}
        /\ Fail(t) \/ (job[t].outcome # "failed" /\ Proceed(t, "spawn"))
    BY <1>3, <1>4 DEF Unstage, T, Typed, Targets
  <1>7. CASE Fail(t)
    BY <1>1, <1>2, <1>5, <1>6, <1>7, RequestFails
  <1>8. CASE job[t].outcome # "failed" /\ Proceed(t, "spawn")
    <2>1. InDriver(t) /\ Lawful(t)
      BY <1>1, <1>2, <1>5, <1>6, <1>8, OneThread, TargetStep DEF Acts
    <2>2. /\ pc' = [pc EXCEPT ![t] = "spawn"] /\ mutex' = mutex /\ job' = job
          /\ pc'[t] = "spawn" /\ job' \in [Threads -> Jobs]
      BY <1>3, <1>8 DEF Proceed, Go, Typed
    <2>3. /\ UndoneOK(t)' /\ job'[t].secret <= drawn'
          /\ "spawn" \in StepsOf(channel) \ {"reestablish"}
      BY <1>2, <1>3, <1>6, <2>2 DEF UndoneOK, PlaceOK, StepsOf
    <2>4. SecretOK(t)'
      <3>1. target'[job[t].host].secret = target[job[t].host].secret
        BY <1>3, <1>5, <1>6 DEF Typed, T
      <3> QED
        BY <1>1, <1>2, <1>3, <1>6, <1>8, <2>2, <3>1 DEF SecretOK
    <2> QED
      BY <1>2, <2>1, <2>2, <2>3, <2>4, MoveStep
  <1> QED
    BY <1>6, <1>7, <1>8

\* A step that changes nothing but the forward.
LEMMA ForwardStep ==
    ASSUME IInv, NEW t \in Threads, pc[t] \in Steps, channel = "vnc", Acts(t),
           NEW state \in {"none", "connecting", "bound", "exited"},
           tunnel' \in {tunnel, [tunnel EXCEPT ![job[t].host] = state]},
           UNCHANGED <<channel, probed, target, grant, issued, restore, stale, drawn>>,
           UNCHANGED <<last, mixed>> \/ (Remember(t) /\ job[t].op = "apply")
    PROVE  InDriver(t) /\ Lawful(t)
  <1>1. PICK h \in Hosts : h = job[t].host
    BY AtWork
  <1>2. Typed /\ TargetOK(h) /\ NoSecrets
    BY DEF IInv, HostOK
  <1>3. InDriver(t)
    BY <1>1, <1>2, OneThread DEF InDriver, Typed
  <1>4. TargetOK(h)' /\ NoSecrets'
    BY <1>2 DEF TargetOK, NoSecrets
  <1> QED
    BY <1>1, <1>2, <1>3, <1>4 DEF Lawful, Typed

LEMMA SpawnStep ==
    ASSUME IInv, NEW t \in Threads, Spawn(t)
    PROVE  IInv'
  <1>1. /\ pc[t] = "spawn" /\ Proceed(t, "probe-port")
        /\ tunnel' = [tunnel EXCEPT ![job[t].host] = "connecting"]
        /\ UNCHANGED <<channel, probed, target, grant, issued, restore, stale, drawn, last, mixed>>
    BY DEF Spawn, At, Kept
  <1>2. channel = "vnc" /\ job[t].op \in {"apply", "reestablish"}
    BY <1>1, StepBelongs
  <1>3. /\ job[t].host \in Hosts /\ job[t] \in Jobs /\ SecretOK(t) /\ PlaceOK(t) /\ Typed
    BY <1>1, AtWork DEF IInv
  <1>4. InDriver(t) /\ Lawful(t)
    BY <1>1, <1>2, ForwardStep DEF Acts
  <1>5. /\ pc' = [pc EXCEPT ![t] = "probe-port"] /\ mutex' = mutex /\ job' = job
        /\ pc'[t] = "probe-port" /\ job' \in [Threads -> Jobs]
    BY <1>1, <1>3 DEF Proceed, Go, Typed
  <1>6. /\ UndoneOK(t)' /\ job'[t].secret <= drawn'
        /\ "probe-port" \in StepsOf(channel) \ {"reestablish"}
    BY <1>1, <1>2, <1>3, <1>5 DEF UndoneOK, PlaceOK, StepsOf
  <1>7. SecretOK(t)'
    BY <1>1, <1>3, <1>5 DEF SecretOK
  <1> QED
    BY <1>2, <1>4, <1>5, <1>6, <1>7, MoveStep

LEMMA ProbePortStep ==
    ASSUME IInv, NEW t \in Threads, ProbePort(t)
    PROVE  IInv'
  <1>1. /\ pc[t] = "probe-port" /\ tunnel' \in {tunnel, [tunnel EXCEPT ![job[t].host] = "none"]}
        /\ UNCHANGED <<channel, probed, target, grant, issued, restore, stale, drawn>>
        /\ \/ Done(t) /\ IF job[t].op = "apply" THEN Remember(t) ELSE UNCHANGED <<last, mixed>>
           \/ Fail(t) /\ UNCHANGED <<last, mixed>>
    BY DEF ProbePort, At, Kept
  <1>2. channel = "vnc" /\ job[t].op \in {"apply", "reestablish"} /\ SecretOK(t)
    BY <1>1, StepBelongs, AtWork
  <1>3. InDriver(t) /\ Lawful(t)
    BY <1>1, <1>2, ForwardStep DEF Acts
  <1>4. CASE Fail(t)
    BY <1>3, <1>4, FailStep
  <1>5. CASE Done(t) /\ IF job[t].op = "apply" THEN Remember(t) ELSE UNCHANGED <<last, mixed>>
    <2>1. Achieved(t)
      BY <1>1, <1>2, <1>5 DEF Achieved, SecretOK, Remember
    <2> QED
      BY <1>3, <1>5, <2>1, DoneStep
  <1> QED
    BY <1>1, <1>4, <1>5

LEMMA DownStep ==
    ASSUME IInv, NEW t \in Threads, Down(t)
    PROVE  IInv'
  <1>1. /\ pc[t] = "take-down" /\ Proceed(t, "port-free")
        /\ tunnel' = [tunnel EXCEPT ![job[t].host] = "none"]
        /\ UNCHANGED <<channel, probed, target, grant, issued, restore, stale, drawn, last, mixed>>
    BY DEF Down, At, Kept
  <1>2. channel = "vnc" /\ job[t].op \in {"unwind", "revert"}
    BY <1>1, StepBelongs
  <1>3. InDriver(t) /\ Lawful(t)
    BY <1>1, <1>2, ForwardStep DEF Acts
  <1>4. job[t].host \in Hosts /\ Typed
    BY <1>1, AtWork DEF IInv
  <1>5. UndoneOK(t)' /\ "port-free" \in StepsOf(channel)
    BY <1>1, <1>2, <1>4 DEF UndoneOK, StepsOf, Proceed, Go, Typed
  <1> QED
    BY <1>1, <1>2, <1>3, <1>5, ProceedStep

LEMMA PortFreeStep ==
    ASSUME IInv, NEW t \in Threads, PortFree(t)
    PROVE  IInv'
  <1>1. /\ pc[t] = "port-free" /\ (Fail(t) \/ Proceed(t, "clear"))
        /\ UNCHANGED <<channel, probed, target, tunnel, grant, issued, restore, stale, drawn, last, mixed>>
    BY DEF PortFree, At, Kept
  <1>2. channel = "vnc" /\ job[t].op \in {"unwind", "revert"} /\ UndoneOK(t)
    BY <1>1, StepBelongs, AtWork
  <1>3. InDriver(t) /\ Lawful(t)
    BY <1>1, <1>2, ForwardStep DEF Acts
  <1>4. CASE Fail(t)
    BY <1>3, <1>4, FailStep
  <1>5. CASE Proceed(t, "clear")
    <2>1. pc'[t] = "clear" /\ job' = job
      BY <1>5 DEF Proceed, Go, IInv, Typed
    <2>2. UndoneOK(t)' /\ "clear" \in StepsOf(channel)
      BY <1>1, <1>2, <2>1 DEF UndoneOK, StepsOf
    <2> QED
      BY <1>2, <1>3, <1>5, <2>2, ProceedStep
  <1> QED
    BY <1>1, <1>4, <1>5

LEMMA ClearStep ==
    ASSUME IInv, NEW t \in Threads, Clear(t)
    PROVE  IInv'
  <1>1. PICK after : after = [T(t) EXCEPT !.secret = NoSecret, !.on = FALSE]
    OBVIOUS
  <1>2. /\ pc[t] = "clear"
        /\ \/ Fail(t) /\ target' \in {target, [target EXCEPT ![job[t].host] = after]}
           \/ Proceed(t, "wipe") /\ target' = [target EXCEPT ![job[t].host] = after]
        /\ UNCHANGED <<channel, probed, tunnel, last, grant, issued, restore, drawn, mixed, stale>>
    BY <1>1 DEF Clear, Request, At
  <1>3. channel = "vnc" /\ job[t].op \in {"unwind", "revert"} /\ Fits(T(t)) /\ UndoneOK(t)
    BY <1>2, StepBelongs, TargetFits, AtWork
  <1>4. Fits(after) /\ after.on = FALSE
    BY <1>1, <1>3 DEF Fits, Targets
  <1>5. CASE Fail(t) /\ target' \in {target, [target EXCEPT ![job[t].host] = after]}
    BY <1>2, <1>3, <1>4, <1>5, RequestFails
  <1>6. CASE Proceed(t, "wipe") /\ target' = [target EXCEPT ![job[t].host] = after]
    <2>1. InDriver(t) /\ Lawful(t)
      BY <1>2, <1>3, <1>4, <1>6, OneThread, TargetStep DEF Acts
    <2>2. pc'[t] = "wipe" /\ job' = job /\ job[t].host \in Hosts /\ target'[job[t].host].on = FALSE
      BY <1>2, <1>4, <1>6, AtWork DEF Proceed, Go, IInv, Typed
    <2>3. UndoneOK(t)' /\ "wipe" \in StepsOf(channel)
      BY <1>2, <1>3, <2>2 DEF UndoneOK, StepsOf
    <2> QED
      BY <1>3, <1>6, <2>1, <2>3, ProceedStep
  <1> QED
    BY <1>2, <1>5, <1>6

LEMMA WipeStep ==
    ASSUME IInv, NEW t \in Threads, Wipe(t)
    PROVE  IInv'
  <1>1. PICK after : after = [T(t) EXCEPT !.staged = FALSE]
    OBVIOUS
  <1>2. pc[t] = "wipe"
    BY DEF Wipe, At
  <1>3. /\ channel = "vnc" /\ job[t].op \in {"unwind", "revert"} /\ Fits(T(t)) /\ UndoneOK(t)
        /\ job[t].host \in Hosts /\ Typed
    BY <1>2, StepBelongs, TargetFits, AtWork DEF IInv
  <1>4. Fits(after) /\ after.on = T(t).on
    BY <1>1, <1>3 DEF Fits, Targets
  <1>5. /\ UNCHANGED <<channel, probed, tunnel, last, grant, issued, restore, drawn, mixed, stale>>
        /\ target' \in {target, [target EXCEPT ![job[t].host] = after]}
        /\ Fail(t) \/ Done(t)
    BY <1>1, <1>3 DEF Wipe, T, Typed, Targets
  <1>6. CASE Fail(t)
    BY <1>2, <1>3, <1>4, <1>5, <1>6, RequestFails
  <1>7. CASE Done(t)
    <2>1. InDriver(t) /\ Lawful(t)
      BY <1>2, <1>3, <1>4, <1>5, <1>7, OneThread, TargetStep DEF Acts
    <2>2. Achieved(t)
      <3>1. SUFFICES ASSUME NEW h \in Hosts, h = job[t].host
                     PROVE  Off(h)'
        BY <1>3 DEF Achieved
      <3>2. target'[h].on = target[h].on /\ ~target[h].on /\ tunnel[h] = "none"
        BY <1>2, <1>3, <1>4, <1>5, <3>1 DEF UndoneOK, T, Typed
      <3>3. TargetOK(h)'
        BY <2>1, <3>1 DEF Lawful
      <3> QED
        BY <1>3, <1>5, <3>2, <3>3 DEF Off, InForce, TargetOK
    <2> QED
      BY <1>7, <2>1, <2>2, DoneStep
  <1> QED
    BY <1>5, <1>6, <1>7

(***************************************************************************)
(* http and serial, and mqtt: no password, and a probe only if there is one. *)
(***************************************************************************)
LEMMA NoPassword ==
    ASSUME IInv, NEW t \in Threads, InDriver(t), Lawful(t), channel \in {"http", "mqtt"},
           UNCHANGED <<last, mixed>>,
           ~probed \/ job[t].op = "apply"
    PROVE  Achieved(t)
  <1>1. drawn = 0 /\ last = NoSecret
    BY DEF IInv, NoSecrets, Typed
  <1>2. ASSUME NEW h \in Hosts, h = job[t].host
        PROVE  target'[h].secret = NoSecret
    BY <1>2 DEF Lawful, TargetOK, InDriver
  <1>3. probed => job[t].op \notin {"unwind", "revert"}
    OBVIOUS
  <1> QED
    BY <1>1, <1>2, <1>3 DEF Achieved

\* A command was accepted: there is a probe to come, or there is none.
LEMMA AcceptedStep ==
    ASSUME IInv, NEW t \in Threads, channel \in {"http", "mqtt"}, pc[t] \in Steps,
           NEW step \in StepsOf(channel), step \in {"probe-on", "poll-on", "probe-off", "poll-off"},
           IF probed THEN Proceed(t, step) ELSE Done(t),
           job[t].op = "apply" => step \in {"probe-on", "poll-on"},
           job[t].op \in {"unwind", "revert"} => step \in {"probe-off", "poll-off"},
           job[t].op # "reestablish",
           NEW after, Fits(after), target' \in {target, [target EXCEPT ![job[t].host] = after]},
           UNCHANGED <<channel, probed, tunnel, last, grant, issued, restore, drawn, mixed, stale>>
    PROVE  IInv'
  <1>1. step \in Steps
    OBVIOUS
  <1>2. Acts(t)
    BY <1>1 DEF Acts
  <1>3. InDriver(t) /\ Lawful(t)
    BY <1>2, OneThread, TargetStep
  <1>4. CASE probed
    <2>1. pc'[t] = step
      BY <1>4 DEF Proceed, Go, IInv, Typed
    <2>2. UndoneOK(t)'
      BY <2>1 DEF UndoneOK
    <2> QED
      BY <1>3, <1>4, <2>2, ProceedStep
  <1>5. CASE ~probed
    BY <1>3, <1>5, NoPassword, DoneStep
  <1> QED
    BY <1>4, <1>5

LEMMA OrderedStep ==
    ASSUME IInv, NEW t \in Threads, NEW on \in BOOLEAN, NEW step \in {"request-on", "request-off"},
           NEW next \in {"probe-on", "probe-off"}, step = "request-on" <=> next = "probe-on",
           Ordered(t, step, on, next)
    PROVE  IInv'
  <1>1. PICK after : after = [T(t) EXCEPT !.on = on]
    OBVIOUS
  <1>2. /\ pc[t] = step
        /\ target' \in {target, [target EXCEPT ![job[t].host] = after]}
        /\ (IF probed THEN Proceed(t, next) ELSE Done(t)) \/ Fail(t)
        /\ UNCHANGED <<channel, probed, tunnel, last, grant, issued, restore, drawn, mixed, stale>>
    BY <1>1 DEF Ordered, Request, At
  <1>3. /\ channel = "http" /\ Fits(T(t))
        /\ step = "request-on" => job[t].op = "apply"
        /\ step = "request-off" => job[t].op \in {"unwind", "revert"}
    BY <1>2, StepBelongs, TargetFits
  <1>4. Fits(after)
    BY <1>1, <1>3 DEF Fits, Targets
  <1>5. CASE Fail(t)
    BY <1>2, <1>3, <1>4, <1>5, RequestFails
  <1>6. CASE IF probed THEN Proceed(t, next) ELSE Done(t)
    <2>1. next \in StepsOf(channel) /\ pc[t] \in Steps
      BY <1>2, <1>3 DEF StepsOf
    <2> QED
      BY <1>2, <1>3, <1>4, <1>6, <2>1, AcceptedStep
  <1> QED
    BY <1>2, <1>5, <1>6

LEMMA ProbeOnStep ==
    ASSUME IInv, NEW t \in Threads, ProbeOn(t)
    PROVE  IInv'
  <1>1. /\ pc[t] = "probe-on" /\ (Fail(t) \/ Done(t))
        /\ target' \in {target, [target EXCEPT ![job[t].host] = T(t)]}
        /\ UNCHANGED <<channel, probed, tunnel, last, grant, issued, restore, drawn, mixed, stale>>
    BY DEF ProbeOn, Request, At
  <1>2. channel = "http" /\ job[t].op = "apply" /\ Fits(T(t))
    BY <1>1, StepBelongs, TargetFits
  <1>3. InDriver(t) /\ Lawful(t)
    BY <1>1, <1>2, OneThread, TargetStep DEF Acts
  <1> QED
    BY <1>1, <1>2, <1>3, NoPassword, FailStep, DoneStep

LEMMA ProbeOffStep ==
    ASSUME IInv, NEW t \in Threads, ProbeOff(t)
    PROVE  IInv'
  <1>1. /\ pc[t] = "probe-off" /\ (Fail(t) \/ (Done(t) /\ ~T(t).on))
        /\ target' \in {target, [target EXCEPT ![job[t].host] = T(t)]}
        /\ UNCHANGED <<channel, probed, tunnel, last, grant, issued, restore, drawn, mixed, stale>>
    BY DEF ProbeOff, Request, At
  <1>2. channel = "http" /\ job[t].op \in {"unwind", "revert"} /\ Fits(T(t)) /\ target' = target
    BY <1>1, StepBelongs, TargetFits
  <1>3. InDriver(t) /\ Lawful(t)
    BY <1>1, <1>2, OneThread, TargetStep DEF Acts
  <1>4. ASSUME ~T(t).on
        PROVE  Achieved(t)
    <2>1. SUFFICES ASSUME NEW h \in Hosts, h = job[t].host
                   PROVE  Off(h)'
      BY <1>2 DEF Achieved
    <2>2. ~target[h].on /\ TargetOK(h)
      BY <1>4, <2>1 DEF T, IInv, HostOK
    <2> QED
      BY <1>1, <1>2, <2>2 DEF Off, InForce, TargetOK
  <1> QED
    BY <1>1, <1>3, <1>4, FailStep, DoneStep

LEMMA PublishStep ==
    ASSUME IInv, NEW t \in Threads, NEW command \in {"open", "revert"},
           NEW step \in {"publish-on", "publish-off"},
           NEW next \in {"poll-on", "poll-off"}, step = "publish-on" <=> next = "poll-on",
           Publish(t, step, command, next)
    PROVE  IInv'
  <1>1. PICK after : after = [T(t) EXCEPT !.inbox = Append(T(t).inbox, command)]
    OBVIOUS
  <1>2. pc[t] = step
    BY DEF Publish, At
  <1>3. /\ channel = "mqtt" /\ Fits(T(t))
        /\ step = "publish-on" => job[t].op = "apply"
        /\ step = "publish-off" => job[t].op \in {"unwind", "revert"}
    BY <1>2, StepBelongs, TargetFits
  <1>4. Fits(after)
    <2>1. T(t) \in Targets /\ Append(T(t).inbox, command) \in Seq({"open", "revert"})
      BY <1>3 DEF Fits, Targets
    <2>2. /\ after \in Targets /\ after.on = T(t).on /\ after.topic = T(t).topic
          /\ after.owner = T(t).owner /\ after.secret = T(t).secret
      BY <1>1, <2>1 DEF Targets
    <2> QED
      BY <1>3, <2>2 DEF Fits
  <1>5. /\ target' \in {target, [target EXCEPT ![job[t].host] = after]}
        /\ (IF probed THEN Proceed(t, next) ELSE Done(t)) \/ Fail(t)
        /\ UNCHANGED <<channel, probed, tunnel, last, grant, issued, restore, drawn, mixed, stale>>
    BY <1>1 DEF Publish, Request
  <1>6. CASE Fail(t)
    BY <1>2, <1>3, <1>4, <1>5, <1>6, RequestFails
  <1>7. CASE IF probed THEN Proceed(t, next) ELSE Done(t)
    <2>1. next \in StepsOf(channel) /\ pc[t] \in Steps
      BY <1>2, <1>3 DEF StepsOf
    <2> QED
      BY <1>2, <1>3, <1>4, <1>5, <1>7, <2>1, AcceptedStep
  <1> QED
    BY <1>5, <1>6, <1>7

LEMMA PollStep ==
    ASSUME IInv, NEW t \in Threads, NEW step \in {"poll-on", "poll-off"}, NEW want \in {"open", "closed"},
           step = "poll-on" <=> want = "open", Poll(t, step, want)
    PROVE  IInv'
  <1>1. /\ pc[t] = step /\ target' = target
        /\ Fail(t) \/ (Done(t) /\ T(t).topic = want)
        /\ stale' = IF Current(job[t].host) THEN stale \ {job[t].host} ELSE stale \union {job[t].host}
        /\ UNCHANGED <<channel, probed, tunnel, last, grant, issued, restore, drawn, mixed>>
    BY DEF Poll, At
  <1>2. /\ channel = "mqtt"
        /\ step = "poll-on" => job[t].op = "apply"
        /\ step = "poll-off" => job[t].op \in {"unwind", "revert"}
    BY <1>1, StepBelongs
  <1>3. PICK h \in Hosts : h = job[t].host
    BY <1>1, AtWork
  <1>4. Typed /\ TargetOK(h) /\ NoSecrets
    BY DEF IInv, HostOK
  <1>5. InDriver(t) /\ Lawful(t)
    <2>1. InDriver(t)
      BY <1>1, OneThread DEF InDriver, Acts
    <2>2. TargetOK(h)' /\ NoSecrets'
      BY <1>1, <1>4 DEF TargetOK, NoSecrets
    <2> QED
      BY <1>1, <1>3, <1>4, <2>1, <2>2 DEF Lawful, Typed
  <1>6. ASSUME T(t).topic = want
        PROVE  Achieved(t)
    <2>1. CASE job[t].op = "apply"
      BY <1>1, <1>2, <1>5, <2>1, NoPassword
    <2>2. CASE job[t].op # "apply"
      <3>1. job[t].op \in {"unwind", "revert"} /\ T(t).topic = "closed"
        BY <1>1, <1>2, <1>6, <2>2
      <3>2. target[h].owner = "nobody" /\ tunnel[h] = "none"
        BY <1>2, <1>4 DEF TargetOK
      <3>3. h \notin stale' => ~target[h].on /\ target[h].inbox = <<>>
        BY <1>1, <1>3, <3>1 DEF T, Current
      <3>4. h \notin stale' => Off(h)'
        BY <1>1, <1>2, <3>2, <3>3 DEF Off, InForce
      <3> QED
        BY <1>3, <3>1, <3>4 DEF Achieved
    <2> QED
      BY <2>1, <2>2
  <1> QED
    BY <1>1, <1>5, <1>6, FailStep, DoneStep

(***************************************************************************)
(* lifecycle.rs around the drivers.                                         *)
(***************************************************************************)
LEMMA Employed ==
    ASSUME IInv, NEW t \in Threads, Working(t)
    PROVE  /\ job[t].host \in Hosts /\ job[t] \in Jobs
           /\ PlaceOK(t) /\ OutcomeOK(t) /\ UndoneOK(t) /\ SecretOK(t)
           /\ grant[job[t].host] = GrantOf(t)
           /\ job[t].op \in {"apply", "unwind", "revert", "reestablish"}
           /\ \A s \in Threads \ {t} : Working(s) => job[s].host # job[t].host
           /\ restore # {} => job[t].op = "reestablish" /\ job[t].host \notin restore
  <1>1. ThreadOK(t) /\ job[t] \in Jobs /\ Apart /\ RestoreOK
    BY DEF IInv, Typed
  <1> QED
    BY <1>1 DEF ThreadOK, PlaceOK, Jobs, Ops, Apart, RestoreOK

LEMMA LockStep ==
    ASSUME IInv, NEW t \in Threads, Lock(t)
    PROVE  IInv'
  <1>1. /\ pc[t] \in {"apply", "revert"} /\ mutex = None /\ mutex' = t
        /\ pc' = [pc EXCEPT ![t] = FirstOf(pc[t])]
        /\ UNCHANGED <<channel, probed, target, tunnel, last, grant, job, issued, restore, drawn, mixed, stale>>
    BY DEF Lock, Go
  <1>2. Typed /\ Working(t) /\ NoSecrets
    BY <1>1 DEF IInv, Working
  <1>3. PICK h \in Hosts : h = job[t].host
    BY <1>2, Employed
  <1>4. /\ PlaceOK(t) /\ SecretOK(t) /\ grant[h] = GrantOf(t)
        /\ job[t].op \in {"apply", "unwind", "revert", "reestablish"}
        /\ \A s \in Threads \ {t} : Working(s) => job[s].host # h
        /\ restore # {} => job[t].op = "reestablish" /\ h \notin restore
    BY <1>2, <1>3, Employed
  <1>5. PICK step : step = FirstOf(pc[t])
    OBVIOUS
  <1>6. /\ step \in StepsOf(channel) /\ step \in Steps
        /\ pc[t] = "apply" => step \in {"get", "stage", "request-on", "publish-on"}
        /\ pc[t] = "revert" => step \in {"patch-off", "take-down", "request-off", "publish-off"}
    BY <1>1, <1>2, <1>5 DEF Typed, FirstOf, StepsOf
  <1>7. pc'[t] = step /\ pc' \in [Threads -> Steps \union Outside]
    BY <1>1, <1>2, <1>5, <1>6 DEF Typed
  <1>8. job[t].op = pc[t]
    BY <1>1, <1>4 DEF PlaceOK
  <1>9. ThreadOK(t)'
    <2>1. PlaceOK(t)'
      <3>1. StepsOf(channel') = StepsOf(channel)
        BY <1>1
      <3> QED
        BY <1>1, <1>4, <1>6, <1>7, <1>8, <3>1 DEF PlaceOK
    <2>2. OutcomeOK(t)' /\ UndoneOK(t)' /\ SecretOK(t)'
      BY <1>1, <1>4, <1>6, <1>7, <1>8 DEF OutcomeOK, UndoneOK, SecretOK
    <2>3. grant'[job'[t].host] = GrantOf(t)'
      BY <1>1, <1>3, <1>4, <1>6, <1>7, <1>8 DEF GrantOf
    <2> QED
      BY <1>1, <1>6, <1>7, <2>1, <2>2, <2>3 DEF ThreadOK, Working
  <1>10. Typed'
    BY <1>1, <1>2, <1>7 DEF Typed
  <1>11. LocalTo(t, h)
    <2>1. \A s \in Threads \ {t} : Unmoved(s)
      BY <1>1, <1>2, DriversAssumption DEF Unmoved, Typed
    <2>2. \A k \in Hosts \ {h} : Untouched(k)
      BY <1>1 DEF Untouched
    <2> QED
      BY <1>1, <1>2, <2>1, <2>2 DEF LocalTo, Typed
  <1>12. TargetOK(h)' /\ ClosedOK(h)' /\ WorksAt(h)' /\ NoSecrets'
    BY <1>1 DEF IInv, HostOK, TargetOK, ClosedOK, WorksAt, Off, InForce, NoSecrets
  <1>13. Working(t)' /\ pc[t] # "down" /\ pc'[t] # "down" /\ job'[t].host = h
    BY <1>1, <1>3, <1>6, <1>7 DEF Working
  <1>14. restore' \subseteq restore /\ (restore' # {} => h \notin restore' /\ job'[t].op = "reestablish")
    BY <1>1, <1>4
  <1> QED
    BY <1>2, <1>3, <1>4, <1>9, <1>10, <1>11, <1>12, <1>13, <1>14, LocalStep

LEMMA CommitStep ==
    ASSUME IInv, NEW t \in Threads, Commit(t)
    PROVE  IInv'
  <1>1. /\ pc[t] = "commit" /\ grant' = [grant EXCEPT ![job[t].host] = job[t].outcome]
        /\ UNCHANGED <<channel, probed, target, tunnel, last, mutex, issued, restore, drawn, mixed, stale>>
        /\ \/ job[t].op = "apply" /\ pc' = [pc EXCEPT ![t] = "take"] /\ job' = job
           \/ job[t].op # "apply" /\ pc' = [pc EXCEPT ![t] = "idle"] /\ job' = [job EXCEPT ![t] = Idle]
    BY DEF Commit, At, Go, Rest
  <1>2. Typed /\ Working(t) /\ NoSecrets
    BY <1>1 DEF IInv, Working
  <1>3. PICK h \in Hosts : h = job[t].host
    BY <1>2, Employed
  <1>4. /\ PlaceOK(t) /\ OutcomeOK(t) /\ UndoneOK(t) /\ SecretOK(t) /\ grant[h] = GrantOf(t)
        /\ job[t] \in Jobs /\ job[t].op \in {"apply", "unwind", "revert", "reestablish"}
        /\ \A s \in Threads \ {t} : Working(s) => job[s].host # h
        /\ restore # {} => job[t].op = "reestablish" /\ h \notin restore
    BY <1>2, <1>3, Employed
  <1>5. job[t].outcome \in {"closed", "open", "needs-revert"}
    BY <1>1, <1>4 DEF OutcomeOK, Jobs, Outcomes
  <1>6. /\ grant' \in [Hosts -> States] /\ grant'[h] = job[t].outcome
        /\ \A k \in Hosts \ {h} : grant'[k] = grant[k]
    BY <1>1, <1>2, <1>3, <1>5 DEF Typed
  <1>7. /\ \A s \in Threads \ {t} : pc'[s] = pc[s] /\ job'[s] = job[s]
        /\ pc' \in [Threads -> Steps \union Outside] /\ job' \in [Threads -> Jobs]
    BY <1>1, <1>2 DEF Typed, Jobs, Idle, Ops, Outcomes
  <1>8. \/ job[t].op = "apply" /\ pc'[t] = "take" /\ job'[t] = job[t]
        \/ job[t].op # "apply" /\ pc'[t] = "idle" /\ job'[t] = Idle
    BY <1>1, <1>2 DEF Typed
  <1>9. mutex # t
    BY <1>1 DEF IInv, ThreadOK
  <1>10. ThreadOK(t)' /\ (Working(t)' => job'[t].host = h /\ job'[t].op = "apply")
    <2>1. CASE job[t].op = "apply" /\ pc'[t] = "take" /\ job'[t] = job[t]
      <3>1. PlaceOK(t)'
        BY <1>1, <1>4, <2>1 DEF PlaceOK
      <3>2. OutcomeOK(t)' /\ UndoneOK(t)' /\ SecretOK(t)'
        BY <1>1, <1>4, <2>1 DEF OutcomeOK, UndoneOK, SecretOK
      <3>3. grant'[job'[t].host] = GrantOf(t)'
        BY <1>1, <1>3, <1>4, <1>6, <2>1 DEF OutcomeOK, GrantOf
      <3> QED
        BY <1>1, <1>3, <1>9, <2>1, <3>1, <3>2, <3>3 DEF ThreadOK, Working
    <2>2. CASE job[t].op # "apply" /\ pc'[t] = "idle" /\ job'[t] = Idle
      BY <1>1, <1>9, <2>2 DEF ThreadOK, Working
    <2> QED
      BY <1>8, <2>1, <2>2
  <1>11. Typed'
    BY <1>1, <1>2, <1>6, <1>7 DEF Typed
  <1>12. LocalTo(t, h)
    <2>1. \A s \in Threads \ {t} : Unmoved(s)
      BY <1>1, <1>7 DEF Unmoved
    <2>2. \A k \in Hosts \ {h} : Untouched(k)
      BY <1>1, <1>6 DEF Untouched
    <2> QED
      BY <1>1, <1>2, <2>1, <2>2 DEF LocalTo, Typed
  <1>13. TargetOK(h)' /\ NoSecrets'
    BY <1>1 DEF IInv, HostOK, TargetOK, NoSecrets
  <1>14. ClosedOK(h)'
    BY <1>1, <1>3, <1>4, <1>6 DEF ClosedOK, UndoneOK, Off, InForce
  <1>15. WorksAt(h)'
    <2>1. CASE job[t].op = "apply"
      BY <1>1, <1>3, <1>4, <2>1 DEF SecretOK, WorksAt
    <2>2. CASE job[t].op = "reestablish"
      BY <1>1, <1>4, <2>2 DEF GrantOf, WorksAt, IInv, HostOK
    <2>3. CASE job[t].op \in {"unwind", "revert"}
      BY <1>1, <1>4, <1>6, <2>3 DEF OutcomeOK, WorksAt
    <2> QED
      BY <1>4, <2>1, <2>2, <2>3
  <1>16. /\ pc[t] # "down" /\ pc'[t] # "down" /\ grant'[h] # "opening"
         /\ restore' \subseteq restore /\ (restore' # {} => h \notin restore' /\ ~Working(t)')
    BY <1>1, <1>4, <1>5, <1>6, <1>8, <1>10 DEF Working
  <1> QED
    BY <1>2, <1>3, <1>4, <1>10, <1>11, <1>12, <1>13, <1>14, <1>15, <1>16, LocalStep

LEMMA TakeSecretStep ==
    ASSUME IInv, NEW t \in Threads, TakeSecret(t)
    PROVE  IInv'
  <1>1. /\ pc[t] = "take" /\ mutex = None /\ last' = NoSecret
        /\ issued' = [issued EXCEPT ![job[t].host] = last]
        /\ pc' = [pc EXCEPT ![t] = "idle"] /\ job' = [job EXCEPT ![t] = Idle]
        /\ UNCHANGED <<channel, probed, target, tunnel, mutex, grant, restore, drawn, mixed, stale>>
    BY DEF TakeSecret, At, Go, Rest
  <1>2. Typed /\ Working(t) /\ NoSecrets
    BY <1>1 DEF IInv, Working
  <1>3. PICK h \in Hosts : h = job[t].host
    BY <1>2, Employed
  <1>4. /\ PlaceOK(t) /\ SecretOK(t) /\ grant[h] = GrantOf(t)
        /\ job[t] \in Jobs /\ job[t].op \in {"apply", "unwind", "revert", "reestablish"}
        /\ \A s \in Threads \ {t} : Working(s) => job[s].host # h
        /\ restore # {} => job[t].op = "reestablish" /\ h \notin restore
    BY <1>2, <1>3, Employed
  <1>5. job[t].op = "apply" /\ grant[h] = "open"
    BY <1>1, <1>4 DEF PlaceOK, GrantOf
  <1>6. /\ issued' \in [Hosts -> 0 .. drawn] /\ issued'[h] = last
        /\ \A k \in Hosts \ {h} : issued'[k] = issued[k]
    BY <1>1, <1>2, <1>3 DEF Typed
  <1>7. /\ \A s \in Threads \ {t} : pc'[s] = pc[s] /\ job'[s] = job[s]
        /\ pc' \in [Threads -> Steps \union Outside] /\ job' \in [Threads -> Jobs]
        /\ pc'[t] = "idle" /\ job'[t] = Idle
    BY <1>1, <1>2 DEF Typed, Jobs, Idle, Ops, Outcomes
  <1>8. ThreadOK(t)' /\ ~Working(t)'
    BY <1>1, <1>7, DriversAssumption DEF ThreadOK, Working
  <1>9. Typed'
    BY <1>1, <1>2, <1>6, <1>7 DEF Typed
  <1>10. LocalTo(t, h)
    <2>1. \A s \in Threads \ {t} : Unmoved(s)
      BY <1>1, <1>7 DEF Unmoved
    <2>2. \A k \in Hosts \ {h} : Untouched(k)
      BY <1>1, <1>6 DEF Untouched
    <2> QED
      BY <1>1, <1>2, <2>1, <2>2 DEF LocalTo, Typed
  <1>11. TargetOK(h)' /\ NoSecrets' /\ ClosedOK(h)'
    BY <1>1, <1>5 DEF IInv, HostOK, TargetOK, NoSecrets, ClosedOK
  <1>12. WorksAt(h)'
    <2>1. h \notin mixed => last \in {NoSecret, job[t].secret} /\ target[h].secret \in {NoSecret, job[t].secret}
      BY <1>1, <1>3, <1>4, <1>5 DEF SecretOK
    <2> QED
      BY <1>1, <1>6, <2>1 DEF WorksAt
  <1>13. /\ pc[t] # "down" /\ pc'[t] # "down" /\ grant'[h] # "opening"
         /\ restore' \subseteq restore /\ (restore' # {} => h \notin restore' /\ ~Working(t)')
    BY <1>1, <1>4, <1>5, <1>7, <1>8
  <1> QED
    BY <1>2, <1>3, <1>4, <1>8, <1>9, <1>10, <1>11, <1>12, <1>13, LocalStep

\* A thread starts on a host that nobody is at work on.
LEMMA TakeStep ==
    ASSUME IInv, NEW t \in Threads, NEW h \in Hosts, NEW op \in {"apply", "revert"},
           NEW state \in {"opening", "needs-revert"}, op = "apply" <=> state = "opening",
           Take(t, h, op, state), issued' \in [Hosts -> 0 .. drawn],
           op = "apply" => issued'[h] = NoSecret,
           \A k \in Hosts \ {h} : issued'[k] = issued[k] /\ (k \in stale' <=> k \in stale)
    PROVE  IInv'
  <1>1. /\ pc[t] = "idle" /\ restore = {}
        /\ job' = [job EXCEPT ![t] = [Idle EXCEPT !.host = h, !.op = op]]
        /\ grant' = [grant EXCEPT ![h] = state] /\ pc' = [pc EXCEPT ![t] = op]
        /\ UNCHANGED <<channel, probed, target, tunnel, last, mutex, restore, drawn, mixed>>
    BY DEF Take, At, Go
  <1>2. Typed /\ NoSecrets /\ mutex # t
    BY <1>1 DEF IInv, ThreadOK
  <1>3. \A s \in Threads \ {t} : Working(s) => job[s].host # h
    BY DEF Take, Free, Working
  <1>4. PICK new : new = [Idle EXCEPT !.host = h, !.op = op]
    OBVIOUS
  <1>5. new \in Jobs /\ new.host = h /\ new.op = op /\ new.secret = 0
    BY <1>4 DEF Idle, Jobs, Ops, Outcomes
  <1>6. /\ \A s \in Threads \ {t} : pc'[s] = pc[s] /\ job'[s] = job[s]
        /\ pc' \in [Threads -> Steps \union Outside] /\ job' \in [Threads -> Jobs]
        /\ pc'[t] = op /\ job'[t] = new
    BY <1>1, <1>2, <1>4, <1>5 DEF Typed
  <1>7. /\ grant' \in [Hosts -> States] /\ grant'[h] = state
        /\ \A k \in Hosts \ {h} : grant'[k] = grant[k]
    BY <1>1, <1>2 DEF Typed
  <1>8. ThreadOK(t)' /\ Working(t)' /\ job'[t].host = h
    <2>1. PlaceOK(t)'
      <3>1. 0 <= drawn'
        BY <1>1, <1>2 DEF Typed
      <3>2. op \notin Steps
        OBVIOUS
      <3> QED
        BY <1>5, <1>6, <3>1, <3>2 DEF PlaceOK
    <2>2. OutcomeOK(t)' /\ UndoneOK(t)' /\ SecretOK(t)'
      BY <1>5, <1>6 DEF OutcomeOK, UndoneOK, SecretOK
    <2>3. grant'[job'[t].host] = GrantOf(t)'
      BY <1>5, <1>6, <1>7 DEF GrantOf
    <2> QED
      BY <1>1, <1>2, <1>5, <1>6, <2>1, <2>2, <2>3 DEF ThreadOK, Working
  <1>9. Typed'
    BY <1>1, <1>2, <1>6, <1>7 DEF Typed
  <1>10. LocalTo(t, h)
    <2>1. \A s \in Threads \ {t} : Unmoved(s)
      BY <1>1, <1>6 DEF Unmoved
    <2>2. \A k \in Hosts \ {h} : Untouched(k)
      BY <1>1, <1>7 DEF Untouched
    <2> QED
      BY <1>1, <1>2, <2>1, <2>2 DEF LocalTo, Typed
  <1>11. TargetOK(h)' /\ NoSecrets' /\ ClosedOK(h)' /\ WorksAt(h)'
    BY <1>1, <1>7 DEF IInv, HostOK, TargetOK, NoSecrets, ClosedOK, WorksAt
  <1>12. pc[t] # "down" /\ pc'[t] # "down" /\ restore' = {} /\ restore' \subseteq restore /\ ~Working(t)
    BY <1>1, <1>6 DEF Working
  <1> QED
    BY <1>3, <1>8, <1>9, <1>10, <1>11, <1>12, LocalStep

LEMMA OpenStep ==
    ASSUME IInv, NEW t \in Threads, NEW h \in Hosts, Open(t, h)
    PROVE  IInv'
  <1>1. drawn \in Nat /\ issued \in [Hosts -> 0 .. drawn]
    BY DEF IInv, Typed
  <1>2. /\ issued' \in [Hosts -> 0 .. drawn] /\ issued'[h] = NoSecret
        /\ \A k \in Hosts \ {h} : issued'[k] = issued[k] /\ (k \in stale' <=> k \in stale)
    BY <1>1 DEF Open
  <1> QED
    BY <1>2, TakeStep DEF Open

LEMMA RevertStep ==
    ASSUME IInv, NEW t \in Threads, NEW h \in Hosts, Revert(t, h)
    PROVE  IInv'
  <1>1. issued' = issued /\ stale' = stale /\ issued \in [Hosts -> 0 .. drawn]
    BY DEF Revert, IInv, Typed
  <1> QED
    BY <1>1, TakeStep DEF Revert

LEMMA ReestablishStep ==
    ASSUME IInv, NEW t \in Threads, NEW h \in Hosts, Reestablish(t, h)
    PROVE  IInv'
  <1>1. /\ pc[t] = "idle" /\ mutex = None /\ h \in restore /\ restore' = restore \ {h}
        /\ UNCHANGED <<channel, probed, target, tunnel, last, issued, drawn, mixed, stale>>
    BY DEF Reestablish, At
  <1>2. /\ Typed /\ NoSecrets /\ grant[h] = "open" /\ job[t] = Idle
        /\ \A s \in Threads \ {t} : Working(s) => job[s].host # h
        /\ TargetOK(h) /\ WorksAt(h)
    BY <1>1 DEF IInv, RestoreOK, ThreadOK, Working, HostOK
  <1>3. pc[t] # "down" /\ ~Working(t) /\ restore' \subseteq restore /\ h \notin restore'
    BY <1>1 DEF Working
  <1>4. TargetOK(h)' /\ NoSecrets'
    BY <1>1, <1>2 DEF TargetOK, NoSecrets
  <1>5. CASE channel = "vnc"
    <2>1. /\ mutex' = t /\ job' = [job EXCEPT ![t] = [Idle EXCEPT !.host = h, !.op = "reestablish"]]
          /\ pc' = [pc EXCEPT ![t] = "spawn"] /\ grant' = grant
      BY <1>5 DEF Reestablish, Go
    <2>2. PICK new : new = [Idle EXCEPT !.host = h, !.op = "reestablish"]
      OBVIOUS
    <2>3. new \in Jobs /\ new.host = h /\ new.op = "reestablish" /\ new.secret = 0
      BY <2>2 DEF Idle, Jobs, Ops, Outcomes
    <2>4. /\ \A s \in Threads \ {t} : pc'[s] = pc[s] /\ job'[s] = job[s]
          /\ pc' \in [Threads -> Steps \union Outside] /\ job' \in [Threads -> Jobs]
          /\ pc'[t] = "spawn" /\ job'[t] = new
      BY <1>2, <2>1, <2>2, <2>3 DEF Typed
    <2>5. ThreadOK(t)' /\ Working(t)' /\ job'[t].host = h
      <3>1. PlaceOK(t)'
        BY <1>1, <1>2, <1>5, <2>3, <2>4 DEF PlaceOK, Typed, StepsOf
      <3>2. OutcomeOK(t)' /\ UndoneOK(t)' /\ SecretOK(t)'
        BY <2>3, <2>4 DEF OutcomeOK, UndoneOK, SecretOK
      <3>3. grant'[job'[t].host] = GrantOf(t)'
        BY <1>2, <2>1, <2>3, <2>4 DEF GrantOf
      <3> QED
        BY <2>1, <2>3, <2>4, <3>1, <3>2, <3>3 DEF ThreadOK, Working
    <2>6. Typed'
      BY <1>1, <1>2, <2>1, <2>4 DEF Typed
    <2>7. LocalTo(t, h)
      <3>1. \A s \in Threads \ {t} : Unmoved(s)
        BY <1>1, <2>1, <2>4, DriversAssumption DEF Unmoved
      <3>2. \A k \in Hosts \ {h} : Untouched(k)
        BY <1>1, <2>1 DEF Untouched
      <3> QED
        BY <1>1, <1>2, <3>1, <3>2 DEF LocalTo, Typed
    <2>8. ClosedOK(h)' /\ WorksAt(h)'
      BY <1>1, <1>2, <2>1 DEF ClosedOK, WorksAt
    <2>9. job'[t].op = "reestablish" /\ pc'[t] # "down"
      BY <2>3, <2>4
    <2> QED
      BY <1>2, <1>3, <1>4, <2>5, <2>6, <2>7, <2>8, <2>9, LocalStep
  <1>6. CASE channel # "vnc"
    <2>1. /\ mutex' = mutex /\ job' = job /\ pc' = pc
          /\ grant' \in {grant, [grant EXCEPT ![h] = "needs-revert"]}
      BY <1>6 DEF Reestablish, Lose
    <2>2. /\ grant' \in [Hosts -> States] /\ grant'[h] \in {"open", "needs-revert"}
          /\ \A k \in Hosts \ {h} : grant'[k] = grant[k]
      BY <1>2, <2>1 DEF Typed
    <2>3. ThreadOK(t)' /\ ~Working(t)'
      BY <1>1, <1>2, <2>1, DriversAssumption DEF ThreadOK, Working
    <2>4. Typed'
      BY <1>1, <1>2, <2>1, <2>2 DEF Typed
    <2>5. LocalTo(t, h)
      <3>1. \A s \in Threads \ {t} : Unmoved(s)
        BY <1>1, <2>1 DEF Unmoved
      <3>2. \A k \in Hosts \ {h} : Untouched(k)
        BY <1>1, <2>2 DEF Untouched
      <3> QED
        BY <1>1, <1>2, <3>1, <3>2 DEF LocalTo, Typed
    <2>6. ClosedOK(h)' /\ WorksAt(h)'
      BY <1>1, <1>2, <2>2 DEF ClosedOK, WorksAt
    <2> QED
      BY <1>2, <1>3, <1>4, <2>1, <2>2, <2>3, <2>4, <2>5, <2>6, LocalStep
  <1> QED
    BY <1>5, <1>6

\* No thread is at work before a boot, and none is left by a stop.
LEMMA StopStep ==
    ASSUME IInv, Stop
    PROVE  IInv'
  <1>1. /\ tunnel' = [h \in Hosts |-> "none"] /\ last' = NoSecret /\ mutex' = None
        /\ pc' = [t \in Threads |-> "down"] /\ job' = [t \in Threads |-> Idle] /\ Threads # {}
        /\ UNCHANGED <<channel, probed, target, grant, issued, restore, drawn, mixed, stale>>
    BY DEF Stop
  <1>2. Typed'
    BY <1>1 DEF IInv, Typed, Idle, Jobs, Ops, Outcomes
  <1>3. \A t \in Threads : pc'[t] = "down" /\ job'[t] = Idle
    BY <1>1
  <1>4. Apart' /\ DownTogether' /\ RestoreOK' /\ NoSecrets'
    BY <1>1, <1>3 DEF IInv, Apart, DownTogether, RestoreOK, NoSecrets, Working
  <1>5. \A t \in Threads : ThreadOK(t)'
    BY <1>1, <1>3, DriversAssumption DEF ThreadOK, Working
  <1>6. ASSUME NEW h \in Hosts
        PROVE  HostOK(h)'
    <2>1. HostOK(h) /\ tunnel'[h] = "none"
      BY <1>1 DEF IInv
    <2>2. TargetOK(h)' /\ ClosedOK(h)' /\ WorksAt(h)'
      BY <1>1, <2>1 DEF HostOK, TargetOK, ClosedOK, WorksAt, Off, InForce
    <2>3. InFlight(h)'
      BY <1>1, <1>3 DEF InFlight
    <2> QED
      BY <2>2, <2>3 DEF HostOK
  <1> QED
    BY <1>2, <1>4, <1>5, <1>6 DEF IInv

LEMMA BootStep ==
    ASSUME IInv, Boot
    PROVE  IInv'
  <1>1. /\ \A t \in Threads : pc[t] = "down"
        /\ grant' = [h \in Hosts |-> IF grant[h] = "opening" THEN "needs-revert" ELSE grant[h]]
        /\ pc' = [t \in Threads |-> "idle"] /\ restore' = {h \in Hosts : grant[h] = "open"}
        /\ UNCHANGED <<channel, probed, target, tunnel, last, mutex, job, issued, drawn, mixed, stale>>
    BY DEF Boot
  <1>2. Typed'
    BY <1>1 DEF IInv, Typed
  <1>3. \A t \in Threads : pc'[t] = "idle" /\ job'[t] = Idle /\ mutex' # t
    BY <1>1 DEF IInv, ThreadOK, Working
  <1>4. \A h \in Hosts : /\ grant'[h] # "opening" /\ (grant'[h] = "open" <=> grant[h] = "open")
                         /\ grant'[h] = "closed" <=> grant[h] = "closed"
    BY <1>1
  <1>5. Apart' /\ DownTogether' /\ RestoreOK' /\ NoSecrets'
    BY <1>1, <1>3, <1>4 DEF IInv, Apart, DownTogether, RestoreOK, NoSecrets, Working
  <1>6. \A t \in Threads : ThreadOK(t)'
    BY <1>3 DEF ThreadOK, Working
  <1>7. \A h \in Hosts : HostOK(h)'
    BY <1>1, <1>4 DEF IInv, HostOK, TargetOK, ClosedOK, WorksAt, InFlight, Off, InForce
  <1> QED
    BY <1>2, <1>5, <1>6, <1>7 DEF IInv

(***************************************************************************)
(* The targets.                                                             *)
(***************************************************************************)
\* A target moves by itself: it loses a password or keeps it, and nothing of a
\* grant comes into force where nothing was, or was on its way.
LEMMA EnvStep ==
    ASSUME IInv, NEW h \in Hosts, NEW after, Env(h, after), Fits(after),
           after.secret \in {NoSecret, target[h].secret},
           channel = "vnc" => after.on = target[h].on,
           tunnel' \in [Hosts -> {"none", "connecting", "bound", "exited"}],
           \A k \in Hosts \ {h} : tunnel'[k] = tunnel[k],
           tunnel[h] = "none" => tunnel'[h] = "none",
           Off(h) => Off(h)'
    PROVE  IInv'
  <1>1. /\ target' = [target EXCEPT ![h] = after]
        /\ UNCHANGED <<channel, probed, last, mutex, grant, pc, job, issued, restore, drawn, mixed, stale>>
    BY DEF Env
  <1>2. Typed
    BY DEF IInv
  <1>3. /\ target' \in [Hosts -> Targets] /\ target'[h] = after
        /\ \A k \in Hosts \ {h} : target'[k] = target[k]
    BY <1>1, <1>2 DEF Typed, Fits
  <1>4. Typed'
    BY <1>1, <1>2, <1>3 DEF Typed
  <1>5. Apart' /\ DownTogether' /\ RestoreOK' /\ NoSecrets'
    BY <1>1 DEF IInv, Apart, DownTogether, RestoreOK, NoSecrets, Working
  <1>6. \A k \in Hosts : /\ tunnel[k] = "none" => tunnel'[k] = "none"
                         /\ target'[k].secret \in {NoSecret, target[k].secret}
                         /\ channel = "vnc" => target'[k].on = target[k].on
    BY <1>3
  <1>7. \A k \in Hosts : Off(k) => Off(k)'
    BY <1>1, <1>3 DEF Off, InForce
  <1>8. ASSUME NEW t \in Threads
        PROVE  ThreadOK(t)'
    <2>1. ThreadOK(t)
      BY DEF IInv
    <2>2. CASE ~Working(t)
      BY <1>1, <2>1, <2>2 DEF ThreadOK, Working
    <2>3. CASE Working(t)
      <3>1. PICK k \in Hosts : k = job[t].host
        BY <2>1, <2>3 DEF ThreadOK, PlaceOK
      <3>2. PlaceOK(t) /\ OutcomeOK(t) /\ grant[k] = GrantOf(t) /\ UndoneOK(t) /\ SecretOK(t)
        BY <2>1, <2>3, <3>1 DEF ThreadOK
      <3>3. PlaceOK(t)'
        <4>1. StepsOf(channel') = StepsOf(channel)
          BY <1>1
        <4> QED
          BY <1>1, <3>2, <4>1 DEF PlaceOK
      <3>4. OutcomeOK(t)' /\ grant'[job'[t].host] = GrantOf(t)'
        BY <1>1, <3>1, <3>2 DEF OutcomeOK, GrantOf
      <3>5. UndoneOK(t)'
        <4>1. pc[t] = "wipe" => channel = "vnc"
          BY StepBelongs
        <4> QED
          BY <1>1, <1>6, <1>7, <3>1, <3>2, <4>1 DEF UndoneOK
      <3>6. SecretOK(t)'
        BY <1>1, <1>6, <3>1, <3>2 DEF SecretOK
      <3> QED
        BY <1>1, <2>1, <2>3, <3>3, <3>4, <3>5, <3>6 DEF ThreadOK, Working
    <2> QED
      BY <2>2, <2>3
  <1>9. ASSUME NEW k \in Hosts
        PROVE  HostOK(k)'
    <2>1. HostOK(k)
      BY DEF IInv
    <2>2. TargetOK(k)'
      BY <1>1, <1>3, <1>6, <2>1 DEF HostOK, TargetOK, Fits
    <2>3. ClosedOK(k)'
      BY <1>1, <1>7, <2>1 DEF HostOK, ClosedOK
    <2>4. WorksAt(k)' /\ InFlight(k)'
      BY <1>1, <1>6, <2>1 DEF HostOK, WorksAt, InFlight, Working
    <2> QED
      BY <2>2, <2>3, <2>4 DEF HostOK
  <1> QED
    BY <1>4, <1>5, <1>8, <1>9 DEF IInv

LEMMA TargetSteps ==
    ASSUME IInv, NEW h \in Hosts, Usurp(h) \/ Stray(h) \/ Drop(h) \/ Settle(h)
    PROVE  IInv'
  <1>1. /\ target[h] \in Targets /\ TargetOK(h) /\ channel \in {"bmc", "vnc", "http", "mqtt"}
        /\ tunnel \in [Hosts -> {"none", "connecting", "bound", "exited"}]
    BY DEF IInv, Typed, HostOK
  <1>2. Fits(target[h])
    BY <1>1 DEF Fits, TargetOK
  <1>a. target \in [Hosts -> Targets]
    BY DEF IInv, Typed
  <1>3. CASE Usurp(h)
    <2>1. PICK after : after = [target[h] EXCEPT !.owner = "stranger", !.on = TRUE, !.secret = NoSecret]
      OBVIOUS
    <2>2. channel = "bmc" /\ Env(h, after) /\ tunnel' = tunnel
      BY <1>3, <2>1 DEF Usurp
    <2>3. /\ after \in Targets /\ after.owner = "stranger" /\ after.secret = NoSecret
          /\ after.inbox = target[h].inbox
      BY <1>1, <2>1 DEF Targets
    <2>4. Fits(after)
      BY <1>2, <2>2, <2>3 DEF Fits
    <2>5. Off(h) => Off(h)'
      <3>1. target'[h] = after /\ channel' = channel
        BY <1>a, <2>2 DEF Env
      <3> QED
        BY <2>2, <2>3, <3>1 DEF Off, InForce
    <2> QED
      BY <1>1, <2>2, <2>3, <2>4, <2>5, EnvStep
  <1>4. CASE Vacate(h)
    <2>1. PICK after : after = [target[h] EXCEPT !.owner = "nobody", !.on = FALSE]
      OBVIOUS
    <2>2. channel = "bmc" /\ Env(h, after) /\ tunnel' = tunnel
      BY <1>1, <1>4, <2>1 DEF Vacate, TargetOK
    <2>3. /\ after \in Targets /\ after.owner = "nobody" /\ after.secret = target[h].secret
          /\ after.inbox = target[h].inbox /\ after.on = FALSE
      BY <1>1, <2>1 DEF Targets
    <2>4. Fits(after)
      BY <1>2, <2>2, <2>3 DEF Fits
    <2>5. Off(h) => Off(h)'
      <3>1. target'[h] = after /\ channel' = channel
        BY <1>a, <2>2 DEF Env
      <3> QED
        BY <2>2, <2>3, <3>1 DEF Off, InForce
    <2> QED
      BY <1>1, <2>2, <2>3, <2>4, <2>5, EnvStep
  <1>5. CASE Stray(h) \/ StrayLeaves(h)
    <2>1. PICK stray \in BOOLEAN : Env(h, [target[h] EXCEPT !.stray = stray]) /\ tunnel' = tunnel
      BY <1>5 DEF Stray, StrayLeaves
    <2>2. PICK after : after = [target[h] EXCEPT !.stray = stray]
      OBVIOUS
    <2>3. /\ after \in Targets /\ after.owner = target[h].owner /\ after.secret = target[h].secret
          /\ after.inbox = target[h].inbox /\ after.on = target[h].on /\ after.topic = target[h].topic
      BY <1>1, <2>2 DEF Targets
    <2>4. Fits(after) /\ Env(h, after)
      BY <1>2, <2>1, <2>2, <2>3 DEF Fits
    <2>5. Off(h) => Off(h)'
      <3>1. target'[h] = after /\ channel' = channel
        BY <1>a, <2>4 DEF Env
      <3> QED
        BY <2>1, <2>3, <3>1 DEF Off, InForce
    <2> QED
      BY <1>1, <2>1, <2>3, <2>4, <2>5, EnvStep
  <1>6. CASE Connect(h) \/ Drop(h)
    <2>1. PICK state \in {"bound", "exited"} : tunnel' = [tunnel EXCEPT ![h] = state] /\ Env(h, target[h])
      BY <1>6 DEF Connect, Drop
    <2>2. tunnel[h] # "none"
      BY <1>6 DEF Connect, Drop, is_alive
    <2>3. /\ tunnel' \in [Hosts -> {"none", "connecting", "bound", "exited"}] /\ ~Off(h)
          /\ \A k \in Hosts \ {h} : tunnel'[k] = tunnel[k]
      BY <1>1, <2>1, <2>2 DEF Off, InForce
    <2> QED
      BY <1>2, <2>1, <2>2, <2>3, EnvStep
  <1>7. CASE Process(h)
    <2>1. PICK on \in BOOLEAN : on = (Head(target[h].inbox) = "open")
      OBVIOUS
    <2>2. PICK after : after = [target[h] EXCEPT !.inbox = Tail(@), !.on = on]
      OBVIOUS
    <2>3. target[h].inbox # <<>> /\ Env(h, after) /\ tunnel' = tunnel
      BY <1>7, <2>1, <2>2 DEF Process
    <2>4. channel = "mqtt" /\ ~Off(h)
      BY <1>1, <2>3 DEF TargetOK, Off
    <2>5. Tail(target[h].inbox) \in Seq({"open", "revert"})
      BY <1>1, <2>3 DEF Targets
    <2>6. /\ after \in Targets /\ after.owner = target[h].owner /\ after.secret = target[h].secret
          /\ after.on = on
      BY <1>1, <2>2, <2>5 DEF Targets
    <2>7. Fits(after)
      BY <1>2, <2>4, <2>6 DEF Fits
    <2> QED
      BY <1>1, <2>3, <2>4, <2>6, <2>7, EnvStep
  <1>8. CASE Report(h)
    <2>1. PICK after : after = [target[h] EXCEPT !.topic = IF target[h].on THEN "open" ELSE "closed"]
      OBVIOUS
    <2>2. channel = "mqtt" /\ Env(h, after) /\ tunnel' = tunnel
      BY <1>8, <2>1 DEF Report
    <2>3. /\ after \in Targets /\ after.owner = target[h].owner /\ after.secret = target[h].secret
          /\ after.inbox = target[h].inbox /\ after.on = target[h].on
      BY <1>1, <2>1 DEF Targets
    <2>4. Fits(after)
      BY <1>2, <2>2, <2>3 DEF Fits
    <2>5. Off(h) => Off(h)'
      <3>1. target'[h] = after /\ channel' = channel
        BY <1>a, <2>2 DEF Env
      <3> QED
        BY <2>2, <2>3, <3>1 DEF Off, InForce
    <2> QED
      BY <1>1, <2>2, <2>3, <2>4, <2>5, EnvStep
  <1> QED
    BY <1>3, <1>4, <1>5, <1>6, <1>7, <1>8 DEF Settle

(***************************************************************************)
(* The theorems.                                                            *)
(***************************************************************************)
LEMMA InitIInv == Init => IInv
  <1> SUFFICES ASSUME Init PROVE IInv
    OBVIOUS
  <1> USE DriversAssumption DEF Init
  <1>1. Typed
    <2>1. target \in [Hosts -> Targets]
      <3>1. <<>> \in Seq({"open", "revert"})
        OBVIOUS
      <3> QED
        BY <3>1 DEF Targets
    <2>2. job \in [Threads -> Jobs]
      BY DEF Idle, Jobs, Ops, Outcomes
    <2> QED
      BY <2>1, <2>2 DEF Typed
  <1>2. Apart /\ DownTogether /\ RestoreOK /\ NoSecrets
    BY DEF Apart, DownTogether, RestoreOK, NoSecrets, Working
  <1>3. \A t \in Threads : ThreadOK(t)
    BY DEF ThreadOK, Working
  <1>4. \A h \in Hosts : HostOK(h)
    BY DEF HostOK, TargetOK, ClosedOK, WorksAt, InFlight, Off, InForce
  <1> QED
    BY <1>1, <1>2, <1>3, <1>4 DEF IInv

LEMMA StutterIInv ==
    ASSUME IInv, UNCHANGED vars
    PROVE  IInv'
  BY DEF vars, IInv, Typed, Apart, DownTogether, RestoreOK, NoSecrets, ThreadOK, Working, PlaceOK,
         OutcomeOK, UndoneOK, SecretOK, GrantOf, HostOK, TargetOK, ClosedOK, WorksAt, InFlight, Off,
         InForce, StepsOf

LEMMA DriverIInv ==
    ASSUME IInv, NEW t \in Threads, Driver(t)
    PROVE  IInv'
  <1>1. CASE Lock(t) \/ Commit(t) \/ TakeSecret(t)
    BY <1>1, LockStep, CommitStep, TakeSecretStep
  <1>2. CASE GetAccount(t) \/ PatchOn(t) \/ ReadOn(t) \/ PatchOff(t) \/ ReadOff(t)
    BY <1>2, GetAccountStep, PatchOnStep, ReadOnStep, PatchOffStep, ReadOffStep
  <1>3. CASE Stage(t) \/ SetPassword(t) \/ Unstage(t) \/ Spawn(t) \/ ProbePort(t)
    BY <1>3, StageStep, SetPasswordStep, UnstageStep, SpawnStep, ProbePortStep
  <1>4. CASE Down(t) \/ PortFree(t) \/ Clear(t) \/ Wipe(t)
    BY <1>4, DownStep, PortFreeStep, ClearStep, WipeStep
  <1>5. CASE RequestOn(t) \/ RequestOff(t)
    BY <1>5, OrderedStep DEF RequestOn, RequestOff
  <1>6. CASE ProbeOn(t) \/ ProbeOff(t)
    BY <1>6, ProbeOnStep, ProbeOffStep
  <1>7. CASE PublishOn(t) \/ PublishOff(t)
    BY <1>7, PublishStep DEF PublishOn, PublishOff
  <1>8. CASE PollOn(t) \/ PollOff(t)
    BY <1>8, PollStep DEF PollOn, PollOff
  <1> QED
    BY <1>1, <1>2, <1>3, <1>4, <1>5, <1>6, <1>7, <1>8 DEF Driver

LEMMA Inductive == Spec => []IInv
  <1>1. IInv /\ [Next]_vars => IInv'
    BY DriverIInv, OpenStep, RevertStep, ReestablishStep, StopStep, BootStep, TargetSteps, StutterIInv
       DEF Next
  <1> QED
    BY InitIInv, <1>1, PTL DEF Spec

\* Across the drivers, whatever the threads, the faults and the restarts: the
\* mutex of drivers.lock() is held exactly by the thread inside a driver, and an
\* open in flight has its thread (lifecycle.rs).
THEOREM DriversTypeCorrect == Spec => []TypeOK
  <1>1. IInv => TypeOK
    <2> SUFFICES ASSUME IInv PROVE TypeOK
      OBVIOUS
    <2>1. Typed
      BY DEF IInv
    <2>2. \A t \in Threads : pc[t] \in Steps <=> mutex = t
      BY DEF IInv, ThreadOK
    <2>3. \A h \in Hosts : grant[h] = "opening" =>
             \E t \in Threads : pc[t] = "down" \/ (pc[t] # "idle" /\ job[t].host = h)
      BY DEF IInv, HostOK, InFlight, Working
    <2> QED
      BY <2>1, <2>2, <2>3 DEF TypeOK, Typed, Targets
  <1> QED
    BY Inductive, <1>1, PTL

\* A grant is closed only when nothing of it is left at its target and no
\* forward is held, whichever requests of an apply or a revert failed, and
\* whichever took effect all the same.
THEOREM ClosedOverClosedTarget == Spec => []ClosedTargetIsClosed
  <1>1. IInv => ClosedTargetIsClosed
    BY DEF IInv, HostOK, ClosedOK, Off, ClosedTargetIsClosed
  <1> QED
    BY Inductive, <1>1, PTL

\* The password the operator was handed works on the host it was handed out
\* for, unless another host's apply came in between (take_secret).
THEOREM SecretIsTheHosts == Spec => []SecretWorks
  <1>1. IInv => SecretWorks
    BY DEF IInv, HostOK, WorksAt, SecretWorks
  <1> QED
    BY Inductive, <1>1, PTL
=============================================================================
