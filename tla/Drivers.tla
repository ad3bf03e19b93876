------------------------------ MODULE Drivers ------------------------------
(***************************************************************************)
(* The drivers whose targets run no dead-man, and the way lifecycle.rs uses *)
(* them: the bmc account (drivers/bmc.rs), the vnc console and its tunnel   *)
(* (drivers/vnc.rs, drivers/tunnel.rs), the request-and-probe channels      *)
(* (drivers/http.rs, drivers/serial.rs) and the mqtt channel whose state    *)
(* topic lags behind its device (drivers/mqtt.rs).                          *)
(*                                                                          *)
(* Every behaviour is about one of these channels on a few hosts.  All      *)
(* hosts share the channel's one driver, whose calls the daemon's threads   *)
(* serialise with a mutex; the password a driver made is collected in a     *)
(* second critical section.  A host is worked on by one thread at a time:   *)
(* Lifecycle is about the threads that meet on one host.                    *)
(***************************************************************************)
EXTENDS Naturals, Sequences, FiniteSets

CONSTANTS
    Hosts,
    Threads,
    Channels,       \* out of "bmc", "vnc", "http", "mqtt"
    None,
    MaxOpens,       \* bound: opens attempted
    MaxFaults,      \* bound: failed requests and unwelcome events at a target
    MaxInbox,       \* bound: commands a broker holds for a device
    MaxCrashes      \* bound: stops of the daemon

ASSUME DriversAssumption ==
    /\ Channels \subseteq {"bmc", "vnc", "http", "mqtt"}
    /\ None \notin Threads
    /\ {MaxOpens, MaxFaults, MaxInbox, MaxCrashes} \subseteq Nat

VARIABLES
    channel,    \* the channel this behaviour is about
    probed,     \* FALSE: the inventory says verify = "none"
    target,     \* what each host's target really is
    tunnel,     \* the forward the daemon holds for each host
    last,       \* the driver's last_password
    mutex,      \* the thread that holds the drivers
    grant,      \* the stored state of each host
    pc, job,    \* where each thread is, and with what
    issued,     \* the password the operator of each host was given
    restore,    \* open grants a boot has yet to re-establish
    drawn,      \* passwords generated so far
    spent,      \* what has been used of each bound
    mixed,      \* hosts whose password was collected after another's apply
    stale       \* hosts whose topic answered for an older command

vars == <<channel, probed, target, tunnel, last, mutex, grant, pc, job, issued,
          restore, drawn, spent, mixed, stale>>

NoSecret == 0
Idle == [host |-> None, op |-> "none", secret |-> NoSecret, outcome |-> "closed"]
States == {"closed", "opening", "open", "needs-revert"}
Steps ==
    {"get", "patch-on", "read-on", "patch-off", "read-off",
     "stage", "set", "unstage", "spawn", "probe-port", "take-down", "port-free", "clear", "wipe",
     "request-on", "probe-on", "request-off", "probe-off",
     "publish-on", "poll-on", "publish-off", "poll-off", "reestablish"}

\* The mutex is held exactly by the thread inside a driver, and every grant in
\* flight has one thread.
TypeOK ==
    /\ target \in [Hosts -> [on : BOOLEAN, secret : Nat, owner : {"nobody", "ours", "stranger"},
                             staged : BOOLEAN, stray : BOOLEAN,
                             inbox : Seq({"open", "revert"}), topic : {"open", "closed"}]]
    /\ tunnel \in [Hosts -> {"none", "connecting", "bound", "exited"}]
    /\ grant \in [Hosts -> States]
    /\ \A t \in Threads : pc[t] \in Steps <=> mutex = t
    /\ \A t \in Threads : pc[t] \in Steps \union {"down", "idle", "apply", "revert", "commit", "take"}
    /\ issued \in [Hosts -> 0 .. drawn] /\ last \in 0 .. drawn
    /\ \A h \in Hosts : grant[h] = "opening" =>
          \E t \in Threads : pc[t] = "down" \/ (pc[t] # "idle" /\ job[t].host = h)

Init ==
    /\ channel \in Channels
    /\ probed \in BOOLEAN /\ (channel \in {"bmc", "vnc"} => probed)
    /\ target = [h \in Hosts |-> [on |-> FALSE, secret |-> NoSecret, owner |-> "nobody",
                                  staged |-> FALSE, stray |-> FALSE, inbox |-> <<>>, topic |-> "closed"]]
    /\ tunnel = [h \in Hosts |-> "none"]
    /\ last = NoSecret
    /\ mutex = None
    /\ grant = [h \in Hosts |-> "closed"]
    /\ pc = [t \in Threads |-> "idle"]
    /\ job = [t \in Threads |-> Idle]
    /\ issued = [h \in Hosts |-> NoSecret]
    /\ restore = {}
    /\ drawn = 0
    /\ spent = [opens |-> 0, faults |-> 0, crashes |-> 0]
    /\ mixed = {}
    /\ stale = {}

(***************************************************************************)
(* lifecycle.rs around the drivers.                                         *)
(***************************************************************************)

Spend(what, bound) == spent[what] < bound /\ spent' = [spent EXCEPT ![what] = @ + 1]
Faulty == Spend("faults", MaxFaults)

At(t, step) == pc[t] = step
Go(t, step) == pc' = [pc EXCEPT ![t] = step]

Free(h) == \A t \in Threads : pc[t] # "idle" => job[t].host # h

FirstOf(op) ==
    LET opens == op = "apply" IN
    CASE channel = "bmc" -> IF opens THEN "get" ELSE "patch-off"
      [] channel = "vnc" -> IF opens THEN "stage" ELSE "take-down"
      [] channel = "http" -> IF opens THEN "request-on" ELSE "request-off"
      [] channel = "mqtt" -> IF opens THEN "publish-on" ELSE "publish-off"

Take(t, h, op, state) ==
    /\ At(t, "idle") /\ Free(h) /\ restore = {}
    /\ job' = [job EXCEPT ![t] = [Idle EXCEPT !.host = h, !.op = op]]
    /\ grant' = [grant EXCEPT ![h] = state]
    /\ Go(t, op)
    /\ UNCHANGED <<channel, probed, target, tunnel, last, mutex, restore, drawn, mixed>>

Open(t, h) ==
    /\ grant[h] = "closed"
    /\ Take(t, h, "apply", "opening")
    /\ Spend("opens", MaxOpens)
    /\ issued' = [issued EXCEPT ![h] = NoSecret]
    /\ stale' = stale \ {h}

\* A close, an expiry, or a pass over a grant still stuck.
Revert(t, h) ==
    /\ grant[h] \in {"open", "needs-revert"}
    /\ Take(t, h, "revert", "needs-revert")
    /\ UNCHANGED <<issued, spent, stale>>

\* drivers.lock()
Lock(t) ==
    /\ pc[t] \in {"apply", "revert"} /\ mutex = None
    /\ mutex' = t
    /\ Go(t, FirstOf(pc[t]))
    /\ UNCHANGED <<channel, probed, target, tunnel, last, grant, job, issued, restore, drawn, spent, mixed, stale>>

Unlock(t, outcome) ==
    /\ mutex' = None
    /\ Go(t, "commit")
    /\ job' = [job EXCEPT ![t].outcome = outcome]

\* The driver succeeded, or failed.  A channel that fails to apply is reverted
\* at once, under the same lock: it may be half applied.
Done(t) ==
    /\ Unlock(t, IF job[t].op \in {"apply", "reestablish"} THEN "open" ELSE "closed")

\* Mutant: a channel that failed to apply is called closed whatever its revert
\* came to.
FailUnheeding(t) ==
    IF job[t].op = "apply"
    THEN /\ job' = [job EXCEPT ![t].op = "unwind"]
         /\ Go(t, FirstOf("revert"))
         /\ UNCHANGED mutex
    ELSE Unlock(t, IF job[t].op = "unwind" THEN "closed" ELSE "needs-revert")

Fail(t) ==
    IF job[t].op = "apply"
    THEN /\ job' = [job EXCEPT ![t].op = "unwind"]
         /\ Go(t, FirstOf("revert"))
         /\ UNCHANGED mutex
    ELSE Unlock(t, "needs-revert")

Proceed(t, step) == Go(t, step) /\ UNCHANGED <<mutex, job>>

Rest(t) == Go(t, "idle") /\ job' = [job EXCEPT ![t] = Idle]

Commit(t) ==
    /\ At(t, "commit")
    /\ grant' = [grant EXCEPT ![job[t].host] = job[t].outcome]
    /\ IF job[t].op = "apply" THEN Go(t, "take") /\ UNCHANGED job ELSE Rest(t)
    /\ UNCHANGED <<channel, probed, target, tunnel, last, mutex, issued, restore, drawn, spent, mixed, stale>>

\* take_secret, in a critical section of its own.
TakeSecret(t) ==
    /\ At(t, "take") /\ mutex = None
    /\ issued' = [issued EXCEPT ![job[t].host] = last]
    /\ last' = NoSecret
    /\ Rest(t)
    /\ UNCHANGED <<channel, probed, target, tunnel, mutex, grant, restore, drawn, spent, mixed, stale>>

\* A request that leaves the target of the host as `after`.
Request(t, step, after, then) ==
    /\ At(t, step)
    /\ LET done == [target EXCEPT ![job[t].host] = after] IN
       \/ target' = done /\ then /\ UNCHANGED spent
       \/ Faulty /\ target' \in {target, done} /\ Fail(t)
    /\ UNCHANGED <<channel, probed, tunnel, last, grant, issued, restore, drawn, mixed, stale>>

T(t) == target[job[t].host]

Kept == <<channel, probed, target, grant, issued, restore, spent, stale>>

(***************************************************************************)
(* bmc: the account is read, enabled with a fresh password, and read back.  *)
(***************************************************************************)

\* get_account: a slot that holds somebody else is an error.
Reads(t, enabled) == T(t).owner # "stranger" /\ T(t).on = enabled

GetAccount(t) ==
    Request(t, "get", T(t), IF T(t).owner = "stranger" THEN Fail(t) ELSE Proceed(t, "patch-on"))

PatchOn(t) ==
    /\ At(t, "patch-on")
    /\ drawn' = drawn + 1
    /\ LET done == [target EXCEPT ![job[t].host].on = TRUE, ![job[t].host].owner = "ours",
                                  ![job[t].host].secret = drawn']
       IN \/ /\ target' = done
             /\ job' = [job EXCEPT ![t].secret = drawn']
             /\ Go(t, "read-on")
             /\ UNCHANGED <<mutex, spent>>
          \/ Faulty /\ target' \in {target, done} /\ Fail(t)
    /\ UNCHANGED <<channel, probed, tunnel, last, grant, issued, restore, mixed, stale>>

\* A successful apply leaves its password in the driver; every host whose
\* password has not been collected yet has lost it.
Remember(t) ==
    /\ last' = job[t].secret
    /\ mixed' = (mixed \ {job[t].host}) \union
                {job[s].host : s \in {s \in Threads : job[s].op = "apply" /\ pc[s] \in {"commit", "take"}}}

ReadOn(t) ==
    /\ At(t, "read-on")
    /\ \/ Reads(t, TRUE) /\ Done(t) /\ Remember(t) /\ UNCHANGED spent
       \/ ~Reads(t, TRUE) /\ Fail(t) /\ UNCHANGED <<last, mixed, spent>>
       \/ Faulty /\ Fail(t) /\ UNCHANGED <<last, mixed>>
    /\ UNCHANGED <<channel, probed, target, tunnel, grant, issued, restore, drawn, stale>>

PatchOff(t) == Request(t, "patch-off", [T(t) EXCEPT !.on = FALSE], Proceed(t, "read-off"))
ReadOff(t) == Request(t, "read-off", T(t), IF Reads(t, FALSE) THEN Done(t) ELSE Fail(t))

(***************************************************************************)
(* vnc: the password is staged in a file, set and unstaged; then a forward  *)
(* is spawned and its port probed.  A revert works backwards.               *)
(***************************************************************************)

port_open(h) == tunnel[h] = "bound" \/ target[h].stray
is_alive(h) == tunnel[h] \in {"connecting", "bound"}
listening(h) == is_alive(h) /\ port_open(h)

Stage(t) ==
    /\ At(t, "stage")
    /\ drawn' = drawn + 1
    /\ LET done == [target EXCEPT ![job[t].host].staged = TRUE] IN
       \/ /\ target' = done
          /\ job' = [job EXCEPT ![t].secret = drawn']
          /\ Go(t, "set")
          /\ UNCHANGED <<mutex, spent>>
       \/ Faulty /\ target' \in {target, done} /\ Fail(t)
    /\ UNCHANGED <<channel, probed, tunnel, last, grant, issued, restore, mixed, stale>>

\* set_result is looked at only once the staged file is gone.
SetPassword(t) ==
    /\ At(t, "set")
    /\ LET done == [target EXCEPT ![job[t].host].secret = job[t].secret, ![job[t].host].on = TRUE] IN
       \/ target' = done /\ UNCHANGED <<job, spent>>
       \/ Faulty /\ target' \in {target, done} /\ job' = [job EXCEPT ![t].outcome = "failed"]
    /\ Go(t, "unstage")
    /\ UNCHANGED <<channel, probed, tunnel, last, mutex, grant, issued, restore, drawn, mixed, stale>>

Unstage(t) ==
    /\ At(t, "unstage")
    /\ \/ target' = [target EXCEPT ![job[t].host].staged = FALSE] /\ UNCHANGED spent
       \/ Faulty /\ UNCHANGED target
    /\ IF job[t].outcome = "failed" THEN Fail(t) ELSE Proceed(t, "spawn")
    /\ UNCHANGED <<channel, probed, tunnel, last, grant, issued, restore, drawn, mixed, stale>>

\* TunnelSet::up: the new handle replaces, and so kills, any old one.
Spawn(t) ==
    /\ At(t, "spawn")
    /\ tunnel' = [tunnel EXCEPT ![job[t].host] = "connecting"]
    /\ Proceed(t, "probe-port")
    /\ UNCHANGED <<Kept, last, drawn, mixed>>

\* Probes go on until the port accepts, the child is gone or the budget is.
\* On a miss nothing is retained.
ProbePort(t) ==
    /\ At(t, "probe-port")
    /\ LET h == job[t].host IN
       \/ /\ listening(h)
          /\ Done(t)
          /\ IF job[t].op = "apply" THEN Remember(t) ELSE UNCHANGED <<last, mixed>>
          /\ UNCHANGED tunnel
       \/ /\ ~port_open(h) \/ ~is_alive(h)
          /\ tunnel' = [tunnel EXCEPT ![h] = "none"]
          /\ Fail(t)
          /\ UNCHANGED <<last, mixed>>
    /\ UNCHANGED <<Kept, drawn>>

Down(t) ==
    /\ At(t, "take-down")
    /\ tunnel' = [tunnel EXCEPT ![job[t].host] = "none"]
    /\ Proceed(t, "port-free")
    /\ UNCHANGED <<Kept, last, drawn, mixed>>

\* A port still bound is somebody else's: reported, never killed by port.
PortFree(t) ==
    /\ At(t, "port-free")
    /\ IF port_open(job[t].host) THEN Fail(t) ELSE Proceed(t, "clear")
    /\ UNCHANGED <<Kept, tunnel, last, drawn, mixed>>

Clear(t) ==
    Request(t, "clear", [T(t) EXCEPT !.secret = NoSecret, !.on = FALSE], Proceed(t, "wipe"))

Wipe(t) ==
    /\ At(t, "wipe")
    /\ \/ target' = [target EXCEPT ![job[t].host].staged = FALSE] /\ UNCHANGED spent
       \/ Faulty /\ UNCHANGED target
    /\ IF listening(job[t].host) THEN Fail(t) ELSE Done(t)
    /\ UNCHANGED <<channel, probed, tunnel, last, grant, issued, restore, drawn, mixed, stale>>

(***************************************************************************)
(* http and serial: a request held to its expectation, then the probe if    *)
(* there is one.  A device may answer as expected and not act.              *)
(***************************************************************************)

Ordered(t, step, on, next) ==
    \/ Request(t, step, [T(t) EXCEPT !.on = on], IF probed THEN Proceed(t, next) ELSE Done(t))
    \/ /\ At(t, step) /\ Faulty
       /\ IF probed THEN Proceed(t, next) ELSE Done(t)
       /\ UNCHANGED <<channel, probed, target, tunnel, last, grant, issued, restore, drawn, mixed, stale>>

RequestOn(t) == Ordered(t, "request-on", TRUE, "probe-on")
ProbeOn(t) == Request(t, "probe-on", T(t), IF T(t).on THEN Done(t) ELSE Fail(t))
RequestOff(t) == Ordered(t, "request-off", FALSE, "probe-off")
ProbeOff(t) == Request(t, "probe-off", T(t), IF ~T(t).on THEN Done(t) ELSE Fail(t))

(***************************************************************************)
(* mqtt: a command is published, the retained state topic polled until it   *)
(* reads as wanted or the budget is used up.                                *)
(***************************************************************************)

\* The broker takes the command and may still lose it on the way (QoS 0).
Publish(t, step, command, next) ==
    \/ /\ At(t, step) /\ Len(T(t).inbox) < MaxInbox
       /\ Request(t, step, [T(t) EXCEPT !.inbox = Append(@, command)],
                  IF probed THEN Proceed(t, next) ELSE Done(t))
    \/ /\ At(t, step) /\ Faulty
       /\ IF probed THEN Proceed(t, next) ELSE Done(t)
       /\ UNCHANGED <<channel, probed, target, tunnel, last, grant, issued, restore, drawn, mixed, stale>>

PublishOn(t) == Publish(t, "publish-on", "open", "poll-on")
PublishOff(t) == Publish(t, "publish-off", "revert", "poll-off")

\* The device has carried out every command it was sent, and said so.
Current(h) ==
    target[h].inbox = <<>> /\ (target[h].on <=> target[h].topic = "open")

\* A message that does not come, or does not match, is an error too.
Poll(t, step, want) ==
    /\ At(t, step)
    /\ \/ T(t).topic = want /\ Done(t) /\ UNCHANGED spent
       \/ T(t).topic # want /\ Fail(t) /\ UNCHANGED spent
       \/ Faulty /\ Fail(t)
    /\ stale' = IF Current(job[t].host) THEN stale \ {job[t].host} ELSE stale \union {job[t].host}
    /\ UNCHANGED <<channel, probed, target, tunnel, last, grant, issued, restore, drawn, mixed>>

PollOn(t) == Poll(t, "poll-on", "open")
PollOff(t) == Poll(t, "poll-off", "closed")

(***************************************************************************)
(* A stop of the daemon, and its next boot.                                 *)
(***************************************************************************)

\* suspend_all on a shutdown, the parent-death signal otherwise: no forward is
\* left behind.
Stop ==
    /\ \E t \in Threads : pc[t] # "down"
    /\ Spend("crashes", MaxCrashes)
    /\ tunnel' = [h \in Hosts |-> "none"]
    /\ last' = NoSecret
    /\ mutex' = None
    /\ pc' = [t \in Threads |-> "down"]
    /\ job' = [t \in Threads |-> Idle]
    /\ UNCHANGED <<channel, probed, target, grant, issued, restore, drawn, mixed, stale>>

\* Mutant: an open cut short stays as it was.
BootAsStored ==
    /\ \A t \in Threads : pc[t] = "down"
    /\ pc' = [t \in Threads |-> "idle"]
    /\ restore' = {h \in Hosts : grant[h] = "open"}
    /\ UNCHANGED <<channel, probed, target, tunnel, last, mutex, grant, job, issued, drawn, spent, mixed, stale>>

\* recover_on_boot: an open cut short needs revert.
Boot ==
    /\ \A t \in Threads : pc[t] = "down"
    /\ grant' = [h \in Hosts |-> IF grant[h] = "opening" THEN "needs-revert" ELSE grant[h]]
    /\ pc' = [t \in Threads |-> "idle"]
    /\ restore' = {h \in Hosts : grant[h] = "open"}
    /\ UNCHANGED <<channel, probed, target, tunnel, last, mutex, job, issued, drawn, spent, mixed, stale>>

\* reestablish: the forward comes up again with the password left alone; every
\* other channel is verified, and cannot be when there is no probe.
StillOpen(h) ==
    CASE channel = "bmc" -> target[h].owner # "stranger" /\ target[h].on
      [] channel = "http" -> probed /\ target[h].on
      [] channel = "mqtt" -> probed /\ target[h].topic = "open"

\* A channel that is closed, or does not answer, is retracted.
Lose(h) == grant' = [grant EXCEPT ![h] = "needs-revert"]

\* Mutant: a boot opens the console anew, with a new password.
ReestablishAnew(t, h) ==
    /\ At(t, "idle") /\ mutex = None
    /\ h \in restore /\ restore' = restore \ {h}
    /\ IF channel = "vnc"
       THEN /\ mutex' = t
            /\ job' = [job EXCEPT ![t] = [Idle EXCEPT !.host = h, !.op = "reestablish"]]
            /\ Go(t, "stage")
            /\ UNCHANGED <<grant, spent>>
       ELSE /\ \/ StillOpen(h) /\ UNCHANGED <<grant, spent>>
               \/ ~StillOpen(h) /\ Lose(h) /\ UNCHANGED spent
               \/ Faulty /\ Lose(h)
            /\ UNCHANGED <<mutex, job, pc>>
    /\ UNCHANGED <<channel, probed, target, tunnel, last, issued, drawn, mixed, stale>>

Reestablish(t, h) ==
    /\ At(t, "idle") /\ mutex = None
    /\ h \in restore /\ restore' = restore \ {h}
    /\ IF channel = "vnc"
       THEN /\ mutex' = t
            /\ job' = [job EXCEPT ![t] = [Idle EXCEPT !.host = h, !.op = "reestablish"]]
            /\ Go(t, "spawn")
            /\ UNCHANGED <<grant, spent>>
       ELSE /\ \/ StillOpen(h) /\ UNCHANGED <<grant, spent>>
               \/ ~StillOpen(h) /\ Lose(h) /\ UNCHANGED spent
               \/ Faulty /\ Lose(h)
            /\ UNCHANGED <<mutex, job, pc>>
    /\ UNCHANGED <<channel, probed, target, tunnel, last, issued, drawn, mixed, stale>>

(***************************************************************************)
(* The targets.                                                             *)
(***************************************************************************)

Env(h, after) ==
    /\ target' = [target EXCEPT ![h] = after]
    /\ UNCHANGED <<channel, probed, last, mutex, grant, pc, job, issued, restore, drawn, mixed, stale>>

\* Somebody else is given the account slot, and leaves it again.
Usurp(h) ==
    /\ channel = "bmc" /\ target[h].owner # "stranger" /\ Faulty
    /\ Env(h, [target[h] EXCEPT !.owner = "stranger", !.on = TRUE, !.secret = NoSecret])
    /\ UNCHANGED tunnel

Vacate(h) ==
    /\ target[h].owner = "stranger"
    /\ Env(h, [target[h] EXCEPT !.owner = "nobody", !.on = FALSE])
    /\ UNCHANGED <<tunnel, spent>>

\* A stray process takes the local port while it is free, and lets go of it.
Stray(h) ==
    /\ channel = "vnc" /\ ~target[h].stray /\ tunnel[h] # "bound" /\ Faulty
    /\ Env(h, [target[h] EXCEPT !.stray = TRUE])
    /\ UNCHANGED tunnel

StrayLeaves(h) ==
    /\ target[h].stray
    /\ Env(h, [target[h] EXCEPT !.stray = FALSE])
    /\ UNCHANGED <<tunnel, spent>>

\* ssh -L binds the port or, with ExitOnForwardFailure, exits.
Connect(h) ==
    /\ tunnel[h] = "connecting"
    /\ tunnel' = [tunnel EXCEPT ![h] = IF target[h].stray THEN "exited" ELSE "bound"]
    /\ Env(h, target[h]) /\ UNCHANGED spent

Drop(h) ==
    /\ is_alive(h) /\ Faulty
    /\ tunnel' = [tunnel EXCEPT ![h] = "exited"]
    /\ Env(h, target[h])

\* The device carries out its next command, and publishes its state later.
Process(h) ==
    /\ target[h].inbox # <<>>
    /\ Env(h, [target[h] EXCEPT !.inbox = Tail(@), !.on = Head(target[h].inbox) = "open"])
    /\ UNCHANGED <<tunnel, spent>>

Report(h) ==
    /\ channel = "mqtt"
    /\ target[h].on # (target[h].topic = "open")
    /\ Env(h, [target[h] EXCEPT !.topic = IF target[h].on THEN "open" ELSE "closed"])
    /\ UNCHANGED <<tunnel, spent>>

Driver(t) ==
    \/ Lock(t) \/ Commit(t) \/ TakeSecret(t)
    \/ GetAccount(t) \/ PatchOn(t) \/ ReadOn(t) \/ PatchOff(t) \/ ReadOff(t)
    \/ Stage(t) \/ SetPassword(t) \/ Unstage(t) \/ Spawn(t) \/ ProbePort(t)
    \/ Down(t) \/ PortFree(t) \/ Clear(t) \/ Wipe(t)
    \/ RequestOn(t) \/ ProbeOn(t) \/ RequestOff(t) \/ ProbeOff(t)
    \/ PublishOn(t) \/ PollOn(t) \/ PublishOff(t) \/ PollOff(t)

Settle(h) == Vacate(h) \/ StrayLeaves(h) \/ Connect(h) \/ Process(h) \/ Report(h)

Next ==
    \/ \E t \in Threads : Driver(t)
    \/ \E t \in Threads, h \in Hosts : Open(t, h) \/ Revert(t, h) \/ Reestablish(t, h)
    \/ Stop \/ Boot
    \/ \E h \in Hosts : Usurp(h) \/ Stray(h) \/ Drop(h) \/ Settle(h)

Spec == Init /\ [][Next]_vars

(***************************************************************************)
(* Properties.                                                              *)
(***************************************************************************)

\* What a grant put in force at the target.
InForce(h) ==
    \/ channel # "bmc" /\ target[h].on
    \/ target[h].owner = "ours" /\ target[h].on
    \/ tunnel[h] # "none"

\* Every driver's revert "reads the target's actual state": a grant is closed
\* only when nothing of it is left at the target and no forward is held, unless
\* the inventory gave the driver no probe or its topic answered for an older
\* command.
ClosedTargetIsClosed ==
    \A h \in Hosts \ stale : grant[h] = "closed" /\ probed => ~InForce(h)

\* The password the operator of an open grant was handed is the one that works
\* on that host, across restarts too, unless another host's apply came between
\* the apply and the collection of its password.
SecretWorks ==
    \A h \in Hosts \ mixed :
        grant[h] = "open" /\ NoSecret \notin {issued[h], target[h].secret}
            => issued[h] = target[h].secret

\* bmc.rs refuses a slot held by a stranger "before touching anything"; the
\* unwinding of the refused apply then disables it.
StrangerUntouched ==
    [][\A h \in Hosts : target[h].owner = "stranger" /\ target'[h].owner = "stranger"
            => target'[h].on = target[h].on]_vars

\* The password handed out is that of the host, whatever the other threads do.
SecretAlwaysWorks ==
    \A h \in Hosts :
        grant[h] = "open" /\ NoSecret \notin {issued[h], target[h].secret}
            => issued[h] = target[h].secret
=============================================================================
