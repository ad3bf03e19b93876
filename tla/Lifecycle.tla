----------------------------- MODULE Lifecycle -----------------------------
(***************************************************************************)
(* The grant lifecycle of daemon/src/lifecycle.rs as the running daemon     *)
(* executes it: the main thread that loops over pass(), the listener        *)
(* threads that serve the operator and the MCP socket, and cron's `--once`  *)
(* processes, all over one grant store, the hosts the drivers act on and    *)
(* the dead-man each host may carry.                                        *)
(*                                                                          *)
(* A step of a thread is one critical section (a read or a mutation of the  *)
(* store under its lock) or one call to the hosts (the drivers or the       *)
(* dead-man under their mutex).  Between two steps any other thread may     *)
(* run, time may pass, a dead-man may fire and the daemon may crash.  An    *)
(* operation works with the `now` it sampled when it began.                 *)
(***************************************************************************)
EXTENDS Grant, FiniteSets

CONSTANTS
    Hosts,
    Main,               \* the thread that runs pass()
    Listeners,          \* the threads that serve a socket, one request at a time
    Mcp,                \* the listeners behind the MCP front door
    Once,               \* concurrent `--once` processes
    Declared,           \* Declared[h]: the channels the inventory gives h
    SshHosts,           \* the hosts with an [ssh] section: the dead-man's hosts
    SshBorne,           \* the channels the dead-man guards and reverts
    DrillHosts,         \* the hosts with drill = true
    DryRun,             \* the daemon runs --dry-run: no driver, no policy
    Permitted,          \* the profiles an open may name
    McpProfiles,        \* the profiles with mcp = true
    Evaluate(_, _, _),  \* the authority: profile, satisfied ids, elapsed -> met
    ApprovalWindow,     \* --approval-window
    Requests,           \* <<listener, op>>: what the clients of a socket send
    Ttls,               \* the ttls they send
    MaxTime,            \* bound: the clock stops here
    LastOp,             \* bound: no request is sent after this instant
    MaxRequests,        \* bound: requests begun per host
    MaxFaults,          \* bound: driver and dead-man calls that fail
    MaxCrashes          \* bound: crashes of the daemon or of one of its threads

DRILL_PROFILE == "drill"
DRY_RUN_PROFILE == "dry-run"
DRILL_TTL == 1

ASSUME LifecycleAssumption ==
    /\ Hosts # {} /\ IsFiniteSet(Hosts)
    /\ Main \notin Listeners /\ Main \notin Once
    /\ Listeners \cap Once = {}
    /\ Mcp \subseteq Listeners
    /\ Declared \in [Hosts -> SUBSET Channels]
    /\ SshHosts \subseteq Hosts
    /\ DrillHosts \subseteq Hosts
    /\ SshBorne \subseteq Channels
    /\ DryRun \in BOOLEAN
    /\ Permitted \subseteq Profiles
    /\ {DRILL_PROFILE, DRY_RUN_PROFILE} \subseteq Profiles \ Permitted
    /\ ApprovalWindow \in 1 .. MAX_TTL
    /\ Ttls \subseteq Ttl
    /\ {MaxTime, LastOp, MaxRequests, MaxFaults, MaxCrashes} \subseteq Nat

\* evaluate in authority.rs: a requirement once met stays met as proofs are
\* added and time passes.
ASSUME EvaluateAssumption ==
    \A p \in Profiles, S, T \in SUBSET Authenticators, m, n \in 0 .. MaxTime :
        S \subseteq T /\ m <= n /\ Evaluate(p, S, m) => Evaluate(p, T, n)

VARIABLES
    clock,      \* the time every machine reads
    store,      \* grants.json: one grant per host
    applied,    \* what is in force on each host, whatever the store says
    deadman,    \* the dead-man of each host: its deadline, NotInstalled if it has
                \* none, whether a write of it was cut short, and who wrote it
    pc,         \* where each thread is
    job,        \* the locals of each thread's current operation
    nonces,     \* how many requests each host has had: the next nonce
    closes,     \* the Close lines in the journal
    panicked,   \* the `expect`s that have failed
    crossed,    \* hosts an actor has worked on for an earlier request
    faults,     \* failed calls so far
    crashes     \* crashes so far

vars == <<clock, store, applied, deadman, pc, job, nonces, closes, panicked,
          crossed, faults, crashes>>

NotInstalled == -1
NoDeadman == [at |-> NotInstalled, cut |-> FALSE, by |-> {}]
Daemon == {Main} \union Listeners
Threads == Daemon \union Once
AnyHost == CHOOSE h \in Hosts : TRUE

\* --dry-run registers no driver.
Drivable(h) == IF DryRun THEN {} ELSE Declared[h]

\* The dead-man is armed for an open that applied an ssh-borne channel.
WantsDeadman(h, channels) == h \in SshHosts /\ channels \cap SshBorne # {}

NoJob == [host |-> AnyHost, now |-> 0, nonce |-> 0, channels |-> {},
          stuck |-> {}, expires |-> 0, ttl |-> 1, proofs |-> {},
          ret |-> "idle", todo |-> {}]

\* The script, its deadline and its cron line are all in place.
Armed(h) == deadman[h].at # NotInstalled /\ ~deadman[h].cut

Labels ==
    {"down", "dead", "idle",
     "approve", "prove", "evaluate", "claim", "apply", "install", "unwind",
     "finish-open", "unwind-open",
     "close", "cancel", "begin-revert", "revert", "remove", "finish-revert",
     "retain", "journal-close",
     "reschedule", "renew-channels", "renew",
     "drill",
     "pass", "pass-list", "pass-revert", "pass-awaiting", "pass-wait",
     "boot-list", "boot-reestablish", "boot-retract"}

Work == [host : Hosts, channels : SUBSET Channels, nonce : Nat]

Jobs == [host : Hosts, now : Nat, nonce : Nat, channels : SUBSET Channels,
         stuck : SUBSET Channels, expires : Nat, ttl : Ttl,
         proofs : SUBSET Authenticators, ret : Labels, todo : SUBSET Work]

\* Every stored grant has the fields of its state and no other, and what a
\* thread carries from one critical section to the next is well formed.
TypeOK ==
    /\ clock \in Nat
    /\ store \in [Hosts -> GrantState]
    /\ applied \in [Hosts -> SUBSET Channels]
    /\ deadman \in [Hosts -> [at : Nat \union {NotInstalled}, cut : BOOLEAN,
                             by : SUBSET Threads]]
    /\ pc \in [Threads -> Labels]
    /\ job \in [Threads -> Jobs]
    /\ nonces \in [Hosts -> Nat]
    /\ closes \in [Hosts -> Nat]
    /\ panicked \subseteq Labels
    /\ crossed \subseteq Hosts
    /\ faults \in Nat
    /\ crashes \in Nat

Init ==
    /\ clock = 0
    /\ store = [h \in Hosts |-> Closed]
    /\ applied = [h \in Hosts |-> {}]
    /\ deadman = [h \in Hosts |-> NoDeadman]
    /\ pc = [t \in Threads |-> IF t \in Once THEN "idle" ELSE "down"]
    /\ job = [t \in Threads |-> NoJob]
    /\ nonces = [h \in Hosts |-> 0]
    /\ closes = [h \in Hosts |-> 0]
    /\ panicked = {}
    /\ crossed = {}
    /\ faults = 0
    /\ crashes = 0

(***************************************************************************)
(* The store.  Every access parses the whole document; one grant that does  *)
(* not load refuses them all, and the thread that met it is lost.           *)
(***************************************************************************)
StoreLoads == \A h \in Hosts : Loads(store[h])

Commit(h, g) == store' = [store EXCEPT ![h] = g]

\* Ghost: thread t acts on its host with work it took from an earlier request.
Cross(t) ==
    crossed' = IF job[t].nonce = nonces[job[t].host] THEN crossed
               ELSE crossed \union {job[t].host}

(***************************************************************************)
(* Control of a thread.                                                     *)
(***************************************************************************)
Goto(t, label) == pc' = [pc EXCEPT ![t] = label]

\* The operation (or the sub-operation of a pass or a drill) is over.
Resume(j) == [NoJob EXCEPT !.host = j.host, !.now = j.now, !.todo = j.todo]

Return(t) ==
    /\ pc' = [pc EXCEPT ![t] = job[t].ret]
    /\ job' = [job EXCEPT ![t] = IF job[t].ret = "idle" THEN NoJob ELSE Resume(job[t])]

Call(t, label, j) ==
    /\ Goto(t, label)
    /\ job' = [job EXCEPT ![t] = j]

\* The process is gone, and its threads with it.
StopDaemon ==
    /\ pc' = [s \in Threads |-> IF s \in Daemon THEN "down" ELSE pc[s]]
    /\ job' = [s \in Threads |-> IF s \in Daemon THEN NoJob ELSE job[s]]

\* A failed expect: a listener thread is lost, and the main loop then stops
\* the daemon; the main thread takes the process with it; a `--once` process
\* is gone.
Panic(t) ==
    /\ panicked' = panicked \union {pc[t]}
    /\ IF t = Main
       THEN StopDaemon
       ELSE /\ pc' = [pc EXCEPT ![t] = IF t \in Once THEN "idle" ELSE "dead"]
            /\ job' = [job EXCEPT ![t] = NoJob]

\* A call to a host fails; the budget bounds how often.
Fault == faults < MaxFaults /\ faults' = faults + 1

\* Thread t holds h's grant at Opening and has not settled it yet.
Drives(t, h) ==
    /\ job[t].host = h
    /\ pc[t] \in {"apply", "install", "unwind", "finish-open", "unwind-open"}

At(t, label) == pc[t] = label /\ StoreLoads

(***************************************************************************)
(* Calls to a host.  The drivers mutex is held for the whole of             *)
(* apply_channels and revert_channels, so each is one step.  A channel      *)
(* whose revert failed may or may not still be in force.                    *)
(***************************************************************************)
AppliedAll(h, channels) ==
    applied' = [applied EXCEPT ![h] = @ \union channels]

\* Every channel is attempted; `stuck` are the ones that refused.  One
\* without a driver is not touched.
Reverted(h, channels, stuck) ==
    \E left \in SUBSET (stuck \cap applied[h]) :
        /\ (channels \ Drivable(h)) \cap applied[h] \subseteq left
        /\ applied' = [applied EXCEPT ![h] = (@ \ channels) \union left]

\* The first failure stops the apply, and the tried prefix is reverted; a
\* stuck channel may be half applied.
ApplyFailed(h, tried, stuck) ==
    \E left \in SUBSET stuck :
        applied' = [applied EXCEPT ![h] = (@ \ tried) \union left]

\* What revert_channels may report for these channels: a channel without a
\* driver is stuck, a failed call costs a fault.
RevertOutcome(h, channels, stuck) ==
    /\ channels \ Drivable(h) \subseteq stuck
    /\ IF stuck \subseteq channels \ Drivable(h)
       THEN UNCHANGED faults
       ELSE Fault
    /\ Reverted(h, channels, stuck)

\* Thread t leaves the dead-man of h with this deadline, whole or cut short.
Written(t, h, deadline, cut) ==
    deadman' = [deadman EXCEPT ![h] = [at |-> deadline, cut |-> cut, by |-> {t}]]

\* install and reschedule write the script, the deadline and the cron line, in
\* this order.
Arm(t, h) == Written(t, h, job[t].expires, FALSE)

\* One of the three writes stops: nothing was touched, or the script is empty,
\* or it is whole and the deadline is empty, or both are whole and the cron
\* line is lost, or everything was done.  A script written again mends one
\* that was empty.
ArmStopped(t, h) ==
    LET was == deadman[h] IN
    \/ UNCHANGED deadman
    \/ Written(t, h, was.at, TRUE)
    \/ Written(t, h, was.at, was.cut /\ was.at = NotInstalled)
    \/ Written(t, h, NotInstalled, TRUE)
    \/ Written(t, h, job[t].expires, TRUE)
    \/ Arm(t, h)

Disarm(h) == deadman' = [deadman EXCEPT ![h] = NoDeadman]
DisarmStopped(h) == Disarm(h) \/ UNCHANGED deadman

(***************************************************************************)
(* A request arrives on a listener's socket.  What is refused on arrival    *)
(* changes nothing and is not a step.                                       *)
(***************************************************************************)
Sends(t, op) ==
    /\ t \in Listeners
    /\ At(t, "idle")
    /\ <<t, op>> \in Requests
    /\ clock <= LastOp

Begin(h) == [NoJob EXCEPT !.host = h, !.now = clock, !.nonce = nonces[h]]

\* open: records a request that awaits approval.
OpenRequest(t, h, ttl, profile) ==
    /\ Sends(t, "open")
    /\ nonces[h] < MaxRequests
    /\ profile \in IF DryRun THEN {DRY_RUN_PROFILE} ELSE Permitted
    /\ t \in Mcp => ~DryRun /\ profile \in McpProfiles
    /\ CanBeginPending(store[h])
    /\ Commit(h, BeginPending(clock, clock + ApprovalWindow, ttl, nonces[h] + 1, profile))
    /\ nonces' = [nonces EXCEPT ![h] = @ + 1]
    /\ UNCHANGED <<clock, applied, deadman, pc, job, closes, panicked, crossed, faults, crashes>>

(***************************************************************************)
(* approve: read the request and verify the proof against its challenge,    *)
(* record the authenticator, evaluate the authority, claim the open.        *)
(***************************************************************************)
ReadRequest(t, j) ==
    LET g == store[j.host] IN
    /\ AwaitingApproval(g, j.now)
    /\ IF DryRun
       THEN Call(t, "claim", [j EXCEPT !.nonce = g.nonce])
       ELSE \E id \in Authenticators :
                Call(t, "prove", [j EXCEPT !.nonce = g.nonce, !.proofs = {id}])

\* The operator socket is not gated.
Approve(t, h) ==
    /\ Sends(t, "approve")
    /\ t \notin Mcp
    /\ ReadRequest(t, Begin(h))
    /\ UNCHANGED <<clock, store, applied, deadman, nonces, closes, panicked, crossed, faults, crashes>>

\* The MCP gate reads the pending profile; without one it lets the op through.
McpApprove(t, h) ==
    /\ Sends(t, "approve")
    /\ t \in Mcp
    /\ ~DryRun
    /\ AwaitingApproval(store[h], clock) => store[h].profile \in McpProfiles
    /\ Call(t, "approve", Begin(h))
    /\ UNCHANGED <<clock, store, applied, deadman, nonces, closes, panicked, crossed, faults, crashes>>

\* The gated op then reads the request itself; a proof may also be denied.
ApproveGated(t) ==
    /\ At(t, "approve")
    /\ \/ ReadRequest(t, job[t]) /\ Cross(t)
       \/ Return(t) /\ UNCHANGED crossed
    /\ UNCHANGED <<clock, store, applied, deadman, nonces, closes, panicked, faults, crashes>>

Prove(t) ==
    LET h == job[t].host IN
    /\ At(t, "prove")
    /\ \/ /\ CanAddSatisfied(store[h], job[t].now)
          /\ \E id \in job[t].proofs : Commit(h, AddSatisfied(store[h], id))
          /\ Cross(t)
          /\ Call(t, "evaluate", [job[t] EXCEPT !.proofs = {}])
       \/ /\ ~CanAddSatisfied(store[h], job[t].now)
          /\ Return(t)
          /\ UNCHANGED <<store, crossed>>
    /\ UNCHANGED <<clock, applied, deadman, nonces, closes, panicked, faults, crashes>>

Met(g, elapsed) == Evaluate(g.profile, g.satisfied, elapsed)

EvaluateProofs(t) ==
    LET g == store[job[t].host] IN
    /\ At(t, "evaluate")
    /\ \/ /\ AwaitingApproval(g, job[t].now)
          /\ Met(g, Elapsed(g, job[t].now))
          /\ Call(t, "claim", [job[t] EXCEPT !.nonce = g.nonce])
       \/ /\ AwaitingApproval(g, job[t].now) => ~Met(g, Elapsed(g, job[t].now))
          /\ Return(t)
    /\ UNCHANGED <<clock, store, applied, deadman, nonces, closes, panicked, crossed, faults, crashes>>

(***************************************************************************)
(* open_pending_now and drive_open: the shared tail of an approval, a       *)
(* matured wait and a drill.                                                *)
(***************************************************************************)
Claim(t) ==
    LET h == job[t].host IN
    /\ At(t, "claim")
    /\ \/ /\ CanApprove(store[h], job[t].now)
          /\ Commit(h, ApproveToOpening(store[h], job[t].now, Drivable(h)))
          /\ Cross(t)
          /\ Call(t, "apply", [job[t] EXCEPT !.nonce = nonces[h], !.channels = Drivable(h),
                                             !.expires = job[t].now + store[h].ttl])
       \/ /\ ~CanApprove(store[h], job[t].now)
          /\ Return(t)
          /\ UNCHANGED <<store, crossed>>
    /\ UNCHANGED <<clock, applied, deadman, nonces, closes, panicked, faults, crashes>>

ApplyChannels(t) ==
    LET h == job[t].host
        channels == job[t].channels IN
    /\ pc[t] = "apply"
    /\ \/ /\ AppliedAll(h, channels)
          /\ Goto(t, IF WantsDeadman(h, channels) THEN "install" ELSE "finish-open")
          /\ UNCHANGED <<job, faults>>
       \/ \E tried \in SUBSET channels \ {{}} : \E stuck \in SUBSET tried :
          /\ ApplyFailed(h, tried, stuck)
          /\ Call(t, "unwind-open", [job[t] EXCEPT !.stuck = stuck])
          /\ Fault
    /\ Cross(t)
    /\ UNCHANGED <<clock, store, deadman, nonces, closes, panicked, crashes>>

\* Mutant: a failed install does not unwind the open.
InstallIgnoresFailure(t) ==
    LET h == job[t].host IN
    /\ pc[t] = "install"
    /\ \/ /\ Arm(t, h)
          /\ Goto(t, "finish-open")
          /\ UNCHANGED faults
       \/ /\ ArmStopped(t, h)
          /\ Goto(t, "finish-open")
          /\ Fault
    /\ Cross(t)
    /\ UNCHANGED <<clock, store, applied, job, nonces, closes, panicked, crashes>>

\* The backstop goes in before the grant may open.
InstallDeadman(t) ==
    LET h == job[t].host IN
    /\ pc[t] = "install"
    /\ \/ /\ Arm(t, h)
          /\ Goto(t, "finish-open")
          /\ UNCHANGED faults
       \/ /\ ArmStopped(t, h)
          /\ Goto(t, "unwind")
          /\ Fault
    /\ Cross(t)
    /\ UNCHANGED <<clock, store, applied, job, nonces, closes, panicked, crashes>>

\* The install failed: the freshly applied channels come out again.
UnwindApplied(t) ==
    LET h == job[t].host IN
    /\ pc[t] = "unwind"
    /\ \E stuck \in SUBSET job[t].channels :
          /\ RevertOutcome(h, job[t].channels, stuck)
          /\ Call(t, "unwind-open", [job[t] EXCEPT !.stuck = stuck])
    /\ Cross(t)
    /\ UNCHANGED <<clock, store, deadman, nonces, closes, panicked, crashes>>

\* "an opening grant can always finish"
FinishOpening(t) ==
    LET h == job[t].host IN
    /\ At(t, "finish-open")
    /\ \/ /\ MidOpen(store[h])
          /\ Commit(h, FinishOpen(store[h]))
          /\ Return(t)
          /\ UNCHANGED panicked
       \/ /\ ~MidOpen(store[h])
          /\ Panic(t)
          /\ UNCHANGED store
    /\ UNCHANGED <<clock, applied, deadman, nonces, closes, crossed, faults, crashes>>

\* "an opening grant can always abort", "... can always fail"
UnwindOpening(t) ==
    LET h == job[t].host IN
    /\ At(t, "unwind-open")
    /\ \/ /\ MidOpen(store[h])
          /\ Commit(h, UnwindOpen(job[t].stuck))
          /\ Return(t)
          /\ UNCHANGED panicked
       \/ /\ ~MidOpen(store[h])
          /\ Panic(t)
          /\ UNCHANGED store
    /\ UNCHANGED <<clock, applied, deadman, nonces, closes, crossed, faults, crashes>>

(***************************************************************************)
(* close: reads the status, then cancels a pending request or persists the  *)
(* intent to revert and drives one revert.                                  *)
(***************************************************************************)
ReadForClose(t, j) ==
    Call(t, IF store[j.host].state = "pending" THEN "cancel" ELSE "begin-revert",
         [j EXCEPT !.nonce = nonces[j.host]])

Close(t, h) ==
    /\ Sends(t, "close")
    /\ ReadForClose(t, Begin(h))
    /\ UNCHANGED <<clock, store, applied, deadman, nonces, closes, panicked, crossed, faults, crashes>>

\* The close at the end of a drill, whether or not the canary opened.
CloseDrill(t) ==
    /\ At(t, "close")
    /\ ReadForClose(t, job[t])
    /\ UNCHANGED <<clock, store, applied, deadman, nonces, closes, panicked, crossed, faults, crashes>>

\* "a pending grant can always cancel"
CancelPending(t) ==
    LET h == job[t].host IN
    /\ At(t, "cancel")
    /\ \/ /\ CanCancelPending(store[h])
          /\ Commit(h, Closed)
          /\ Cross(t)
          /\ Return(t)
          /\ UNCHANGED panicked
       \/ /\ ~CanCancelPending(store[h])
          /\ Panic(t)
          /\ UNCHANGED <<store, crossed>>
    /\ UNCHANGED <<clock, applied, deadman, nonces, closes, faults, crashes>>

BeginReverting(t) ==
    LET h == job[t].host IN
    /\ At(t, "begin-revert")
    /\ \/ /\ CanRevert(store[h])
          /\ Commit(h, BeginRevert(store[h]))
          /\ Call(t, "revert", [job[t] EXCEPT !.nonce = nonces[h],
                                              !.channels = store[h].channels])
       \/ /\ ~CanRevert(store[h])
          /\ Return(t)
          /\ UNCHANGED store
    /\ UNCHANGED <<clock, applied, deadman, nonces, closes, panicked, crossed, faults, crashes>>

(***************************************************************************)
(* drive_one_revert, shared by a close and a pass.                          *)
(***************************************************************************)
\* Mutant: a stuck revert removes the dead-man all the same.
RevertRemovesAnyway(t) ==
    LET h == job[t].host IN
    /\ pc[t] = "revert"
    /\ \E stuck \in SUBSET job[t].channels :
          /\ RevertOutcome(h, job[t].channels, stuck)
          /\ Call(t, IF h \in SshHosts THEN "remove"
                     ELSE IF stuck # {} THEN "retain" ELSE "finish-revert",
                  [job[t] EXCEPT !.stuck = stuck])
    /\ Cross(t)
    /\ UNCHANGED <<clock, store, deadman, nonces, closes, panicked, crashes>>

RevertChannels(t) ==
    LET h == job[t].host IN
    /\ pc[t] = "revert"
    /\ \E stuck \in SUBSET job[t].channels :
          /\ RevertOutcome(h, job[t].channels, stuck)
          /\ Call(t, IF stuck # {} THEN "retain"
                     ELSE IF h \in SshHosts THEN "remove" ELSE "finish-revert",
                  [job[t] EXCEPT !.stuck = stuck])
    /\ Cross(t)
    /\ UNCHANGED <<clock, store, deadman, nonces, closes, panicked, crashes>>

\* The backstop comes out once everything it guards is reverted; a failed
\* removal keeps the whole list stuck.
RemoveDeadman(t) ==
    LET h == job[t].host IN
    /\ pc[t] = "remove"
    /\ \/ /\ Disarm(h)
          /\ Goto(t, "finish-revert")
          /\ UNCHANGED <<job, faults>>
       \/ /\ DisarmStopped(h)
          /\ Call(t, "retain", [job[t] EXCEPT !.stuck = job[t].channels])
          /\ Fault
    /\ Cross(t)
    /\ UNCHANGED <<clock, store, applied, nonces, closes, panicked, crashes>>

\* Mutant: the loser of the race journals its Close too.
FinishJournalsTwice(t) ==
    LET h == job[t].host IN
    /\ At(t, "finish-revert")
    /\ \/ /\ Reverting(store[h])
          /\ Commit(h, Closed)
          /\ Cross(t)
          /\ Goto(t, "journal-close")
          /\ UNCHANGED job
       \/ /\ ~Reverting(store[h])
          /\ Goto(t, "journal-close")
          /\ UNCHANGED <<store, crossed, job>>
    /\ UNCHANGED <<clock, applied, deadman, nonces, closes, panicked, faults, crashes>>

\* Whoever commits first closes the grant and journals it.
FinishReverting(t) ==
    LET h == job[t].host IN
    /\ At(t, "finish-revert")
    /\ \/ /\ Reverting(store[h])
          /\ Commit(h, Closed)
          /\ Cross(t)
          /\ Goto(t, "journal-close")
          /\ UNCHANGED job
       \/ /\ ~Reverting(store[h])
          /\ Return(t)
          /\ UNCHANGED <<store, crossed>>
    /\ UNCHANGED <<clock, applied, deadman, nonces, closes, panicked, faults, crashes>>

JournalClose(t) ==
    /\ pc[t] = "journal-close"
    /\ closes' = [closes EXCEPT ![job[t].host] = @ + 1]
    /\ Return(t)
    /\ UNCHANGED <<clock, store, applied, deadman, nonces, panicked, crossed, faults, crashes>>

\* Mutant: the stuck channels are dropped from the record.
RetainNothing(t) ==
    LET h == job[t].host IN
    /\ At(t, "retain")
    /\ \/ /\ Reverting(store[h])
          /\ Commit(h, NeedsRevert({}))
          /\ Cross(t)
       \/ /\ ~Reverting(store[h])
          /\ UNCHANGED <<store, crossed>>
    /\ Return(t)
    /\ UNCHANGED <<clock, applied, deadman, nonces, closes, panicked, faults, crashes>>

RetainStuck(t) ==
    LET h == job[t].host IN
    /\ At(t, "retain")
    /\ \/ /\ Reverting(store[h])
          /\ Commit(h, NeedsRevert(job[t].stuck))
          /\ Cross(t)
       \/ /\ ~Reverting(store[h])
          /\ UNCHANGED <<store, crossed>>
    /\ Return(t)
    /\ UNCHANGED <<clock, applied, deadman, nonces, closes, panicked, faults, crashes>>

(***************************************************************************)
(* renew: probe, reschedule the backstop, tell the channels, commit.        *)
(***************************************************************************)
RenewRequest(t, h, ttl) ==
    /\ Sends(t, "renew")
    /\ CanRenew(store[h], clock)
    /\ Call(t, IF h \in SshHosts THEN "reschedule" ELSE "renew-channels",
            [Begin(h) EXCEPT !.ttl = ttl, !.expires = clock + ttl])
    /\ UNCHANGED <<clock, store, applied, deadman, nonces, closes, panicked, crossed, faults, crashes>>

\* Mutant: a refused reschedule does not refuse the renewal.
RescheduleIgnoresFailure(t) ==
    LET h == job[t].host IN
    /\ pc[t] = "reschedule"
    /\ \/ /\ Arm(t, h)
          /\ Goto(t, "renew-channels")
          /\ UNCHANGED <<job, faults>>
       \/ /\ ArmStopped(t, h)
          /\ Goto(t, "renew-channels") /\ UNCHANGED job
          /\ Fault
    /\ Cross(t)
    /\ UNCHANGED <<clock, store, applied, nonces, closes, panicked, crashes>>

RescheduleDeadman(t) ==
    LET h == job[t].host IN
    /\ pc[t] = "reschedule"
    /\ \/ /\ Arm(t, h)
          /\ Goto(t, "renew-channels")
          /\ UNCHANGED <<job, faults>>
       \/ /\ ArmStopped(t, h)
          /\ Return(t)
          /\ Fault
    /\ Cross(t)
    /\ UNCHANGED <<clock, store, applied, nonces, closes, panicked, crashes>>

\* A channel that carries its own deadline may refuse the new one.
RenewChannels(t) ==
    LET h == job[t].host IN
    /\ At(t, "renew-channels")
    /\ \/ /\ Goto(t, "renew")
          /\ UNCHANGED <<job, faults>>
       \/ /\ IsOpen(store[h], job[t].now) /\ store[h].channels # {}
          /\ Return(t)
          /\ Fault
    /\ UNCHANGED <<clock, store, applied, deadman, nonces, closes, panicked, crossed, crashes>>

CommitRenewal(t) ==
    LET h == job[t].host IN
    /\ At(t, "renew")
    /\ \/ /\ CanRenew(store[h], job[t].now)
          /\ Commit(h, Renew(store[h], job[t].now, job[t].ttl))
          /\ Cross(t)
       \/ /\ ~CanRenew(store[h], job[t].now)
          /\ UNCHANGED <<store, crossed>>
    /\ Return(t)
    /\ UNCHANGED <<clock, applied, deadman, nonces, closes, panicked, faults, crashes>>

(***************************************************************************)
(* drill: opens an idle canary without a proof and closes it again.         *)
(***************************************************************************)
Drill(t, h) ==
    /\ Sends(t, "drill")
    /\ t \notin Mcp
    /\ h \in DrillHosts
    /\ nonces[h] < MaxRequests
    /\ store[h].state = "closed"
    /\ Call(t, "drill", Begin(h))
    /\ UNCHANGED <<clock, store, applied, deadman, nonces, closes, panicked, crossed, faults, crashes>>

BeginDrill(t) ==
    LET h == job[t].host
        now == job[t].now IN
    /\ At(t, "drill")
    /\ \/ /\ CanBeginPending(store[h])
          /\ Commit(h, BeginPending(now, now + ApprovalWindow, DRILL_TTL, nonces[h] + 1,
                                    DRILL_PROFILE))
          /\ nonces' = [nonces EXCEPT ![h] = @ + 1]
          /\ Call(t, "claim", [job[t] EXCEPT !.nonce = nonces[h] + 1, !.ret = "close"])
       \/ /\ ~CanBeginPending(store[h])
          /\ Return(t)
          /\ UNCHANGED <<store, nonces>>
    /\ UNCHANGED <<clock, applied, deadman, closes, panicked, crossed, faults, crashes>>

(***************************************************************************)
(* pass: reap every expiry in one mutation, make one revert attempt per     *)
(* host that needs one (from a list read once), then open the requests a    *)
(* wait has matured.                                                        *)
(***************************************************************************)
PassReap(t) ==
    /\ t \in {Main} \union Once
    /\ At(t, IF t = Main THEN "idle" ELSE "pass")
    /\ store' = [h \in Hosts |-> Reap(store[h], clock)]
    /\ Call(t, "pass-list", [NoJob EXCEPT !.now = clock])
    /\ UNCHANGED <<clock, applied, deadman, nonces, closes, panicked, crossed, faults, crashes>>

Item(h) == [host |-> h, channels |-> Recorded(store[h]), nonce |-> nonces[h]]

\* Mutant: a pass does not retry what an earlier attempt left stuck.
PassListsNothing(t) ==
    /\ At(t, "pass-list")
    /\ Call(t, "pass-revert",
            [job[t] EXCEPT !.todo = {}])
    /\ UNCHANGED <<clock, store, applied, deadman, nonces, closes, panicked, crossed, faults, crashes>>

PassList(t) ==
    /\ At(t, "pass-list")
    /\ Call(t, "pass-revert",
            [job[t] EXCEPT !.todo = {Item(h) : h \in {k \in Hosts : Reverting(store[k])}}])
    /\ UNCHANGED <<clock, store, applied, deadman, nonces, closes, panicked, crossed, faults, crashes>>

PassRevert(t) ==
    /\ pc[t] = "pass-revert"
    /\ \/ \E w \in job[t].todo :
             Call(t, "revert", [job[t] EXCEPT !.host = w.host, !.channels = w.channels,
                                              !.nonce = w.nonce, !.ret = "pass-revert",
                                              !.todo = @ \ {w}])
       \/ /\ job[t].todo = {}
          /\ Call(t, IF DryRun THEN "idle" ELSE "pass-awaiting",
                  IF DryRun THEN NoJob ELSE [NoJob EXCEPT !.now = job[t].now])
    /\ UNCHANGED <<clock, store, applied, deadman, nonces, closes, panicked, crossed, faults, crashes>>

PassAwaiting(t) ==
    /\ At(t, "pass-awaiting")
    /\ Call(t, "pass-wait",
            [job[t] EXCEPT !.todo = {Item(h) : h \in {k \in Hosts :
                                        AwaitingApproval(store[k], job[t].now)}}])
    /\ UNCHANGED <<clock, store, applied, deadman, nonces, closes, panicked, crossed, faults, crashes>>

\* Mutant: a pass opens whatever awaits approval.
WaitUnchecked(g, now) ==
    /\ AwaitingApproval(g, now)

\* Met now, and not met without the time that has passed.
WaitMatured(g, now) ==
    /\ AwaitingApproval(g, now)
    /\ Met(g, Elapsed(g, now))
    /\ ~Met(g, 0)

PassWait(t) ==
    LET now == job[t].now IN
    /\ At(t, "pass-wait")
    /\ \/ \E w \in job[t].todo :
             LET rest == [NoJob EXCEPT !.host = w.host, !.now = now, !.todo = job[t].todo \ {w}] IN
             \/ /\ WaitMatured(store[w.host], now)
                /\ Call(t, "claim", [rest EXCEPT !.nonce = store[w.host].nonce,
                                                 !.ret = "pass-wait"])
             \/ /\ ~WaitMatured(store[w.host], now)
                /\ Call(t, "pass-wait", rest)
       \/ /\ job[t].todo = {}
          /\ Call(t, "idle", NoJob)
    /\ UNCHANGED <<clock, store, applied, deadman, nonces, closes, panicked, crossed, faults, crashes>>

(***************************************************************************)
(* boot_recover, when the daemon starts and in every `--once` run: an       *)
(* interrupted open is demoted, then every open grant is re-established or  *)
(* retracted.  The listeners start after it.                                *)
(***************************************************************************)
BootDemote(t) ==
    /\ \/ t = Main /\ \A s \in Daemon : pc[s] = "down"
       \/ t \in Once /\ pc[t] = "idle" /\ clock <= LastOp
    /\ StoreLoads
    /\ store' = [h \in Hosts |-> Demote(store[h])]
    /\ crossed' = crossed \union {h \in Hosts : MidOpen(store[h]) /\ \E s \in Threads : Drives(s, h)}
    /\ Call(t, "boot-list", [NoJob EXCEPT !.now = clock])
    /\ UNCHANGED <<clock, applied, deadman, nonces, closes, panicked, faults, crashes>>

BootList(t) ==
    /\ At(t, "boot-list")
    /\ Call(t, "boot-reestablish",
            [job[t] EXCEPT !.todo = {Item(h) : h \in {k \in Hosts : IsOpen(store[k], job[t].now)}}])
    /\ UNCHANGED <<clock, store, applied, deadman, nonces, closes, panicked, crossed, faults, crashes>>

\* The channels read back open, or the grant is retracted.
BootReestablish(t) ==
    /\ pc[t] = "boot-reestablish"
    /\ \E w \in job[t].todo :
          LET rest == [job[t] EXCEPT !.host = w.host, !.nonce = w.nonce, !.todo = @ \ {w}]
              readsOpen == w.channels \subseteq applied[w.host] \cap Drivable(w.host) IN
          \/ /\ readsOpen
             /\ Call(t, "boot-reestablish", rest)
             /\ UNCHANGED faults
          \/ /\ w.channels # {}
             /\ Call(t, "boot-retract", rest)
             /\ IF readsOpen THEN Fault ELSE UNCHANGED faults
    /\ UNCHANGED <<clock, store, applied, deadman, nonces, closes, panicked, crossed, crashes>>

\* "an open grant can always begin revert"
BootRetract(t) ==
    LET h == job[t].host IN
    /\ At(t, "boot-retract")
    /\ \/ /\ CanRevert(store[h])
          /\ Commit(h, BeginRevert(store[h]))
          /\ Goto(t, "boot-reestablish")
          /\ UNCHANGED <<job, panicked>>
       \/ /\ ~CanRevert(store[h])
          /\ Panic(t)
          /\ UNCHANGED store
    /\ UNCHANGED <<clock, applied, deadman, nonces, closes, crossed, faults, crashes>>

BootDone(t) ==
    /\ pc[t] = "boot-reestablish"
    /\ job[t].todo = {}
    /\ pc' = IF t = Main
             THEN [s \in Threads |-> IF s \in Daemon THEN "idle" ELSE pc[s]]
             ELSE [pc EXCEPT ![t] = "pass"]
    /\ job' = [job EXCEPT ![t] = NoJob]
    /\ UNCHANGED <<clock, store, applied, deadman, nonces, closes, panicked, crossed, faults, crashes>>

(***************************************************************************)
(* How the daemon goes down.                                                *)
(***************************************************************************)
\* The one call to a host that was under way stops part of the way.
CutShort(t) ==
    LET h == job[t].host IN
    /\ \/ /\ \E part \in SUBSET (job[t].channels \intersect Drivable(h)) :
                \/ pc[t] = "apply" /\ AppliedAll(h, part)
                \/ pc[t] \in {"revert", "unwind"} /\ applied' = [applied EXCEPT ![h] = @ \ part]
          /\ UNCHANGED deadman
       \/ /\ \/ pc[t] \in {"install", "reschedule"} /\ ArmStopped(t, h)
             \/ pc[t] = "remove" /\ DisarmStopped(h)
          /\ UNCHANGED applied
    /\ Cross(t)

Crash ==
    /\ crashes < MaxCrashes
    /\ \E t \in Daemon : pc[t] # "down"
    /\ \/ UNCHANGED <<applied, deadman, crossed>>
       \/ \E t \in Daemon : CutShort(t)
    /\ StopDaemon
    /\ crashes' = crashes + 1
    /\ UNCHANGED <<clock, store, nonces, closes, panicked, faults>>

\* An I/O failure of the store, the journal or a ledger is fatal to the thread
\* that meets it, wherever its operation stands; so is the death of a cron run.
Lost(t) ==
    /\ crashes < MaxCrashes
    /\ t # Main
    /\ pc[t] \notin {"down", "dead", "idle"}
    /\ Call(t, IF t \in Once THEN "idle" ELSE "dead", NoJob)
    /\ crashes' = crashes + 1
    /\ UNCHANGED <<clock, store, applied, deadman, nonces, closes, panicked, crossed, faults>>

\* The main loop sees that a listener thread is finished and shuts down.
Shutdown ==
    /\ \E t \in Listeners : pc[t] = "dead"
    /\ pc[Main] = "idle"
    /\ \A t \in Listeners : pc[t] \in {"idle", "dead"}
    /\ StopDaemon
    /\ UNCHANGED <<clock, store, applied, deadman, nonces, closes, panicked, crossed, faults, crashes>>

\* A stored document that does not load is fatal to the thread that reads it.
Fatal(t) ==
    /\ ~StoreLoads
    /\ pc[t] \notin {"down", "dead", "apply", "install", "unwind", "revert", "remove",
                     "journal-close", "reschedule", "pass-revert", "boot-reestablish"}
    /\ IF t = Main
       THEN StopDaemon
       ELSE Call(t, IF t \in Once THEN "idle" ELSE "dead", NoJob)
    /\ UNCHANGED <<clock, store, applied, deadman, nonces, closes, panicked, crossed, faults, crashes>>

(***************************************************************************)
(* The world: time passes, and cron runs a host's dead-man script, which    *)
(* reverts the ssh-borne channels and disarms itself.                       *)
(***************************************************************************)
Tick ==
    /\ clock < MaxTime
    /\ clock' = clock + 1
    /\ UNCHANGED <<store, applied, deadman, pc, job, nonces, closes, panicked, crossed, faults, crashes>>

\* Mutant: the script disarms itself and reverts nothing.
DeadmanOnlyDisarms(h) ==
    /\ Armed(h)
    /\ clock >= deadman[h].at
    /\ UNCHANGED applied
    /\ Disarm(h)
    /\ UNCHANGED <<clock, store, pc, job, nonces, closes, panicked, crossed, faults, crashes>>

DeadmanFires(h) ==
    /\ Armed(h)
    /\ clock >= deadman[h].at
    /\ applied' = [applied EXCEPT ![h] = @ \ SshBorne]
    /\ Disarm(h)
    /\ UNCHANGED <<clock, store, pc, job, nonces, closes, panicked, crossed, faults, crashes>>

(***************************************************************************)
(* The specification.                                                       *)
(***************************************************************************)
Request(t, h) ==
    \/ \E ttl \in Ttls, p \in Profiles : OpenRequest(t, h, ttl, p)
    \/ Approve(t, h)
    \/ McpApprove(t, h)
    \/ Close(t, h)
    \/ \E ttl \in Ttls : RenewRequest(t, h, ttl)
    \/ Drill(t, h)

Continue(t) ==
    \/ ApproveGated(t) \/ Prove(t) \/ EvaluateProofs(t)
    \/ Claim(t) \/ ApplyChannels(t) \/ InstallDeadman(t) \/ UnwindApplied(t)
    \/ FinishOpening(t) \/ UnwindOpening(t)
    \/ CloseDrill(t) \/ CancelPending(t) \/ BeginReverting(t)
    \/ RevertChannels(t) \/ RemoveDeadman(t) \/ FinishReverting(t)
    \/ JournalClose(t) \/ RetainStuck(t)
    \/ RescheduleDeadman(t) \/ RenewChannels(t) \/ CommitRenewal(t)
    \/ BeginDrill(t)
    \/ PassReap(t) \/ PassList(t) \/ PassRevert(t) \/ PassAwaiting(t) \/ PassWait(t)
    \/ BootList(t) \/ BootReestablish(t) \/ BootRetract(t) \/ BootDone(t)
    \/ Fatal(t)

Next ==
    \/ \E t \in Listeners, h \in Hosts : Request(t, h)
    \/ \E t \in Threads : Continue(t)
    \/ \E t \in {Main} \union Once : BootDemote(t)
    \/ Crash
    \/ \E t \in Threads : Lost(t)
    \/ Shutdown
    \/ Tick
    \/ \E h \in Hosts : DeadmanFires(h)

Spec == Init /\ [][Next]_vars

\* Time passes, cron runs on every host, the service manager restarts the
\* daemon, and a started operation is never abandoned while its thread lives.
\* The main loop looks at its listeners between any two passes, so a shutdown
\* that is due again and again happens.  No request is ever owed.
Fairness ==
    /\ WF_vars(Tick)
    /\ \A h \in Hosts : WF_vars(DeadmanFires(h))
    /\ \A t \in Threads : WF_vars(Continue(t))
    /\ WF_vars(BootDemote(Main))
    /\ SF_vars(Shutdown)

FairSpec == Spec /\ Fairness

(***************************************************************************)
(* Properties.                                                              *)
(***************************************************************************)

\* Write-ahead: whatever is in force on a host is named by its stored grant
\* (lifecycle.rs: a crash never restarts into a grant that "hides access"),
\* on every host no actor has worked on for an earlier request.
NoHiddenAccess ==
    \A h \in Hosts \ crossed : applied[h] \subseteq Recorded(store[h])

\* drive_open: "a grant without its backstop must not exist": an open grant
\* with an ssh-borne channel in force keeps its dead-man, until a write of it is
\* cut short (MCSshHost_reschedule shows what that costs).
Backstopped ==
    \A h \in Hosts \ crossed :
        store[h].state = "open" /\ WantsDeadman(h, applied[h]) => Armed(h) \/ deadman[h].cut

\* drive_one_revert: the dead-man leaves a host only when nothing it guards is
\* in force there any more, or because a write of it was cut short.
BackstopOutlivesAccess ==
    [][\A h \in Hosts \ crossed' :
          Armed(h) /\ ~Armed(h)'
              => applied'[h] \cap SshBorne = {} \/ deadman'[h].cut]_vars

\* The commit of Opening is an exclusive claim: at most one thread drives an
\* open of a host, and the grant stays Opening until that thread settles it.
SoleOpener ==
    \A h \in Hosts, t \in Threads :
        Drives(t, h) => /\ MidOpen(store[h])
                        /\ \A s \in Threads : Drives(s, h) => s = t

\* The expects of drive_open and of reestablish_open never fail.
OpenSettles == panicked \cap {"finish-open", "unwind-open", "boot-retract"} = {}

\* Thread t commits an open or a renewal of h, where a dead-man is due.
Extends(t, h) ==
    /\ job[t].host = h
    /\ pc[t] \in {"finish-open", "renew"} /\ pc'[t] # pc[t]
    /\ store'[h] # store[h]
    /\ h \notin crossed'
    /\ WantsDeadman(h, applied[h])

\* What it commits ends no later than the dead-man that is in place.
Covered(h) == Armed(h) /\ store'[h].expires_at <= deadman[h].at

\* renew: "extending the grant past its backstop would be fail-open": an open
\* or a renewal is committed under a whole dead-man that is due no sooner than
\* the grant expires, unless another renewal has rewritten it in between.
OpensUnderBackstop ==
    [][\A t \in Threads, h \in Hosts :
          Extends(t, h) /\ deadman[h].by \subseteq {t} => Covered(h)]_vars

\* A request opens only when its own profile is met by its own proofs (or it
\* is a drill's, or a dry-run's).
OpensOnlyWhenMet ==
    [][\A h \in Hosts \ crossed' :
          store[h].state = "pending" /\ store'[h].state = "opening"
              => \/ store[h].profile \in {DRILL_PROFILE, DRY_RUN_PROFILE}
                 \/ Met(store[h], Elapsed(store[h], clock))]_vars

\* drive_one_revert: concurrent reverts of one grant journal one Close, so a
\* host has no more Close lines than it has had requests.
CloseJournaledOnce == \A h \in Hosts : closes[h] <= nonces[h]

\* Whatever fails or crashes, access that was opened ends.
AccessEnds == \A h \in Hosts : applied[h] # {} ~> (applied[h] = {} \/ h \in crossed)

\* A grant that needs revert is retried until it is closed.
RevertCompletes ==
    \A h \in Hosts : store[h].state = "needs-revert" ~> store[h].state # "needs-revert"

\* The host ends what the daemon granted: with no help from the daemon, the
\* ssh-borne channels of an open grant are out of force eventually, unless a
\* write of the dead-man was cut short.
BackstopEndsAccess ==
    \A h \in SshHosts :
        (store[h].state = "open" /\ applied[h] \cap SshBorne # {})
            ~> (applied[h] \cap SshBorne = {} \/ deadman[h].cut \/ h \in crossed)

\* Only time and cron are fair: the daemon may be gone for good.
BackstopSpec ==
    Spec /\ WF_vars(Tick) /\ \A h \in Hosts : WF_vars(DeadmanFires(h))

(***************************************************************************)
(* What the repository says of this code and the code does not keep.        *)
(***************************************************************************)

\* lifecycle.rs: no state of the daemon "hides access it does" have.
NoHiddenAccessEver == \A h \in Hosts : applied[h] \subseteq Recorded(store[h])

\* close: "a pending grant can always cancel".
PendingAlwaysCancels == "cancel" \notin panicked

\* open_pending_now: the claim closes the gap with the reads before it.
ClaimIsOfTheRequestEvaluated ==
    [][\A h \in Hosts :
          store[h].state = "pending" /\ store'[h].state = "opening"
              => \/ store[h].profile \in {DRILL_PROFILE, DRY_RUN_PROFILE}
                 \/ Met(store[h], Elapsed(store[h], clock))]_vars

\* renew: "extending the grant past its backstop would be fail-open".
NeverPastTheBackstop ==
    [][\A t \in Threads, h \in Hosts : Extends(t, h) => Covered(h)]_vars

\* dispatch_from: over MCP "`open`/`approve` are refused unless the target
\* profile is `mcp = true`": a proof sent through that door counts only toward
\* a request whose profile is reachable there.
FrontDoorGated ==
    [][\A t \in Mcp :
          pc[t] = "prove" /\ pc'[t] = "evaluate"
              => store[job[t].host].profile \in McpProfiles]_vars

\* snapshot.rs refuses only what "the daemon would never write".
StoreAlwaysLoads == StoreLoads

\* main.rs: --once passes "coexist with a daemon by design".
OnceCoexists == OpenSettles
=============================================================================
