-------------------------- MODULE LifecycleProofs --------------------------
(***************************************************************************)
(* Proofs about Lifecycle for every set of hosts, threads and channels and  *)
(* every bound.                                                             *)
(***************************************************************************)
EXTENDS Lifecycle, TLAPS

(***************************************************************************)
(* The grant operators stay within GrantState.                              *)
(***************************************************************************)

\* A stored grant has the fields of its state, and no others matter.
LEMMA GrantShape ==
    ASSUME NEW g \in GrantState
    PROVE  /\ g.state = "pending" => g \in PendingGrants
           /\ g.state \in {"opening", "open"} =>
                 g.opened_at \in Nat /\ g.expires_at \in Nat /\ g.channels \in SUBSET Channels
           /\ g.state = "needs-revert" => g.channels \in SUBSET Channels
  BY DEF GrantState, Closed, PendingGrants, IntervalGrants, RevertGrants

\* What a grant records is a set of channels.
LEMMA RecordedType ==
    ASSUME NEW g \in GrantState
    PROVE  Recorded(g) \in SUBSET Channels
  BY GrantShape DEF Recorded

\* The transitions that need no accepting state.
LEMMA ConstructedGrants ==
    /\ Closed \in GrantState
    /\ \A stuck \in SUBSET Channels :
          NeedsRevert(stuck) \in GrantState /\ UnwindOpen(stuck) \in GrantState
    /\ \A now, deadline, nonce \in Nat, ttl \in Ttl, p \in Profiles :
          BeginPending(now, deadline, ttl, nonce, p) \in GrantState
  BY DEF GrantState, Closed, NeedsRevert, UnwindOpen, BeginPending, Pending,
         PendingGrants, RevertGrants

\* The transitions of a pending request.
LEMMA PendingSteps ==
    ASSUME NEW g \in GrantState, NEW now \in Nat, g.state = "pending"
    PROVE  /\ \A id \in Authenticators : AddSatisfied(g, id) \in GrantState
           /\ \A channels \in SUBSET Channels :
                 ApproveToOpening(g, now, channels) \in GrantState
           /\ g.ttl \in Ttl /\ now + g.ttl \in Nat /\ g.nonce \in Nat
  <1>1. g \in PendingGrants
    BY GrantShape
  <1>2. g.ttl \in Ttl /\ now + g.ttl \in Nat /\ g.nonce \in Nat
    BY <1>1, TtlAssumption DEF PendingGrants, Ttl
  <1>3. \A id \in Authenticators : AddSatisfied(g, id) \in PendingGrants
    BY <1>1 DEF PendingGrants, AddSatisfied
  <1>4. \A channels \in SUBSET Channels :
           ApproveToOpening(g, now, channels) \in IntervalGrants("opening")
    BY <1>2 DEF ApproveToOpening, Opening, IntervalGrants
  <1> QED
    BY <1>2, <1>3, <1>4 DEF GrantState

\* The transitions of a grant that holds channels.
LEMMA HeldSteps ==
    ASSUME NEW g \in GrantState
    PROVE  /\ MidOpen(g) => FinishOpen(g) \in GrantState
           /\ CanRevert(g) => BeginRevert(g) \in GrantState /\ g.channels \in SUBSET Channels
           /\ Demote(g) \in GrantState
           /\ \A now \in Nat : Reap(g, now) \in GrantState
           /\ \A now \in Nat, ttl \in Ttl :
                 g.state = "open" => Renew(g, now, ttl) \in GrantState
  <1>1. MidOpen(g) => FinishOpen(g) \in IntervalGrants("open")
    BY GrantShape DEF MidOpen, FinishOpen, OpenGrant, IntervalGrants
  <1>2. g.state \in {"opening", "open", "needs-revert"} => NeedsRevert(g.channels) \in GrantState
    BY GrantShape, ConstructedGrants
  <1>3. \A now \in Nat, ttl \in Ttl :
           g.state = "open" => Renew(g, now, ttl) \in IntervalGrants("open")
    BY GrantShape, TtlAssumption DEF Renew, OpenGrant, IntervalGrants, Ttl
  <1>4. CanRevert(g) => BeginRevert(g) \in GrantState /\ g.channels \in SUBSET Channels
    BY <1>2, GrantShape DEF CanRevert, BeginRevert
  <1>5. Demote(g) \in GrantState
    BY <1>2 DEF Demote, MidOpen
  <1>6. \A now \in Nat : Reap(g, now) \in GrantState
    BY <1>2, ConstructedGrants DEF Reap, Expired, ApprovalExpired, BeginRevert
  <1> QED
    BY <1>1, <1>3, <1>4, <1>5, <1>6 DEF GrantState

(***************************************************************************)
(* The control operators keep pc and job well typed.                        *)
(***************************************************************************)
\* The empty job and a resumed one are jobs.
LEMMA JobTypes ==
    /\ AnyHost \in Hosts
    /\ NoJob \in Jobs
    /\ \A j \in Jobs : Resume(j) \in Jobs
  <1>1. AnyHost \in Hosts
    BY LifecycleAssumption DEF AnyHost
  <1>2. NoJob \in Jobs
    BY <1>1, TtlAssumption DEF NoJob, Jobs, Labels, Ttl
  <1>3. \A j \in Jobs : Resume(j) \in Jobs
    BY <1>1, <1>2 DEF Resume, Jobs, NoJob
  <1> QED
    BY <1>1, <1>2, <1>3

\* The part of TypeOK about the threads.
ThreadsOK == pc \in [Threads -> Labels] /\ job \in [Threads -> Jobs]

\* A thread moves on with new locals.
LEMMA CallType ==
    ASSUME ThreadsOK, NEW t \in Threads, NEW label \in Labels, NEW j \in Jobs,
           Call(t, label, j)
    PROVE  ThreadsOK'
  BY DEF ThreadsOK, Call, Goto

\* A thread moves on with the locals it has.
LEMMA GotoType ==
    ASSUME ThreadsOK, NEW t \in Threads, NEW label \in Labels, Goto(t, label),
           UNCHANGED job
    PROVE  ThreadsOK'
  BY DEF ThreadsOK, Goto

\* A thread returns to the operation that called this one.
LEMMA ReturnType ==
    ASSUME ThreadsOK, NEW t \in Threads, Return(t)
    PROVE  ThreadsOK'
  <1>1. job[t] \in Jobs /\ job[t].ret \in Labels
    BY DEF ThreadsOK, Jobs
  <1> QED
    BY <1>1, JobTypes DEF ThreadsOK, Return

\* The process stops.
LEMMA StopType ==
    ASSUME ThreadsOK, StopDaemon
    PROVE  ThreadsOK'
  BY JobTypes DEF ThreadsOK, StopDaemon, Labels

\* A failed expect.
LEMMA PanicType ==
    ASSUME ThreadsOK, panicked \subseteq Labels, NEW t \in Threads, Panic(t)
    PROVE  ThreadsOK' /\ panicked' \subseteq Labels
  <1>1. panicked' \subseteq Labels
    BY DEF Panic, ThreadsOK
  <1>2. CASE t = Main
    BY <1>1, <1>2, StopType DEF Panic
  <1>3. CASE t # Main
    BY <1>1, <1>3, JobTypes DEF Panic, ThreadsOK, Labels
  <1> QED
    BY <1>2, <1>3

\* What a host may carry.
Deadmen == [at : Nat \union {NotInstalled}, cut : BOOLEAN, by : SUBSET Threads]

\* The part of TypeOK about everything else.
WorldOK ==
    /\ clock \in Nat
    /\ store \in [Hosts -> GrantState]
    /\ applied \in [Hosts -> SUBSET Channels]
    /\ deadman \in [Hosts -> Deadmen]
    /\ nonces \in [Hosts -> Nat]
    /\ closes \in [Hosts -> Nat]
    /\ panicked \subseteq Labels
    /\ crossed \subseteq Hosts
    /\ faults \in Nat
    /\ crashes \in Nat

\* The two parts are all of TypeOK.
LEMMA TypeParts == TypeOK <=> ThreadsOK /\ WorldOK
  BY DEF TypeOK, ThreadsOK, WorldOK, Deadmen

\* A thread's job names a host and carries typed locals.
LEMMA JobFields ==
    ASSUME ThreadsOK, NEW t \in Threads
    PROVE  /\ job[t] \in Jobs
           /\ job[t].host \in Hosts /\ job[t].now \in Nat /\ job[t].nonce \in Nat
           /\ job[t].channels \in SUBSET Channels /\ job[t].stuck \in SUBSET Channels
           /\ job[t].expires \in Nat /\ job[t].ttl \in Ttl
           /\ job[t].proofs \in SUBSET Authenticators
           /\ job[t].ret \in Labels /\ job[t].todo \in SUBSET Work
  BY DEF ThreadsOK, Jobs

\* The job of an arriving request.
LEMMA BeginType ==
    ASSUME WorldOK, NEW h \in Hosts
    PROVE  Begin(h) \in Jobs
  BY JobTypes DEF Begin, WorldOK, Jobs, NoJob

\* A commit of a well formed grant leaves a well formed store.
LEMMA CommitType ==
    ASSUME WorldOK, NEW h \in Hosts, NEW g \in GrantState, Commit(h, g)
    PROVE  store' \in [Hosts -> GrantState]
  BY DEF WorldOK, Commit

\* The ghost of crossed requests names hosts.
LEMMA CrossType ==
    ASSUME ThreadsOK, WorldOK, NEW t \in Threads, Cross(t)
    PROVE  crossed' \subseteq Hosts
  BY JobFields DEF WorldOK, Cross

\* What the drivers cover is a set of channels.
LEMMA DrivableType == \A h \in Hosts : Drivable(h) \in SUBSET Channels
  BY LifecycleAssumption DEF Drivable

\* Something of a dead-man is on the host: it is armed, or a write of it was cut
\* short.
Standing(h) == Armed(h) \/ deadman[h].cut

\* A dead-man of one host is written anew, and by whom.
LEMMA WrittenIs ==
    ASSUME WorldOK, NEW t \in Threads, NEW h \in Hosts, NEW d \in Nat \union {NotInstalled},
           NEW c \in BOOLEAN, Written(t, h, d, c)
    PROVE  /\ deadman' \in [Hosts -> Deadmen]
           /\ deadman'[h] = [at |-> d, cut |-> c, by |-> {t}]
           /\ deadman'[h].at = d /\ deadman'[h].cut = c /\ deadman'[h].by = {t}
           /\ \A k \in Hosts \ {h} : deadman'[k] = deadman[k]
  <1> DEFINE new == [at |-> d, cut |-> c, by |-> {t}]
  <1>1. new \in Deadmen
    BY DEF Deadmen
  <1>2. deadman \in [Hosts -> Deadmen] /\ deadman' = [deadman EXCEPT ![h] = new]
    BY DEF WorldOK, Written
  <1>3. new.at = d /\ new.cut = c /\ new.by = {t}
    OBVIOUS
  <1> HIDE DEF new
  <1>4. /\ deadman' \in [Hosts -> Deadmen] /\ deadman'[h] = new
        /\ \A k \in Hosts \ {h} : deadman'[k] = deadman[k]
    BY <1>1, <1>2
  <1> QED
    BY <1>3, <1>4 DEF new

\* An install that goes through is one of the ways it may stop.
LEMMA ArmIsStop == ASSUME NEW t, NEW h, Arm(t, h) PROVE ArmStopped(t, h)
  BY DEF ArmStopped

\* Installing a dead-man, stopped or not, never takes one away but by cutting it
\* short, and one that goes through leaves it armed for the new deadline.
LEMMA ArmLeaves ==
    ASSUME ThreadsOK, WorldOK, NEW t \in Threads, NEW h \in Hosts, ArmStopped(t, h)
    PROVE  /\ deadman' \in [Hosts -> Deadmen]
           /\ \A k \in Hosts \ {h} : deadman'[k] = deadman[k]
           /\ Standing(h) => Standing(h)'
           /\ Armed(h) => Armed(h)' \/ deadman'[h].cut
           /\ deadman'[h] = deadman[h] \/ deadman'[h].by = {t}
           /\ Arm(t, h) => /\ Armed(h)' /\ Standing(h)'
                           /\ deadman'[h].at = job[t].expires /\ deadman'[h].by = {t}
  <1>0. /\ job[t].expires \in Nat /\ deadman \in [Hosts -> Deadmen] /\ deadman[h].at \in Nat \union {NotInstalled}
        /\ deadman[h].cut \in BOOLEAN /\ NotInstalled \notin Nat
    BY JobFields DEF WorldOK, Deadmen, NotInstalled
  <1>1. CASE UNCHANGED deadman /\ ~Arm(t, h)
    BY <1>0, <1>1 DEF Standing, Armed
  <1>2. CASE Written(t, h, deadman[h].at, TRUE) /\ ~Arm(t, h)
    BY <1>0, <1>2, WrittenIs DEF Standing, Armed
  <1>3. CASE Written(t, h, deadman[h].at, deadman[h].cut /\ deadman[h].at = NotInstalled) /\ ~Arm(t, h)
    <2>1. CASE deadman[h].cut /\ deadman[h].at = NotInstalled
      <3>1. (deadman[h].cut /\ deadman[h].at = NotInstalled) = TRUE
        BY <2>1
      <3>2. Written(t, h, deadman[h].at, TRUE)
        BY <1>3, <3>1
      <3> QED
        BY <1>0, <1>3, <3>2, WrittenIs DEF Standing, Armed
    <2>2. CASE ~(deadman[h].cut /\ deadman[h].at = NotInstalled)
      <3>1. (deadman[h].cut /\ deadman[h].at = NotInstalled) = FALSE
        BY <2>2
      <3>2. Written(t, h, deadman[h].at, FALSE)
        BY <1>3, <3>1
      <3> QED
        BY <1>0, <1>3, <2>2, <3>2, WrittenIs DEF Standing, Armed
    <2> QED
      BY <2>1, <2>2
  <1>4. CASE Written(t, h, NotInstalled, TRUE) /\ ~Arm(t, h)
    BY <1>0, <1>4, WrittenIs DEF Standing, Armed
  <1>5. CASE Written(t, h, job[t].expires, TRUE) /\ ~Arm(t, h)
    BY <1>0, <1>5, WrittenIs DEF Standing, Armed
  <1>6. CASE Arm(t, h)
    <2>1. Written(t, h, job[t].expires, FALSE)
      BY <1>6 DEF Arm
    <2> QED
      BY <1>0, <2>1, WrittenIs DEF Standing, Armed
  <1> QED
    BY <1>1, <1>2, <1>3, <1>4, <1>5, <1>6 DEF ArmStopped

\* Removing a dead-man.
LEMMA DisarmLeaves ==
    ASSUME WorldOK, NEW h \in Hosts, DisarmStopped(h)
    PROVE  /\ deadman' \in [Hosts -> Deadmen]
           /\ \A k \in Hosts \ {h} : deadman'[k] = deadman[k]
           /\ deadman'[h] = deadman[h] \/ deadman'[h] = NoDeadman
  <1>1. NoDeadman \in Deadmen
    BY DEF NoDeadman, Deadmen
  <1>2. deadman \in [Hosts -> Deadmen]
    BY DEF WorldOK
  <1>3. UNCHANGED deadman \/ deadman' = [deadman EXCEPT ![h] = NoDeadman]
    BY DEF DisarmStopped, Disarm
  <1> QED
    BY <1>1, <1>2, <1>3

\* A failed call is counted.
LEMMA FaultType == WorldOK /\ Fault => faults' \in Nat
  BY DEF WorldOK, Fault

\* What a revert leaves in force is a set of channels.
LEMMA RevertType ==
    ASSUME WorldOK, NEW h \in Hosts, NEW channels \in SUBSET Channels,
           NEW stuck \in SUBSET channels, RevertOutcome(h, channels, stuck)
    PROVE  applied' \in [Hosts -> SUBSET Channels] /\ faults' \in Nat
  BY FaultType DEF WorldOK, RevertOutcome, Reverted

(***************************************************************************)
(* Type correctness: one step per action.                                   *)
(***************************************************************************)
\* The read at the start of an approve.
LEMMA RequestReadType ==
    ASSUME ThreadsOK, WorldOK, NEW t \in Threads, NEW j \in Jobs, ReadRequest(t, j)
    PROVE  ThreadsOK'
  <1>1. j.host \in Hosts /\ j.now \in Nat /\ store[j.host] \in GrantState
    BY DEF Jobs, WorldOK
  <1>2. store[j.host].nonce \in Nat
    BY <1>1, PendingSteps DEF ReadRequest, AwaitingApproval
  <1>3. [j EXCEPT !.nonce = store[j.host].nonce] \in Jobs
    BY <1>2 DEF Jobs
  <1>4. \A id \in Authenticators :
           [j EXCEPT !.nonce = store[j.host].nonce, !.proofs = {id}] \in Jobs
    BY <1>2 DEF Jobs
  <1>5. "claim" \in Labels /\ "prove" \in Labels
    BY DEF Labels
  <1> QED
    BY <1>3, <1>4, <1>5, CallType DEF ReadRequest

\* The read at the start of a close.
LEMMA CloseReadType ==
    ASSUME ThreadsOK, WorldOK, NEW t \in Threads, NEW j \in Jobs, ReadForClose(t, j)
    PROVE  ThreadsOK'
  <1>1. [j EXCEPT !.nonce = nonces[j.host]] \in Jobs
    BY DEF Jobs, WorldOK
  <1>2. "cancel" \in Labels /\ "begin-revert" \in Labels
    BY DEF Labels
  <1> QED
    BY <1>1, <1>2, CallType DEF ReadForClose

\* An arriving request.
LEMMA RequestType ==
    ASSUME ThreadsOK, WorldOK, NEW t \in Listeners, NEW h \in Hosts, Request(t, h)
    PROVE  ThreadsOK' /\ WorldOK'
  <1> USE DEF Daemon, Threads
  <1>0. t \in Threads /\ Begin(h) \in Jobs
    BY BeginType
  <1>1. ASSUME NEW ttl \in Ttls, NEW p \in Profiles, OpenRequest(t, h, ttl, p)
        PROVE  ThreadsOK' /\ WorldOK'
    <2>1. ttl \in Ttl /\ clock + ApprovalWindow \in Nat /\ nonces[h] + 1 \in Nat /\ clock \in Nat
      BY LifecycleAssumption, TtlAssumption DEF WorldOK
    <2>2. BeginPending(clock, clock + ApprovalWindow, ttl, nonces[h] + 1, p) \in GrantState
      BY <2>1, ConstructedGrants
    <2>3. store' \in [Hosts -> GrantState]
      BY <1>1, <2>2, CommitType DEF OpenRequest
    <2>4. nonces' \in [Hosts -> Nat]
      BY <1>1, <2>1 DEF OpenRequest, WorldOK
    <2>5. ThreadsOK'
      BY <1>1 DEF OpenRequest, ThreadsOK
    <2> QED
      BY <1>1, <2>3, <2>4, <2>5 DEF OpenRequest, WorldOK
  <1>2. CASE Approve(t, h)
    BY <1>0, <1>2, RequestReadType DEF Approve, WorldOK
  <1>3. CASE McpApprove(t, h)
    <2>1. "approve" \in Labels
      BY DEF Labels
    <2> QED
      BY <1>0, <1>3, <2>1, CallType DEF McpApprove, WorldOK
  <1>4. CASE Close(t, h)
    BY <1>0, <1>4, CloseReadType DEF Close, WorldOK
  <1>5. ASSUME NEW ttl \in Ttls, RenewRequest(t, h, ttl)
        PROVE  ThreadsOK' /\ WorldOK'
    <2>0. ttl \in Ttl /\ clock + ttl \in Nat
      BY LifecycleAssumption, TtlAssumption DEF WorldOK, Ttl
    <2>1. [Begin(h) EXCEPT !.ttl = ttl, !.expires = clock + ttl] \in Jobs
      BY <1>0, <2>0 DEF Jobs
    <2>2. "reschedule" \in Labels /\ "renew-channels" \in Labels
      BY DEF Labels
    <2> QED
      BY <1>0, <1>5, <2>1, <2>2, CallType DEF RenewRequest, WorldOK
  <1>6. CASE Drill(t, h)
    <2>1. "drill" \in Labels
      BY DEF Labels
    <2> QED
      BY <1>0, <1>6, <2>1, CallType DEF Drill, WorldOK
  <1> QED
    BY <1>1, <1>2, <1>3, <1>4, <1>5, <1>6 DEF Request

\* approve and the open it drives.
LEMMA OpenStepType ==
    ASSUME ThreadsOK, WorldOK, NEW t \in Threads,
           \/ ApproveGated(t) \/ Prove(t) \/ EvaluateProofs(t) \/ Claim(t)
           \/ ApplyChannels(t) \/ InstallDeadman(t) \/ UnwindApplied(t)
           \/ FinishOpening(t) \/ UnwindOpening(t)
    PROVE  ThreadsOK' /\ WorldOK'
  <1> DEFINE h == job[t].host
             g == store[h]
  <1>0. /\ job[t] \in Jobs /\ h \in Hosts /\ g \in GrantState /\ job[t].now \in Nat
        /\ job[t].channels \in SUBSET Channels /\ job[t].stuck \in SUBSET Channels
        /\ job[t].expires \in Nat
    BY JobFields DEF WorldOK
  <1>1. CASE ApproveGated(t)
    BY <1>0, <1>1, RequestReadType, ReturnType, CrossType DEF ApproveGated, WorldOK
  <1>2. CASE Prove(t)
    <2>1. CASE CanAddSatisfied(g, job[t].now)
      <3>1. \A id \in job[t].proofs : AddSatisfied(g, id) \in GrantState
        BY <1>0, <2>1, JobFields, PendingSteps DEF CanAddSatisfied, AwaitingApproval
      <3>2. store' \in [Hosts -> GrantState]
        BY <1>0, <1>2, <2>1, <3>1, CommitType DEF Prove
      <3>3. [job[t] EXCEPT !.proofs = {}] \in Jobs /\ "evaluate" \in Labels
        BY <1>0 DEF Jobs, Labels
      <3>4. ThreadsOK' /\ crossed' \subseteq Hosts
        BY <1>2, <2>1, <3>3, CallType, CrossType DEF Prove
      <3> QED
        BY <1>2, <3>2, <3>4 DEF Prove, WorldOK
    <2>2. CASE ~CanAddSatisfied(g, job[t].now)
      BY <1>2, <2>2, ReturnType DEF Prove, WorldOK
    <2> QED
      BY <2>1, <2>2
  <1>3. CASE EvaluateProofs(t)
    <2>1. AwaitingApproval(g, job[t].now) =>
             [job[t] EXCEPT !.nonce = g.nonce] \in Jobs
      BY <1>0, PendingSteps DEF AwaitingApproval, Jobs
    <2>2. "claim" \in Labels
      BY DEF Labels
    <2> QED
      BY <1>3, <2>1, <2>2, CallType, ReturnType DEF EvaluateProofs, WorldOK
  <1>4. CASE Claim(t)
    <2>1. CASE CanApprove(g, job[t].now)
      <3>1. /\ ApproveToOpening(g, job[t].now, Drivable(h)) \in GrantState
            /\ job[t].now + g.ttl \in Nat
        BY <1>0, <2>1, DrivableType, PendingSteps DEF CanApprove, AwaitingApproval
      <3>2. store' \in [Hosts -> GrantState]
        BY <1>0, <1>4, <2>1, <3>1, CommitType DEF Claim
      <3>3. [job[t] EXCEPT !.nonce = nonces[h], !.channels = Drivable(h),
                           !.expires = job[t].now + g.ttl] \in Jobs
        BY <1>0, <3>1, DrivableType DEF Jobs, WorldOK
      <3>4. ThreadsOK' /\ crossed' \subseteq Hosts
        <4>1. "apply" \in Labels
          BY DEF Labels
        <4> QED
          BY <1>4, <2>1, <3>3, <4>1, CallType, CrossType DEF Claim
      <3> QED
        BY <1>4, <3>2, <3>4 DEF Claim, WorldOK
    <2>2. CASE ~CanApprove(g, job[t].now)
      BY <1>4, <2>2, ReturnType DEF Claim, WorldOK
    <2> QED
      BY <2>1, <2>2
  <1>5. CASE ApplyChannels(t)
    <2>1. applied' \in [Hosts -> SUBSET Channels] /\ faults' \in Nat
      BY <1>0, <1>5, FaultType DEF ApplyChannels, AppliedAll, ApplyFailed, WorldOK
    <2>2. ThreadsOK'
      <3>1. \A stuck \in SUBSET job[t].channels : [job[t] EXCEPT !.stuck = stuck] \in Jobs
        BY <1>0 DEF Jobs
      <3>2. {"install", "finish-open", "unwind-open"} \subseteq Labels
        BY DEF Labels
      <3> QED
        BY <1>5, <3>1, <3>2, CallType, GotoType DEF ApplyChannels
    <2> QED
      BY <1>5, <2>1, <2>2, CrossType DEF ApplyChannels, WorldOK
  <1>6. CASE InstallDeadman(t)
    <2>1. deadman' \in [Hosts -> Deadmen] /\ faults' \in Nat
      BY <1>0, <1>6, ArmIsStop, ArmLeaves, FaultType DEF InstallDeadman, WorldOK
    <2>2. ThreadsOK'
      <3>1. {"finish-open", "unwind"} \subseteq Labels
        BY DEF Labels
      <3> QED
        BY <1>6, <3>1, GotoType DEF InstallDeadman
    <2> QED
      BY <1>6, <2>1, <2>2, CrossType DEF InstallDeadman, WorldOK
  <1>7. CASE UnwindApplied(t)
    <2>1. PICK stuck \in SUBSET job[t].channels :
             /\ RevertOutcome(h, job[t].channels, stuck)
             /\ Call(t, "unwind-open", [job[t] EXCEPT !.stuck = stuck])
      BY <1>7 DEF UnwindApplied
    <2>2. [job[t] EXCEPT !.stuck = stuck] \in Jobs /\ "unwind-open" \in Labels
      BY <1>0 DEF Jobs, Labels
    <2>3. applied' \in [Hosts -> SUBSET Channels] /\ faults' \in Nat
      BY <1>0, <2>1, RevertType
    <2> QED
      BY <1>7, <2>1, <2>2, <2>3, CallType, CrossType DEF UnwindApplied, WorldOK
  <1>8. CASE FinishOpening(t)
    BY <1>0, <1>8, HeldSteps, CommitType, ReturnType, PanicType DEF FinishOpening, WorldOK
  <1>9. CASE UnwindOpening(t)
    BY <1>0, <1>9, ConstructedGrants, CommitType, ReturnType, PanicType DEF UnwindOpening, WorldOK
  <1> QED
    BY <1>1, <1>2, <1>3, <1>4, <1>5, <1>6, <1>7, <1>8, <1>9

\* close, revert, renew and drill.
LEMMA CloseStepType ==
    ASSUME ThreadsOK, WorldOK, NEW t \in Threads,
           \/ CloseDrill(t) \/ CancelPending(t) \/ BeginReverting(t) \/ RevertChannels(t)
           \/ RemoveDeadman(t) \/ FinishReverting(t) \/ JournalClose(t) \/ RetainStuck(t)
    PROVE  ThreadsOK' /\ WorldOK'
  <1> DEFINE h == job[t].host
             g == store[h]
  <1>0. /\ job[t] \in Jobs /\ h \in Hosts /\ g \in GrantState
        /\ job[t].channels \in SUBSET Channels /\ job[t].stuck \in SUBSET Channels
    BY JobFields DEF WorldOK
  <1>1. CASE CloseDrill(t)
    BY <1>0, <1>1, CloseReadType DEF CloseDrill, WorldOK
  <1>2. CASE CancelPending(t)
    BY <1>0, <1>2, ConstructedGrants, CommitType, CrossType, ReturnType, PanicType
       DEF CancelPending, WorldOK
  <1>3. CASE BeginReverting(t)
    <2>1. CASE CanRevert(g)
      <3>1. BeginRevert(g) \in GrantState /\ g.channels \in SUBSET Channels
        BY <1>0, <2>1, HeldSteps
      <3>2. [job[t] EXCEPT !.nonce = nonces[h], !.channels = g.channels] \in Jobs
        BY <1>0, <3>1 DEF Jobs, WorldOK
      <3>3. "revert" \in Labels
        BY DEF Labels
      <3> QED
        BY <1>0, <1>3, <2>1, <3>1, <3>2, <3>3, CommitType, CallType DEF BeginReverting, WorldOK
    <2>2. CASE ~CanRevert(g)
      BY <1>3, <2>2, ReturnType DEF BeginReverting, WorldOK
    <2> QED
      BY <2>1, <2>2
  <1>4. CASE RevertChannels(t)
    <2>1. PICK stuck \in SUBSET job[t].channels :
             /\ RevertOutcome(h, job[t].channels, stuck)
             /\ Call(t, IF stuck # {} THEN "retain"
                        ELSE IF h \in SshHosts THEN "remove" ELSE "finish-revert",
                     [job[t] EXCEPT !.stuck = stuck])
      BY <1>4 DEF RevertChannels
    <2>2. [job[t] EXCEPT !.stuck = stuck] \in Jobs
      BY <1>0 DEF Jobs
    <2>3. {"retain", "remove", "finish-revert"} \subseteq Labels
      BY DEF Labels
    <2>4. applied' \in [Hosts -> SUBSET Channels] /\ faults' \in Nat
      BY <1>0, <2>1, RevertType
    <2>5. ThreadsOK'
      BY <2>1, <2>2, <2>3, CallType
    <2> QED
      BY <1>4, <2>4, <2>5, CrossType DEF RevertChannels, WorldOK
  <1>5. CASE RemoveDeadman(t)
    <2>1. deadman' \in [Hosts -> Deadmen] /\ faults' \in Nat
      BY <1>0, <1>5, DisarmLeaves, FaultType DEF RemoveDeadman, DisarmStopped, WorldOK
    <2>2. [job[t] EXCEPT !.stuck = job[t].channels] \in Jobs
      BY <1>0 DEF Jobs
    <2>3. {"finish-revert", "retain"} \subseteq Labels
      BY DEF Labels
    <2>4. ThreadsOK'
      BY <1>5, <2>2, <2>3, CallType, GotoType DEF RemoveDeadman
    <2> QED
      BY <1>5, <2>1, <2>4, CrossType DEF RemoveDeadman, WorldOK
  <1>6. CASE FinishReverting(t)
    <2>1. "journal-close" \in Labels
      BY DEF Labels
    <2> QED
      BY <1>0, <1>6, <2>1, ConstructedGrants, CommitType, CrossType, GotoType, ReturnType
         DEF FinishReverting, WorldOK
  <1>7. CASE JournalClose(t)
    BY <1>0, <1>7, ReturnType DEF JournalClose, WorldOK
  <1>8. CASE RetainStuck(t)
    BY <1>0, <1>8, ConstructedGrants, CommitType, CrossType, ReturnType DEF RetainStuck, WorldOK
  <1> QED
    BY <1>1, <1>2, <1>3, <1>4, <1>5, <1>6, <1>7, <1>8

\* renew and the start of a drill.
LEMMA RenewDrillStepType ==
    ASSUME ThreadsOK, WorldOK, NEW t \in Threads,
           \/ RescheduleDeadman(t) \/ RenewChannels(t) \/ CommitRenewal(t) \/ BeginDrill(t)
    PROVE  ThreadsOK' /\ WorldOK'
  <1> DEFINE h == job[t].host
             g == store[h]
  <1>0. /\ job[t] \in Jobs /\ h \in Hosts /\ g \in GrantState /\ job[t].now \in Nat
        /\ job[t].expires \in Nat /\ job[t].ttl \in Ttl
    BY JobFields DEF WorldOK
  <1>1. CASE RescheduleDeadman(t)
    <2>1. deadman' \in [Hosts -> Deadmen] /\ faults' \in Nat
      BY <1>0, <1>1, ArmIsStop, ArmLeaves, FaultType DEF RescheduleDeadman, WorldOK
    <2>2. "renew-channels" \in Labels
      BY DEF Labels
    <2>3. ThreadsOK'
      BY <1>1, <2>2, GotoType, ReturnType DEF RescheduleDeadman
    <2> QED
      BY <1>1, <2>1, <2>3, CrossType DEF RescheduleDeadman, WorldOK
  <1>2. CASE RenewChannels(t)
    <2>1. "renew" \in Labels
      BY DEF Labels
    <2> QED
      BY <1>2, <2>1, GotoType, ReturnType, FaultType DEF RenewChannels, WorldOK
  <1>3. CASE CommitRenewal(t)
    <2>1. CanRenew(g, job[t].now) => Renew(g, job[t].now, job[t].ttl) \in GrantState
      BY <1>0, HeldSteps DEF CanRenew, IsOpen
    <2> QED
      BY <1>0, <1>3, <2>1, CommitType, CrossType, ReturnType DEF CommitRenewal, WorldOK
  <1>4. CASE BeginDrill(t)
    <2>1. CASE CanBeginPending(g)
      <3>1. /\ job[t].now + ApprovalWindow \in Nat /\ nonces[h] + 1 \in Nat
            /\ DRILL_TTL \in Ttl /\ DRILL_PROFILE \in Profiles
        BY <1>0, LifecycleAssumption, TtlAssumption DEF WorldOK, DRILL_TTL, Ttl
      <3>2. BeginPending(job[t].now, job[t].now + ApprovalWindow, DRILL_TTL, nonces[h] + 1,
                         DRILL_PROFILE) \in GrantState
        BY <1>0, <3>1, ConstructedGrants
      <3>3. [job[t] EXCEPT !.nonce = nonces[h] + 1, !.ret = "close"] \in Jobs
        BY <1>0, <3>1 DEF Jobs, Labels
      <3>4. "claim" \in Labels
        BY DEF Labels
      <3>5. ThreadsOK'
        BY <1>4, <2>1, <3>3, <3>4, CallType DEF BeginDrill
      <3>6. store' \in [Hosts -> GrantState]
        BY <1>0, <1>4, <2>1, <3>2, CommitType DEF BeginDrill
      <3>7. nonces' \in [Hosts -> Nat]
        BY <1>4, <2>1, <3>1 DEF BeginDrill, WorldOK
      <3> QED
        BY <1>4, <3>5, <3>6, <3>7 DEF BeginDrill, WorldOK
    <2>2. CASE ~CanBeginPending(g)
      BY <1>4, <2>2, ReturnType DEF BeginDrill, WorldOK
    <2> QED
      BY <2>1, <2>2
  <1> QED
    BY <1>1, <1>2, <1>3, <1>4

\* A work list taken from the store is well typed.
LEMMA ItemType ==
    ASSUME WorldOK, NEW S \in SUBSET Hosts
    PROVE  {Item(h) : h \in S} \in SUBSET Work
  BY RecordedType DEF WorldOK, Item, Work

\* The steps of a pass.
LEMMA PassStepType ==
    ASSUME ThreadsOK, WorldOK, NEW t \in Threads,
           \/ PassReap(t) \/ PassList(t) \/ PassRevert(t) \/ PassAwaiting(t) \/ PassWait(t)
    PROVE  ThreadsOK' /\ WorldOK'
  <1>0. /\ job[t] \in Jobs /\ job[t].now \in Nat /\ job[t].todo \in SUBSET Work /\ NoJob \in Jobs
        /\ [NoJob EXCEPT !.now = job[t].now] \in Jobs
        /\ [NoJob EXCEPT !.now = clock] \in Jobs
    BY JobFields, JobTypes DEF Jobs, WorldOK
  <1>l. {"idle", "pass-list", "pass-revert", "pass-awaiting", "pass-wait", "revert", "claim"}
           \subseteq Labels
    BY DEF Labels
  <1>1. CASE PassReap(t)
    <2>1. store' \in [Hosts -> GrantState]
      BY <1>1, HeldSteps DEF PassReap, WorldOK
    <2> QED
      BY <1>0, <1>l, <1>1, <2>1, CallType DEF PassReap, WorldOK
  <1>2. CASE PassList(t)
    <2>1. [job[t] EXCEPT !.todo = {Item(h) : h \in {k \in Hosts : Reverting(store[k])}}] \in Jobs
      BY <1>0, ItemType DEF Jobs
    <2> QED
      BY <1>l, <1>2, <2>1, CallType DEF PassList, WorldOK
  <1>3. CASE PassRevert(t)
    <2>1. ASSUME NEW w \in job[t].todo
          PROVE  [job[t] EXCEPT !.host = w.host, !.channels = w.channels, !.nonce = w.nonce,
                                !.ret = "pass-revert", !.todo = @ \ {w}] \in Jobs
      <3>1. w.host \in Hosts /\ w.channels \in SUBSET Channels /\ w.nonce \in Nat
        BY <1>0 DEF Work
      <3> QED
        BY <1>0, <1>l, <3>1 DEF Jobs
    <2> QED
      BY <1>0, <1>l, <1>3, <2>1, CallType DEF PassRevert, WorldOK
  <1>4. CASE PassAwaiting(t)
    <2>1. [job[t] EXCEPT !.todo = {Item(h) : h \in {k \in Hosts :
                                     AwaitingApproval(store[k], job[t].now)}}] \in Jobs
      BY <1>0, ItemType DEF Jobs
    <2> QED
      BY <1>l, <1>4, <2>1, CallType DEF PassAwaiting, WorldOK
  <1>5. CASE PassWait(t)
    <2>1. ASSUME NEW w \in job[t].todo,
                 NEW rest, rest = [NoJob EXCEPT !.host = w.host, !.now = job[t].now,
                                                !.todo = job[t].todo \ {w}]
          PROVE  /\ rest \in Jobs
                 /\ WaitMatured(store[w.host], job[t].now) =>
                       [rest EXCEPT !.nonce = store[w.host].nonce, !.ret = "pass-wait"] \in Jobs
      <3>1. w.host \in Hosts
        BY <1>0 DEF Work
      <3>2. rest \in Jobs
        BY <1>0, <2>1, <3>1 DEF Jobs
      <3>3. WaitMatured(store[w.host], job[t].now) => store[w.host].nonce \in Nat
        BY <1>0, <3>1, PendingSteps DEF WaitMatured, AwaitingApproval, WorldOK
      <3> QED
        BY <1>l, <3>2, <3>3 DEF Jobs
    <2> QED
      BY <1>0, <1>l, <1>5, <2>1, CallType DEF PassWait, WorldOK
  <1> QED
    BY <1>1, <1>2, <1>3, <1>4, <1>5

\* The steps of boot recovery.
LEMMA BootStepType ==
    ASSUME ThreadsOK, WorldOK, NEW t \in Threads,
           \/ BootDemote(t) \/ BootList(t) \/ BootReestablish(t) \/ BootRetract(t) \/ BootDone(t)
    PROVE  ThreadsOK' /\ WorldOK'
  <1>0. /\ job[t] \in Jobs /\ job[t].host \in Hosts /\ job[t].todo \in SUBSET Work
        /\ NoJob \in Jobs /\ [NoJob EXCEPT !.now = clock] \in Jobs
    BY JobFields, JobTypes DEF Jobs, WorldOK
  <1>l. {"idle", "pass", "boot-list", "boot-reestablish", "boot-retract"} \subseteq Labels
    BY DEF Labels
  <1>1. CASE BootDemote(t)
    <2>1. store' \in [Hosts -> GrantState]
      BY <1>1, HeldSteps DEF BootDemote, WorldOK
    <2>2. crossed' \subseteq Hosts
      BY <1>1 DEF BootDemote, WorldOK
    <2> QED
      BY <1>0, <1>l, <1>1, <2>1, <2>2, CallType DEF BootDemote, WorldOK
  <1>2. CASE BootList(t)
    <2>1. [job[t] EXCEPT !.todo = {Item(h) : h \in {k \in Hosts :
                                     IsOpen(store[k], job[t].now)}}] \in Jobs
      BY <1>0, ItemType DEF Jobs
    <2> QED
      BY <1>l, <1>2, <2>1, CallType DEF BootList, WorldOK
  <1>3. CASE BootReestablish(t)
    <2>1. ASSUME NEW w \in job[t].todo
          PROVE  [job[t] EXCEPT !.host = w.host, !.nonce = w.nonce, !.todo = @ \ {w}] \in Jobs
      <3>1. w.host \in Hosts /\ w.nonce \in Nat
        BY <1>0 DEF Work
      <3> QED
        BY <1>0, <3>1 DEF Jobs
    <2>2. PICK w \in job[t].todo :
             /\ \/ Call(t, "boot-reestablish",
                        [job[t] EXCEPT !.host = w.host, !.nonce = w.nonce, !.todo = @ \ {w}])
                \/ Call(t, "boot-retract",
                        [job[t] EXCEPT !.host = w.host, !.nonce = w.nonce, !.todo = @ \ {w}])
             /\ UNCHANGED faults \/ Fault
      BY <1>3 DEF BootReestablish
    <2>3. ThreadsOK'
      BY <1>l, <2>1, <2>2, CallType
    <2> QED
      BY <1>3, <2>2, <2>3, FaultType DEF BootReestablish, WorldOK
  <1>4. CASE BootRetract(t)
    <2>1. CASE CanRevert(store[job[t].host])
      <3>1. BeginRevert(store[job[t].host]) \in GrantState
        BY <1>0, <2>1, HeldSteps DEF WorldOK
      <3> QED
        BY <1>0, <1>l, <1>4, <2>1, <3>1, CommitType, GotoType DEF BootRetract, WorldOK
    <2>2. CASE ~CanRevert(store[job[t].host])
      <3>1. ThreadsOK' /\ panicked' \subseteq Labels
        BY <1>4, <2>2, PanicType DEF BootRetract, WorldOK
      <3> QED
        BY <1>4, <2>2, <3>1 DEF BootRetract, WorldOK
    <2> QED
      BY <2>1, <2>2
  <1>5. CASE BootDone(t)
    <2>1. ThreadsOK'
      BY <1>0, <1>l, <1>5 DEF BootDone, ThreadsOK
    <2> QED
      BY <1>5, <2>1 DEF BootDone, WorldOK
  <1> QED
    BY <1>1, <1>2, <1>3, <1>4, <1>5

\* The steps that no operation of the daemon takes.
LEMMA EnvironmentStepType ==
    ASSUME ThreadsOK, WorldOK,
           \/ Crash \/ Shutdown \/ Tick \/ \E t \in Threads : Fatal(t) \/ Lost(t)
           \/ \E h \in Hosts : DeadmanFires(h)
    PROVE  ThreadsOK' /\ WorldOK'
  <1>1. CASE Crash
    <2>1. ASSUME NEW t \in Daemon, CutShort(t)
          PROVE  /\ applied' \in [Hosts -> SUBSET Channels] /\ crossed' \subseteq Hosts
                 /\ deadman' \in [Hosts -> Deadmen]
      <3>1. t \in Threads /\ job[t].host \in Hosts /\ job[t].channels \in SUBSET Channels
        BY JobFields DEF Threads
      <3>2. applied' \in [Hosts -> SUBSET Channels]
        BY <2>1, <3>1 DEF CutShort, AppliedAll, WorldOK
      <3>3. deadman' \in [Hosts -> Deadmen]
        BY <2>1, <3>1, ArmLeaves, DisarmLeaves DEF CutShort, WorldOK
      <3> QED
        BY <2>1, <3>1, <3>2, <3>3, CrossType DEF CutShort
    <2>2. /\ applied' \in [Hosts -> SUBSET Channels] /\ crossed' \subseteq Hosts
          /\ deadman' \in [Hosts -> Deadmen]
      BY <1>1, <2>1 DEF Crash, WorldOK
    <2>3. ThreadsOK'
      BY <1>1, StopType DEF Crash
    <2> QED
      BY <1>1, <2>2, <2>3 DEF Crash, WorldOK
  <1>2. CASE Shutdown
    BY <1>2, StopType DEF Shutdown, WorldOK
  <1>3. CASE Tick
    BY <1>3 DEF Tick, WorldOK, ThreadsOK
  <1>4. ASSUME NEW t \in Threads, Fatal(t)
        PROVE  ThreadsOK' /\ WorldOK'
    <2>1. "idle" \in Labels /\ "dead" \in Labels /\ NoJob \in Jobs
      BY JobTypes DEF Labels
    <2>2. ThreadsOK'
      BY <1>4, <2>1, StopType, CallType DEF Fatal
    <2> QED
      BY <1>4, <2>2 DEF Fatal, WorldOK
  <1>5. ASSUME NEW t \in Threads, Lost(t)
        PROVE  ThreadsOK' /\ WorldOK'
    <2>1. "idle" \in Labels /\ "dead" \in Labels /\ NoJob \in Jobs
      BY JobTypes DEF Labels
    <2>2. ThreadsOK'
      BY <1>5, <2>1, CallType DEF Lost
    <2> QED
      BY <1>5, <2>2 DEF Lost, WorldOK
  <1>6. ASSUME NEW h \in Hosts, DeadmanFires(h)
        PROVE  ThreadsOK' /\ WorldOK'
    BY <1>6, DisarmLeaves DEF DeadmanFires, DisarmStopped, WorldOK, ThreadsOK
  <1> QED
    BY <1>1, <1>2, <1>3, <1>4, <1>5, <1>6

\* Every step of the system keeps every variable in its type, stutters included.
LEMMA StepType ==
    ASSUME TypeOK, [Next]_vars
    PROVE  TypeOK'
  <1>0. ThreadsOK /\ WorldOK
    BY TypeParts
  <1>1. CASE UNCHANGED vars
    BY <1>1 DEF TypeOK, vars
  <1>2. ASSUME NEW t \in Listeners, NEW h \in Hosts, Request(t, h)
        PROVE  ThreadsOK' /\ WorldOK'
    BY <1>0, <1>2, RequestType
  <1>3. ASSUME NEW t \in Threads, Continue(t)
        PROVE  ThreadsOK' /\ WorldOK'
    BY <1>0, <1>3, OpenStepType, CloseStepType, RenewDrillStepType, PassStepType,
       BootStepType, EnvironmentStepType DEF Continue
  <1>4. ASSUME NEW t \in {Main} \union Once, BootDemote(t)
        PROVE  ThreadsOK' /\ WorldOK'
    BY <1>0, <1>4, BootStepType DEF Threads, Daemon
  <1>5. ASSUME \/ Crash \/ Shutdown \/ Tick \/ \E t \in Threads : Lost(t)
               \/ \E h \in Hosts : DeadmanFires(h)
        PROVE  ThreadsOK' /\ WorldOK'
    BY <1>0, <1>5, EnvironmentStepType
  <1>6. TypeOK' <=> ThreadsOK' /\ WorldOK'
    BY DEF TypeOK, ThreadsOK, WorldOK, Deadmen
  <1>7. CASE Next
    <2>1. ThreadsOK' /\ WorldOK'
      BY <1>2, <1>3, <1>4, <1>5, <1>7 DEF Next
    <2> QED
      BY <1>6, <2>1
  <1> QED
    BY <1>1, <1>7

\* The initial state: nothing open, the daemon down.
LEMMA InitType == Init => TypeOK
  <1> SUFFICES ASSUME Init PROVE TypeOK
    OBVIOUS
  <1>1. Closed \in GrantState /\ NoJob \in Jobs
    BY ConstructedGrants, JobTypes
  <1>2. NoDeadman \in Deadmen
    BY DEF NoDeadman, Deadmen
  <1>3. ThreadsOK /\ WorldOK
    BY <1>1, <1>2 DEF Init, ThreadsOK, WorldOK, Labels
  <1> QED
    BY <1>3, TypeParts

\* Type correctness: whatever the threads, the faults and the crashes do, the
\* store holds a well formed grant per host and every thread's locals (the
\* channels, deadlines and work lists lifecycle.rs carries between its critical
\* sections) are well formed.
THEOREM TypeCorrect == Spec => []TypeOK
  BY InitType, StepType, PTL DEF Spec

(***************************************************************************)
(* The claim of Opening is exclusive and its owner always settles it, as    *)
(* long as no `--once` process shares the store with the daemon.            *)
(***************************************************************************)
\* Where a thread is while it drives an open, and while it boots.
Driving == {"apply", "install", "unwind", "finish-open", "unwind-open"}
Booting == {"boot-list", "boot-reestablish", "boot-retract"}

\* An operation returns to its socket, to the drill or to the pass that made it.
ReturnsOK == \A t \in Threads : job[t].ret \in {"idle", "close", "pass-revert", "pass-wait"}

\* Only the main thread boots, and nobody else runs while it does.
BootAlone ==
    /\ \A t \in Listeners : pc[t] \notin Booting
    /\ pc[Main] \in Booting => \A t \in Listeners : pc[t] = "down"

\* What the main thread has listed to re-establish can still be retracted.
BootCanRetract ==
    /\ pc[Main] \in {"boot-reestablish", "boot-retract"} =>
          \A w \in job[Main].todo : CanRevert(store[w.host])
    /\ pc[Main] = "boot-retract" => CanRevert(store[job[Main].host])

OpenerInv == SoleOpener /\ OpenSettles /\ ReturnsOK /\ BootAlone /\ BootCanRetract

\* A step leaves alone every grant at Opening that someone still drives.
Spares ==
    \A h \in Hosts : MidOpen(store[h]) =>
        store'[h] = store[h] \/ \A s \in Threads : ~(Drives(s, h)')

\* No thread takes up an open in this step.
NobodyClaims == \A s \in Threads, h \in Hosts : Drives(s, h)' => Drives(s, h)

\* SoleOpener survives a step in which nobody claims and driven opens are spared.
LEMMA SoleOpenerFrame ==
    ASSUME SoleOpener, NobodyClaims, Spares
    PROVE  SoleOpener'
  BY DEF SoleOpener, NobodyClaims, Spares

\* The boot invariants survive a step of a thread that is neither down nor booting.
LEMMA BootFrame ==
    ASSUME Once = {}, ThreadsOK, BootAlone, NEW t \in Threads,
           pc[t] \notin Booting \union {"down"}, pc'[t] \notin Booting,
           \A s \in Threads \ {t} : pc'[s] = pc[s]
    PROVE  BootAlone' /\ BootCanRetract'
  <1>1. Threads = {Main} \union Listeners
    BY DEF Threads, Daemon
  <1>2. pc'[Main] \notin Booting
    BY <1>1 DEF BootAlone
  <1>3. \A s \in Listeners : pc'[s] \notin Booting
    BY <1>1 DEF BootAlone
  <1> QED
    BY <1>2, <1>3 DEF BootAlone, BootCanRetract, Booting

\* A thread goes on with its operation.
LEMMA CallKeeps ==
    ASSUME Once = {}, ThreadsOK, OpenerInv, Spares, UNCHANGED panicked,
           NEW t \in Threads, NEW label, NEW j, Call(t, label, j),
           pc[t] \notin Booting \union {"down"}, label \notin Booting,
           label \in Driving => pc[t] \in Driving /\ j.host = job[t].host,
           j.ret \in {"idle", "close", "pass-revert", "pass-wait"}
    PROVE  OpenerInv'
  <1>1. /\ pc' = [pc EXCEPT ![t] = label]
        /\ job' = [job EXCEPT ![t] = j]
    BY DEF Call, Goto
  <1>2. NobodyClaims
    BY <1>1 DEF NobodyClaims, Drives, ThreadsOK, Driving
  <1>3. SoleOpener'
    BY <1>2, SoleOpenerFrame DEF OpenerInv
  <1>4. BootAlone' /\ BootCanRetract'
    BY <1>1, BootFrame DEF OpenerInv, ThreadsOK
  <1>5. ReturnsOK'
    BY <1>1 DEF OpenerInv, ReturnsOK, ThreadsOK
  <1> QED
    BY <1>3, <1>4, <1>5 DEF OpenerInv, OpenSettles

\* ... with its locals unchanged.
LEMMA GotoKeeps ==
    ASSUME Once = {}, ThreadsOK, OpenerInv, Spares, UNCHANGED <<panicked, job>>,
           NEW t \in Threads, NEW label, Goto(t, label),
           pc[t] \notin Booting \union {"down"}, label \notin Booting,
           label \in Driving => pc[t] \in Driving
    PROVE  OpenerInv'
  <1>1. Call(t, label, job[t])
    BY DEF Call, ThreadsOK
  <1>2. job[t].ret \in {"idle", "close", "pass-revert", "pass-wait"}
    BY DEF OpenerInv, ReturnsOK
  <1> QED
    BY <1>1, <1>2, CallKeeps

\* An operation ends, or a sub-operation goes back to its caller.
LEMMA ReturnKeeps ==
    ASSUME Once = {}, ThreadsOK, OpenerInv, Spares, UNCHANGED panicked,
           NEW t \in Threads, Return(t), pc[t] \notin Booting \union {"down"}
    PROVE  OpenerInv'
  <1>1. job[t].ret \in {"idle", "close", "pass-revert", "pass-wait"}
    BY DEF OpenerInv, ReturnsOK
  <1>2. NoJob.ret = "idle" /\ \A i : Resume(i).ret = "idle"
    BY DEF NoJob, Resume
  <1>3. Call(t, job[t].ret, IF job[t].ret = "idle" THEN NoJob ELSE Resume(job[t]))
    BY DEF Return, Call, Goto
  <1>4. job[t].ret \notin Booting \union Driving
    BY <1>1 DEF Booting, Driving
  <1>5. (IF job[t].ret = "idle" THEN NoJob ELSE Resume(job[t])).ret = "idle"
    BY <1>2
  <1> QED
    BY <1>3, <1>4, <1>5, CallKeeps

\* The process stops: nobody drives and nobody boots.
LEMMA StopKeeps ==
    ASSUME Once = {}, ThreadsOK, OpenerInv, StopDaemon, OpenSettles'
    PROVE  OpenerInv'
  <1>1. /\ \A s \in Threads : pc'[s] = "down" /\ job'[s] = NoJob
        /\ Main \in Threads /\ Listeners \subseteq Threads
    BY DEF StopDaemon, Threads, Daemon
  <1>2. SoleOpener' /\ BootAlone' /\ BootCanRetract'
    BY <1>1 DEF SoleOpener, Drives, BootAlone, BootCanRetract, Booting
  <1>3. ReturnsOK'
    BY <1>1 DEF ReturnsOK, NoJob
  <1> QED
    BY <1>2, <1>3 DEF OpenerInv

\* A failed expect outside drive_open and reestablish_open.
LEMMA PanicKeeps ==
    ASSUME Once = {}, ThreadsOK, OpenerInv, Spares, NEW t \in Threads, Panic(t),
           pc[t] \notin Driving \union Booting \union {"down"}
    PROVE  OpenerInv'
  <1>1. OpenSettles'
    BY DEF OpenerInv, OpenSettles, Panic, Driving, Booting
  <1>2. CASE t = Main
    BY <1>1, <1>2, StopKeeps DEF Panic
  <1>3. CASE t # Main
    <2>1. /\ pc' = [pc EXCEPT ![t] = "dead"]
          /\ job' = [job EXCEPT ![t] = NoJob]
      BY <1>3 DEF Panic
    <2>2. NobodyClaims
      BY <2>1 DEF NobodyClaims, Drives, ThreadsOK
    <2>3. SoleOpener'
      BY <2>2, SoleOpenerFrame DEF OpenerInv
    <2>4. BootAlone' /\ BootCanRetract'
      BY <2>1, BootFrame DEF OpenerInv, ThreadsOK, Booting
    <2>5. ReturnsOK'
      BY <2>1 DEF OpenerInv, ReturnsOK, ThreadsOK, NoJob
    <2> QED
      BY <1>1, <2>3, <2>4, <2>5 DEF OpenerInv
  <1> QED
    BY <1>2, <1>3

\* A commit to a grant that is not at Opening spares every driven open.
LEMMA CommitSpares ==
    ASSUME WorldOK, NEW h \in Hosts, NEW g, ~MidOpen(store[h]), Commit(h, g)
    PROVE  Spares
  BY DEF Spares, Commit, WorldOK

\* So does a step that writes no grant.
LEMMA StoreSpares == UNCHANGED store => Spares
  BY DEF Spares

(***************************************************************************)
(* One step per action.                                                     *)
(***************************************************************************)

\* The locals a step passes on keep their return label.
LEMMA ReturnLabels ==
    ASSUME OpenerInv, NEW t \in Threads
    PROVE  /\ job[t].ret \in {"idle", "close", "pass-revert", "pass-wait"}
           /\ NoJob.ret = "idle"
           /\ \A h : Begin(h).ret = "idle"
  BY DEF OpenerInv, ReturnsOK, NoJob, Begin

\* An arriving request claims nothing: it finds a closed grant or only reads.
LEMMA RequestKeeps ==
    ASSUME Once = {}, ThreadsOK, WorldOK, OpenerInv,
           NEW t \in Listeners, NEW h \in Hosts, Request(t, h)
    PROVE  OpenerInv'
  <1>0. t \in Threads
    BY DEF Threads, Daemon
  <1>1. Begin(h) \in Jobs /\ Begin(h).ret = "idle"
    BY <1>0, BeginType, ReturnLabels
  <1>2. pc[t] = "idle" => pc[t] \notin Booting \union {"down"}
    BY DEF Booting
  <1>3. {"claim", "prove", "approve", "cancel", "begin-revert", "reschedule", "renew-channels",
         "drill"} \cap (Booting \union Driving) = {}
    BY DEF Booting, Driving
  <1>4. ASSUME NEW ttl \in Ttls, NEW p \in Profiles, OpenRequest(t, h, ttl, p)
        PROVE  OpenerInv'
    <2>1. ~MidOpen(store[h])
      BY <1>4 DEF OpenRequest, CanBeginPending, MidOpen
    <2>2. Spares
      BY <1>4, <2>1, CommitSpares DEF OpenRequest
    <2>3. pc[t] = "idle" /\ UNCHANGED <<pc, job, panicked>>
      BY <1>4 DEF OpenRequest, Sends, At
    <2>4. Goto(t, "idle")
      BY <1>0, <2>3 DEF Goto, ThreadsOK
    <2> QED
      BY <1>0, <1>2, <2>2, <2>3, <2>4, GotoKeeps DEF Booting, Driving
  <1>5. CASE Approve(t, h)
    <2>1. pc[t] = "idle" /\ UNCHANGED <<store, panicked>> /\ ReadRequest(t, Begin(h))
      BY <1>5 DEF Approve, Sends, At
    <2>2. \A n, ids : /\ [Begin(h) EXCEPT !.nonce = n].ret = "idle"
                     /\ [Begin(h) EXCEPT !.nonce = n, !.proofs = ids].ret = "idle"
      BY DEF Begin, NoJob
    <2> QED
      BY <1>0, <1>2, <1>3, <2>1, <2>2, StoreSpares, CallKeeps DEF ReadRequest
  <1>6. CASE McpApprove(t, h)
    BY <1>0, <1>1, <1>2, <1>3, <1>6, StoreSpares, CallKeeps DEF McpApprove, Sends, At
  <1>7. CASE Close(t, h)
    <2>1. \A n : [Begin(h) EXCEPT !.nonce = n].ret = "idle"
      BY DEF Begin, NoJob
    <2> QED
      BY <1>0, <1>2, <1>3, <1>7, <2>1, StoreSpares, CallKeeps DEF Close, ReadForClose, Sends, At
  <1>8. ASSUME NEW ttl \in Ttls, RenewRequest(t, h, ttl)
        PROVE  OpenerInv'
    <2>1. [Begin(h) EXCEPT !.ttl = ttl, !.expires = clock + ttl].ret = "idle"
      BY DEF Begin, NoJob
    <2> QED
      BY <1>0, <1>2, <1>3, <1>8, <2>1, StoreSpares, CallKeeps DEF RenewRequest, Sends, At
  <1>9. CASE Drill(t, h)
    BY <1>0, <1>1, <1>2, <1>3, <1>9, StoreSpares, CallKeeps DEF Drill, Sends, At
  <1> QED
    BY <1>4, <1>5, <1>6, <1>7, <1>8, <1>9 DEF Request

\* The proofs of an approval touch a request, never an open.
LEMMA ApproveKeeps ==
    ASSUME Once = {}, ThreadsOK, WorldOK, OpenerInv, NEW t \in Threads,
           ApproveGated(t) \/ Prove(t) \/ EvaluateProofs(t)
    PROVE  OpenerInv'
  <1>0. job[t] \in Jobs /\ job[t].host \in Hosts
    BY JobFields
  <1>1. pc[t] \in {"approve", "prove", "evaluate"} => pc[t] \notin Booting \union {"down"}
    BY DEF Booting
  <1>2. {"claim", "prove", "evaluate"} \cap (Booting \union Driving) = {}
    BY DEF Booting, Driving
  <1>3. job[t].ret \in {"idle", "close", "pass-revert", "pass-wait"}
    BY ReturnLabels
  <1>4. \A n, ids : /\ [job[t] EXCEPT !.nonce = n].ret = job[t].ret
                   /\ [job[t] EXCEPT !.proofs = ids].ret = job[t].ret
                   /\ [job[t] EXCEPT !.nonce = n, !.proofs = ids].ret = job[t].ret
    BY <1>0 DEF Jobs
  <1>5. CASE ApproveGated(t)
    <2>1. pc[t] = "approve" /\ UNCHANGED <<store, panicked>>
      BY <1>5 DEF ApproveGated, At
    <2>2. CASE ReadRequest(t, job[t])
      BY <1>1, <1>2, <1>3, <1>4, <2>1, <2>2, StoreSpares, CallKeeps DEF ReadRequest
    <2>3. CASE Return(t)
      BY <1>1, <2>1, <2>3, StoreSpares, ReturnKeeps
    <2> QED
      BY <1>5, <2>2, <2>3 DEF ApproveGated
  <1>6. CASE Prove(t)
    <2>1. pc[t] = "prove" /\ UNCHANGED panicked
      BY <1>6 DEF Prove, At
    <2>2. CASE CanAddSatisfied(store[job[t].host], job[t].now)
      <3>1. ~MidOpen(store[job[t].host])
        BY <2>2 DEF CanAddSatisfied, AwaitingApproval, MidOpen
      <3>2. Spares
        BY <1>0, <1>6, <2>2, <3>1, CommitSpares DEF Prove
      <3> QED
        BY <1>1, <1>2, <1>3, <1>4, <1>6, <2>1, <2>2, <3>2, CallKeeps DEF Prove
    <2>3. CASE ~CanAddSatisfied(store[job[t].host], job[t].now)
      BY <1>1, <1>6, <2>1, <2>3, StoreSpares, ReturnKeeps DEF Prove
    <2> QED
      BY <2>2, <2>3
  <1>7. CASE EvaluateProofs(t)
    <2>1. pc[t] = "evaluate" /\ UNCHANGED <<store, panicked>>
      BY <1>7 DEF EvaluateProofs, At
    <2>2. \/ \E n : Call(t, "claim", [job[t] EXCEPT !.nonce = n])
          \/ Return(t)
      BY <1>7 DEF EvaluateProofs
    <2> QED
      BY <1>1, <1>2, <1>3, <1>4, <2>1, <2>2, StoreSpares, CallKeeps, ReturnKeeps
  <1> QED
    BY <1>5, <1>6, <1>7

\* The claim: the request was pending, so nobody drove the host, and now the
\* claimer alone does.
LEMMA ClaimKeeps ==
    ASSUME Once = {}, ThreadsOK, WorldOK, OpenerInv, NEW t \in Threads, Claim(t)
    PROVE  OpenerInv'
  <1> DEFINE h == job[t].host
  <1>0. job[t] \in Jobs /\ h \in Hosts /\ pc[t] = "claim" /\ UNCHANGED panicked
    BY JobFields DEF Claim, At
  <1>1. pc[t] \notin Booting \union {"down"}
    BY <1>0 DEF Booting
  <1>2. CASE ~CanApprove(store[h], job[t].now)
    BY <1>0, <1>1, <1>2, StoreSpares, ReturnKeeps DEF Claim
  <1>3. CASE CanApprove(store[h], job[t].now)
    <2> DEFINE g == ApproveToOpening(store[h], job[t].now, Drivable(h))
               j == [job[t] EXCEPT !.nonce = nonces[h], !.channels = Drivable(h),
                                   !.expires = job[t].now + store[h].ttl]
    <2>1. /\ store' = [store EXCEPT ![h] = g]
          /\ pc' = [pc EXCEPT ![t] = "apply"]
          /\ job' = [job EXCEPT ![t] = j]
      BY <1>3 DEF Claim, Commit, Call, Goto
    <2>2. MidOpen(g) /\ j.host = h /\ j.ret = job[t].ret
      BY <1>0 DEF MidOpen, ApproveToOpening, Opening, Jobs
    <2>3. \A s \in Threads : ~Drives(s, h)
      BY <1>0, <1>3 DEF OpenerInv, SoleOpener, CanApprove, AwaitingApproval, MidOpen
    <2>4. SoleOpener'
      <3> HIDE DEF h, g, j
      <3>1. ASSUME NEW k \in Hosts, NEW s \in Threads, Drives(s, k)'
            PROVE  /\ MidOpen(store'[k])
                   /\ \A u \in Threads : Drives(u, k)' => u = s
        <4>1. CASE k = h
          <5>1. \A u \in Threads : Drives(u, k)' => u = t
            BY <2>1, <2>3, <4>1 DEF Drives, ThreadsOK
          <5> QED
            BY <1>0, <2>1, <2>2, <3>1, <4>1, <5>1 DEF WorldOK
        <4>2. CASE k # h
          <5>1. \A u \in Threads : Drives(u, k)' => Drives(u, k)
            BY <2>1, <2>2, <4>2 DEF Drives, ThreadsOK
          <5>2. store'[k] = store[k]
            BY <2>1, <4>2 DEF WorldOK
          <5> QED
            BY <3>1, <5>1, <5>2 DEF OpenerInv, SoleOpener
        <4> QED
          BY <4>1, <4>2
      <3> QED
        BY <3>1 DEF SoleOpener
    <2>5. BootAlone' /\ BootCanRetract'
      <3>1. /\ pc'[t] \notin Booting
            /\ \A s \in Threads \ {t} : pc'[s] = pc[s]
        BY <2>1 DEF ThreadsOK, Booting
      <3> QED
        BY <1>1, <3>1, BootFrame DEF OpenerInv
    <2>6. ReturnsOK'
      BY <2>1, <2>2 DEF OpenerInv, ReturnsOK, ThreadsOK
    <2> QED
      BY <1>0, <2>4, <2>5, <2>6 DEF OpenerInv, OpenSettles
  <1> QED
    BY <1>2, <1>3

\* The claimer drives its own host until it settles, and finds it at Opening.
LEMMA DriveKeeps ==
    ASSUME Once = {}, ThreadsOK, WorldOK, OpenerInv, NEW t \in Threads,
           \/ ApplyChannels(t) \/ InstallDeadman(t) \/ UnwindApplied(t)
           \/ FinishOpening(t) \/ UnwindOpening(t)
    PROVE  OpenerInv'
  <1> DEFINE h == job[t].host
  <1>0. job[t] \in Jobs /\ h \in Hosts
    BY JobFields
  <1>1. pc[t] \in Driving => pc[t] \notin Booting \union {"down"}
    BY DEF Booting, Driving
  <1>2. job[t].ret \in {"idle", "close", "pass-revert", "pass-wait"}
    BY ReturnLabels
  <1>3. \A stuck : /\ [job[t] EXCEPT !.stuck = stuck].ret = job[t].ret
                  /\ [job[t] EXCEPT !.stuck = stuck].host = h
    BY <1>0 DEF Jobs
  <1>4. Driving \cap Booting = {}
    BY DEF Booting, Driving
  <1>5. CASE ApplyChannels(t)
    <2>1. pc[t] \in Driving /\ UNCHANGED <<store, panicked>>
          /\ {"install", "finish-open", "unwind-open"} \subseteq Driving
      BY <1>5 DEF ApplyChannels, Driving
    <2>2. \/ \E label \in Driving : Goto(t, label) /\ UNCHANGED job
          \/ \E stuck : Call(t, "unwind-open", [job[t] EXCEPT !.stuck = stuck])
      BY <1>5, <2>1 DEF ApplyChannels
    <2> QED
      BY <1>1, <1>2, <1>3, <1>4, <2>1, <2>2, StoreSpares, CallKeeps, GotoKeeps
  <1>6. CASE InstallDeadman(t)
    <2>1. pc[t] \in Driving /\ UNCHANGED <<store, panicked, job>>
          /\ {"unwind", "finish-open"} \subseteq Driving
      BY <1>6 DEF InstallDeadman, Driving
    <2>2. \E label \in Driving : Goto(t, label)
      BY <1>6, <2>1 DEF InstallDeadman
    <2> QED
      BY <1>1, <1>4, <2>1, <2>2, StoreSpares, GotoKeeps
  <1>7. CASE UnwindApplied(t)
    <2>1. pc[t] \in Driving /\ UNCHANGED <<store, panicked>> /\ "unwind-open" \in Driving
      BY <1>7 DEF UnwindApplied, Driving
    <2>2. \E stuck : Call(t, "unwind-open", [job[t] EXCEPT !.stuck = stuck])
      BY <1>7 DEF UnwindApplied
    <2> QED
      BY <1>1, <1>2, <1>3, <1>4, <2>1, <2>2, StoreSpares, CallKeeps
  <1>8. CASE FinishOpening(t) \/ UnwindOpening(t)
    <2>1. pc[t] \in Driving /\ Drives(t, h)
      BY <1>8 DEF FinishOpening, UnwindOpening, At, Driving, Drives
    <2>2. MidOpen(store[h]) /\ \A s \in Threads : Drives(s, h) => s = t
      BY <1>0, <2>1 DEF OpenerInv, SoleOpener
    <2>3. UNCHANGED panicked /\ Return(t) /\ \E g : Commit(h, g)
      BY <1>8, <2>2 DEF FinishOpening, UnwindOpening
    <2>4. Spares
      <3>1. pc'[t] \notin Driving /\ \A s \in Threads \ {t} : pc'[s] = pc[s] /\ job'[s] = job[s]
        BY <1>2, <2>3 DEF Return, ThreadsOK, Driving
      <3>2. \A k \in Hosts, s \in Threads : k = h => ~(Drives(s, k)')
        BY <2>2, <3>1 DEF Drives, Driving
      <3>3. \A k \in Hosts \ {h} : store'[k] = store[k]
        BY <2>3 DEF Commit, WorldOK
      <3> QED
        BY <3>2, <3>3 DEF Spares
    <2> QED
      BY <1>1, <2>1, <2>3, <2>4, ReturnKeeps
  <1> QED
    BY <1>5, <1>6, <1>7, <1>8

\* A close cancels a request or reverts an open grant, never one at Opening.
LEMMA CloseKeeps ==
    ASSUME Once = {}, ThreadsOK, WorldOK, OpenerInv, NEW t \in Threads,
           \/ CloseDrill(t) \/ CancelPending(t) \/ BeginReverting(t)
           \/ RevertChannels(t) \/ RemoveDeadman(t) \/ FinishReverting(t)
           \/ JournalClose(t) \/ RetainStuck(t)
    PROVE  OpenerInv'
  <1> DEFINE h == job[t].host
             Here == {"close", "cancel", "begin-revert", "revert", "remove", "finish-revert",
                      "retain", "journal-close"}
  <1>0. job[t] \in Jobs /\ h \in Hosts
    BY JobFields
  <1>1. \A label \in Here : label \notin Driving \union Booting \union {"down"}
    BY DEF Booting, Driving
  <1>2. job[t].ret \in {"idle", "close", "pass-revert", "pass-wait"}
    BY ReturnLabels
  <1>3. \A n, cs : /\ [job[t] EXCEPT !.nonce = n].ret = job[t].ret
                  /\ [job[t] EXCEPT !.stuck = cs].ret = job[t].ret
                  /\ [job[t] EXCEPT !.nonce = n, !.channels = cs].ret = job[t].ret
    BY <1>0 DEF Jobs
  <1>4. CASE CloseDrill(t)
    <2>1. pc[t] \in Here /\ UNCHANGED <<store, panicked>>
      BY <1>4 DEF CloseDrill, At
    <2>2. \E label \in Here : \E n : Call(t, label, [job[t] EXCEPT !.nonce = n])
      BY <1>4 DEF CloseDrill, ReadForClose
    <2> QED
      BY <1>1, <1>2, <1>3, <2>1, <2>2, StoreSpares, CallKeeps
  <1>5. CASE CancelPending(t)
    <2>1. pc[t] \in Here
      BY <1>5 DEF CancelPending, At
    <2>2. CASE CanCancelPending(store[h])
      <3>1. Spares
        BY <1>0, <1>5, <2>2, CommitSpares DEF CancelPending, CanCancelPending, MidOpen
      <3> QED
        BY <1>1, <1>5, <2>1, <2>2, <3>1, ReturnKeeps DEF CancelPending
    <2>3. CASE ~CanCancelPending(store[h])
      BY <1>1, <1>5, <2>1, <2>3, StoreSpares, PanicKeeps DEF CancelPending
    <2> QED
      BY <2>2, <2>3
  <1>6. CASE BeginReverting(t)
    <2>1. pc[t] \in Here /\ UNCHANGED panicked
      BY <1>6 DEF BeginReverting, At
    <2>2. CASE CanRevert(store[h])
      <3>1. Spares
        BY <1>0, <1>6, <2>2, CommitSpares DEF BeginReverting, CanRevert, MidOpen
      <3>2. \E label \in Here : \E n, cs :
               Call(t, label, [job[t] EXCEPT !.nonce = n, !.channels = cs])
        BY <1>6, <2>2 DEF BeginReverting
      <3> QED
        BY <1>1, <1>2, <1>3, <2>1, <3>1, <3>2, CallKeeps
    <2>3. CASE ~CanRevert(store[h])
      BY <1>1, <1>6, <2>1, <2>3, StoreSpares, ReturnKeeps DEF BeginReverting
    <2> QED
      BY <2>2, <2>3
  <1>7. CASE RevertChannels(t)
    <2>1. pc[t] \in Here /\ UNCHANGED <<store, panicked>>
      BY <1>7 DEF RevertChannels
    <2>2. \E label \in Here : \E cs : Call(t, label, [job[t] EXCEPT !.stuck = cs])
      BY <1>7 DEF RevertChannels
    <2> QED
      BY <1>1, <1>2, <1>3, <2>1, <2>2, StoreSpares, CallKeeps
  <1>8. CASE RemoveDeadman(t)
    <2>1. pc[t] \in Here /\ UNCHANGED <<store, panicked>>
      BY <1>8 DEF RemoveDeadman
    <2>2. \/ \E label \in Here : \E cs : Call(t, label, [job[t] EXCEPT !.stuck = cs])
          \/ \E label \in Here : Goto(t, label) /\ UNCHANGED job
      BY <1>8 DEF RemoveDeadman
    <2> QED
      BY <1>1, <1>2, <1>3, <2>1, <2>2, StoreSpares, CallKeeps, GotoKeeps
  <1>9. CASE FinishReverting(t)
    <2>1. pc[t] \in Here /\ UNCHANGED panicked
      BY <1>9 DEF FinishReverting, At
    <2>2. Spares
      BY <1>0, <1>9, CommitSpares, StoreSpares DEF FinishReverting, Reverting, MidOpen
    <2>3. \/ \E label \in Here : Goto(t, label) /\ UNCHANGED job
          \/ Return(t)
      BY <1>9 DEF FinishReverting
    <2> QED
      BY <1>1, <2>1, <2>2, <2>3, GotoKeeps, ReturnKeeps
  <1>10. CASE JournalClose(t)
    <2>1. pc[t] \in Here /\ UNCHANGED <<store, panicked>> /\ Return(t)
      BY <1>10 DEF JournalClose
    <2> QED
      BY <1>1, <2>1, StoreSpares, ReturnKeeps
  <1>11. CASE RetainStuck(t)
    <2>1. pc[t] \in Here /\ UNCHANGED panicked /\ Return(t)
      BY <1>11 DEF RetainStuck, At
    <2>2. Spares
      BY <1>0, <1>11, CommitSpares, StoreSpares DEF RetainStuck, Reverting, MidOpen
    <2> QED
      BY <1>1, <2>1, <2>2, ReturnKeeps
  <1> QED
    BY <1>4, <1>5, <1>6, <1>7, <1>8, <1>9, <1>10, <1>11

\* A renewal commits to an open grant, a drill's request to a closed one.
LEMMA RenewDrillKeeps ==
    ASSUME Once = {}, ThreadsOK, WorldOK, OpenerInv, NEW t \in Threads,
           \/ RescheduleDeadman(t) \/ RenewChannels(t) \/ CommitRenewal(t) \/ BeginDrill(t)
    PROVE  OpenerInv'
  <1> DEFINE h == job[t].host
             Here == {"reschedule", "renew-channels", "renew", "drill", "claim"}
  <1>0. job[t] \in Jobs /\ h \in Hosts
    BY JobFields
  <1>1. \A label \in Here : label \notin Driving \union Booting \union {"down"}
    BY DEF Booting, Driving
  <1>2. CASE RescheduleDeadman(t) \/ RenewChannels(t)
    <2>1. pc[t] \in Here /\ UNCHANGED <<store, panicked>>
      BY <1>2 DEF RescheduleDeadman, RenewChannels, At
    <2>2. \/ \E label \in Here : Goto(t, label) /\ UNCHANGED job
          \/ Return(t)
      BY <1>2 DEF RescheduleDeadman, RenewChannels
    <2> QED
      BY <1>1, <2>1, <2>2, StoreSpares, GotoKeeps, ReturnKeeps
  <1>3. CASE CommitRenewal(t)
    <2>1. pc[t] \in Here /\ UNCHANGED panicked /\ Return(t)
      BY <1>3 DEF CommitRenewal, At
    <2>2. Spares
      BY <1>0, <1>3, CommitSpares, StoreSpares DEF CommitRenewal, CanRenew, IsOpen, MidOpen
    <2> QED
      BY <1>1, <2>1, <2>2, ReturnKeeps
  <1>4. CASE BeginDrill(t)
    <2>1. pc[t] \in Here /\ UNCHANGED panicked
      BY <1>4 DEF BeginDrill, At
    <2>2. Spares
      BY <1>0, <1>4, CommitSpares, StoreSpares DEF BeginDrill, CanBeginPending, MidOpen
    <2>3. \A n : [job[t] EXCEPT !.nonce = n, !.ret = "close"].ret = "close"
      BY <1>0 DEF Jobs
    <2>4. \/ \E label \in Here : \E n : Call(t, label, [job[t] EXCEPT !.nonce = n, !.ret = "close"])
          \/ Return(t)
      BY <1>4 DEF BeginDrill
    <2> QED
      BY <1>1, <2>1, <2>2, <2>3, <2>4, CallKeeps, ReturnKeeps
  <1> QED
    BY <1>2, <1>3, <1>4

\* A pass reaps open and pending grants only.
LEMMA PassKeeps ==
    ASSUME Once = {}, ThreadsOK, WorldOK, OpenerInv, NEW t \in Threads,
           \/ PassReap(t) \/ PassList(t) \/ PassRevert(t) \/ PassAwaiting(t) \/ PassWait(t)
    PROVE  OpenerInv'
  <1> DEFINE Here == {"idle", "pass-list", "pass-revert", "pass-awaiting", "pass-wait", "revert",
                      "claim"}
             Rets == {"idle", "close", "pass-revert", "pass-wait"}
  <1>0. job[t] \in Jobs /\ job[t].ret \in Rets
    BY JobFields, ReturnLabels
  <1>1. \A label \in Here : label \notin Driving \union Booting \union {"down"}
    BY DEF Booting, Driving
  <1>2. \A n : NoJob.ret \in Rets /\ [NoJob EXCEPT !.now = n].ret \in Rets
    BY DEF NoJob
  <1>3. pc[t] \in Here /\ UNCHANGED panicked
    BY DEF PassReap, PassList, PassRevert, PassAwaiting, PassWait, At
  <1>4. Spares
    <2>1. CASE PassReap(t)
      BY <2>1 DEF PassReap, Spares, Reap, Expired, ApprovalExpired, MidOpen
    <2>2. CASE PassList(t) \/ PassRevert(t) \/ PassAwaiting(t) \/ PassWait(t)
      BY <2>2, StoreSpares DEF PassList, PassRevert, PassAwaiting, PassWait
    <2> QED
      BY <2>1, <2>2
  <1>5. \E label \in Here : \E j : Call(t, label, j) /\ j.ret \in Rets
    <2>1. CASE PassReap(t)
      BY <1>2, <2>1 DEF PassReap
    <2>2. CASE PassList(t) \/ PassAwaiting(t)
      <3>1. \A w : [job[t] EXCEPT !.todo = w].ret = job[t].ret
        BY <1>0 DEF Jobs
      <3> QED
        BY <1>0, <2>2, <3>1 DEF PassList, PassAwaiting
    <2>3. CASE PassRevert(t)
      <3>1. ASSUME NEW w \in job[t].todo
            PROVE  [job[t] EXCEPT !.host = w.host, !.channels = w.channels, !.nonce = w.nonce,
                                  !.ret = "pass-revert", !.todo = @ \ {w}].ret = "pass-revert"
        BY <1>0 DEF Jobs
      <3> QED
        BY <1>2, <2>3, <3>1 DEF PassRevert
    <2>4. CASE PassWait(t)
      <3>1. CASE job[t].todo = {} /\ Call(t, "idle", NoJob)
        BY <1>2, <3>1
      <3>2. CASE \E w \in job[t].todo : \E n :
                    LET rest == [NoJob EXCEPT !.host = w.host, !.now = job[t].now,
                                              !.todo = job[t].todo \ {w}]
                    IN  \/ Call(t, "claim", [rest EXCEPT !.nonce = n, !.ret = "pass-wait"])
                        \/ Call(t, "pass-wait", rest)
        <4>0. PICK w \in job[t].todo : \E n :
                    LET rest == [NoJob EXCEPT !.host = w.host, !.now = job[t].now,
                                              !.todo = job[t].todo \ {w}]
                    IN  \/ Call(t, "claim", [rest EXCEPT !.nonce = n, !.ret = "pass-wait"])
                        \/ Call(t, "pass-wait", rest)
          BY <3>2
        <4>1. PICK n :
                    LET rest == [NoJob EXCEPT !.host = w.host, !.now = job[t].now,
                                              !.todo = job[t].todo \ {w}]
                    IN  \/ Call(t, "claim", [rest EXCEPT !.nonce = n, !.ret = "pass-wait"])
                        \/ Call(t, "pass-wait", rest)
          BY <4>0
        <4> DEFINE rest == [NoJob EXCEPT !.host = w.host, !.now = job[t].now,
                                         !.todo = job[t].todo \ {w}]
        <4>2. /\ rest.ret = "idle"
              /\ [rest EXCEPT !.nonce = n, !.ret = "pass-wait"].ret = "pass-wait"
          BY DEF NoJob
        <4>3. \/ Call(t, "claim", [rest EXCEPT !.nonce = n, !.ret = "pass-wait"])
              \/ Call(t, "pass-wait", rest)
          BY <4>1
        <4> HIDE DEF rest
        <4> QED
          BY <4>2, <4>3
      <3> QED
        BY <2>4, <3>1, <3>2 DEF PassWait
    <2> QED
      BY <2>1, <2>2, <2>3, <2>4
  <1> QED
    BY <1>1, <1>3, <1>4, <1>5, CallKeeps

\* The main thread boots alone, so what it listed as open can be retracted.
LEMMA BootKeeps ==
    ASSUME Once = {}, ThreadsOK, WorldOK, OpenerInv, NEW t \in Threads,
           \/ BootDemote(t) \/ BootList(t) \/ BootReestablish(t) \/ BootRetract(t) \/ BootDone(t)
    PROVE  OpenerInv'
  <1>0. /\ Threads = {Main} \union Listeners /\ Main \notin Listeners
        /\ job[t] \in Jobs /\ job[t].ret \in {"idle", "close", "pass-revert", "pass-wait"}
    BY JobFields, ReturnLabels, LifecycleAssumption DEF Threads, Daemon
  <1>1. /\ t = Main
        /\ \A s \in Listeners : pc[s] = "down"
        /\ \A s \in Threads, h \in Hosts : ~Drives(s, h)
    BY <1>0 DEF OpenerInv, BootAlone, Booting, Drives, BootDemote, BootList, BootReestablish,
       BootRetract, BootDone, At, Daemon
  <1>a. ASSUME NEW label \in Booting, NEW j, Call(t, label, j), UNCHANGED panicked,
               j.ret \in {"idle", "close", "pass-revert", "pass-wait"}, BootCanRetract'
        PROVE  OpenerInv'
    <2>1. pc' = [pc EXCEPT ![Main] = label] /\ job' = [job EXCEPT ![Main] = j]
      BY <1>1, <1>a DEF Call, Goto
    <2>2. \A s \in Threads, h \in Hosts : ~(Drives(s, h)')
      BY <1>0, <1>1, <2>1 DEF Drives, ThreadsOK, Booting
    <2>3. SoleOpener' /\ BootAlone'
      BY <1>0, <1>1, <2>1, <2>2 DEF SoleOpener, BootAlone, ThreadsOK, Booting
    <2>4. ReturnsOK'
      BY <1>a, <2>1 DEF OpenerInv, ReturnsOK, ThreadsOK
    <2> QED
      BY <1>a, <2>3, <2>4 DEF OpenerInv, OpenSettles
  <1>b. {"boot-list", "boot-reestablish", "boot-retract"} \subseteq Booting
    BY DEF Booting
  <1>2. CASE BootDemote(t)
    <2>1. Call(t, "boot-list", [NoJob EXCEPT !.now = clock]) /\ UNCHANGED panicked
      BY <1>2 DEF BootDemote
    <2>2. [NoJob EXCEPT !.now = clock].ret = "idle"
      BY DEF NoJob
    <2>3. BootCanRetract'
      BY <1>0, <1>1, <2>1 DEF Call, Goto, BootCanRetract, ThreadsOK
    <2> QED
      BY <1>a, <1>b, <2>1, <2>2, <2>3
  <1>3. CASE BootList(t)
    <2> DEFINE j == [job[t] EXCEPT !.todo = {Item(h) : h \in {k \in Hosts :
                                               IsOpen(store[k], job[t].now)}}]
    <2>1. Call(t, "boot-reestablish", j) /\ UNCHANGED <<store, panicked>>
      BY <1>3 DEF BootList
    <2>2. /\ j.ret = job[t].ret
          /\ \A w \in j.todo : CanRevert(store[w.host])
      BY <1>0 DEF Jobs, Item, IsOpen, CanRevert
    <2>3. BootCanRetract'
      <3> HIDE DEF j
      <3>1. pc'[Main] = "boot-reestablish" /\ job'[Main] = j
        BY <1>0, <1>1, <2>1 DEF Call, Goto, ThreadsOK
      <3> QED
        BY <2>1, <2>2, <3>1 DEF BootCanRetract
    <2> HIDE DEF j
    <2> QED
      BY <1>0, <1>a, <1>b, <2>1, <2>2, <2>3
  <1>4. CASE BootReestablish(t)
    <2>1. PICK w \in job[t].todo, label \in {"boot-reestablish", "boot-retract"} :
             Call(t, label, [job[t] EXCEPT !.host = w.host, !.nonce = w.nonce, !.todo = @ \ {w}])
      BY <1>4 DEF BootReestablish
    <2> DEFINE j == [job[t] EXCEPT !.host = w.host, !.nonce = w.nonce, !.todo = @ \ {w}]
    <2>2. j.ret = job[t].ret /\ j.host = w.host /\ j.todo = job[t].todo \ {w}
      BY <1>0 DEF Jobs
    <2>3. \A v \in job[Main].todo : CanRevert(store[v.host])
      BY <1>1, <1>4 DEF OpenerInv, BootCanRetract, BootReestablish
    <2>4. Call(t, label, j) /\ UNCHANGED <<store, panicked>>
      BY <1>4, <2>1 DEF BootReestablish
    <2> HIDE DEF j
    <2>5. BootCanRetract'
      <3>1. pc'[Main] = label /\ job'[Main] = j
        BY <1>0, <1>1, <2>4 DEF Call, Goto, ThreadsOK
      <3> QED
        BY <1>1, <2>1, <2>2, <2>3, <2>4, <3>1 DEF BootCanRetract
    <2> QED
      BY <1>0, <1>a, <1>b, <2>1, <2>2, <2>4, <2>5
  <1>5. CASE BootRetract(t)
    <2>1. pc[Main] = "boot-retract" /\ CanRevert(store[job[t].host])
      BY <1>1, <1>5 DEF BootRetract, At, OpenerInv, BootCanRetract
    <2>2. /\ Commit(job[t].host, BeginRevert(store[job[t].host]))
          /\ Goto(t, "boot-reestablish") /\ UNCHANGED <<job, panicked>>
      BY <1>5, <2>1 DEF BootRetract
    <2>3. CanRevert(BeginRevert(store[job[t].host]))
      BY DEF CanRevert, BeginRevert, NeedsRevert
    <2>4. \A h \in Hosts : CanRevert(store[h]) => CanRevert(store'[h])
      BY <2>2, <2>3 DEF Commit, WorldOK
    <2>5. Call(t, "boot-reestablish", job[t])
      BY <2>2 DEF Call, ThreadsOK
    <2>6. BootCanRetract'
      <3>1. pc'[Main] = "boot-reestablish"
        BY <1>0, <1>1, <2>2 DEF Goto, ThreadsOK
      <3>2. \A w \in job[Main].todo : w.host \in Hosts /\ CanRevert(store[w.host])
        BY <1>0, <2>1, JobFields DEF OpenerInv, BootCanRetract, Work
      <3> QED
        BY <2>2, <2>4, <3>1, <3>2 DEF BootCanRetract
    <2> QED
      BY <1>0, <1>a, <1>b, <2>2, <2>5, <2>6
  <1>6. CASE BootDone(t)
    <2>1. /\ \A s \in Threads : pc'[s] = "idle"
          /\ job' = [job EXCEPT ![t] = NoJob]
          /\ UNCHANGED panicked
      BY <1>0, <1>1, <1>6 DEF BootDone, Daemon
    <2>2. SoleOpener' /\ BootAlone' /\ BootCanRetract'
      BY <1>0, <2>1 DEF SoleOpener, Drives, BootAlone, BootCanRetract, Booting
    <2>3. ReturnsOK'
      BY <2>1 DEF OpenerInv, ReturnsOK, ThreadsOK, NoJob
    <2> QED
      BY <2>1, <2>2, <2>3 DEF OpenerInv, OpenSettles
  <1> QED
    BY <1>2, <1>3, <1>4, <1>5, <1>6

\* Crashes, restarts and the world outside.
LEMMA EnvironmentKeeps ==
    ASSUME Once = {}, ThreadsOK, WorldOK, OpenerInv,
           \/ Crash \/ Shutdown \/ Tick \/ \E t \in Threads : Fatal(t) \/ Lost(t)
           \/ \E h \in Hosts : DeadmanFires(h)
    PROVE  OpenerInv'
  <1>1. CASE Crash \/ Shutdown
    BY <1>1, StopKeeps DEF Crash, Shutdown, OpenerInv, OpenSettles
  <1>2. CASE Tick \/ \E h \in Hosts : DeadmanFires(h)
    <2>1. UNCHANGED <<store, pc, job, panicked>>
      BY <1>2 DEF Tick, DeadmanFires
    <2> QED
      BY <2>1 DEF OpenerInv, SoleOpener, OpenSettles, ReturnsOK, BootAlone, BootCanRetract, Drives
  <1>3. ASSUME NEW t \in Threads, Fatal(t) \/ Lost(t)
        PROVE  OpenerInv'
    <2>1. CASE t = Main
      BY <1>3, <2>1, StopKeeps DEF Fatal, Lost, OpenerInv, OpenSettles
    <2>2. CASE t # Main
      <3>1. Call(t, "dead", NoJob) /\ UNCHANGED <<store, panicked>>
        BY <1>3, <2>2 DEF Fatal, Lost
      <3>2. "dead" \notin Booting \union Driving /\ NoJob.ret = "idle"
        BY DEF Booting, Driving, NoJob
      <3>3. pc[t] \notin Booting \union {"down"}
        BY <1>3, <2>2 DEF OpenerInv, BootAlone, Fatal, Lost, Threads, Daemon
      <3> QED
        BY <3>1, <3>2, <3>3, StoreSpares, CallKeeps
    <2> QED
      BY <2>1, <2>2
  <1> QED
    BY <1>1, <1>2, <1>3

\* Every step of the system keeps the invariant.
LEMMA StepKeeps ==
    ASSUME Once = {}, TypeOK, OpenerInv, [Next]_vars
    PROVE  OpenerInv'
  <1>0. ThreadsOK /\ WorldOK
    BY TypeParts
  <1>1. CASE UNCHANGED vars
    BY <1>1 DEF vars, OpenerInv, SoleOpener, OpenSettles, ReturnsOK, BootAlone, BootCanRetract,
       Drives
  <1>2. ASSUME NEW t \in Listeners, NEW h \in Hosts, Request(t, h)
        PROVE  OpenerInv'
    BY <1>0, <1>2, RequestKeeps
  <1>3. ASSUME NEW t \in Threads, Continue(t)
        PROVE  OpenerInv'
    BY <1>0, <1>3, ApproveKeeps, ClaimKeeps, DriveKeeps, CloseKeeps, RenewDrillKeeps, PassKeeps,
       BootKeeps, EnvironmentKeeps DEF Continue
  <1>4. ASSUME NEW t \in {Main} \union Once, BootDemote(t)
        PROVE  OpenerInv'
    BY <1>0, <1>4, BootKeeps DEF Threads, Daemon
  <1>5. CASE \/ Crash \/ Shutdown \/ Tick \/ \E t \in Threads : Lost(t)
             \/ \E h \in Hosts : DeadmanFires(h)
    BY <1>0, <1>5, EnvironmentKeeps
  <1> QED
    BY <1>1, <1>2, <1>3, <1>4, <1>5 DEF Next

\* At the start the daemon is down and nothing is claimed.
LEMMA InitKeeps == Once = {} /\ Init => OpenerInv
  <1> SUFFICES ASSUME Once = {}, Init PROVE OpenerInv
    OBVIOUS
  <1>1. /\ \A t \in Threads : pc[t] = "down" /\ job[t] = NoJob
        /\ Main \in Threads /\ Listeners \subseteq Threads /\ panicked = {}
    BY DEF Init, Threads, Daemon
  <1> QED
    BY <1>1 DEF OpenerInv, SoleOpener, OpenSettles, ReturnsOK, BootAlone, BootCanRetract,
       Drives, Booting, NoJob

\* drive_open's claim is exclusive: without `--once` processes beside it, no
\* interleaving of the daemon's threads, no fault and no crash lets two threads
\* drive one host's open or moves the grant from under the one that does.
THEOREM ClaimIsExclusive ==
    ASSUME Once = {}
    PROVE  Spec => []SoleOpener
  <1>1. Init => TypeOK /\ OpenerInv
    BY InitType, InitKeeps
  <1>2. TypeOK /\ OpenerInv /\ [Next]_vars => (TypeOK /\ OpenerInv)'
    BY StepType, StepKeeps
  <1>3. OpenerInv => SoleOpener
    BY DEF OpenerInv
  <1> QED
    BY <1>1, <1>2, <1>3, PTL DEF Spec

\* The expects of drive_open ("an opening grant can always finish", "... abort",
\* "... fail") and of reestablish_open ("an open grant can always begin revert")
\* never fail in a daemon that has its store to itself.
THEOREM ExpectsHold ==
    ASSUME Once = {}
    PROVE  Spec => []OpenSettles
  <1>1. Init => TypeOK /\ OpenerInv
    BY InitType, InitKeeps
  <1>2. TypeOK /\ OpenerInv /\ [Next]_vars => (TypeOK /\ OpenerInv)'
    BY StepType, StepKeeps
  <1>3. OpenerInv => OpenSettles
    BY DEF OpenerInv
  <1> QED
    BY <1>1, <1>2, <1>3, PTL DEF Spec

(***************************************************************************)
(* Nothing is in force on a host that its grant does not record, and no     *)
(* open grant is without its dead-man, with any number of listeners and     *)
(* `--once` processes.  The invariant says what each thread knows of a host *)
(* nobody has worked on for an earlier request.                             *)
(***************************************************************************)

\* Where a thread is while it reverts a grant, and where an operation returns to.
Reverters == {"revert", "retain", "remove", "finish-revert"}
Rets == {"idle", "close", "pass-revert", "pass-wait"}

\* Where a thread is about to take a list of its own, as nobody's callee.
Listers == {"pass-awaiting", "boot-list"}

\* The grant is being reverted, or is closed.
Shelved(h) == store[h].state \in {"needs-revert", "closed"}

\* What a thread in drive_one_revert takes to be left in force.
Left(t) ==
    IF pc[t] = "revert" THEN job[t].channels
    ELSE IF pc[t] = "retain" THEN job[t].stuck
    ELSE {}

\* Work taken from request n of h, which expects at most `channels` in force:
\* while n is the request the host is at, it is right.
WorkOK(h, n, channels) ==
    /\ n <= nonces[h]
    /\ n = nonces[h] => Shelved(h) /\ applied[h] \subseteq channels

\* What the thread that drives an open knows between two of its steps.
DriverOK(t, h) ==
    Drives(t, h) =>
        /\ MidOpen(store[h])
        /\ store[h].channels = job[t].channels
        /\ job[t].nonce = nonces[h]
        /\ pc[t] = "apply" => applied[h] = {}
        /\ pc[t] = "unwind-open" => applied[h] \subseteq job[t].stuck
        /\ pc[t] = "finish-open" /\ WantsDeadman(h, applied[h]) => Standing(h)

\* What a thread that reverts knows.
ReverterOK(t, h) ==
    job[t].host = h /\ pc[t] \in Reverters => WorkOK(h, job[t].nonce, Left(t))

\* What a pass has listed to revert, the item it is at left out.
Carries(t) == pc[t] = "pass-revert" \/ job[t].ret = "pass-revert"
ListOK(t, h) ==
    Carries(t) => \A w \in job[t].todo : w.host = h => WorkOK(h, w.nonce, w.channels)

ThreadOK(t, h) == DriverOK(t, h) /\ ReverterOK(t, h) /\ ListOK(t, h)

OneDriver(h) == \A s, t \in Threads : Drives(s, h) /\ Drives(t, h) => s = t

\* The two properties, for one host.
RecordOK(h) ==
    /\ applied[h] \subseteq Recorded(store[h])
    /\ store[h].state = "open" /\ WantsDeadman(h, applied[h]) => Standing(h)

HostOK(h) == RecordOK(h) /\ OneDriver(h) /\ \A t \in Threads : ThreadOK(t, h)

ListsOwn == \A t \in Threads : pc[t] \in Listers => job[t].ret = "idle"

AccessInv == ReturnsOK /\ ListsOwn /\ \A h \in Hosts \ crossed : HostOK(h)

(***************************************************************************)
(* What a step does to a host and to a thread.                              *)
(***************************************************************************)
Same(s) == pc'[s] = pc[s] /\ job'[s] = job[s]

KeepsList(t) == Carries(t)' => Carries(t) /\ job'[t].todo \subseteq job[t].todo

\* The thread neither drives nor reverts after the step.
Settles(t) ==
    /\ pc'[t] \notin Driving \union Reverters
    /\ job'[t].ret \in Rets
    /\ pc'[t] \in Listers => job'[t].ret = "idle"
    /\ KeepsList(t)

\* Nothing of the host changes.
Quiet(k) ==
    /\ store'[k] = store[k] /\ applied'[k] = applied[k]
    /\ deadman'[k] = deadman[k] /\ nonces'[k] = nonces[k]

\* The work others have taken from the host stays right.
Benign(k) ==
    /\ nonces[k] <= nonces'[k]
    /\ nonces'[k] = nonces[k] /\ Shelved(k) =>
          Shelved(k)' /\ applied'[k] \subseteq applied[k]

\* What another thread knows of the open it drives stays right.
Spared(k) ==
    /\ store'[k] = store[k] /\ nonces'[k] = nonces[k] /\ applied'[k] \subseteq applied[k]
    /\ Standing(k) /\ ~Standing(k)' => applied'[k] \cap SshBorne = {}

Alone(t, k) == \A s \in Threads \ {t} : ~Drives(s, k)

USE DEF Reverters, Rets, Listers, Driving

\* An unchanged host is benign, spares everybody and keeps its record.
LEMMA QuietHost ==
    ASSUME WorldOK, NEW k \in Hosts, Quiet(k)
    PROVE  Benign(k) /\ Spared(k) /\ (RecordOK(k) => RecordOK(k)')
  <1>1. nonces[k] \in Nat
    BY DEF WorldOK
  <1>2. Benign(k) /\ Spared(k)
    BY <1>1 DEF Quiet, Benign, Spared, Shelved, Standing, Armed
  <1>3. RecordOK(k) => RecordOK(k)'
    BY DEF Quiet, RecordOK, WantsDeadman, Standing, Armed
  <1> QED
    BY <1>2, <1>3

\* A benign step keeps work right.
LEMMA WorkFrame ==
    ASSUME NEW k, NEW n \in Nat, NEW channels, nonces[k] \in Nat, nonces'[k] \in Nat,
           Benign(k), WorkOK(k, n, channels)
    PROVE  WorkOK(k, n, channels)'
  BY DEF Benign, WorkOK

\* ... and a list that has not grown.
LEMMA ListFrame ==
    ASSUME ThreadsOK, WorldOK, WorldOK', NEW k \in Hosts, NEW t \in Threads,
           ListOK(t, k), Benign(k), KeepsList(t)
    PROVE  ListOK(t, k)'
  <1> SUFFICES ASSUME Carries(t)', NEW w \in job'[t].todo, w.host = k
               PROVE  WorkOK(k, w.nonce, w.channels)'
    BY DEF ListOK
  <1>1. w \in job[t].todo /\ WorkOK(k, w.nonce, w.channels)
    BY DEF ListOK, KeepsList
  <1>2. w.nonce \in Nat /\ nonces[k] \in Nat /\ nonces'[k] \in Nat
    BY <1>1, JobFields DEF Work, WorldOK
  <1> QED
    BY <1>1, <1>2, WorkFrame

\* A thread that does not move still knows what it knew.
LEMMA SameThread ==
    ASSUME ThreadsOK, WorldOK, WorldOK', NEW k \in Hosts, NEW s \in Threads,
           ThreadOK(s, k), Same(s), Benign(k), Drives(s, k) => Spared(k)
    PROVE  ThreadOK(s, k)'
  <1>1. DriverOK(s, k)'
    <2> SUFFICES ASSUME Drives(s, k)' PROVE DriverOK(s, k)'
      BY DEF DriverOK
    <2>1. Drives(s, k) /\ Spared(k)
      BY DEF Same, Drives
    <2>2. WantsDeadman(k, applied'[k]) => /\ WantsDeadman(k, applied[k])
                                          /\ applied'[k] \cap SshBorne # {}
      BY <2>1 DEF Spared, WantsDeadman
    <2> QED
      BY <2>1, <2>2 DEF ThreadOK, DriverOK, Same, Spared
  <1>2. ReverterOK(s, k)'
    <2> SUFFICES ASSUME job'[s].host = k, pc'[s] \in Reverters
                 PROVE  WorkOK(k, job[s].nonce, Left(s))'
      BY DEF ReverterOK
    <2>1. WorkOK(k, job[s].nonce, Left(s))
      BY DEF ThreadOK, ReverterOK, Same
    <2>2. job[s].nonce \in Nat /\ nonces[k] \in Nat /\ nonces'[k] \in Nat
      BY JobFields DEF WorldOK
    <2>3. job'[s].nonce = job[s].nonce /\ Left(s)' = Left(s)
      BY DEF Same, Left
    <2> QED
      BY <2>1, <2>2, <2>3 DEF WorkOK, Benign
  <1>3. ListOK(s, k)'
    BY ListFrame DEF ThreadOK, Same, KeepsList, Carries
  <1> QED
    BY <1>1, <1>2, <1>3 DEF ThreadOK

\* A thread that has settled knows nothing of a host but its list.
LEMMA SettledThread ==
    ASSUME ThreadsOK, WorldOK, WorldOK', NEW k \in Hosts, NEW s \in Threads,
           ThreadOK(s, k), Settles(s), Benign(k)
    PROVE  ThreadOK(s, k)' /\ ~Drives(s, k)'
  <1>1. ListOK(s, k)'
    BY ListFrame DEF ThreadOK, Settles
  <1> QED
    BY <1>1 DEF ThreadOK, DriverOK, ReverterOK, Drives, Settles

\* A step in which every thread stays where it is or settles.
LEMMA SettlingStep ==
    ASSUME ThreadsOK, WorldOK, WorldOK', AccessInv, crossed \subseteq crossed',
           \A s \in Threads : Same(s) \/ Settles(s),
           \A k \in Hosts \ crossed' :
              /\ Benign(k) /\ RecordOK(k)'
              /\ \A s \in Threads : Drives(s, k) => Settles(s) \/ Spared(k)
    PROVE  AccessInv'
  <1>1. ReturnsOK' /\ ListsOwn'
    BY DEF AccessInv, ReturnsOK, ListsOwn, Same, Settles
  <1>2. ASSUME NEW k \in Hosts \ crossed'
        PROVE  HostOK(k)'
    <2>1. HostOK(k)
      BY DEF AccessInv
    <2>2. ASSUME NEW s \in Threads
          PROVE  ThreadOK(s, k)' /\ (Drives(s, k)' => Drives(s, k))
      <3>1. ThreadOK(s, k)
        BY <2>1 DEF HostOK
      <3>2. CASE Settles(s)
        BY <3>1, <3>2, SettledThread
      <3>3. CASE ~Settles(s)
        <4>1. Same(s) /\ (Drives(s, k) => Spared(k))
          BY <3>3
        <4> QED
          BY <3>1, <4>1, SameThread DEF Same, Drives
      <3> QED
        BY <3>2, <3>3
    <2>3. OneDriver(k)'
      BY <2>1, <2>2 DEF HostOK, OneDriver
    <2> QED
      BY <2>2, <2>3 DEF HostOK
  <1> QED
    BY <1>1, <1>2 DEF AccessInv

\* ... and no host changes.
LEMMA QuietStep ==
    ASSUME ThreadsOK, WorldOK, WorldOK', AccessInv, crossed \subseteq crossed',
           UNCHANGED <<store, applied, deadman, nonces>>,
           \A s \in Threads : Same(s) \/ Settles(s)
    PROVE  AccessInv'
  <1>1. \A k \in Hosts \ crossed' : Benign(k) /\ Spared(k) /\ RecordOK(k)'
    BY QuietHost DEF Quiet, AccessInv, HostOK
  <1> QED
    BY <1>1, SettlingStep

\* A step of one thread that drives or reverts on h, or is about to.
LEMMA LocalStep ==
    ASSUME ThreadsOK, WorldOK, WorldOK', AccessInv, crossed \subseteq crossed',
           NEW t \in Threads, NEW h \in Hosts,
           \A s \in Threads \ {t} : Same(s),
           \A k \in Hosts \ {h} : Quiet(k),
           pc'[t] \in Driving \union Reverters,
           job'[t].host = h, job'[t].ret \in Rets, KeepsList(t),
           h \notin crossed' =>
              /\ Benign(h) /\ RecordOK(h)'
              /\ Spared(h) \/ Alone(t, h)
              /\ DriverOK(t, h)' /\ ReverterOK(t, h)'
              /\ Drives(t, h)' => Drives(t, h) \/ Alone(t, h)
    PROVE  AccessInv'
  <1>1. ReturnsOK' /\ ListsOwn'
    BY DEF AccessInv, ReturnsOK, ListsOwn, Same
  <1>2. ASSUME NEW k \in Hosts \ crossed'
        PROVE  HostOK(k)'
    <2>1. HostOK(k)
      BY DEF AccessInv
    <2>2. Benign(k) /\ RecordOK(k)' /\ (Spared(k) \/ Alone(t, k))
      BY <2>1, QuietHost DEF HostOK
    <2>3. ASSUME NEW s \in Threads \ {t}
          PROVE  ThreadOK(s, k)' /\ (Drives(s, k)' => Drives(s, k))
      <3>1. ThreadOK(s, k) /\ Same(s) /\ (Drives(s, k) => Spared(k))
        BY <2>1, <2>2 DEF HostOK, Alone
      <3> QED
        BY <2>2, <3>1, SameThread DEF Same, Drives
    <2>4. ListOK(t, k)'
      BY <2>1, <2>2, ListFrame DEF HostOK, ThreadOK
    <2>5. CASE k = h
      <3>1. ThreadOK(t, k)'
        BY <2>4, <2>5 DEF ThreadOK
      <3>2. OneDriver(k)'
        BY <2>1, <2>3, <2>5 DEF HostOK, OneDriver, Alone
      <3> QED
        BY <2>2, <2>3, <3>1, <3>2 DEF HostOK
    <2>6. CASE k # h
      <3>1. ThreadOK(t, k)' /\ ~Drives(t, k)'
        BY <2>4, <2>6 DEF ThreadOK, DriverOK, ReverterOK, Drives
      <3>2. OneDriver(k)'
        BY <2>1, <2>3, <3>1 DEF HostOK, OneDriver
      <3> QED
        BY <2>2, <2>3, <3>1, <3>2 DEF HostOK
    <2> QED
      BY <2>5, <2>6
  <1> QED
    BY <1>1, <1>2 DEF AccessInv

\* A step that settles or leaves the threads and changes one host only.
LEMMA CommitStep ==
    ASSUME ThreadsOK, WorldOK, WorldOK', AccessInv, crossed \subseteq crossed',
           NEW h \in Hosts,
           \A s \in Threads : Same(s) \/ Settles(s),
           \A k \in Hosts \ {h} : Quiet(k),
           h \notin crossed' =>
              /\ Benign(h) /\ RecordOK(h)'
              /\ \A s \in Threads : Drives(s, h) => Settles(s) \/ Spared(h)
    PROVE  AccessInv'
  <1>1. ASSUME NEW k \in Hosts \ crossed', k # h
        PROVE  Benign(k) /\ RecordOK(k)' /\ Spared(k)
    BY <1>1, QuietHost DEF AccessInv, HostOK
  <1> QED
    BY <1>1, SettlingStep

(***************************************************************************)
(* The control operators.                                                   *)
(***************************************************************************)
\* What a call leaves in pc and job.
LEMMA CallMoves ==
    ASSUME ThreadsOK, NEW t \in Threads, NEW label, NEW j, Call(t, label, j)
    PROVE  pc'[t] = label /\ job'[t] = j /\ \A s \in Threads \ {t} : Same(s)
  BY DEF Call, Goto, Same, ThreadsOK

\* A jump with the same locals.
LEMMA GotoMoves ==
    ASSUME ThreadsOK, NEW t \in Threads, NEW label, Goto(t, label), UNCHANGED job
    PROVE  pc'[t] = label /\ job'[t] = job[t] /\ \A s \in Threads \ {t} : Same(s)
  BY DEF Goto, Same, ThreadsOK

\* A call of something that neither drives nor reverts, and is no revert list.
LEMMA CallSettles ==
    ASSUME ThreadsOK, NEW t \in Threads, NEW label, NEW j, Call(t, label, j),
           label \notin Driving \union Reverters \union {"pass-revert"},
           j.ret \in Rets,
           label \in Listers => j.ret = "idle",
           j.ret = "pass-revert" => j.ret = job[t].ret /\ j.todo = job[t].todo
    PROVE  Settles(t) /\ \A s \in Threads : Same(s) \/ Settles(s)
  <1>1. Settles(t)
    BY CallMoves DEF Settles, KeepsList, Carries
  <1> QED
    BY <1>1, CallMoves

\* ... or a jump.
LEMMA GotoSettles ==
    ASSUME ThreadsOK, ReturnsOK, NEW t \in Threads, NEW label, Goto(t, label), UNCHANGED job,
           label \notin Driving \union Reverters \union Listers \union {"pass-revert"}
    PROVE  Settles(t) /\ \A s \in Threads : Same(s) \/ Settles(s)
  <1>1. Settles(t)
    BY GotoMoves DEF Settles, KeepsList, Carries, ReturnsOK
  <1> QED
    BY <1>1, GotoMoves

\* The empty job and a resumed one return to the idle loop.
LEMMA ResumeFields ==
    ASSUME NEW j \in Jobs
    PROVE  NoJob.ret = "idle" /\ Resume(j).ret = "idle" /\ Resume(j).todo = j.todo
  BY DEF NoJob, Resume

\* A return goes on with the caller's list.
LEMMA ReturnSettles ==
    ASSUME ThreadsOK, ReturnsOK, NEW t \in Threads, Return(t)
    PROVE  Settles(t) /\ \A s \in Threads : Same(s) \/ Settles(s)
  <1>0. job[t] \in Jobs /\ job[t].ret \in Rets
    BY JobFields DEF ReturnsOK
  <1>1. /\ pc'[t] = job[t].ret
        /\ job'[t] = IF job[t].ret = "idle" THEN NoJob ELSE Resume(job[t])
        /\ \A s \in Threads \ {t} : Same(s)
    BY DEF Return, Same, ThreadsOK
  <1>2. Settles(t)
    BY <1>0, <1>1, ResumeFields DEF Settles, KeepsList, Carries
  <1> QED
    BY <1>1, <1>2

\* A thread is gone with its locals.
LEMMA ParkedSettles ==
    ASSUME NEW s, job'[s] = NoJob, pc'[s] \in {"down", "dead", "idle"}
    PROVE  Settles(s)
  BY DEF Settles, KeepsList, Carries, NoJob

\* The process is gone.
LEMMA StopSettles ==
    ASSUME ThreadsOK, StopDaemon
    PROVE  /\ \A s \in Daemon : Settles(s)
           /\ \A s \in Threads : Same(s) \/ Settles(s)
  <1>1. \A s \in Daemon : pc'[s] = "down" /\ job'[s] = NoJob
    BY DEF StopDaemon, Threads
  <1>2. \A s \in Daemon : Settles(s)
    BY <1>1, ParkedSettles
  <1>3. \A s \in Threads \ Daemon : Same(s)
    BY DEF StopDaemon, Same
  <1> QED
    BY <1>2, <1>3

\* A failed expect.
LEMMA PanicSettles ==
    ASSUME ThreadsOK, NEW t \in Threads, Panic(t)
    PROVE  \A s \in Threads : Same(s) \/ Settles(s)
  <1>1. CASE t = Main
    BY <1>1, StopSettles DEF Panic
  <1>2. CASE t # Main
    <2>1. /\ pc'[t] \in {"idle", "dead"} /\ job'[t] = NoJob
          /\ \A s \in Threads \ {t} : Same(s)
      BY <1>2 DEF Panic, Same, ThreadsOK
    <2> QED
      BY <2>1, ParkedSettles
  <1> QED
    BY <1>1, <1>2

\* Only a grant at Opening is driven.
LEMMA NotDriven ==
    ASSUME NEW h \in Hosts, HostOK(h), ~MidOpen(store[h])
    PROVE  \A s \in Threads : ~Drives(s, h)
  BY DEF HostOK, ThreadOK, DriverOK

\* A commit changes one host.
LEMMA CommitElsewhere ==
    ASSUME WorldOK, NEW h \in Hosts, NEW g, Commit(h, g), UNCHANGED <<applied, deadman>>,
           nonces' = nonces \/ nonces' = [nonces EXCEPT ![h] = @ + 1]
    PROVE  /\ store'[h] = g /\ applied'[h] = applied[h] /\ deadman'[h] = deadman[h]
           /\ \A k \in Hosts \ {h} : Quiet(k)
  BY DEF Commit, WorldOK, Quiet

\* The ghost only grows, and a host it does not name was worked on for the
\* request it is at.
LEMMA CrossGrows ==
    ASSUME NEW t, Cross(t)
    PROVE  /\ crossed \subseteq crossed'
           /\ job[t].host \notin crossed' => job[t].nonce = nonces[job[t].host]
  BY DEF Cross

(***************************************************************************)
(* One step per action.                                                     *)
(***************************************************************************)
\* A grant that records nothing gives way to a new request.
LEMMA NewRequest ==
    ASSUME ThreadsOK, WorldOK, WorldOK', AccessInv, crossed \subseteq crossed',
           NEW h \in Hosts, NEW g, g.state = "pending",
           CanBeginPending(store[h]), Commit(h, g), UNCHANGED <<applied, deadman>>,
           nonces' = [nonces EXCEPT ![h] = @ + 1],
           \A s \in Threads : Same(s) \/ Settles(s)
    PROVE  AccessInv'
  <1>1. store'[h] = g /\ applied'[h] = applied[h] /\ \A k \in Hosts \ {h} : Quiet(k)
    BY CommitElsewhere
  <1>2. nonces[h] \in Nat /\ nonces'[h] = nonces[h] + 1
    BY DEF WorldOK
  <1>3. ASSUME h \notin crossed'
        PROVE  Benign(h) /\ RecordOK(h)' /\ \A s \in Threads : ~Drives(s, h)
    <2>1. HostOK(h)
      BY <1>3 DEF AccessInv
    <2>2. applied[h] = {}
      BY <2>1 DEF HostOK, RecordOK, Recorded, CanBeginPending
    <2>3. \A s \in Threads : ~Drives(s, h)
      BY <2>1, NotDriven DEF CanBeginPending, MidOpen
    <2> QED
      BY <1>1, <1>2, <2>2, <2>3 DEF Benign, RecordOK, Recorded
  <1> QED
    BY <1>1, <1>3, CommitStep

\* An arriving request records itself or only reads.
LEMMA RequestSafe ==
    ASSUME ThreadsOK, WorldOK, WorldOK', AccessInv,
           NEW t \in Listeners, NEW h \in Hosts, Request(t, h)
    PROVE  AccessInv'
  <1>0. t \in Threads /\ ReturnsOK
    BY DEF Threads, Daemon, AccessInv
  <1>1. ASSUME NEW ttl \in Ttls, NEW p \in Profiles, OpenRequest(t, h, ttl, p)
        PROVE  AccessInv'
    <2> DEFINE g == BeginPending(clock, clock + ApprovalWindow, ttl, nonces[h] + 1, p)
    <2>1. g.state = "pending"
      BY DEF BeginPending, Pending
    <2>2. \A s \in Threads : Same(s)
      BY <1>1 DEF OpenRequest, Same
    <2>3. /\ CanBeginPending(store[h]) /\ Commit(h, g) /\ UNCHANGED <<applied, deadman, crossed>>
          /\ nonces' = [nonces EXCEPT ![h] = @ + 1]
      BY <1>1 DEF OpenRequest
    <2> HIDE DEF g
    <2> QED
      BY <2>1, <2>2, <2>3, NewRequest
  <1>2. ASSUME ~\E ttl \in Ttls, p \in Profiles : OpenRequest(t, h, ttl, p)
        PROVE  /\ UNCHANGED <<store, applied, deadman, nonces, crossed>>
               /\ \E label, j : /\ Call(t, label, j)
                                /\ j.ret = "idle"
                                /\ label \notin Driving \union Reverters \union {"pass-revert"}
    <2>1. CASE Approve(t, h)
      <3>1. \A n, ids : /\ [Begin(h) EXCEPT !.nonce = n].ret = "idle"
                       /\ [Begin(h) EXCEPT !.nonce = n, !.proofs = ids].ret = "idle"
        BY DEF Begin, NoJob
      <3>2. ReadRequest(t, Begin(h))
        BY <2>1 DEF Approve
      <3>3. CASE DryRun
        <4> DEFINE j == [Begin(h) EXCEPT !.nonce = store[Begin(h).host].nonce]
        <4>1. Call(t, "claim", j) /\ j.ret = "idle"
          BY <3>1, <3>2, <3>3 DEF ReadRequest
        <4> HIDE DEF j
        <4> QED
          BY <2>1, <4>1 DEF Approve
      <3>4. CASE ~DryRun
        <4> DEFINE j(id) == [Begin(h) EXCEPT !.nonce = store[Begin(h).host].nonce, !.proofs = {id}]
        <4>1. PICK id \in Authenticators : Call(t, "prove", j(id))
          BY <3>2, <3>4 DEF ReadRequest
        <4>2. j(id).ret = "idle"
          BY <3>1
        <4> HIDE DEF j
        <4> QED
          BY <2>1, <4>1, <4>2 DEF Approve
      <3> QED
        BY <3>3, <3>4
    <2>2. CASE McpApprove(t, h)
      <3>1. Call(t, "approve", Begin(h)) /\ Begin(h).ret = "idle"
        BY <2>2 DEF McpApprove, Begin, NoJob
      <3> QED
        BY <2>2, <3>1 DEF McpApprove
    <2>3. CASE Close(t, h)
      <3> DEFINE label == IF store[Begin(h).host].state = "pending" THEN "cancel" ELSE "begin-revert"
                 j == [Begin(h) EXCEPT !.nonce = nonces[Begin(h).host]]
      <3>1. Call(t, label, j)
        BY <2>3 DEF Close, ReadForClose
      <3>2. j.ret = "idle"
        BY DEF Begin, NoJob
      <3>3. label \notin Driving \union Reverters \union {"pass-revert"}
        OBVIOUS
      <3> HIDE DEF label, j
      <3> QED
        BY <2>3, <3>1, <3>2, <3>3 DEF Close
    <2>4. ASSUME NEW ttl \in Ttls, RenewRequest(t, h, ttl)
          PROVE  /\ UNCHANGED <<store, applied, deadman, nonces, crossed>>
                 /\ \E label, j : /\ Call(t, label, j)
                                  /\ j.ret = "idle"
                                  /\ label \notin Driving \union Reverters \union {"pass-revert"}
      <3> DEFINE label == IF h \in SshHosts THEN "reschedule" ELSE "renew-channels"
                 j == [Begin(h) EXCEPT !.ttl = ttl, !.expires = clock + ttl]
      <3>1. Call(t, label, j)
        BY <2>4 DEF RenewRequest
      <3>2. j.ret = "idle"
        BY DEF Begin, NoJob
      <3>3. label \notin Driving \union Reverters \union {"pass-revert"}
        OBVIOUS
      <3> HIDE DEF label, j
      <3> QED
        BY <2>4, <3>1, <3>2, <3>3 DEF RenewRequest
    <2>5. CASE Drill(t, h)
      <3>1. Call(t, "drill", Begin(h)) /\ Begin(h).ret = "idle"
        BY <2>5 DEF Drill, Begin, NoJob
      <3> QED
        BY <2>5, <3>1 DEF Drill
    <2> QED
      BY <1>2, <2>1, <2>2, <2>3, <2>4, <2>5 DEF Request
  <1>3. CASE ~\E ttl \in Ttls, p \in Profiles : OpenRequest(t, h, ttl, p)
    <2>1. \A s \in Threads : Same(s) \/ Settles(s)
      BY <1>0, <1>2, <1>3, CallSettles
    <2> QED
      BY <1>2, <1>3, <2>1, QuietStep
  <1> QED
    BY <1>1, <1>3

\* The proofs of an approval touch a pending request only.
LEMMA ApproveSafe ==
    ASSUME ThreadsOK, WorldOK, WorldOK', AccessInv, NEW t \in Threads,
           ApproveGated(t) \/ Prove(t) \/ EvaluateProofs(t)
    PROVE  AccessInv'
  <1>h. PICK h \in Hosts : h = job[t].host
    BY JobFields
  <1>0. job[t] \in Jobs /\ h \in Hosts /\ ReturnsOK /\ job[t].ret \in Rets /\ store[h] \in GrantState
    BY <1>h, JobFields DEF AccessInv, ReturnsOK, WorldOK
  <1>1. ASSUME NEW j, NEW n, NEW ids,
               \/ j = [job[t] EXCEPT !.nonce = n]
               \/ j = [job[t] EXCEPT !.proofs = ids]
               \/ j = [job[t] EXCEPT !.nonce = n, !.proofs = ids]
        PROVE  j.ret = job[t].ret /\ j.todo = job[t].todo
    BY <1>0, <1>1 DEF Jobs
  <1>2. CASE ApproveGated(t)
    <2>1. UNCHANGED <<store, applied, deadman, nonces>> /\ crossed \subseteq crossed'
      BY <1>2, CrossGrows DEF ApproveGated
    <2>2. CASE ReadRequest(t, job[t])
      <3>1. \/ Call(t, "claim", [job[t] EXCEPT !.nonce = store[h].nonce])
            \/ \E id \in Authenticators :
                  Call(t, "prove", [job[t] EXCEPT !.nonce = store[h].nonce, !.proofs = {id}])
        BY <1>h, <2>2 DEF ReadRequest
      <3>2. \A s \in Threads : Same(s) \/ Settles(s)
        BY <1>0, <1>1, <3>1, CallSettles
      <3> QED
        BY <2>1, <3>2, QuietStep
    <2>3. CASE Return(t)
      BY <1>0, <2>1, <2>3, ReturnSettles, QuietStep
    <2> QED
      BY <1>2, <2>2, <2>3 DEF ApproveGated
  <1>3. CASE Prove(t)
    <2>1. CASE ~CanAddSatisfied(store[h], job[t].now)
      BY <1>h, <1>0, <1>3, <2>1, ReturnSettles, QuietStep DEF Prove
    <2>2. CASE CanAddSatisfied(store[h], job[t].now)
      <3>1. PICK id \in job[t].proofs : Commit(h, AddSatisfied(store[h], id))
        BY <1>h, <1>3, <2>2 DEF Prove
      <3>2. store[h].state = "pending" /\ AddSatisfied(store[h], id).state = "pending"
        BY <1>0, <2>2, GrantShape
           DEF CanAddSatisfied, AwaitingApproval, AddSatisfied, PendingGrants
      <3>3. UNCHANGED <<applied, deadman, nonces>> /\ crossed \subseteq crossed'
        BY <1>h, <1>3, <2>2, CrossGrows DEF Prove
      <3>4. \A s \in Threads : Same(s) \/ Settles(s)
        <4>1. Call(t, "evaluate", [job[t] EXCEPT !.proofs = {}])
          BY <1>h, <1>3, <2>2 DEF Prove
        <4> QED
          BY <1>0, <1>1, <4>1, CallSettles
      <3>5. /\ store'[h] = AddSatisfied(store[h], id) /\ applied'[h] = applied[h]
            /\ \A k \in Hosts \ {h} : Quiet(k)
        BY <1>0, <3>1, <3>3, CommitElsewhere
      <3>6. ASSUME h \notin crossed'
            PROVE  Benign(h) /\ RecordOK(h)' /\ \A s \in Threads : ~Drives(s, h)
        <4>1. HostOK(h)
          BY <1>0, <3>3, <3>6 DEF AccessInv
        <4>2. \A s \in Threads : ~Drives(s, h)
          BY <1>0, <3>2, <4>1, NotDriven DEF MidOpen
        <4>3. nonces[h] \in Nat /\ nonces'[h] = nonces[h]
          BY <1>0, <3>3 DEF WorldOK
        <4>4. Benign(h)
          BY <3>2, <4>3 DEF Benign, Shelved
        <4>5. Recorded(store[h]) = {} /\ Recorded(store'[h]) = {}
          BY <3>2, <3>5 DEF Recorded
        <4>6. RecordOK(h)'
          BY <3>2, <3>5, <4>1, <4>5 DEF HostOK, RecordOK
        <4> QED
          BY <4>2, <4>4, <4>6
      <3> QED
        BY <1>0, <3>3, <3>4, <3>5, <3>6, CommitStep
    <2> QED
      BY <2>1, <2>2
  <1>4. CASE EvaluateProofs(t)
    <2>1. UNCHANGED <<store, applied, deadman, nonces, crossed>>
      BY <1>h, <1>4 DEF EvaluateProofs
    <2>2. Call(t, "claim", [job[t] EXCEPT !.nonce = store[h].nonce]) \/ Return(t)
      BY <1>h, <1>4 DEF EvaluateProofs
    <2>3. \A s \in Threads : Same(s) \/ Settles(s)
      BY <1>0, <1>1, <2>2, CallSettles, ReturnSettles
    <2> QED
      BY <2>1, <2>3, QuietStep
  <1> QED
    BY <1>2, <1>3, <1>4

\* The claim finds a pending request: nothing is in force and nobody drives.
LEMMA ClaimSafe ==
    ASSUME ThreadsOK, WorldOK, WorldOK', AccessInv, NEW t \in Threads, Claim(t)
    PROVE  AccessInv'
  <1>h. PICK h \in Hosts : h = job[t].host
    BY JobFields
  <1>0. job[t] \in Jobs /\ ReturnsOK /\ job[t].ret \in Rets
    BY JobFields DEF AccessInv, ReturnsOK
  <1>1. CASE ~CanApprove(store[h], job[t].now)
    BY <1>h, <1>0, <1>1, ReturnSettles, QuietStep DEF Claim
  <1>2. CASE CanApprove(store[h], job[t].now)
    <2> DEFINE j == [job[t] EXCEPT !.nonce = nonces[h], !.channels = Drivable(h),
                                   !.expires = job[t].now + store[h].ttl]
    <2>1. /\ Commit(h, ApproveToOpening(store[h], job[t].now, Drivable(h)))
          /\ Cross(t) /\ Call(t, "apply", j) /\ UNCHANGED <<applied, deadman, nonces>>
      BY <1>h, <1>2 DEF Claim
    <2>2. /\ j.host = h /\ j.nonce = nonces[h] /\ j.channels = Drivable(h)
          /\ j.ret = job[t].ret /\ j.todo = job[t].todo
      BY <1>h, <1>0 DEF Jobs
    <2> HIDE DEF j
    <2>3. /\ store'[h].state = "opening" /\ store'[h].channels = Drivable(h)
          /\ applied'[h] = applied[h] /\ \A k \in Hosts \ {h} : Quiet(k)
      BY <2>1, CommitElsewhere DEF ApproveToOpening, Opening
    <2>4. pc'[t] = "apply" /\ job'[t] = j /\ \A s \in Threads \ {t} : Same(s)
      BY <2>1, CallMoves
    <2>5. crossed \subseteq crossed'
      BY <2>1, CrossGrows
    <2>6. KeepsList(t)
      BY <2>2, <2>4 DEF KeepsList, Carries
    <2>7. ASSUME h \notin crossed'
          PROVE  /\ Benign(h) /\ RecordOK(h)' /\ Alone(t, h)
                 /\ DriverOK(t, h)' /\ ReverterOK(t, h)'
      <3>1. HostOK(h) /\ store[h].state = "pending"
        BY <1>2, <2>5, <2>7 DEF AccessInv, CanApprove, AwaitingApproval
      <3>2. applied[h] = {}
        BY <3>1 DEF HostOK, RecordOK, Recorded
      <3>3. nonces'[h] = nonces[h] /\ nonces[h] \in Nat
        BY <2>1 DEF WorldOK
      <3>4. Benign(h)
        BY <3>1, <3>3 DEF Benign, Shelved
      <3>5. RecordOK(h)'
        BY <2>3, <3>2 DEF RecordOK
      <3>6. Alone(t, h)
        BY <3>1, NotDriven DEF Alone, MidOpen
      <3>7. DriverOK(t, h)' /\ ReverterOK(t, h)'
        BY <2>2, <2>3, <2>4, <3>2, <3>3 DEF DriverOK, ReverterOK, MidOpen
      <3> QED
        BY <3>4, <3>5, <3>6, <3>7
    <2> QED
      BY <1>0, <2>2, <2>3, <2>4, <2>5, <2>6, <2>7, LocalStep
  <1> QED
    BY <1>1, <1>2

\* What an uncrossed driver starts its step from.
LEMMA DriverStart ==
    ASSUME ThreadsOK, WorldOK, AccessInv, NEW t \in Threads, NEW h \in Hosts,
           Drives(t, h), h \notin crossed
    PROVE  /\ DriverOK(t, h) /\ RecordOK(h) /\ Alone(t, h)
           /\ store[h].state = "opening" /\ store[h].channels = job[t].channels
           /\ applied[h] \subseteq job[t].channels
  <1>1. HostOK(h)
    BY DEF AccessInv
  <1>2. DriverOK(t, h) /\ RecordOK(h) /\ Alone(t, h)
    BY <1>1 DEF HostOK, ThreadOK, OneDriver, Alone
  <1> QED
    BY <1>2 DEF DriverOK, RecordOK, Recorded, MidOpen

\* A step of a driver that leaves the grant at Opening.
LEMMA DriverStep ==
    ASSUME ThreadsOK, WorldOK, WorldOK', AccessInv, NEW t \in Threads, NEW h \in Hosts,
           Drives(t, h), Cross(t), UNCHANGED <<store, nonces>>,
           \A s \in Threads \ {t} : Same(s),
           \A k \in Hosts \ {h} : applied'[k] = applied[k] /\ deadman'[k] = deadman[k],
           job'[t] = job[t] \/ \E stuck : job'[t] = [job[t] EXCEPT !.stuck = stuck],
           pc'[t] \in Driving \ {"apply"},
           DriverOK(t, h) /\ applied[h] \subseteq job[t].channels =>
              /\ applied'[h] \subseteq job[t].channels
              /\ pc'[t] = "unwind-open" => applied'[h] \subseteq job'[t].stuck
              /\ pc'[t] = "finish-open" /\ WantsDeadman(h, applied'[h]) => Standing(h)'
    PROVE  AccessInv'
  <1>0. job[t] \in Jobs /\ job[t].host = h /\ job[t].ret \in Rets
    BY JobFields DEF AccessInv, ReturnsOK, Drives
  <1>1. /\ job'[t].host = h /\ job'[t].nonce = job[t].nonce /\ job'[t].channels = job[t].channels
        /\ job'[t].ret = job[t].ret /\ job'[t].todo = job[t].todo
    BY <1>0 DEF Jobs
  <1>2. KeepsList(t)
    BY <1>1 DEF KeepsList, Carries
  <1>3. crossed \subseteq crossed'
    BY CrossGrows
  <1>4. \A k \in Hosts \ {h} : Quiet(k)
    BY DEF Quiet
  <1>5. ASSUME h \notin crossed'
        PROVE  Benign(h) /\ RecordOK(h)' /\ Alone(t, h) /\ DriverOK(t, h)' /\ ReverterOK(t, h)'
    <2>1. /\ DriverOK(t, h) /\ Alone(t, h) /\ store[h].state = "opening"
          /\ store[h].channels = job[t].channels /\ applied[h] \subseteq job[t].channels
      BY <1>3, <1>5, DriverStart
    <2>2. job[t].nonce = nonces[h] /\ nonces[h] \in Nat
      BY <1>0, <1>3, <1>5, CrossGrows DEF WorldOK
    <2>3. Benign(h)
      BY <2>1, <2>2 DEF Benign, Shelved
    <2>4. RecordOK(h)'
      BY <2>1 DEF RecordOK, Recorded
    <2>5. DriverOK(t, h)'
      BY <1>1, <2>1, <2>2 DEF DriverOK, MidOpen
    <2>6. ReverterOK(t, h)'
      BY DEF ReverterOK
    <2> QED
      BY <2>1, <2>3, <2>4, <2>5, <2>6
  <1> QED
    BY <1>0, <1>1, <1>2, <1>3, <1>4, <1>5, LocalStep

\* What a revert leaves in force.
LEMMA RevertLeaves ==
    ASSUME WorldOK, NEW h \in Hosts, NEW channels, NEW stuck, RevertOutcome(h, channels, stuck)
    PROVE  /\ applied'[h] \subseteq applied[h]
           /\ applied[h] \subseteq channels => applied'[h] \subseteq stuck
           /\ \A k \in Hosts \ {h} : applied'[k] = applied[k]
  <1>1. PICK left \in SUBSET (stuck \cap applied[h]) :
           applied' = [applied EXCEPT ![h] = (@ \ channels) \union left]
    BY DEF RevertOutcome, Reverted
  <1>2. applied'[h] = (applied[h] \ channels) \union left
    BY <1>1 DEF WorldOK
  <1>3. \A k \in Hosts \ {h} : applied'[k] = applied[k]
    BY <1>1 DEF WorldOK
  <1> QED
    BY <1>2, <1>3

\* drive_open up to its last commit.
LEMMA OpenSafe ==
    ASSUME ThreadsOK, WorldOK, WorldOK', AccessInv, NEW t \in Threads,
           ApplyChannels(t) \/ InstallDeadman(t) \/ UnwindApplied(t)
    PROVE  AccessInv'
  <1>h. PICK h \in Hosts : h = job[t].host
    BY JobFields
  <1>0. /\ job[t] \in Jobs /\ job[t].expires \in Nat
        /\ \A stuck : [job[t] EXCEPT !.stuck = stuck].stuck = stuck
    BY JobFields DEF Jobs
  <1>1. CASE ApplyChannels(t)
    <2>0. /\ Drives(t, h) /\ Cross(t) /\ UNCHANGED <<store, nonces, deadman>>
          /\ DriverOK(t, h) => applied[h] = {}
      BY <1>h, <1>1 DEF ApplyChannels, Drives, DriverOK
    <2>1. CASE /\ AppliedAll(h, job[t].channels)
               /\ Goto(t, IF WantsDeadman(h, job[t].channels) THEN "install" ELSE "finish-open")
               /\ UNCHANGED job
      <3>1. /\ applied'[h] = applied[h] \union job[t].channels
            /\ \A k \in Hosts \ {h} : applied'[k] = applied[k]
        BY <2>1 DEF AppliedAll, WorldOK
      <3>2. /\ pc'[t] = IF WantsDeadman(h, job[t].channels) THEN "install" ELSE "finish-open"
            /\ job'[t] = job[t] /\ \A s \in Threads \ {t} : Same(s)
        BY <2>1, GotoMoves
      <3>3. DriverOK(t, h) => applied'[h] = job[t].channels
        BY <2>0, <3>1
      <3> QED
        BY <2>0, <3>1, <3>2, <3>3, DriverStep
    <2>2. CASE \E tried \in SUBSET job[t].channels \ {{}} : \E stuck \in SUBSET tried :
                  /\ ApplyFailed(h, tried, stuck)
                  /\ Call(t, "unwind-open", [job[t] EXCEPT !.stuck = stuck])
      <3>1. PICK tried \in SUBSET job[t].channels \ {{}} : \E stuck \in SUBSET tried :
                  /\ ApplyFailed(h, tried, stuck)
                  /\ Call(t, "unwind-open", [job[t] EXCEPT !.stuck = stuck])
        BY <2>2
      <3>2. PICK stuck \in SUBSET tried :
                  /\ ApplyFailed(h, tried, stuck)
                  /\ Call(t, "unwind-open", [job[t] EXCEPT !.stuck = stuck])
        BY <3>1
      <3>3. PICK left \in SUBSET stuck :
               applied' = [applied EXCEPT ![h] = (@ \ tried) \union left]
        BY <3>2 DEF ApplyFailed
      <3>4. /\ applied'[h] = (applied[h] \ tried) \union left
            /\ \A k \in Hosts \ {h} : applied'[k] = applied[k]
        BY <3>3 DEF WorldOK
      <3>5. /\ pc'[t] = "unwind-open" /\ job'[t] = [job[t] EXCEPT !.stuck = stuck]
            /\ \A s \in Threads \ {t} : Same(s)
        BY <3>2, CallMoves
      <3>6. job'[t].stuck = stuck
        BY <1>0, <3>5
      <3>7. DriverOK(t, h) => applied'[h] \subseteq stuck /\ applied'[h] \subseteq job[t].channels
        BY <2>0, <3>1, <3>4
      <3> QED
        BY <2>0, <3>4, <3>5, <3>6, <3>7, DriverStep
    <2> QED
      BY <1>h, <1>1, <2>1, <2>2 DEF ApplyChannels
  <1>2. CASE InstallDeadman(t)
    <2>0. Drives(t, h) /\ Cross(t) /\ UNCHANGED <<store, nonces, applied, job>>
      BY <1>h, <1>2 DEF InstallDeadman, Drives
    <2>1. \/ Arm(t, h) /\ Goto(t, "finish-open")
          \/ ArmStopped(t, h) /\ Goto(t, "unwind")
      BY <1>h, <1>2 DEF InstallDeadman
    <2>2. \A k \in Hosts \ {h} : deadman'[k] = deadman[k] /\ applied'[k] = applied[k]
      BY <2>0, <2>1, ArmIsStop, ArmLeaves
    <2>3. \/ pc'[t] = "finish-open" /\ Standing(h)'
          \/ pc'[t] = "unwind"
      BY <2>1, ArmIsStop, ArmLeaves DEF Goto, ThreadsOK
    <2>4. job'[t] = job[t] /\ \A s \in Threads \ {t} : Same(s)
      BY <2>0, <2>1, GotoMoves
    <2> QED
      BY <2>0, <2>2, <2>3, <2>4, DriverStep
  <1>3. CASE UnwindApplied(t)
    <2>0. Drives(t, h) /\ Cross(t) /\ UNCHANGED <<store, nonces, deadman>>
      BY <1>h, <1>3 DEF UnwindApplied, Drives
    <2>1. PICK stuck \in SUBSET job[t].channels :
             /\ RevertOutcome(h, job[t].channels, stuck)
             /\ Call(t, "unwind-open", [job[t] EXCEPT !.stuck = stuck])
      BY <1>h, <1>3 DEF UnwindApplied
    <2>2. /\ applied'[h] \subseteq applied[h]
          /\ applied[h] \subseteq job[t].channels => applied'[h] \subseteq stuck
          /\ \A k \in Hosts \ {h} : applied'[k] = applied[k]
      BY <2>1, RevertLeaves
    <2>3. /\ pc'[t] = "unwind-open" /\ job'[t] = [job[t] EXCEPT !.stuck = stuck]
          /\ \A s \in Threads \ {t} : Same(s)
      BY <2>1, CallMoves
    <2>4. job'[t].stuck = stuck
      BY <1>0, <2>3
    <2> QED
      BY <2>0, <2>2, <2>3, <2>4, DriverStep
  <1> QED
    BY <1>1, <1>2, <1>3

\* The settling commits of drive_open.
LEMMA SettleSafe ==
    ASSUME ThreadsOK, WorldOK, WorldOK', AccessInv, NEW t \in Threads,
           FinishOpening(t) \/ UnwindOpening(t)
    PROVE  AccessInv'
  <1>h. PICK h \in Hosts : h = job[t].host
    BY JobFields
  <1>0. /\ ReturnsOK /\ Drives(t, h)
        /\ UNCHANGED <<applied, deadman, nonces, crossed>>
    BY <1>h DEF AccessInv, FinishOpening, UnwindOpening, At, Drives
  <1>1. CASE ~MidOpen(store[h])
    <2>1. Panic(t) /\ UNCHANGED store
      BY <1>h, <1>1 DEF FinishOpening, UnwindOpening
    <2> QED
      BY <1>0, <2>1, PanicSettles, QuietStep
  <1>2. CASE MidOpen(store[h])
    <2> DEFINE g == IF pc[t] = "finish-open" THEN FinishOpen(store[h]) ELSE UnwindOpen(job[t].stuck)
    <2>1. Commit(h, g) /\ Return(t)
      BY <1>h, <1>2 DEF FinishOpening, UnwindOpening, At
    <2>2. pc[t] \in {"finish-open", "unwind-open"}
      BY DEF FinishOpening, UnwindOpening, At
    <2>3. /\ store'[h] = g /\ applied'[h] = applied[h] /\ deadman'[h] = deadman[h]
          /\ \A k \in Hosts \ {h} : Quiet(k)
      <3> HIDE DEF g
      <3> QED
        BY <1>0, <2>1, CommitElsewhere
    <2>4. Settles(t) /\ \A s \in Threads : Same(s) \/ Settles(s)
      BY <1>0, <2>1, ReturnSettles
    <2>5. ASSUME h \notin crossed'
          PROVE  Benign(h) /\ RecordOK(h)' /\ Alone(t, h)
      <3>1. /\ DriverOK(t, h) /\ Alone(t, h) /\ store[h].state = "opening"
            /\ applied[h] \subseteq store[h].channels
        BY <1>0, <2>5, DriverStart
      <3>2. nonces[h] \in Nat /\ nonces'[h] = nonces[h]
        BY <1>0 DEF WorldOK
      <3>3. Benign(h)
        BY <3>1, <3>2 DEF Benign, Shelved
      <3>4. CASE pc[t] = "finish-open"
        <4>1. store'[h].state = "open" /\ store'[h].channels = store[h].channels
          BY <2>3, <3>4 DEF FinishOpen, OpenGrant
        <4>2. WantsDeadman(h, applied[h]) => Standing(h)
          BY <1>0, <3>1, <3>4 DEF DriverOK
        <4>3. RecordOK(h)'
          BY <2>3, <3>1, <4>1, <4>2 DEF RecordOK, Recorded, WantsDeadman, Standing, Armed
        <4> QED
          BY <3>1, <3>3, <4>3
      <3>5. CASE pc[t] = "unwind-open"
        <4>1. store'[h] = UnwindOpen(job[t].stuck) /\ applied[h] \subseteq job[t].stuck
          BY <1>0, <2>3, <3>1, <3>5 DEF DriverOK
        <4>2. RecordOK(h)'
          BY <2>3, <4>1 DEF RecordOK, Recorded, UnwindOpen, NeedsRevert, Closed
        <4> QED
          BY <3>1, <3>3, <4>2
      <3> QED
        BY <2>2, <3>4, <3>5
    <2> HIDE DEF g
    <2>6. h \notin crossed' => \A s \in Threads : Drives(s, h) => Settles(s)
      BY <2>4, <2>5 DEF Alone
    <2> QED
      BY <1>0, <2>3, <2>4, <2>5, <2>6, CommitStep
  <1> QED
    BY <1>1, <1>2

\* A commit by a settling thread to a grant that is not being opened.
LEMMA PlainCommit ==
    ASSUME ThreadsOK, WorldOK, WorldOK', AccessInv, crossed \subseteq crossed', NEW h \in Hosts,
           NEW g, Commit(h, g), UNCHANGED <<applied, deadman, nonces>>,
           \A s \in Threads : Same(s) \/ Settles(s),
           h \notin crossed' =>
              /\ ~MidOpen(store[h])
              /\ Shelved(h) => g.state \in {"needs-revert", "closed"}
              /\ applied[h] \subseteq Recorded(g)
              /\ g.state = "open" => store[h].state = "open"
    PROVE  AccessInv'
  <1>1. /\ store'[h] = g /\ applied'[h] = applied[h] /\ deadman'[h] = deadman[h]
        /\ \A k \in Hosts \ {h} : Quiet(k)
    BY CommitElsewhere
  <1>2. nonces[h] \in Nat /\ nonces'[h] = nonces[h]
    BY DEF WorldOK
  <1>3. ASSUME h \notin crossed'
        PROVE  Benign(h) /\ RecordOK(h)' /\ \A s \in Threads : ~Drives(s, h)
    <2>1. HostOK(h)
      BY <1>3 DEF AccessInv
    <2>2. \A s \in Threads : ~Drives(s, h)
      BY <1>3, <2>1, NotDriven
    <2>3. Benign(h)
      BY <1>1, <1>2, <1>3 DEF Benign, Shelved
    <2>4. RecordOK(h)'
      BY <1>1, <1>3, <2>1 DEF HostOK, RecordOK, WantsDeadman, Standing, Armed
    <2> QED
      BY <2>2, <2>3, <2>4
  <1> QED
    BY <1>1, <1>3, CommitStep

\* The start of a close, and the end of one that finds a pending request.
LEMMA CloseSafe ==
    ASSUME ThreadsOK, WorldOK, WorldOK', AccessInv, NEW t \in Threads,
           CloseDrill(t) \/ CancelPending(t) \/ BeginReverting(t)
    PROVE  AccessInv'
  <1>h. PICK h \in Hosts : h = job[t].host
    BY JobFields
  <1>0. job[t] \in Jobs /\ ReturnsOK /\ job[t].ret \in Rets
    BY JobFields DEF AccessInv, ReturnsOK
  <1>1. CASE CloseDrill(t)
    <2> DEFINE label == IF store[h].state = "pending" THEN "cancel" ELSE "begin-revert"
               j == [job[t] EXCEPT !.nonce = nonces[h]]
    <2>1. Call(t, label, j) /\ UNCHANGED <<store, applied, deadman, nonces, crossed>>
      BY <1>h, <1>1 DEF CloseDrill, ReadForClose
    <2>2. j.ret = job[t].ret /\ j.todo = job[t].todo
      BY <1>0 DEF Jobs
    <2>3. label \notin Driving \union Reverters \union Listers \union {"pass-revert"}
      OBVIOUS
    <2> HIDE DEF label, j
    <2>4. \A s \in Threads : Same(s) \/ Settles(s)
      BY <1>0, <2>1, <2>2, <2>3, CallSettles
    <2> QED
      BY <2>1, <2>4, QuietStep
  <1>2. CASE CancelPending(t)
    <2>1. CASE ~CanCancelPending(store[h])
      BY <1>h, <1>2, <2>1, PanicSettles, QuietStep DEF CancelPending
    <2>2. CASE CanCancelPending(store[h])
      <3>1. /\ Commit(h, Closed) /\ Cross(t) /\ Return(t)
            /\ UNCHANGED <<applied, deadman, nonces>>
        BY <1>h, <1>2, <2>2 DEF CancelPending
      <3>2. crossed \subseteq crossed' /\ \A s \in Threads : Same(s) \/ Settles(s)
        BY <1>0, <3>1, CrossGrows, ReturnSettles
      <3>3. h \notin crossed' => applied[h] = {}
        BY <2>2, <3>2 DEF AccessInv, HostOK, RecordOK, Recorded, CanCancelPending
      <3> QED
        BY <2>2, <3>1, <3>2, <3>3, PlainCommit DEF Closed, MidOpen, CanCancelPending
    <2> QED
      BY <2>1, <2>2
  <1>3. CASE BeginReverting(t)
    <2>1. CASE ~CanRevert(store[h])
      BY <1>h, <1>0, <1>3, <2>1, ReturnSettles, QuietStep DEF BeginReverting
    <2>2. CASE CanRevert(store[h])
      <3> DEFINE j == [job[t] EXCEPT !.nonce = nonces[h], !.channels = store[h].channels]
      <3>1. /\ Commit(h, BeginRevert(store[h])) /\ Call(t, "revert", j)
            /\ UNCHANGED <<applied, deadman, nonces, crossed>>
        BY <1>h, <1>3, <2>2 DEF BeginReverting
      <3>2. /\ j.host = h /\ j.nonce = nonces[h] /\ j.channels = store[h].channels
            /\ j.ret = job[t].ret /\ j.todo = job[t].todo
        BY <1>h, <1>0 DEF Jobs
      <3> HIDE DEF j
      <3>3. /\ store'[h].state = "needs-revert" /\ store'[h].channels = store[h].channels
            /\ applied'[h] = applied[h] /\ \A k \in Hosts \ {h} : Quiet(k)
        BY <3>1, CommitElsewhere DEF BeginRevert, NeedsRevert
      <3>4. pc'[t] = "revert" /\ job'[t] = j /\ \A s \in Threads \ {t} : Same(s)
        BY <3>1, CallMoves
      <3>5. KeepsList(t)
        BY <3>2, <3>4 DEF KeepsList, Carries
      <3>6. nonces[h] \in Nat /\ nonces'[h] = nonces[h]
        BY <3>1 DEF WorldOK
      <3>7. ASSUME h \notin crossed'
            PROVE  /\ Benign(h) /\ RecordOK(h)' /\ Alone(t, h)
                   /\ DriverOK(t, h)' /\ ReverterOK(t, h)' /\ ~Drives(t, h)'
        <4>1. HostOK(h)
          BY <3>1, <3>7 DEF AccessInv
        <4>2. applied[h] \subseteq store[h].channels
          BY <2>2, <4>1 DEF HostOK, RecordOK, Recorded, CanRevert
        <4>3. Alone(t, h)
          BY <2>2, <4>1, NotDriven DEF Alone, CanRevert, MidOpen
        <4>4. Benign(h) /\ RecordOK(h)'
          BY <3>3, <3>6, <4>2 DEF Benign, Shelved, RecordOK, Recorded
        <4>5. WorkOK(h, job[t].nonce, Left(t))'
          BY <3>2, <3>3, <3>4, <3>6, <4>2 DEF WorkOK, Left, Shelved
        <4> QED
          BY <3>4, <4>3, <4>4, <4>5 DEF DriverOK, ReverterOK, Drives
      <3> QED
        BY <1>0, <3>1, <3>2, <3>3, <3>4, <3>5, <3>7, LocalStep
    <2> QED
      BY <2>1, <2>2
  <1> QED
    BY <1>1, <1>2, <1>3

\* What an uncrossed reverter starts its step from: nobody opens the host, and
\* what is in force is what it has still to revert.
LEMMA ReverterStart ==
    ASSUME ThreadsOK, WorldOK, AccessInv, NEW t \in Threads, NEW h \in Hosts,
           job[t].host = h, pc[t] \in Reverters, h \notin crossed, job[t].nonce = nonces[h]
    PROVE  /\ HostOK(h) /\ Shelved(h) /\ applied[h] \subseteq Left(t)
           /\ \A s \in Threads : ~Drives(s, h)
  <1>1. HostOK(h)
    BY DEF AccessInv
  <1>2. Shelved(h) /\ applied[h] \subseteq Left(t)
    BY <1>1 DEF HostOK, ThreadOK, ReverterOK, WorkOK
  <1>3. \A s \in Threads : ~Drives(s, h)
    BY <1>1, <1>2, NotDriven DEF Shelved, MidOpen
  <1> QED
    BY <1>1, <1>2, <1>3

\* A step of a reverter on the host, from one of its labels to another.
LEMMA ReverterStep ==
    ASSUME ThreadsOK, WorldOK, WorldOK', AccessInv, NEW t \in Threads, NEW h \in Hosts,
           job[t].host = h, pc[t] \in Reverters, Cross(t), UNCHANGED <<store, nonces>>,
           \A s \in Threads \ {t} : Same(s),
           \A k \in Hosts \ {h} : applied'[k] = applied[k] /\ deadman'[k] = deadman[k],
           job'[t] = job[t] \/ \E stuck : job'[t] = [job[t] EXCEPT !.stuck = stuck],
           pc'[t] \in Reverters,
           applied[h] \subseteq Left(t) =>
              applied'[h] \subseteq applied[h] /\ applied'[h] \subseteq Left(t)'
    PROVE  AccessInv'
  <1>0. job[t] \in Jobs /\ job[t].ret \in Rets
    BY JobFields DEF AccessInv, ReturnsOK
  <1>1. /\ job'[t].host = h /\ job'[t].nonce = job[t].nonce
        /\ job'[t].ret = job[t].ret /\ job'[t].todo = job[t].todo
    BY <1>0 DEF Jobs
  <1>2. KeepsList(t)
    BY <1>1 DEF KeepsList, Carries
  <1>3. crossed \subseteq crossed'
    BY CrossGrows
  <1>4. \A k \in Hosts \ {h} : Quiet(k)
    BY DEF Quiet
  <1>5. ASSUME h \notin crossed'
        PROVE  /\ Benign(h) /\ RecordOK(h)' /\ Alone(t, h)
               /\ DriverOK(t, h)' /\ ReverterOK(t, h)' /\ ~Drives(t, h)'
    <2>1. job[t].nonce = nonces[h] /\ nonces[h] \in Nat
      BY <1>5, CrossGrows DEF WorldOK
    <2>2. HostOK(h) /\ Shelved(h) /\ applied[h] \subseteq Left(t) /\ Alone(t, h)
      BY <1>3, <1>5, <2>1, ReverterStart DEF Alone
    <2>3. Benign(h)
      BY <2>1, <2>2 DEF Benign, Shelved
    <2>4. RecordOK(h)'
      BY <2>2 DEF HostOK, RecordOK, Shelved
    <2>5. WorkOK(h, job[t].nonce, Left(t))'
      BY <1>1, <2>1, <2>2 DEF WorkOK, Shelved
    <2> QED
      BY <2>2, <2>3, <2>4, <2>5 DEF DriverOK, ReverterOK, Drives
  <1> QED
    BY <1>0, <1>1, <1>2, <1>3, <1>4, <1>5, LocalStep

\* drive_one_revert: the channels, then the dead-man, then the commit.
LEMMA RevertSafe ==
    ASSUME ThreadsOK, WorldOK, WorldOK', AccessInv, NEW t \in Threads,
           \/ RevertChannels(t) \/ RemoveDeadman(t) \/ FinishReverting(t)
           \/ JournalClose(t) \/ RetainStuck(t)
    PROVE  AccessInv'
  <1>h. PICK h \in Hosts : h = job[t].host
    BY JobFields
  <1>0. /\ job[t] \in Jobs /\ ReturnsOK
        /\ \A stuck : [job[t] EXCEPT !.stuck = stuck].stuck = stuck
    BY JobFields DEF AccessInv, Jobs
  <1>1. CASE RevertChannels(t)
    <2>0. pc[t] = "revert" /\ Cross(t) /\ UNCHANGED <<store, nonces, deadman>>
      BY <1>1 DEF RevertChannels
    <2>1. PICK stuck \in SUBSET job[t].channels :
             /\ RevertOutcome(h, job[t].channels, stuck)
             /\ Call(t, IF stuck # {} THEN "retain"
                        ELSE IF h \in SshHosts THEN "remove" ELSE "finish-revert",
                     [job[t] EXCEPT !.stuck = stuck])
      BY <1>h, <1>1 DEF RevertChannels
    <2>2. /\ applied'[h] \subseteq applied[h]
          /\ applied[h] \subseteq job[t].channels => applied'[h] \subseteq stuck
          /\ \A k \in Hosts \ {h} : applied'[k] = applied[k]
      BY <2>1, RevertLeaves
    <2>3. /\ pc'[t] = IF stuck # {} THEN "retain"
                      ELSE IF h \in SshHosts THEN "remove" ELSE "finish-revert"
          /\ job'[t] = [job[t] EXCEPT !.stuck = stuck] /\ \A s \in Threads \ {t} : Same(s)
      BY <2>1, CallMoves
    <2>4. Left(t) = job[t].channels /\ Left(t)' = stuck /\ pc'[t] \in Reverters
      BY <1>0, <2>0, <2>3 DEF Left
    <2> QED
      BY <1>h, <2>0, <2>2, <2>3, <2>4, ReverterStep
  <1>2. CASE RemoveDeadman(t)
    <2>0. pc[t] = "remove" /\ Cross(t) /\ UNCHANGED <<store, nonces, applied>>
      BY <1>2 DEF RemoveDeadman
    <2>1. \A k \in Hosts \ {h} : applied'[k] = applied[k] /\ deadman'[k] = deadman[k]
      BY <1>h, <1>2, <2>0, DisarmLeaves DEF RemoveDeadman, DisarmStopped
    <2>2. \/ pc'[t] = "finish-revert" /\ job'[t] = job[t]
          \/ pc'[t] = "retain" /\ job'[t] = [job[t] EXCEPT !.stuck = job[t].channels]
      BY <1>2, CallMoves, GotoMoves DEF RemoveDeadman
    <2>3. \A s \in Threads \ {t} : Same(s)
      BY <1>2, CallMoves, GotoMoves DEF RemoveDeadman
    <2>4. Left(t) = {} /\ pc'[t] \in Reverters
      BY <2>0, <2>2 DEF Left
    <2> QED
      BY <1>h, <2>0, <2>1, <2>2, <2>3, <2>4, ReverterStep
  <1>3. CASE FinishReverting(t)
    <2>1. CASE ~Reverting(store[h])
      BY <1>h, <1>0, <1>3, <2>1, ReturnSettles, QuietStep DEF FinishReverting
    <2>2. CASE Reverting(store[h])
      <3>1. /\ pc[t] = "finish-revert" /\ Commit(h, Closed) /\ Cross(t)
            /\ Goto(t, "journal-close") /\ UNCHANGED <<job, applied, deadman, nonces>>
        BY <1>h, <1>3, <2>2 DEF FinishReverting, At
      <3>2. crossed \subseteq crossed' /\ \A s \in Threads : Same(s) \/ Settles(s)
        BY <1>0, <3>1, CrossGrows, GotoSettles
      <3>3. h \notin crossed' => applied[h] = {}
        BY <1>h, <3>1, <3>2, CrossGrows, ReverterStart DEF Left
      <3> QED
        BY <2>2, <3>1, <3>2, <3>3, PlainCommit DEF Closed, MidOpen, Reverting
    <2> QED
      BY <2>1, <2>2
  <1>4. CASE JournalClose(t)
    BY <1>0, <1>4, ReturnSettles, QuietStep DEF JournalClose
  <1>5. CASE RetainStuck(t)
    <2>0. \A s \in Threads : Same(s) \/ Settles(s)
      BY <1>0, <1>5, ReturnSettles DEF RetainStuck
    <2>1. CASE ~Reverting(store[h])
      BY <1>h, <1>5, <2>0, <2>1, QuietStep DEF RetainStuck
    <2>2. CASE Reverting(store[h])
      <3>1. /\ pc[t] = "retain" /\ Commit(h, NeedsRevert(job[t].stuck)) /\ Cross(t)
            /\ UNCHANGED <<applied, deadman, nonces>>
        BY <1>h, <1>5, <2>2 DEF RetainStuck, At
      <3>2. crossed \subseteq crossed'
        BY <3>1, CrossGrows
      <3>3. h \notin crossed' => applied[h] \subseteq job[t].stuck
        BY <1>h, <3>1, <3>2, CrossGrows, ReverterStart DEF Left
      <3>4. /\ NeedsRevert(job[t].stuck).state = "needs-revert"
            /\ Recorded(NeedsRevert(job[t].stuck)) = job[t].stuck
        BY DEF NeedsRevert, Recorded
      <3> QED
        BY <2>0, <2>2, <3>1, <3>2, <3>3, <3>4, PlainCommit DEF MidOpen, Reverting
    <2> QED
      BY <2>1, <2>2
  <1> QED
    BY <1>1, <1>2, <1>3, <1>4, <1>5

\* renew moves the dead-man and never takes it away; a drill is a request.
LEMMA RenewSafe ==
    ASSUME ThreadsOK, WorldOK, WorldOK', AccessInv, NEW t \in Threads,
           RescheduleDeadman(t) \/ RenewChannels(t) \/ CommitRenewal(t) \/ BeginDrill(t)
    PROVE  AccessInv'
  <1>h. PICK h \in Hosts : h = job[t].host
    BY JobFields
  <1>0. job[t] \in Jobs /\ ReturnsOK /\ job[t].expires \in Nat
    BY JobFields DEF AccessInv
  <1>1. CASE RescheduleDeadman(t)
    <2>1. \A s \in Threads : Same(s) \/ Settles(s)
      BY <1>0, <1>1, ReturnSettles, GotoSettles DEF RescheduleDeadman
    <2>2. UNCHANGED <<store, applied, nonces>> /\ crossed \subseteq crossed'
      BY <1>1, CrossGrows DEF RescheduleDeadman
    <2>3. /\ Standing(h) => Standing(h)'
          /\ \A k \in Hosts \ {h} : Quiet(k)
      BY <1>h, <1>1, <2>2, ArmIsStop, ArmLeaves DEF RescheduleDeadman, Quiet
    <2>4. nonces[h] \in Nat
      BY DEF WorldOK
    <2>5. Benign(h) /\ Spared(h)
      BY <2>2, <2>3, <2>4 DEF Benign, Shelved, Spared
    <2>6. h \notin crossed' => RecordOK(h)'
      BY <2>2, <2>3 DEF AccessInv, HostOK, RecordOK, WantsDeadman
    <2> QED
      BY <2>1, <2>2, <2>3, <2>5, <2>6, CommitStep
  <1>2. CASE RenewChannels(t)
    BY <1>0, <1>2, ReturnSettles, GotoSettles, QuietStep DEF RenewChannels
  <1>3. CASE CommitRenewal(t)
    <2>0. \A s \in Threads : Same(s) \/ Settles(s)
      BY <1>0, <1>3, ReturnSettles DEF CommitRenewal
    <2>1. CASE ~CanRenew(store[h], job[t].now)
      BY <1>h, <1>3, <2>0, <2>1, QuietStep DEF CommitRenewal
    <2>2. CASE CanRenew(store[h], job[t].now)
      <3> DEFINE g == Renew(store[h], job[t].now, job[t].ttl)
      <3>1. Commit(h, g) /\ Cross(t) /\ UNCHANGED <<applied, deadman, nonces>>
        BY <1>h, <1>3, <2>2 DEF CommitRenewal
      <3>2. store[h].state = "open" /\ g.state = "open" /\ g.channels = store[h].channels
        BY <2>2 DEF CanRenew, IsOpen, Renew, OpenGrant
      <3> HIDE DEF g
      <3>3. crossed \subseteq crossed'
        BY <3>1, CrossGrows
      <3>4. h \notin crossed' => applied[h] \subseteq Recorded(g)
        BY <3>2, <3>3 DEF AccessInv, HostOK, RecordOK, Recorded
      <3> QED
        BY <2>0, <3>1, <3>2, <3>3, <3>4, PlainCommit DEF MidOpen, Shelved
    <2> QED
      BY <2>1, <2>2
  <1>4. CASE BeginDrill(t)
    <2>1. CASE ~CanBeginPending(store[h])
      BY <1>h, <1>0, <1>4, <2>1, ReturnSettles, QuietStep DEF BeginDrill
    <2>2. CASE CanBeginPending(store[h])
      <3> DEFINE g == BeginPending(job[t].now, job[t].now + ApprovalWindow, DRILL_TTL,
                                   nonces[h] + 1, DRILL_PROFILE)
                 j == [job[t] EXCEPT !.nonce = nonces[h] + 1, !.ret = "close"]
      <3>1. /\ Commit(h, g) /\ Call(t, "claim", j) /\ UNCHANGED <<applied, deadman, crossed>>
            /\ nonces' = [nonces EXCEPT ![h] = @ + 1]
        BY <1>h, <1>4, <2>2 DEF BeginDrill
      <3>2. g.state = "pending" /\ j.ret = "close"
        BY <1>0 DEF BeginPending, Pending, Jobs
      <3> HIDE DEF g, j
      <3>3. \A s \in Threads : Same(s) \/ Settles(s)
        BY <3>1, <3>2, CallSettles
      <3> QED
        BY <2>2, <3>1, <3>2, <3>3, NewRequest
    <2> QED
      BY <2>1, <2>2
  <1> QED
    BY <1>1, <1>2, <1>3, <1>4

\* The steps of a pass: the reap leaves a driven open alone, and what is listed
\* to revert is what the grants record.
LEMMA PassSafe ==
    ASSUME ThreadsOK, WorldOK, WorldOK', AccessInv, NEW t \in Threads,
           \/ PassReap(t) \/ PassList(t) \/ PassRevert(t) \/ PassAwaiting(t) \/ PassWait(t)
    PROVE  AccessInv'
  <1>0. /\ job[t] \in Jobs /\ ReturnsOK /\ job[t].ret \in Rets /\ job[t].todo \in SUBSET Work
        /\ \A n : [NoJob EXCEPT !.now = n].ret = "idle"
    BY JobFields DEF AccessInv, ReturnsOK, NoJob
  <1>1. CASE PassReap(t)
    <2>1. /\ Call(t, "pass-list", [NoJob EXCEPT !.now = clock])
          /\ UNCHANGED <<applied, deadman, nonces, crossed>>
          /\ \A k \in Hosts : store'[k] = Reap(store[k], clock)
      BY <1>1 DEF PassReap
    <2>2. \A s \in Threads : Same(s) \/ Settles(s)
      BY <1>0, <2>1, CallSettles
    <2>3. ASSUME NEW k \in Hosts \ crossed'
          PROVE  Benign(k) /\ RecordOK(k)' /\ \A s \in Threads : Drives(s, k) => Spared(k)
      <3>1. HostOK(k) /\ nonces[k] \in Nat /\ nonces'[k] = nonces[k]
        BY <2>1, <2>3 DEF AccessInv, WorldOK
      <3>2. Shelved(k) => Shelved(k)' /\ store'[k] = store[k]
        BY <2>1 DEF Shelved, Reap, Expired, ApprovalExpired
      <3>3. MidOpen(store[k]) => store'[k] = store[k]
        BY <2>1 DEF MidOpen, Reap, Expired, ApprovalExpired
      <3>4. RecordOK(k)'
        <4>1. applied'[k] = applied[k] /\ deadman'[k] = deadman[k]
          BY <2>1
        <4>2. CASE store'[k] = store[k]
          BY <3>1, <4>1, <4>2 DEF HostOK, RecordOK, Standing, Armed
        <4>3. CASE store'[k] = BeginRevert(store[k]) /\ store[k].state = "open"
          BY <3>1, <4>1, <4>3 DEF HostOK, RecordOK, Recorded, BeginRevert, NeedsRevert
        <4>4. CASE store'[k] = Closed /\ store[k].state = "pending"
          BY <3>1, <4>1, <4>4 DEF HostOK, RecordOK, Recorded, Closed
        <4> QED
          BY <2>1, <4>2, <4>3, <4>4 DEF Reap, Expired, ApprovalExpired
      <3>5. \A s \in Threads : Drives(s, k) => Spared(k)
        BY <2>1, <3>1, <3>3 DEF HostOK, ThreadOK, DriverOK, Spared, Standing, Armed
      <3> QED
        BY <2>1, <3>1, <3>2, <3>4, <3>5 DEF Benign
    <2> QED
      BY <2>1, <2>2, <2>3, SettlingStep
  <1>2. CASE PassList(t)
    <2> DEFINE items == {Item(h) : h \in {k \in Hosts : Reverting(store[k])}}
               j == [job[t] EXCEPT !.todo = items]
    <2>1. Call(t, "pass-revert", j) /\ UNCHANGED <<store, applied, deadman, nonces, crossed>>
      BY <1>2 DEF PassList
    <2>2. j.ret = job[t].ret /\ j.todo = items
      BY <1>0 DEF Jobs
    <2>3. pc'[t] = "pass-revert" /\ job'[t] = j /\ \A s \in Threads \ {t} : Same(s)
      <3> HIDE DEF j
      <3> QED
        BY <2>1, CallMoves
    <2>4. ReturnsOK' /\ ListsOwn'
      BY <1>0, <2>2, <2>3 DEF AccessInv, ReturnsOK, ListsOwn, Same
    <2>5. ASSUME NEW k \in Hosts \ crossed'
          PROVE  HostOK(k)'
      <3>1. HostOK(k)
        BY <2>1, <2>5 DEF AccessInv
      <3>2. Benign(k) /\ Spared(k) /\ RecordOK(k)'
        BY <2>1, <3>1, QuietHost DEF Quiet, HostOK
      <3>3. ASSUME NEW w \in items, w.host = k
            PROVE  WorkOK(k, w.nonce, w.channels)'
        <4>1. /\ Reverting(store[k]) /\ w.channels = Recorded(store[k]) /\ w.nonce = nonces[k]
          BY <3>3 DEF Item
        <4>2. nonces[k] \in Nat /\ applied[k] \subseteq Recorded(store[k])
          BY <3>1 DEF WorldOK, HostOK, RecordOK
        <4> QED
          BY <2>1, <4>1, <4>2 DEF WorkOK, Shelved, Reverting
      <3> HIDE DEF items, j
      <3>4. ThreadOK(t, k)' /\ ~Drives(t, k)'
        BY <2>2, <2>3, <3>3 DEF ThreadOK, DriverOK, ReverterOK, ListOK, Drives
      <3>5. ASSUME NEW s \in Threads \ {t}
            PROVE  ThreadOK(s, k)' /\ (Drives(s, k)' => Drives(s, k))
        BY <2>3, <3>1, <3>2, SameThread DEF HostOK, Same, Drives
      <3>6. OneDriver(k)'
        BY <3>1, <3>4, <3>5 DEF HostOK, OneDriver
      <3> QED
        BY <3>2, <3>4, <3>5, <3>6 DEF HostOK
    <2> QED
      BY <2>4, <2>5 DEF AccessInv
  <1>3. CASE PassRevert(t)
    <2>0. pc[t] = "pass-revert" /\ UNCHANGED <<store, applied, deadman, nonces, crossed>>
      BY <1>3 DEF PassRevert
    <2>1. CASE job[t].todo = {}
      <3>1. \/ Call(t, "idle", NoJob)
            \/ Call(t, "pass-awaiting", [NoJob EXCEPT !.now = job[t].now])
        BY <1>3, <2>1 DEF PassRevert
      <3>2. NoJob.ret = "idle"
        BY DEF NoJob
      <3>3. \A s \in Threads : Same(s) \/ Settles(s)
        BY <1>0, <3>1, <3>2, CallSettles
      <3> QED
        BY <2>0, <3>3, QuietStep
    <2>2. CASE job[t].todo # {}
      <3>1. PICK w \in job[t].todo :
               Call(t, "revert", [job[t] EXCEPT !.host = w.host, !.channels = w.channels,
                                                !.nonce = w.nonce, !.ret = "pass-revert",
                                                !.todo = @ \ {w}])
        BY <1>3, <2>2 DEF PassRevert
      <3>2. PICK h \in Hosts : h = w.host
        BY <1>0 DEF Work
      <3>3. /\ pc'[t] = "revert" /\ \A s \in Threads \ {t} : Same(s)
            /\ job'[t] = [job[t] EXCEPT !.host = w.host, !.channels = w.channels,
                                        !.nonce = w.nonce, !.ret = "pass-revert",
                                        !.todo = @ \ {w}]
        BY <3>1, CallMoves
      <3>4. /\ job'[t].host = h /\ job'[t].channels = w.channels /\ job'[t].nonce = w.nonce
            /\ job'[t].ret = "pass-revert" /\ job'[t].todo = job[t].todo \ {w}
        BY <1>0, <3>2, <3>3 DEF Jobs
      <3>5. KeepsList(t)
        BY <2>0, <3>4 DEF KeepsList, Carries
      <3>6. \A k \in Hosts : Quiet(k) /\ Benign(k) /\ Spared(k) /\ (RecordOK(k) => RecordOK(k)')
        BY <2>0, QuietHost DEF Quiet
      <3>7. ASSUME h \notin crossed'
            PROVE  RecordOK(h)' /\ DriverOK(t, h)' /\ ReverterOK(t, h)' /\ ~Drives(t, h)'
        <4>1. RecordOK(h) /\ ListOK(t, h)
          BY <2>0, <3>7 DEF AccessInv, HostOK, ThreadOK
        <4>2. WorkOK(h, w.nonce, w.channels)
          BY <2>0, <3>2, <4>1 DEF ListOK, Carries
        <4>3. WorkOK(h, job[t].nonce, Left(t))'
          BY <2>0, <3>3, <3>4, <4>2 DEF WorkOK, Left, Shelved
        <4> QED
          BY <3>3, <3>6, <4>1, <4>3 DEF DriverOK, ReverterOK, Drives
      <3> QED
        BY <2>0, <3>3, <3>4, <3>5, <3>6, <3>7, LocalStep
    <2> QED
      BY <2>1, <2>2
  <1>4. CASE PassAwaiting(t)
    <2> DEFINE j == [job[t] EXCEPT !.todo = {Item(h) : h \in {k \in Hosts :
                                        AwaitingApproval(store[k], job[t].now)}}]
    <2>1. Call(t, "pass-wait", j) /\ UNCHANGED <<store, applied, deadman, nonces, crossed>>
      BY <1>4 DEF PassAwaiting
    <2>2. job[t].ret = "idle"
      BY <1>4 DEF PassAwaiting, At, AccessInv, ListsOwn
    <2>3. j.ret = "idle"
      BY <1>0, <2>2 DEF Jobs
    <2> HIDE DEF j
    <2> QED
      BY <2>1, <2>3, CallSettles, QuietStep
  <1>5. CASE PassWait(t)
    <2>0. UNCHANGED <<store, applied, deadman, nonces, crossed>>
      BY <1>5 DEF PassWait
    <2>1. CASE Call(t, "idle", NoJob)
      BY <2>0, <2>1, CallSettles, QuietStep DEF NoJob
    <2>2. ASSUME NEW w \in job[t].todo, NEW rest,
                 rest = [NoJob EXCEPT !.host = w.host, !.now = job[t].now,
                                      !.todo = job[t].todo \ {w}],
                 \/ Call(t, "claim", [rest EXCEPT !.nonce = store[w.host].nonce,
                                                  !.ret = "pass-wait"])
                 \/ Call(t, "pass-wait", rest)
          PROVE  AccessInv'
      <3>1. rest.ret = "idle"
        BY <2>2 DEF NoJob
      <3>2. \A n : [rest EXCEPT !.nonce = n, !.ret = "pass-wait"].ret = "pass-wait"
        BY <2>2 DEF NoJob
      <3>3. \A s \in Threads : Same(s) \/ Settles(s)
        BY <2>2, <3>1, <3>2, CallSettles
      <3> QED
        BY <2>0, <3>3, QuietStep
    <2> QED
      BY <1>5, <2>1, <2>2 DEF PassWait
  <1> QED
    BY <1>1, <1>2, <1>3, <1>4, <1>5

\* The steps of boot recovery: a demoted open keeps its channels on record, and
\* one that was being driven is crossed from then on.
LEMMA BootSafe ==
    ASSUME ThreadsOK, WorldOK, WorldOK', AccessInv, NEW t \in Threads,
           \/ BootDemote(t) \/ BootList(t) \/ BootReestablish(t) \/ BootRetract(t) \/ BootDone(t)
    PROVE  AccessInv'
  <1>h. PICK h \in Hosts : h = job[t].host
    BY JobFields
  <1>0. /\ job[t] \in Jobs /\ ReturnsOK /\ job[t].ret \in Rets
        /\ \A n : [NoJob EXCEPT !.now = n].ret = "idle"
    BY JobFields DEF AccessInv, ReturnsOK, NoJob
  <1>1. CASE BootDemote(t)
    <2>1. /\ Call(t, "boot-list", [NoJob EXCEPT !.now = clock])
          /\ UNCHANGED <<applied, deadman, nonces>> /\ crossed \subseteq crossed'
          /\ \A k \in Hosts : store'[k] = Demote(store[k])
      BY <1>1 DEF BootDemote
    <2>2. \A s \in Threads : Same(s) \/ Settles(s)
      BY <1>0, <2>1, CallSettles
    <2>3. ASSUME NEW k \in Hosts \ crossed'
          PROVE  Benign(k) /\ RecordOK(k)' /\ \A s \in Threads : ~Drives(s, k)
      <3>1. HostOK(k) /\ nonces[k] \in Nat /\ nonces'[k] = nonces[k]
        BY <2>1, <2>3 DEF AccessInv, WorldOK
      <3>2. \A s \in Threads : ~Drives(s, k)
        BY <1>1, <2>3, <3>1, NotDriven DEF BootDemote
      <3>3. Shelved(k) => Shelved(k)'
        BY <2>1 DEF Shelved, Demote, MidOpen
      <3>4. RecordOK(k)'
        <4>1. applied'[k] = applied[k] /\ deadman'[k] = deadman[k]
          BY <2>1
        <4>2. CASE store'[k] = store[k]
          BY <3>1, <4>1, <4>2 DEF HostOK, RecordOK, Standing, Armed
        <4>3. CASE store'[k] = NeedsRevert(store[k].channels) /\ store[k].state = "opening"
          BY <3>1, <4>1, <4>3 DEF HostOK, RecordOK, Recorded, NeedsRevert
        <4> QED
          BY <2>1, <4>2, <4>3 DEF Demote, MidOpen
      <3> QED
        BY <2>1, <3>1, <3>2, <3>3, <3>4 DEF Benign
    <2> QED
      BY <2>1, <2>2, <2>3, SettlingStep
  <1>2. CASE BootList(t)
    <2> DEFINE j == [job[t] EXCEPT !.todo = {Item(k) : k \in {i \in Hosts :
                                                IsOpen(store[i], job[t].now)}}]
    <2>1. /\ Call(t, "boot-reestablish", j)
          /\ UNCHANGED <<store, applied, deadman, nonces, crossed>>
      BY <1>2 DEF BootList
    <2>2. job[t].ret = "idle"
      BY <1>2 DEF BootList, At, AccessInv, ListsOwn
    <2>3. j.ret = "idle"
      BY <1>0, <2>2 DEF Jobs
    <2> HIDE DEF j
    <2> QED
      BY <2>1, <2>3, CallSettles, QuietStep
  <1>3. CASE BootReestablish(t)
    <2>0. UNCHANGED <<store, applied, deadman, nonces, crossed>>
      BY <1>3 DEF BootReestablish
    <2>1. PICK w \in job[t].todo, label \in {"boot-reestablish", "boot-retract"} :
             Call(t, label, [job[t] EXCEPT !.host = w.host, !.nonce = w.nonce, !.todo = @ \ {w}])
      BY <1>3 DEF BootReestablish
    <2>2. /\ pc'[t] = label /\ \A s \in Threads \ {t} : Same(s)
          /\ job'[t] = [job[t] EXCEPT !.host = w.host, !.nonce = w.nonce, !.todo = @ \ {w}]
      BY <2>1, CallMoves
    <2>3. job'[t].ret = job[t].ret /\ job'[t].todo = job[t].todo \ {w}
      BY <1>0, <2>2 DEF Jobs
    <2>4. Settles(t)
      BY <1>0, <2>2, <2>3 DEF Settles, KeepsList, Carries
    <2> QED
      BY <2>0, <2>2, <2>4, QuietStep
  <1>4. CASE BootRetract(t)
    <2>1. CASE ~CanRevert(store[h])
      BY <1>h, <1>4, <2>1, PanicSettles, QuietStep DEF BootRetract
    <2>2. CASE CanRevert(store[h])
      <3>1. /\ Commit(h, BeginRevert(store[h])) /\ Goto(t, "boot-reestablish")
            /\ UNCHANGED <<job, applied, deadman, nonces, crossed>>
        BY <1>h, <1>4, <2>2 DEF BootRetract
      <3>2. \A s \in Threads : Same(s) \/ Settles(s)
        BY <1>0, <3>1, GotoSettles
      <3>3. /\ BeginRevert(store[h]).state = "needs-revert"
            /\ Recorded(BeginRevert(store[h])) = Recorded(store[h])
        BY <2>2 DEF BeginRevert, NeedsRevert, Recorded, CanRevert
      <3>4. h \notin crossed' => applied[h] \subseteq Recorded(store[h])
        BY <3>1 DEF AccessInv, HostOK, RecordOK
      <3> QED
        BY <2>2, <3>1, <3>2, <3>3, <3>4, PlainCommit DEF MidOpen, CanRevert
    <2> QED
      BY <2>1, <2>2
  <1>5. CASE BootDone(t)
    <2>1. UNCHANGED <<store, applied, deadman, nonces, crossed>>
      BY <1>5 DEF BootDone
    <2>2. ASSUME NEW s \in Threads
          PROVE  Same(s) \/ Settles(s)
      <3>1. /\ Same(s) \/ pc'[s] \in {"idle", "pass"}
            /\ job'[s] = job[s] \/ job'[s] = NoJob
        <4>1. job'[s] = job[s] \/ job'[s] = NoJob
          BY <1>5 DEF BootDone, ThreadsOK
        <4>2. CASE t = Main
          BY <1>5, <4>1, <4>2 DEF BootDone, Same, ThreadsOK, Threads, Daemon
        <4>3. CASE t # Main
          BY <1>5, <4>1, <4>3 DEF BootDone, Same, ThreadsOK
        <4> QED
          BY <4>1, <4>2, <4>3
      <3>2. job[s].ret \in Rets /\ NoJob.ret = "idle"
        BY <1>0 DEF ReturnsOK, NoJob
      <3> QED
        BY <3>1, <3>2 DEF Settles, KeepsList, Carries
    <2> QED
      BY <2>1, <2>2, QuietStep
  <1> QED
    BY <1>1, <1>2, <1>3, <1>4, <1>5

\* A crash may cut one call to a host short: what a driver had applied is on
\* record, what it had reverted is out, and a dead-man is left cut or whole.
LEMMA CrashSafe ==
    ASSUME ThreadsOK, WorldOK, WorldOK', AccessInv, Crash
    PROVE  AccessInv'
  <1>0. /\ UNCHANGED <<store, nonces>>
        /\ \A s \in Daemon : Settles(s)
        /\ \A s \in Threads : Same(s) \/ Settles(s)
    BY StopSettles DEF Crash
  <1>1. CASE UNCHANGED <<applied, deadman, crossed>>
    BY <1>0, <1>1, QuietStep
  <1>2. ASSUME NEW t \in Daemon, CutShort(t)
        PROVE  AccessInv'
    <2>0. t \in Threads
      BY DEF Threads
    <2>h. PICK h \in Hosts : h = job[t].host
      BY <2>0, JobFields
    <2>2. crossed \subseteq crossed' /\ (h \notin crossed' => job[t].nonce = nonces[h])
      BY <1>2, <2>h, CrossGrows DEF CutShort
    <2>4. nonces[h] \in Nat /\ nonces'[h] = nonces[h] /\ store'[h] = store[h]
      BY <1>0 DEF WorldOK
    <2>5. CASE /\ UNCHANGED deadman
               /\ \E part \in SUBSET (job[t].channels \intersect Drivable(h)) :
                     \/ pc[t] = "apply" /\ AppliedAll(h, part)
                     \/ pc[t] \in {"revert", "unwind"} /\ applied' = [applied EXCEPT ![h] = @ \ part]
      <3>a. PICK part \in SUBSET (job[t].channels \intersect Drivable(h)) :
               \/ pc[t] = "apply" /\ applied' = [applied EXCEPT ![h] = @ \union part]
               \/ pc[t] \in {"revert", "unwind"} /\ applied' = [applied EXCEPT ![h] = @ \ part]
        BY <2>5 DEF AppliedAll
      <3>b. \A k \in Hosts \ {h} : Quiet(k)
        BY <1>0, <2>5, <3>a DEF Quiet, WorldOK
      <3>c. Standing(h)' <=> Standing(h)
        BY <2>5 DEF Standing, Armed
      <3>d. ASSUME h \notin crossed'
            PROVE  /\ Benign(h) /\ RecordOK(h)'
                   /\ \A s \in Threads : Drives(s, h) => Settles(s) \/ Spared(h)
        <4>0. RecordOK(h)
          BY <2>2, <3>d DEF AccessInv, HostOK
        <4>1. CASE pc[t] = "apply"
          <5>1. applied'[h] = applied[h] \union part
            BY <3>a, <4>1 DEF WorldOK
          <5>2. Drives(t, h)
            BY <2>h, <4>1 DEF Drives
          <5>3. /\ Alone(t, h) /\ store[h].state = "opening"
                /\ store[h].channels = job[t].channels /\ applied[h] \subseteq job[t].channels
            BY <2>0, <2>2, <3>d, <5>2, DriverStart
          <5>4. Benign(h)
            BY <2>4, <5>3 DEF Benign, Shelved
          <5>5. RecordOK(h)'
            BY <2>4, <5>1, <5>3 DEF RecordOK, Recorded
          <5> QED
            BY <1>0, <5>3, <5>4, <5>5 DEF Alone
        <4>2. CASE pc[t] # "apply"
          <5>1. applied'[h] \subseteq applied[h]
            BY <3>a, <4>2 DEF WorldOK
          <5>2. Benign(h) /\ Spared(h)
            BY <2>4, <3>c, <5>1 DEF Benign, Shelved, Spared
          <5>3. WantsDeadman(h, applied'[h]) => WantsDeadman(h, applied[h])
            BY <5>1 DEF WantsDeadman
          <5>4. RecordOK(h)'
            BY <2>4, <3>c, <4>0, <5>1, <5>3 DEF RecordOK
          <5> QED
            BY <5>2, <5>4
        <4> QED
          BY <4>1, <4>2
      <3> QED
        BY <1>0, <2>2, <3>b, <3>d, CommitStep
    <2>6. CASE UNCHANGED applied /\ ArmStopped(t, h)
      <3>1. Standing(h) => Standing(h)'
        BY <2>0, <2>6, ArmLeaves
      <3>2. \A k \in Hosts \ {h} : Quiet(k)
        BY <1>0, <2>0, <2>6, ArmLeaves DEF Quiet
      <3>3. Benign(h) /\ Spared(h)
        BY <2>4, <2>6, <3>1 DEF Benign, Shelved, Spared
      <3>4. h \notin crossed' => RecordOK(h)'
        BY <2>2, <2>4, <2>6, <3>1 DEF AccessInv, HostOK, RecordOK, WantsDeadman
      <3> QED
        BY <1>0, <2>2, <3>2, <3>3, <3>4, CommitStep
    <2>7. CASE UNCHANGED applied /\ pc[t] = "remove" /\ DisarmStopped(h)
      <3>1. \A k \in Hosts \ {h} : Quiet(k)
        BY <1>0, <2>7, DisarmLeaves DEF Quiet
      <3>2. ASSUME h \notin crossed'
            PROVE  Benign(h) /\ RecordOK(h)' /\ \A s \in Threads : ~Drives(s, h)
        <4>1. HostOK(h) /\ Shelved(h) /\ \A s \in Threads : ~Drives(s, h)
          BY <2>0, <2>h, <2>2, <2>7, <3>2, ReverterStart
        <4>2. Benign(h)
          BY <2>4, <2>7 DEF Benign, Shelved
        <4>3. RecordOK(h)'
          BY <2>4, <2>7, <4>1 DEF HostOK, RecordOK, Shelved
        <4> QED
          BY <4>1, <4>2, <4>3
      <3> QED
        BY <1>0, <2>2, <3>1, <3>2, CommitStep
    <2> QED
      BY <1>2, <2>h, <2>5, <2>6, <2>7 DEF CutShort
  <1> QED
    BY <1>1, <1>2 DEF Crash

\* The other steps that no operation of the daemon takes.
LEMMA EnvironmentSafe ==
    ASSUME ThreadsOK, WorldOK, WorldOK', AccessInv,
           \/ Shutdown \/ Tick \/ \E t \in Threads : Fatal(t) \/ Lost(t)
           \/ \E h \in Hosts : DeadmanFires(h)
    PROVE  AccessInv'
  <1>1. CASE Shutdown
    BY <1>1, StopSettles, QuietStep DEF Shutdown
  <1>2. CASE Tick
    <2>1. \A s \in Threads : Same(s)
      BY <1>2 DEF Tick, Same
    <2> QED
      BY <1>2, <2>1, QuietStep DEF Tick
  <1>3. ASSUME NEW t \in Threads, Fatal(t) \/ Lost(t)
        PROVE  AccessInv'
    <2>1. UNCHANGED <<store, applied, deadman, nonces, crossed>>
      BY <1>3 DEF Fatal, Lost
    <2>2. CASE StopDaemon
      BY <2>1, <2>2, StopSettles, QuietStep
    <2>3. CASE \E label \in {"idle", "dead"} : Call(t, label, NoJob)
      <3>1. /\ pc'[t] \in {"idle", "dead"} /\ job'[t] = NoJob
            /\ \A s \in Threads \ {t} : Same(s)
        BY <2>3, CallMoves
      <3> QED
        BY <2>1, <3>1, ParkedSettles, QuietStep
    <2> QED
      BY <1>3, <2>2, <2>3 DEF Fatal, Lost
  <1>4. ASSUME NEW h \in Hosts, DeadmanFires(h)
        PROVE  AccessInv'
    <2>1. /\ applied'[h] = applied[h] \ SshBorne
          /\ UNCHANGED <<store, nonces, crossed>> /\ \A s \in Threads : Same(s)
          /\ \A k \in Hosts \ {h} : Quiet(k)
      BY <1>4, DisarmLeaves DEF DeadmanFires, DisarmStopped, WorldOK, Quiet, Same
    <2>2. nonces[h] \in Nat
      BY DEF WorldOK
    <2>3. Benign(h) /\ Spared(h)
      BY <2>1, <2>2 DEF Benign, Shelved, Spared
    <2>4. h \notin crossed' => RecordOK(h)'
      BY <2>1 DEF AccessInv, HostOK, RecordOK, WantsDeadman
    <2> QED
      BY <2>1, <2>3, <2>4, CommitStep
  <1> QED
    BY <1>1, <1>2, <1>3, <1>4

\* Every step keeps the invariant.
LEMMA StepSafe ==
    ASSUME TypeOK, TypeOK', AccessInv, [Next]_vars
    PROVE  AccessInv'
  <1>0. ThreadsOK /\ WorldOK /\ WorldOK'
    BY TypeParts DEF TypeOK, WorldOK, Deadmen
  <1>1. CASE UNCHANGED vars
    <2>1. \A s \in Threads : Same(s)
      BY <1>1 DEF vars, Same
    <2> QED
      BY <1>0, <1>1, <2>1, QuietStep DEF vars
  <1>2. ASSUME NEW t \in Threads, Continue(t)
        PROVE  AccessInv'
    BY <1>0, <1>2, ApproveSafe, ClaimSafe, OpenSafe, SettleSafe, CloseSafe, RevertSafe,
       RenewSafe, PassSafe, BootSafe, EnvironmentSafe DEF Continue
  <1>3. ASSUME NEW t \in {Main} \union Once, BootDemote(t)
        PROVE  AccessInv'
    BY <1>0, <1>3, BootSafe DEF Threads, Daemon
  <1>4. ASSUME NEW t \in Listeners, NEW h \in Hosts, Request(t, h)
        PROVE  AccessInv'
    BY <1>0, <1>4, RequestSafe
  <1>5. CASE Next
    BY <1>0, <1>2, <1>3, <1>4, <1>5, CrashSafe, EnvironmentSafe DEF Next
  <1> QED
    BY <1>1, <1>5

\* Nothing is in force and nobody is at work in the beginning.
LEMMA InitSafe == Init => AccessInv
  <1> SUFFICES ASSUME Init PROVE AccessInv
    OBVIOUS
  <1>1. \A t \in Threads : pc[t] \in {"idle", "down"} /\ job[t].ret = "idle"
    BY DEF Init, NoJob
  <1>2. \A h \in Hosts : store[h].state = "closed" /\ applied[h] = {}
    BY DEF Init, Closed
  <1>3. \A h \in Hosts : RecordOK(h)
    BY <1>2 DEF RecordOK
  <1>4. \A h \in Hosts, t \in Threads : ThreadOK(t, h) /\ ~Drives(t, h)
    BY <1>1 DEF ThreadOK, DriverOK, ReverterOK, ListOK, Carries, Drives
  <1> QED
    BY <1>1, <1>3, <1>4 DEF AccessInv, ReturnsOK, ListsOwn, HostOK, OneDriver

\* The invariant holds throughout.
LEMMA AccessInvariant == Spec => [](TypeOK /\ AccessInv)
  <1>1. Init => TypeOK /\ AccessInv
    BY InitType, InitSafe
  <1>2. TypeOK /\ AccessInv /\ [Next]_vars => TypeOK' /\ AccessInv'
    BY StepType, StepSafe
  <1> QED
    BY <1>1, <1>2, PTL DEF Spec

(***************************************************************************)
(* The theorems.                                                            *)
(***************************************************************************)
\* Write-ahead: whatever a crash, a failed call, a race of two listeners, a pass
\* and a `--once` run leave on a host, its grant in the store names it, on every
\* host nobody worked on for an earlier request.
THEOREM NothingIsHidden == Spec => []NoHiddenAccess
  <1>1. AccessInv => NoHiddenAccess
    BY DEF AccessInv, HostOK, RecordOK, NoHiddenAccess
  <1> QED
    BY <1>1, AccessInvariant, PTL

\* drive_open commits Open only over a dead-man, and nothing takes the dead-man
\* of an open grant away but its own firing and a reschedule that is cut short:
\* in that one case the theorem promises nothing.
THEOREM OpenIsBackstopped == Spec => []Backstopped
  <1>1. AccessInv => Backstopped
    BY DEF AccessInv, HostOK, RecordOK, Backstopped, Standing
  <1> QED
    BY <1>1, AccessInvariant, PTL

\* drive_one_revert removes the dead-man last: in the step in which a host loses
\* its dead-man, nothing the dead-man guards is left in force, or the step cut a
\* write of it short.
THEOREM BackstopLeavesLast == Spec => BackstopOutlivesAccess
  <1>1. ASSUME TypeOK, AccessInv, [Next]_vars, NEW h \in Hosts \ crossed',
               Armed(h), ~Armed(h)'
        PROVE  applied'[h] \cap SshBorne = {} \/ deadman'[h].cut
    <2>0. ThreadsOK /\ WorldOK
      BY <1>1, TypeParts
    <2>1. ASSUME NEW t \in Threads, pc[t] = "remove", DisarmStopped(job[t].host),
                 UNCHANGED applied, Cross(t)
          PROVE  applied'[h] \cap SshBorne = {}
      <3>1. PICK k \in Hosts : k = job[t].host
        BY <2>0, JobFields
      <3>2. k = h
        BY <1>1, <2>0, <2>1, <3>1, DisarmLeaves DEF Armed
      <3>3. h \notin crossed /\ job[t].nonce = nonces[h]
        BY <1>1, <2>1, <3>1, <3>2, CrossGrows
      <3>4. applied[h] \subseteq Left(t) /\ Left(t) = {}
        BY <1>1, <2>0, <2>1, <3>1, <3>2, <3>3, ReverterStart DEF Left
      <3> QED
        BY <2>1, <3>4
    <2>2. ASSUME NEW t \in Threads, ArmStopped(t, job[t].host)
          PROVE  deadman'[h].cut
      <3>1. job[t].host \in Hosts
        BY <2>0, JobFields
      <3> QED
        BY <1>1, <2>0, <2>2, <3>1, ArmLeaves DEF Armed
    <2>3. ASSUME NEW k \in Hosts, DeadmanFires(k)
          PROVE  applied'[h] \cap SshBorne = {}
      <3>1. k = h
        BY <1>1, <2>0, <2>3, DisarmLeaves DEF DeadmanFires, DisarmStopped, Armed
      <3> QED
        BY <2>0, <2>3, <3>1 DEF DeadmanFires, WorldOK
    <2>4. ASSUME NEW t \in Threads, Continue(t)
          PROVE  UNCHANGED deadman \/ RemoveDeadman(t) \/ InstallDeadman(t) \/ RescheduleDeadman(t)
      BY <2>4 DEF Continue, ApproveGated, Prove, EvaluateProofs, Claim, ApplyChannels,
                  UnwindApplied, FinishOpening, UnwindOpening, CloseDrill, CancelPending,
                  BeginReverting, RevertChannels, FinishReverting, JournalClose, RetainStuck,
                  RenewChannels, CommitRenewal, BeginDrill, PassReap, PassList, PassRevert,
                  PassAwaiting, PassWait, BootList, BootReestablish, BootRetract, BootDone, Fatal
    <2>5. ASSUME NEW t \in Listeners, NEW k \in Hosts, Request(t, k)
          PROVE  UNCHANGED deadman
      BY <2>5 DEF Request, OpenRequest, Approve, McpApprove, Close, RenewRequest, Drill
    <2>6. UNCHANGED deadman => FALSE
      BY <1>1 DEF Armed
    <2>7. ASSUME NEW t \in Threads, RemoveDeadman(t)
          PROVE  applied'[h] \cap SshBorne = {}
      BY <2>1, <2>7 DEF RemoveDeadman, DisarmStopped
    <2>8. ASSUME NEW t \in Threads, InstallDeadman(t) \/ RescheduleDeadman(t)
          PROVE  deadman'[h].cut
      BY <2>2, <2>8, ArmIsStop DEF InstallDeadman, RescheduleDeadman
    <2>9. ASSUME Crash
          PROVE  applied'[h] \cap SshBorne = {} \/ deadman'[h].cut
      BY <2>1, <2>2, <2>6, <2>9 DEF Crash, CutShort, Threads
    <2> QED
      BY <1>1, <2>3, <2>4, <2>5, <2>6, <2>7, <2>8, <2>9
         DEF Next, vars, BootDemote, Lost, Shutdown, Tick
  <1>2. TypeOK /\ AccessInv /\ [Next]_vars =>
          [\A h \in Hosts \ crossed' :
              Armed(h) /\ ~Armed(h)'
                  => applied'[h] \cap SshBorne = {} \/ deadman'[h].cut]_vars
    BY <1>1
  <1> QED
    BY <1>2, AccessInvariant, PTL DEF Spec, BackstopOutlivesAccess
=============================================================================
