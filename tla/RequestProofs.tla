---------------------------- MODULE RequestProofs ----------------------------
(***************************************************************************)
(* What a request is worth: it is opened for its own approval, an open and a *)
(* renewal are committed under a dead-man that outlasts them, and it is      *)
(* closed once in the journal.                                               *)
(***************************************************************************)
EXTENDS LifecycleProofs, FiniteSetTheorems

\* The profiles nobody can ask for.
Synthetic == {DRILL_PROFILE, DRY_RUN_PROFILE}

\* A pending grant is of the request the host is at; a dry-run has no other
\* profiles than the synthetic ones.
PendingOK(h) ==
    store[h].state = "pending" =>
        /\ store[h].nonce = nonces[h]
        /\ DryRun => store[h].profile \in Synthetic

\* The thread has work of the request its host is at, and would act on it.
Current(t) ==
    /\ job[t].nonce = nonces[job[t].host]
    /\ AwaitingApproval(store[job[t].host], job[t].now)

\* A thread about to claim has found the request met.
MetAt(g, now) == g.profile \in Synthetic \/ Met(g, Elapsed(g, now))
ClaimOK(t) ==
    pc[t] = "claim" =>
        /\ job[t].nonce <= nonces[job[t].host]
        /\ Current(t) => MetAt(store[job[t].host], job[t].now)

\* The threads that have a Close of h still to write.
Journaling(h) == {t \in Threads : pc[t] = "journal-close" /\ job[t].host = h}

\* A Close is written, about to be, or still owed by a grant that is not closed.
Owed(h) == IF store[h].state = "closed" THEN 0 ELSE 1
JournalOK(h) ==
    /\ IsFiniteSet(Journaling(h))
    /\ closes[h] + Cardinality(Journaling(h)) + Owed(h) <= nonces[h]
JournalInv == \A h \in Hosts : JournalOK(h)

(***************************************************************************)
(* What a step does to a request and to a thread.                           *)
(***************************************************************************)
\* The grant is pending for the same request as before.
SamePending(h) ==
    /\ store[h].state = "pending"
    /\ store'[h].requested_at = store[h].requested_at
    /\ store'[h].approval_deadline = store[h].approval_deadline
    /\ store'[h].nonce = store[h].nonce
    /\ store'[h].profile = store[h].profile
    /\ store[h].satisfied \subseteq store'[h].satisfied

\* A request is opened by a thread that claims it.
Opens(h) ==
    store[h].state = "pending" /\ store'[h].state = "opening" /\ h \notin crossed' =>
        \E t \in Threads : pc[t] = "claim" /\ job[t].host = h /\ Current(t)

\* A request begins only from a closed grant, with the next nonce.
HostMoves(h) ==
    /\ nonces'[h] \in {nonces[h], nonces[h] + 1}
    /\ nonces'[h] = nonces[h] =>
          /\ store[h].state = "closed" => store'[h].state = "closed"
          /\ store'[h].state = "pending" => SamePending(h)
    /\ PendingOK(h)'
    /\ Opens(h)

\* The thread knows what it should where the step leaves it.
Fine(s) == job'[s].now <= clock' /\ ClaimOK(s)'
Calm == \A s \in Threads : Same(s) \/ (Fine(s) /\ pc'[s] # "journal-close")

\* What every step but the two that close a grant in the journal does.
Orderly ==
    /\ crossed \subseteq crossed' /\ closes' = closes
    /\ clock <= clock' /\ (clock <= MaxTime => clock' <= MaxTime)
    /\ \A h \in Hosts : HostMoves(h)
    /\ Calm

Watched == {"approve", "prove", "evaluate", "claim", "journal-close"}
Dated == \A t \in Threads : job[t].now <= clock
PendingsOK == \A h \in Hosts : PendingOK(h)

USE DEF Watched

\* Requests and grants that a step does not write.
LEMMA QuietMoves ==
    ASSUME WorldOK, PendingsOK, UNCHANGED <<store, nonces>>
    PROVE  \A h \in Hosts : HostMoves(h)
  BY DEF PendingsOK, HostMoves, Opens, SamePending, PendingOK

\* A commit that leaves no request pending.
LEMMA CommitMoves ==
    ASSUME WorldOK, PendingsOK, NEW h \in Hosts, NEW g, Commit(h, g), UNCHANGED nonces,
           store[h].state = "closed" => g.state = "closed", g.state \notin {"pending", "opening"}
    PROVE  \A k \in Hosts : HostMoves(k)
  <1>1. store'[h] = g /\ \A k \in Hosts \ {h} : store'[k] = store[k]
    BY DEF Commit, WorldOK
  <1> QED
    BY <1>1 DEF PendingsOK, HostMoves, Opens, SamePending, PendingOK

\* A new request.
LEMMA RequestMoves ==
    ASSUME WorldOK, PendingsOK, NEW h \in Hosts, NEW now, NEW deadline, NEW ttl, NEW p,
           Commit(h, BeginPending(now, deadline, ttl, nonces[h] + 1, p)),
           nonces' = [nonces EXCEPT ![h] = @ + 1], DryRun => p \in Synthetic
    PROVE  \A k \in Hosts : HostMoves(k)
  <1>1. /\ store'[h].nonce = nonces[h] + 1 /\ store'[h].profile = p
        /\ store'[h].state = "pending"
        /\ \A k \in Hosts \ {h} : store'[k] = store[k] /\ nonces'[k] = nonces[k]
        /\ nonces'[h] = nonces[h] + 1 /\ nonces[h] \in Nat
    BY DEF Commit, WorldOK, BeginPending, Pending
  <1>2. HostMoves(h)
    BY <1>1 DEF HostMoves, Opens, PendingOK
  <1>3. \A k \in Hosts \ {h} : HostMoves(k)
    BY <1>1 DEF PendingsOK, HostMoves, Opens, SamePending, PendingOK
  <1> QED
    BY <1>2, <1>3

\* A thread outside the watched labels has nothing to know.
LEMMA ElsewhereFine ==
    ASSUME NEW s, pc'[s] \notin Watched, job'[s].now <= clock'
    PROVE  Fine(s)
  BY DEF Fine, ClaimOK

\* A call of something unwatched.
LEMMA CallCalm ==
    ASSUME ThreadsOK, Dated, UNCHANGED clock, NEW t \in Threads, NEW label, NEW j,
           Call(t, label, j), label \notin Watched, j.now <= clock
    PROVE  Calm
  BY CallMoves, ElsewhereFine DEF Calm

\* ... or a jump.
LEMMA GotoCalm ==
    ASSUME ThreadsOK, Dated, UNCHANGED <<clock, job>>, NEW t \in Threads, NEW label,
           Goto(t, label), label \notin Watched
    PROVE  Calm
  BY GotoMoves, ElsewhereFine DEF Calm, Dated

\* A return.
LEMMA ReturnCalm ==
    ASSUME ThreadsOK, WorldOK, ReturnsOK, Dated, UNCHANGED clock, NEW t \in Threads, Return(t)
    PROVE  Calm
  <1>1. /\ pc'[t] \notin Watched
        /\ job'[t] = IF job[t].ret = "idle" THEN NoJob ELSE Resume(job[t])
        /\ \A s \in Threads \ {t} : Same(s)
    BY DEF Return, Same, ThreadsOK, ReturnsOK
  <1>2. NoJob.now = 0 /\ Resume(job[t]).now = job[t].now /\ clock \in Nat
    BY DEF NoJob, Resume, WorldOK
  <1>3. job'[t].now <= clock'
    BY <1>1, <1>2 DEF Dated
  <1> QED
    BY <1>1, <1>3, ElsewhereFine DEF Calm

\* The process stops, or a thread does.
LEMMA StopCalm ==
    ASSUME ThreadsOK, WorldOK, UNCHANGED clock,
           StopDaemon \/ \E t \in Threads, label \in {"idle", "dead"} : Call(t, label, NoJob)
    PROVE  Calm
  <1>1. \A s \in Threads : Same(s) \/ (pc'[s] \in {"down", "idle", "dead"} /\ job'[s] = NoJob)
    BY DEF StopDaemon, Call, Goto, Same, ThreadsOK
  <1>2. NoJob.now = 0 /\ clock \in Nat
    BY DEF NoJob, WorldOK
  <1> QED
    BY <1>1, <1>2, ElsewhereFine DEF Calm

\* A failed expect.
LEMMA PanicCalm ==
    ASSUME ThreadsOK, WorldOK, UNCHANGED clock, NEW t \in Threads, Panic(t)
    PROVE  Calm
  BY StopCalm DEF Panic, Call, Goto

\* An arriving request, and the request a drill makes for itself.
LEMMA NewRequestOrderly ==
    ASSUME ThreadsOK, WorldOK, ReturnsOK, Dated, PendingsOK,
           NEW t \in Threads, NEW h \in Hosts,
           (\E ttl \in Ttls, p \in Profiles : OpenRequest(t, h, ttl, p)) \/ BeginDrill(t)
    PROVE  Orderly
  <1>0. clock \in Nat /\ nonces \in [Hosts -> Nat] /\ job[t] \in Jobs /\ job[t].now \in Nat
    BY JobFields DEF WorldOK
  <1>1. ASSUME NEW ttl \in Ttls, NEW p \in Profiles, OpenRequest(t, h, ttl, p)
        PROVE  Orderly
    <2>1. /\ Commit(h, BeginPending(clock, clock + ApprovalWindow, ttl, nonces[h] + 1, p))
          /\ nonces' = [nonces EXCEPT ![h] = @ + 1]
          /\ DryRun => p \in Synthetic
          /\ UNCHANGED <<clock, crossed, closes, pc, job>>
      BY <1>1 DEF OpenRequest, Synthetic
    <2>2. \A k \in Hosts : HostMoves(k)
      BY <2>1, RequestMoves
    <2> QED
      BY <1>0, <2>1, <2>2 DEF Orderly, Calm, Same
  <1>2. CASE BeginDrill(t)
    <2>h. PICK k \in Hosts : k = job[t].host
      BY JobFields
    <2>0. UNCHANGED <<clock, crossed, closes>>
      BY <1>2 DEF BeginDrill
    <2>1. CASE ~CanBeginPending(store[k])
      BY <1>0, <1>2, <2>h, <2>0, <2>1, ReturnCalm, QuietMoves DEF BeginDrill, Orderly
    <2>2. CASE CanBeginPending(store[k])
      <3> DEFINE j == [job[t] EXCEPT !.nonce = nonces[k] + 1, !.ret = "close"]
      <3>1. /\ Commit(k, BeginPending(job[t].now, job[t].now + ApprovalWindow, DRILL_TTL,
                                      nonces[k] + 1, DRILL_PROFILE))
            /\ nonces' = [nonces EXCEPT ![k] = @ + 1] /\ Call(t, "claim", j)
        BY <1>2, <2>h, <2>2 DEF BeginDrill
      <3>2. \A i \in Hosts : HostMoves(i)
        <4>1. DRILL_PROFILE \in Synthetic
          BY DEF Synthetic
        <4> QED
          BY <3>1, <4>1, RequestMoves
      <3>3. j.host = k /\ j.nonce = nonces[k] + 1 /\ j.now = job[t].now
        BY <1>0, <2>h DEF Jobs
      <3> HIDE DEF j
      <3>4. pc'[t] = "claim" /\ job'[t] = j /\ \A s \in Threads \ {t} : Same(s)
        BY <3>1, CallMoves
      <3>5. nonces'[k] = nonces[k] + 1 /\ store'[k].profile = DRILL_PROFILE
        BY <1>0, <3>1 DEF Commit, WorldOK, BeginPending, Pending
      <3>6. Fine(t)
        BY <1>0, <2>0, <3>3, <3>4, <3>5 DEF Fine, ClaimOK, MetAt, Synthetic, Dated
      <3> QED
        BY <1>0, <2>0, <3>2, <3>4, <3>6 DEF Orderly, Calm
    <2> QED
      BY <2>1, <2>2
  <1> QED
    BY <1>1, <1>2

\* The read at the start of an approve: in a dry-run it goes straight to the
\* claim, and then the profile is a synthetic one.
LEMMA ReadCalm ==
    ASSUME ThreadsOK, WorldOK, PendingsOK, NEW t \in Threads, NEW j \in Jobs,
           NEW h \in Hosts, h = j.host, j.now <= clock, ReadRequest(t, j),
           UNCHANGED <<clock, store, nonces>>
    PROVE  Calm
  <1>1. store[h].state = "pending" /\ store[h].nonce = nonces[h] /\ nonces[h] \in Nat
    BY DEF ReadRequest, AwaitingApproval, PendingsOK, PendingOK, WorldOK
  <1>2. CASE DryRun
    <2>1. /\ pc'[t] = "claim" /\ job'[t] = [j EXCEPT !.nonce = store[h].nonce]
          /\ \A s \in Threads \ {t} : Same(s)
      BY <1>2, CallMoves DEF ReadRequest
    <2>2. job'[t].host = h /\ job'[t].nonce = nonces[h] /\ job'[t].now = j.now
      BY <1>1, <2>1 DEF Jobs
    <2>3. store[h].profile \in Synthetic
      BY <1>1, <1>2 DEF PendingsOK, PendingOK
    <2>4. Fine(t)
      BY <1>1, <2>1, <2>2, <2>3 DEF Fine, ClaimOK, MetAt
    <2> QED
      BY <2>1, <2>4 DEF Calm
  <1>3. CASE ~DryRun
    <2>1. PICK id \in Authenticators :
             Call(t, "prove", [j EXCEPT !.nonce = store[h].nonce, !.proofs = {id}])
      BY <1>3 DEF ReadRequest
    <2>2. /\ pc'[t] = "prove" /\ \A s \in Threads \ {t} : Same(s)
          /\ job'[t] = [j EXCEPT !.nonce = store[h].nonce, !.proofs = {id}]
      BY <2>1, CallMoves
    <2>3. job'[t].host = h /\ job'[t].nonce = nonces[h] /\ job'[t].now = j.now
      BY <1>1, <2>2 DEF Jobs
    <2>4. Fine(t)
      BY <1>1, <2>2, <2>3 DEF Fine, ClaimOK
    <2> QED
      BY <2>2, <2>4 DEF Calm
  <1> QED
    BY <1>2, <1>3

\* The requests that only read.
LEMMA ReadingRequestOrderly ==
    ASSUME ThreadsOK, WorldOK, Dated, PendingsOK, NEW t \in Threads, NEW h \in Hosts,
           \/ Approve(t, h) \/ McpApprove(t, h) \/ Close(t, h) \/ Drill(t, h)
           \/ \E ttl \in Ttls : RenewRequest(t, h, ttl)
    PROVE  Orderly
  <1>0. /\ UNCHANGED <<clock, store, nonces, crossed, closes>> /\ clock \in Nat
        /\ Begin(h) \in Jobs /\ Begin(h).host = h /\ Begin(h).now = clock
        /\ Begin(h).nonce = nonces[h] /\ nonces[h] \in Nat
    BY BeginType DEF Approve, McpApprove, Close, Drill, RenewRequest, WorldOK, Begin, NoJob
  <1>1. CASE Approve(t, h)
    BY <1>0, <1>1, ReadCalm, QuietMoves DEF Approve, Orderly
  <1>2. CASE McpApprove(t, h)
    <2>1. pc'[t] = "approve" /\ job'[t] = Begin(h) /\ \A s \in Threads \ {t} : Same(s)
      BY <1>2, CallMoves DEF McpApprove
    <2>2. Fine(t)
      BY <1>0, <2>1 DEF Fine, ClaimOK
    <2> QED
      BY <1>0, <2>1, <2>2, QuietMoves DEF Orderly, Calm
  <1>3. CASE Close(t, h)
    <2> DEFINE j == [Begin(h) EXCEPT !.nonce = nonces[Begin(h).host]]
    <2>1. j.now = clock
      BY <1>0 DEF Jobs
    <2>2. \E label \in {"cancel", "begin-revert"} : Call(t, label, j)
      BY <1>3 DEF Close, ReadForClose
    <2> HIDE DEF j
    <2>3. Calm
      BY <1>0, <2>1, <2>2, CallCalm
    <2> QED
      BY <1>0, <2>3, QuietMoves DEF Orderly
  <1>4. CASE Drill(t, h)
    BY <1>0, <1>4, CallCalm, QuietMoves DEF Drill, Orderly
  <1>5. ASSUME NEW ttl \in Ttls, RenewRequest(t, h, ttl)
        PROVE  Orderly
    <2> DEFINE j == [Begin(h) EXCEPT !.ttl = ttl, !.expires = clock + ttl]
    <2>1. j.now = clock
      BY <1>0 DEF Jobs
    <2>2. \E label \in {"reschedule", "renew-channels"} : Call(t, label, j)
      BY <1>5 DEF RenewRequest
    <2> HIDE DEF j
    <2>3. Calm
      BY <1>0, <2>1, <2>2, CallCalm
    <2> QED
      BY <1>0, <2>3, QuietMoves DEF Orderly
  <1> QED
    BY <1>1, <1>2, <1>3, <1>4, <1>5

\* The proofs of an approval and the claim.
LEMMA ApproveOrderly ==
    ASSUME ThreadsOK, WorldOK, ReturnsOK, Dated, PendingsOK, NEW t \in Threads,
           ApproveGated(t) \/ Prove(t) \/ EvaluateProofs(t) \/ Claim(t)
    PROVE  Orderly
  <1>h. PICK h \in Hosts : h = job[t].host
    BY JobFields
  <1>0. /\ job[t] \in Jobs /\ job[t].now <= clock /\ store[h] \in GrantState
        /\ UNCHANGED <<clock, closes>> /\ clock \in Nat /\ nonces[h] \in Nat
    BY <1>h, JobFields DEF Dated, WorldOK, ApproveGated, Prove, EvaluateProofs, Claim
  <1>1. CASE ApproveGated(t)
    <2>1. UNCHANGED <<store, nonces>> /\ pc[t] = "approve" /\ crossed \subseteq crossed'
      BY <1>1, CrossGrows DEF ApproveGated, At
    <2>2. CASE Return(t)
      BY <1>0, <2>1, <2>2, ReturnCalm, QuietMoves DEF Orderly
    <2>3. CASE ReadRequest(t, job[t]) /\ Cross(t)
      <3>1. Calm
        BY <1>h, <1>0, <2>1, <2>3, ReadCalm
      <3> QED
        BY <1>0, <2>1, <3>1, QuietMoves DEF Orderly
    <2> QED
      BY <1>1, <2>2, <2>3 DEF ApproveGated
  <1>2. CASE Prove(t)
    <2>1. CASE ~CanAddSatisfied(store[h], job[t].now)
      BY <1>h, <1>0, <1>2, <2>1, ReturnCalm, QuietMoves DEF Prove, Orderly
    <2>2. CASE CanAddSatisfied(store[h], job[t].now)
      <3>1. PICK id \in job[t].proofs : Commit(h, AddSatisfied(store[h], id))
        BY <1>h, <1>2, <2>2 DEF Prove
      <3>2. crossed \subseteq crossed' /\ UNCHANGED nonces
        BY <1>h, <1>2, <2>2, CrossGrows DEF Prove
      <3>3. store[h] \in PendingGrants
        BY <1>0, <2>2, GrantShape DEF CanAddSatisfied, AwaitingApproval
      <3>4. /\ store'[h] = AddSatisfied(store[h], id)
            /\ \A k \in Hosts \ {h} : store'[k] = store[k]
        BY <3>1 DEF Commit, WorldOK
      <3>5. SamePending(h)
        BY <3>3, <3>4 DEF SamePending, AddSatisfied, PendingGrants
      <3>6. store'[h].state = "pending"
        BY <3>3, <3>4 DEF AddSatisfied, PendingGrants
      <3>7. HostMoves(h)
        BY <1>0, <3>2, <3>5, <3>6 DEF HostMoves, Opens, SamePending, PendingsOK, PendingOK
      <3>8. \A k \in Hosts \ {h} : HostMoves(k)
        BY <3>2, <3>4 DEF HostMoves, Opens, SamePending, PendingsOK, PendingOK
      <3>9. Calm
        <4> DEFINE j == [job[t] EXCEPT !.proofs = {}]
        <4>1. Call(t, "evaluate", j)
          BY <1>h, <1>2, <2>2 DEF Prove
        <4>2. j.now = job[t].now
          BY <1>0 DEF Jobs
        <4> HIDE DEF j
        <4>3. pc'[t] = "evaluate" /\ job'[t] = j /\ \A s \in Threads \ {t} : Same(s)
          BY <4>1, CallMoves
        <4>4. Fine(t)
          BY <1>0, <4>2, <4>3 DEF Fine, ClaimOK
        <4> QED
          BY <4>3, <4>4 DEF Calm
      <3> QED
        BY <1>0, <3>2, <3>7, <3>8, <3>9 DEF Orderly
    <2> QED
      BY <2>1, <2>2
  <1>3. CASE EvaluateProofs(t)
    <2>1. UNCHANGED <<store, nonces, crossed>>
      BY <1>3 DEF EvaluateProofs
    <2>2. CASE Return(t)
      BY <1>0, <2>1, <2>2, ReturnCalm, QuietMoves DEF Orderly
    <2>3. CASE ~Return(t)
      <3> DEFINE j == [job[t] EXCEPT !.nonce = store[h].nonce]
      <3>1. /\ Call(t, "claim", j) /\ store[h].state = "pending"
            /\ Met(store[h], Elapsed(store[h], job[t].now))
        BY <1>h, <1>3, <2>3 DEF EvaluateProofs, AwaitingApproval
      <3>2. j.host = h /\ j.nonce = nonces[h] /\ j.now = job[t].now
        BY <1>h, <1>0, <3>1 DEF Jobs, PendingsOK, PendingOK
      <3> HIDE DEF j
      <3>3. pc'[t] = "claim" /\ job'[t] = j /\ \A s \in Threads \ {t} : Same(s)
        BY <3>1, CallMoves
      <3>4. ClaimOK(t)'
        BY <1>0, <2>1, <3>1, <3>2, <3>3 DEF ClaimOK, MetAt, Met, Elapsed
      <3>5. Fine(t)
        BY <1>0, <3>2, <3>3, <3>4 DEF Fine
      <3> QED
        BY <1>0, <2>1, <3>3, <3>5, QuietMoves DEF Orderly, Calm
    <2> QED
      BY <2>2, <2>3
  <1>4. CASE Claim(t)
    <2>1. CASE ~CanApprove(store[h], job[t].now)
      BY <1>h, <1>0, <1>4, <2>1, ReturnCalm, QuietMoves DEF Claim, Orderly
    <2>2. CASE CanApprove(store[h], job[t].now)
      <3> DEFINE j == [job[t] EXCEPT !.nonce = nonces[h], !.channels = Drivable(h),
                                     !.expires = job[t].now + store[h].ttl]
                 g == ApproveToOpening(store[h], job[t].now, Drivable(h))
      <3>1. /\ Commit(h, g) /\ Call(t, "apply", j) /\ UNCHANGED nonces
            /\ crossed \subseteq crossed'
        BY <1>h, <1>4, <2>2, CrossGrows DEF Claim
      <3>2. j.now = job[t].now /\ g.state = "opening" /\ store[h].state = "pending"
        BY <1>0, <2>2 DEF Jobs, ApproveToOpening, Opening, CanApprove, AwaitingApproval
      <3> HIDE DEF g, j
      <3>3. Calm
        BY <1>0, <3>1, <3>2, CallCalm
      <3>4. /\ store'[h] = g /\ \A k \in Hosts \ {h} : store'[k] = store[k]
        BY <3>1 DEF Commit, WorldOK
      <3>5. Opens(h)
        <4>1. pc[t] = "claim" /\ Cross(t)
          BY <1>h, <1>4, <2>2 DEF Claim, At
        <4> QED
          BY <1>h, <2>2, <4>1, CrossGrows DEF Opens, Current, CanApprove
      <3>6. HostMoves(h)
        BY <3>1, <3>2, <3>4, <3>5 DEF HostMoves, PendingOK
      <3>7. \A k \in Hosts \ {h} : HostMoves(k)
        BY <3>1, <3>4 DEF HostMoves, Opens, SamePending, PendingsOK, PendingOK
      <3> QED
        BY <1>0, <3>1, <3>3, <3>6, <3>7 DEF Orderly
    <2> QED
      BY <2>1, <2>2
  <1> QED
    BY <1>1, <1>2, <1>3, <1>4

\* A step that writes no grant.
LEMMA QuietOrderly ==
    ASSUME WorldOK, PendingsOK, UNCHANGED <<clock, closes, store, nonces>>,
           crossed \subseteq crossed', Calm
    PROVE  Orderly
  <1>1. clock <= clock'
    BY DEF WorldOK
  <1> QED
    BY <1>1, QuietMoves DEF Orderly

\* A step that writes one and leaves no request pending there.
LEMMA CommitOrderly ==
    ASSUME WorldOK, PendingsOK, NEW h \in Hosts, NEW g, Commit(h, g),
           UNCHANGED <<clock, closes, nonces>>, crossed \subseteq crossed', Calm,
           store[h].state # "closed", g.state \notin {"pending", "opening"}
    PROVE  Orderly
  <1>1. clock <= clock'
    BY DEF WorldOK
  <1> QED
    BY <1>1, CommitMoves DEF Orderly

\* drive_open, up to its last commit.
LEMMA OpenOrderly ==
    ASSUME ThreadsOK, WorldOK, ReturnsOK, Dated, PendingsOK, NEW t \in Threads,
           \/ ApplyChannels(t) \/ InstallDeadman(t) \/ UnwindApplied(t)
           \/ FinishOpening(t) \/ UnwindOpening(t)
    PROVE  Orderly
  <1>h. PICK h \in Hosts : h = job[t].host
    BY JobFields
  <1>0. /\ job[t] \in Jobs /\ job[t].now <= clock
        /\ UNCHANGED <<clock, closes, nonces>>
        /\ \A stuck : [job[t] EXCEPT !.stuck = stuck].now = job[t].now
    BY JobFields DEF Dated, Jobs, ApplyChannels, InstallDeadman, UnwindApplied, FinishOpening, UnwindOpening
  <1>1. ASSUME NEW label \in {"unwind-open", "retain"}, NEW stuck,
               Call(t, label, [job[t] EXCEPT !.stuck = stuck])
        PROVE  Calm
    <2> DEFINE j == [job[t] EXCEPT !.stuck = stuck]
    <2>1. Call(t, label, j) /\ j.now <= clock
      BY <1>0, <1>1
    <2> HIDE DEF j
    <2> QED
      BY <1>0, <2>1, CallCalm
  <1>2. CASE ApplyChannels(t)
    <2>1. /\ \/ UNCHANGED job /\ \E label \in {"install", "finish-open"} : Goto(t, label)
             \/ \E stuck : Call(t, "unwind-open", [job[t] EXCEPT !.stuck = stuck])
          /\ Cross(t) /\ UNCHANGED store
      BY <1>2 DEF ApplyChannels
    <2>2. Calm
      BY <1>0, <1>1, <2>1, GotoCalm
    <2> QED
      BY <1>0, <2>1, <2>2, CrossGrows, QuietOrderly
  <1>3. CASE InstallDeadman(t)
    <2>1. /\ UNCHANGED <<job, store>> /\ \E label \in {"unwind", "finish-open"} : Goto(t, label)
          /\ Cross(t)
      BY <1>3 DEF InstallDeadman
    <2>2. Calm
      BY <1>0, <2>1, GotoCalm
    <2> QED
      BY <1>0, <2>1, <2>2, CrossGrows, QuietOrderly
  <1>4. CASE UnwindApplied(t)
    <2>1. /\ \E stuck : Call(t, "unwind-open", [job[t] EXCEPT !.stuck = stuck])
          /\ Cross(t) /\ UNCHANGED store
      BY <1>4 DEF UnwindApplied
    <2>2. Calm
      BY <1>0, <1>1, <2>1
    <2> QED
      BY <1>0, <2>1, <2>2, CrossGrows, QuietOrderly
  <1>5. CASE FinishOpening(t) \/ UnwindOpening(t)
    <2>1. crossed' = crossed
      BY <1>5 DEF FinishOpening, UnwindOpening
    <2>2. CASE ~MidOpen(store[h])
      <3>1. Panic(t) /\ UNCHANGED store
        BY <1>h, <1>5, <2>2 DEF FinishOpening, UnwindOpening
      <3> QED
        BY <1>0, <2>1, <3>1, PanicCalm, QuietOrderly
    <2>3. CASE MidOpen(store[h])
      <3> DEFINE f == FinishOpen(store[h])
                 u == UnwindOpen(job[t].stuck)
      <3>1. Return(t) /\ (Commit(h, f) \/ Commit(h, u))
        BY <1>h, <1>5, <2>3 DEF FinishOpening, UnwindOpening
      <3>2. f.state = "open" /\ u.state \in {"closed", "needs-revert"} /\ store[h].state # "closed"
        BY <2>3 DEF FinishOpen, UnwindOpen, OpenGrant, Closed, NeedsRevert, MidOpen
      <3> HIDE DEF f, u
      <3> QED
        BY <1>0, <2>1, <3>1, <3>2, ReturnCalm, CommitOrderly
    <2> QED
      BY <2>2, <2>3
  <1> QED
    BY <1>2, <1>3, <1>4, <1>5

\* close, up to the revert it drives.
LEMMA CloseOrderly ==
    ASSUME ThreadsOK, WorldOK, ReturnsOK, Dated, PendingsOK, NEW t \in Threads,
           CloseDrill(t) \/ CancelPending(t) \/ BeginReverting(t)
    PROVE  Orderly
  <1>h. PICK h \in Hosts : h = job[t].host
    BY JobFields
  <1>0. /\ job[t] \in Jobs /\ job[t].now <= clock
        /\ UNCHANGED <<clock, closes, nonces>>
    BY JobFields DEF Dated, CloseDrill, CancelPending, BeginReverting
  <1>1. CASE CloseDrill(t)
    <2> DEFINE j == [job[t] EXCEPT !.nonce = nonces[job[t].host]]
    <2>1. j.now <= clock
      BY <1>0 DEF Jobs
    <2>2. /\ \E label \in {"cancel", "begin-revert"} : Call(t, label, j)
          /\ UNCHANGED <<store, crossed>>
      BY <1>1 DEF CloseDrill, ReadForClose
    <2> HIDE DEF j
    <2>3. Calm
      BY <1>0, <2>1, <2>2, CallCalm
    <2> QED
      BY <1>0, <2>2, <2>3, QuietOrderly
  <1>2. CASE CancelPending(t)
    <2>1. CASE CanCancelPending(store[h])
      <3>1. Commit(h, Closed) /\ Cross(t) /\ Return(t)
        BY <1>h, <1>2, <2>1 DEF CancelPending
      <3>2. Closed.state = "closed" /\ store[h].state # "closed"
        BY <2>1 DEF Closed, CanCancelPending
      <3> QED
        BY <1>0, <3>1, <3>2, CrossGrows, ReturnCalm, CommitOrderly
    <2>2. CASE ~CanCancelPending(store[h])
      <3>1. Panic(t) /\ UNCHANGED <<store, crossed>>
        BY <1>h, <1>2, <2>2 DEF CancelPending
      <3> QED
        BY <1>0, <3>1, PanicCalm, QuietOrderly
    <2> QED
      BY <2>1, <2>2
  <1>3. CASE BeginReverting(t)
    <2>1. CASE CanRevert(store[h])
      <3> DEFINE j == [job[t] EXCEPT !.nonce = nonces[h], !.channels = store[h].channels]
                 g == BeginRevert(store[h])
      <3>1. Commit(h, g) /\ Call(t, "revert", j) /\ UNCHANGED crossed
        BY <1>h, <1>3, <2>1 DEF BeginReverting
      <3>2. g.state \notin {"pending", "opening"} /\ store[h].state # "closed" /\ j.now <= clock
        BY <1>0, <2>1 DEF BeginRevert, NeedsRevert, CanRevert, Jobs
      <3> HIDE DEF j, g
      <3> QED
        BY <1>0, <3>1, <3>2, CallCalm, CommitOrderly
    <2>2. CASE ~CanRevert(store[h])
      <3>1. Return(t) /\ UNCHANGED <<store, crossed>>
        BY <1>h, <1>3, <2>2 DEF BeginReverting
      <3> QED
        BY <1>0, <3>1, ReturnCalm, QuietOrderly
    <2> QED
      BY <2>1, <2>2
  <1> QED
    BY <1>1, <1>2, <1>3

\* drive_one_revert, but for the two steps that close a grant.
LEMMA RevertOrderly ==
    ASSUME ThreadsOK, WorldOK, ReturnsOK, Dated, PendingsOK, NEW t \in Threads,
           RevertChannels(t) \/ RemoveDeadman(t) \/ RetainStuck(t)
    PROVE  Orderly
  <1>h. PICK h \in Hosts : h = job[t].host
    BY JobFields
  <1>0. /\ job[t] \in Jobs /\ job[t].now <= clock
        /\ UNCHANGED <<clock, closes, nonces>>
        /\ \A stuck : [job[t] EXCEPT !.stuck = stuck].now = job[t].now
    BY JobFields DEF Dated, Jobs, RevertChannels, RemoveDeadman, RetainStuck
  <1>1. ASSUME NEW label \in {"retain", "remove", "finish-revert"}, NEW stuck,
               Call(t, label, [job[t] EXCEPT !.stuck = stuck])
        PROVE  Calm
    <2> DEFINE j == [job[t] EXCEPT !.stuck = stuck]
    <2>1. Call(t, label, j) /\ j.now <= clock
      BY <1>0, <1>1
    <2> HIDE DEF j
    <2> QED
      BY <1>0, <2>1, CallCalm
  <1>2. CASE RevertChannels(t)
    <2>1. /\ \E stuck : \E label \in {"retain", "remove", "finish-revert"} :
                Call(t, label, [job[t] EXCEPT !.stuck = stuck])
          /\ Cross(t) /\ UNCHANGED store
      BY <1>2 DEF RevertChannels
    <2>2. Calm
      BY <1>1, <2>1
    <2> QED
      BY <1>0, <2>1, <2>2, CrossGrows, QuietOrderly
  <1>3. CASE RemoveDeadman(t)
    <2>1. /\ \/ Goto(t, "finish-revert") /\ UNCHANGED job
             \/ \E stuck : Call(t, "retain", [job[t] EXCEPT !.stuck = stuck])
          /\ Cross(t) /\ UNCHANGED store
      BY <1>3 DEF RemoveDeadman
    <2>2. Calm
      BY <1>0, <1>1, <2>1, GotoCalm
    <2> QED
      BY <1>0, <2>1, <2>2, CrossGrows, QuietOrderly
  <1>4. CASE RetainStuck(t)
    <2>1. CASE Reverting(store[h])
      <3> DEFINE g == NeedsRevert(job[t].stuck)
      <3>1. Commit(h, g) /\ Cross(t) /\ Return(t)
        BY <1>h, <1>4, <2>1 DEF RetainStuck
      <3>2. g.state \notin {"pending", "opening"} /\ store[h].state # "closed"
        BY <2>1 DEF NeedsRevert, Reverting
      <3> HIDE DEF g
      <3> QED
        BY <1>0, <3>1, <3>2, CrossGrows, ReturnCalm, CommitOrderly
    <2>2. CASE ~Reverting(store[h])
      <3>1. Return(t) /\ UNCHANGED <<store, crossed>>
        BY <1>h, <1>4, <2>2 DEF RetainStuck
      <3> QED
        BY <1>0, <3>1, ReturnCalm, QuietOrderly
    <2> QED
      BY <2>1, <2>2
  <1> QED
    BY <1>2, <1>3, <1>4

\* renew.
LEMMA RenewOrderly ==
    ASSUME ThreadsOK, WorldOK, ReturnsOK, Dated, PendingsOK, NEW t \in Threads,
           RescheduleDeadman(t) \/ RenewChannels(t) \/ CommitRenewal(t)
    PROVE  Orderly
  <1>h. PICK h \in Hosts : h = job[t].host
    BY JobFields
  <1>0. UNCHANGED <<clock, closes, nonces>>
    BY DEF RescheduleDeadman, RenewChannels, CommitRenewal
  <1>1. CASE RescheduleDeadman(t)
    <2>1. /\ (Goto(t, "renew-channels") /\ UNCHANGED job) \/ Return(t)
          /\ Cross(t) /\ UNCHANGED store
      BY <1>1 DEF RescheduleDeadman
    <2>2. Calm
      BY <1>0, <2>1, GotoCalm, ReturnCalm
    <2> QED
      BY <1>0, <2>1, <2>2, CrossGrows, QuietOrderly
  <1>2. CASE RenewChannels(t)
    <2>1. /\ (Goto(t, "renew") /\ UNCHANGED job) \/ Return(t)
          /\ UNCHANGED <<store, crossed>>
      BY <1>2 DEF RenewChannels
    <2>2. Calm
      BY <1>0, <2>1, GotoCalm, ReturnCalm
    <2> QED
      BY <1>0, <2>1, <2>2, QuietOrderly
  <1>3. CASE CommitRenewal(t)
    <2>1. CASE CanRenew(store[h], job[t].now)
      <3> DEFINE g == Renew(store[h], job[t].now, job[t].ttl)
      <3>1. Commit(h, g) /\ Cross(t) /\ Return(t)
        BY <1>h, <1>3, <2>1 DEF CommitRenewal
      <3>2. g.state \notin {"pending", "opening"} /\ store[h].state # "closed"
        BY <2>1 DEF Renew, OpenGrant, CanRenew, IsOpen
      <3> HIDE DEF g
      <3> QED
        BY <1>0, <3>1, <3>2, CrossGrows, ReturnCalm, CommitOrderly
    <2>2. CASE ~CanRenew(store[h], job[t].now)
      <3>1. Return(t) /\ UNCHANGED <<store, crossed>>
        BY <1>h, <1>3, <2>2 DEF CommitRenewal
      <3> QED
        BY <1>0, <3>1, ReturnCalm, QuietOrderly
    <2> QED
      BY <2>1, <2>2
  <1> QED
    BY <1>1, <1>2, <1>3

\* A mutation of every grant that leaves each as it is, or with no request.
Sweeps(h) == store'[h] = store[h] \/ (store[h].state # "closed" /\ store'[h].state \notin {"pending", "opening"})

LEMMA SweepMoves ==
    ASSUME PendingsOK, UNCHANGED nonces, NEW h \in Hosts, Sweeps(h)
    PROVE  HostMoves(h)
  BY DEF PendingsOK, HostMoves, Opens, SamePending, PendingOK, Sweeps

\* The pass.
LEMMA PassOrderly ==
    ASSUME ThreadsOK, WorldOK, ReturnsOK, Dated, PendingsOK, NEW t \in Threads,
           \/ PassReap(t) \/ PassList(t) \/ PassRevert(t) \/ PassAwaiting(t) \/ PassWait(t)
    PROVE  Orderly
  <1>0. /\ job[t] \in Jobs /\ job[t].now \in Nat /\ job[t].now <= clock /\ clock \in Nat
        /\ UNCHANGED <<clock, closes, nonces, crossed>>
        /\ NoJob.now = 0
        /\ \A n : [NoJob EXCEPT !.now = n].now = n
    BY JobFields DEF Dated, WorldOK, PassReap, PassList, PassRevert, PassAwaiting, PassWait, NoJob
  <1>1. CASE PassReap(t)
    <2> DEFINE j == [NoJob EXCEPT !.now = clock]
    <2>1. Call(t, "pass-list", j) /\ j.now <= clock
      BY <1>0, <1>1 DEF PassReap
    <2> HIDE DEF j
    <2>2. Calm
      BY <1>0, <2>1, CallCalm
    <2>3. \A h \in Hosts : Sweeps(h)
      BY <1>1 DEF Sweeps, PassReap, Reap, Expired, ApprovalExpired, BeginRevert, NeedsRevert, Closed
    <2>4. \A h \in Hosts : HostMoves(h)
      BY <1>0, <2>3, SweepMoves
    <2> QED
      BY <1>0, <2>2, <2>4 DEF Orderly
  <1>2. CASE PassList(t)
    <2> DEFINE todo == {Item(h) : h \in {k \in Hosts : Reverting(store[k])}}
               j == [job[t] EXCEPT !.todo = todo]
    <2>1. Call(t, "pass-revert", j) /\ UNCHANGED store
      BY <1>2 DEF PassList
    <2> HIDE DEF todo
    <2>2. j.now <= clock
      BY <1>0 DEF Jobs
    <2> HIDE DEF j
    <2> QED
      BY <1>0, <2>1, <2>2, CallCalm, QuietOrderly
  <1>3. CASE PassRevert(t)
    <2>1. CASE \E w \in job[t].todo :
             Call(t, "revert", [job[t] EXCEPT !.host = w.host, !.channels = w.channels,
                                              !.nonce = w.nonce, !.ret = "pass-revert",
                                              !.todo = @ \ {w}])
      <3>1. PICK w \in job[t].todo :
             Call(t, "revert", [job[t] EXCEPT !.host = w.host, !.channels = w.channels,
                                              !.nonce = w.nonce, !.ret = "pass-revert",
                                              !.todo = @ \ {w}])
        BY <2>1
      <3> DEFINE j == [job[t] EXCEPT !.host = w.host, !.channels = w.channels,
                                     !.nonce = w.nonce, !.ret = "pass-revert",
                                     !.todo = @ \ {w}]
      <3>2. Call(t, "revert", j) /\ UNCHANGED store
        BY <1>3, <3>1 DEF PassRevert
      <3>3. j.now <= clock
        BY <1>0 DEF Jobs
      <3> HIDE DEF j
      <3> QED
        BY <1>0, <3>2, <3>3, CallCalm, QuietOrderly
    <2>2. CASE ~\E w \in job[t].todo :
             Call(t, "revert", [job[t] EXCEPT !.host = w.host, !.channels = w.channels,
                                              !.nonce = w.nonce, !.ret = "pass-revert",
                                              !.todo = @ \ {w}])
      <3> DEFINE j == IF DryRun THEN NoJob ELSE [NoJob EXCEPT !.now = job[t].now]
      <3>1. /\ Call(t, IF DryRun THEN "idle" ELSE "pass-awaiting", j)
            /\ UNCHANGED store
        BY <1>3, <2>2 DEF PassRevert
      <3>2. j.now <= clock
        BY <1>0
      <3> HIDE DEF j
      <3>3. \E label \in {"idle", "pass-awaiting"} : Call(t, label, j)
        BY <3>1
      <3> QED
        BY <1>0, <3>1, <3>2, <3>3, CallCalm, QuietOrderly
    <2> QED
      BY <2>1, <2>2
  <1>4. CASE PassAwaiting(t)
    <2> DEFINE todo == {Item(h) : h \in {k \in Hosts : AwaitingApproval(store[k], job[t].now)}}
               j == [job[t] EXCEPT !.todo = todo]
    <2>1. Call(t, "pass-wait", j) /\ UNCHANGED store
      BY <1>4 DEF PassAwaiting
    <2> HIDE DEF todo
    <2>2. j.now <= clock
      BY <1>0 DEF Jobs
    <2> HIDE DEF j
    <2> QED
      BY <1>0, <2>1, <2>2, CallCalm, QuietOrderly
  <1>5. CASE PassWait(t)
    <2>0. UNCHANGED store
      BY <1>5 DEF PassWait
    <2>1. CASE job[t].todo = {}
      <3>1. Call(t, "idle", NoJob)
        BY <1>5, <2>1 DEF PassWait
      <3> QED
        BY <1>0, <2>0, <3>1, CallCalm, QuietOrderly
    <2>2. CASE job[t].todo # {}
      <3> DEFINE rest(w) == [NoJob EXCEPT !.host = w.host, !.now = job[t].now,
                                          !.todo = job[t].todo \ {w}]
                 claim(w) == [rest(w) EXCEPT !.nonce = store[w.host].nonce, !.ret = "pass-wait"]
      <3>1. PICK w \in job[t].todo :
                \/ WaitMatured(store[w.host], job[t].now) /\ Call(t, "claim", claim(w))
                \/ Call(t, "pass-wait", rest(w))
        BY <1>5, <2>2 DEF PassWait
      <3>h. PICK h \in Hosts : h = w.host
        BY <1>0 DEF Jobs, Work
      <3>2. /\ rest(w).now = job[t].now /\ claim(w).now = job[t].now
            /\ claim(w).host = h /\ claim(w).nonce = store[h].nonce
        BY <1>0, <3>h DEF NoJob
      <3> DEFINE r == rest(w)
                 c == claim(w)
      <3>3. r.now = job[t].now /\ c.now = job[t].now /\ c.host = h /\ c.nonce = store[h].nonce
        BY <3>2
      <3>4. (WaitMatured(store[h], job[t].now) /\ Call(t, "claim", c)) \/ Call(t, "pass-wait", r)
        BY <3>1, <3>h
      <3> HIDE DEF rest, claim, r, c
      <3>5. CASE Call(t, "pass-wait", r)
        BY <1>0, <2>0, <3>3, <3>5, CallCalm, QuietOrderly
      <3>6. CASE WaitMatured(store[h], job[t].now) /\ Call(t, "claim", c)
        <4>1. pc'[t] = "claim" /\ job'[t] = c /\ \A s \in Threads \ {t} : Same(s)
          BY <3>6, CallMoves
        <4>2. /\ store[h].nonce = nonces[h] /\ nonces[h] \in Nat
              /\ Met(store[h], Elapsed(store[h], job[t].now))
          BY <3>6 DEF WaitMatured, AwaitingApproval, PendingsOK, PendingOK, WorldOK
        <4>3. ClaimOK(t)'
          BY <1>0, <2>0, <3>3, <4>1, <4>2 DEF ClaimOK, MetAt, Met, Elapsed
        <4>4. Fine(t)
          BY <1>0, <3>3, <4>1, <4>3 DEF Fine
        <4>5. Calm
          BY <4>1, <4>4 DEF Calm
        <4> QED
          BY <1>0, <2>0, <4>5, QuietOrderly
      <3> QED
        BY <3>4, <3>5, <3>6
    <2> QED
      BY <2>1, <2>2
  <1> QED
    BY <1>1, <1>2, <1>3, <1>4, <1>5

\* boot_recover.
LEMMA BootOrderly ==
    ASSUME ThreadsOK, WorldOK, ReturnsOK, Dated, PendingsOK, NEW t \in Threads,
           \/ BootDemote(t) \/ BootList(t) \/ BootReestablish(t) \/ BootRetract(t) \/ BootDone(t)
    PROVE  Orderly
  <1>h. PICK h \in Hosts : h = job[t].host
    BY JobFields
  <1>0. /\ job[t] \in Jobs /\ job[t].now \in Nat /\ job[t].now <= clock /\ clock \in Nat
        /\ UNCHANGED <<clock, closes, nonces>> /\ crossed \subseteq crossed'
        /\ NoJob.now = 0 /\ \A n : [NoJob EXCEPT !.now = n].now = n
    BY JobFields DEF Dated, WorldOK, BootDemote, BootList, BootReestablish, BootRetract, BootDone, NoJob
  <1>1. CASE BootDemote(t)
    <2> DEFINE j == [NoJob EXCEPT !.now = clock]
    <2>1. Call(t, "boot-list", j) /\ j.now <= clock
      BY <1>0, <1>1 DEF BootDemote
    <2> HIDE DEF j
    <2>2. Calm
      BY <1>0, <2>1, CallCalm
    <2>3. \A k \in Hosts : Sweeps(k)
      BY <1>1 DEF Sweeps, BootDemote, Demote, MidOpen, NeedsRevert
    <2>4. \A k \in Hosts : HostMoves(k)
      BY <1>0, <2>3, SweepMoves
    <2> QED
      BY <1>0, <2>2, <2>4 DEF Orderly
  <1>2. CASE BootList(t)
    <2> DEFINE todo == {Item(k) : k \in {i \in Hosts : IsOpen(store[i], job[t].now)}}
               j == [job[t] EXCEPT !.todo = todo]
    <2>1. Call(t, "boot-reestablish", j) /\ UNCHANGED store
      BY <1>2 DEF BootList
    <2> HIDE DEF todo
    <2>2. j.now <= clock
      BY <1>0 DEF Jobs
    <2> HIDE DEF j
    <2> QED
      BY <1>0, <2>1, <2>2, CallCalm, QuietOrderly
  <1>3. CASE BootReestablish(t)
    <2>1. PICK w \in job[t].todo : \E label \in {"boot-reestablish", "boot-retract"} :
             Call(t, label, [job[t] EXCEPT !.host = w.host, !.nonce = w.nonce, !.todo = @ \ {w}])
      BY <1>3 DEF BootReestablish
    <2> DEFINE j == [job[t] EXCEPT !.host = w.host, !.nonce = w.nonce, !.todo = @ \ {w}]
    <2>2. UNCHANGED store /\ \E label \in {"boot-reestablish", "boot-retract"} : Call(t, label, j)
      BY <1>3, <2>1 DEF BootReestablish
    <2>3. j.now <= clock
      BY <1>0 DEF Jobs
    <2> HIDE DEF j
    <2> QED
      BY <1>0, <2>2, <2>3, CallCalm, QuietOrderly
  <1>4. CASE BootRetract(t)
    <2>1. CASE CanRevert(store[h])
      <3> DEFINE g == BeginRevert(store[h])
      <3>1. Commit(h, g) /\ Goto(t, "boot-reestablish") /\ UNCHANGED job
        BY <1>h, <1>4, <2>1 DEF BootRetract
      <3>2. g.state \notin {"pending", "opening"} /\ store[h].state # "closed"
        BY <2>1 DEF BeginRevert, NeedsRevert, CanRevert
      <3> HIDE DEF g
      <3> QED
        BY <1>0, <3>1, <3>2, GotoCalm, CommitOrderly
    <2>2. CASE ~CanRevert(store[h])
      <3>1. Panic(t) /\ UNCHANGED store
        BY <1>h, <1>4, <2>2 DEF BootRetract
      <3> QED
        BY <1>0, <3>1, PanicCalm, QuietOrderly
    <2> QED
      BY <2>1, <2>2
  <1>5. CASE BootDone(t)
    <2>1. UNCHANGED store
      BY <1>5 DEF BootDone
    <2>2. \A s \in Threads : \/ Same(s)
                            \/ /\ pc'[s] \in {"idle", "pass"}
                               /\ job'[s] \in {job[s], NoJob}
      <3>1. \A s \in Threads : job'[s] \in {job[s], NoJob} /\ (s # t => job'[s] = job[s])
        BY <1>5 DEF BootDone, ThreadsOK
      <3>2. /\ pc'[t] \in {"idle", "pass"}
            /\ \A s \in Threads \ {t} : pc'[s] \in {pc[s], "idle"}
        BY <1>5 DEF BootDone, ThreadsOK, Daemon
      <3> QED
        BY <3>1, <3>2 DEF Same
    <2>3. \A s \in Threads : job'[s] \in {job[s], NoJob} => job'[s].now <= clock'
      BY <1>0 DEF Dated
    <2>4. Calm
      BY <2>2, <2>3, ElsewhereFine DEF Calm
    <2> QED
      BY <1>0, <2>1, <2>4, QuietOrderly
  <1> QED
    BY <1>1, <1>2, <1>3, <1>4, <1>5

\* The process or a thread goes, or the world moves.
LEMMA EnvironmentOrderly ==
    ASSUME ThreadsOK, WorldOK, Dated, PendingsOK,
           \/ Crash \/ Shutdown \/ Tick \/ \E t \in Threads : Fatal(t) \/ Lost(t)
           \/ \E h \in Hosts : DeadmanFires(h)
           \/ UNCHANGED vars
    PROVE  Orderly
  <1>0. clock \in Nat
    BY DEF WorldOK
  <1>1. CASE Crash
    <2>1. crossed \subseteq crossed'
      BY <1>1, CrossGrows DEF Crash, CutShort
    <2>2. UNCHANGED <<clock, closes, store, nonces>> /\ StopDaemon
      BY <1>1 DEF Crash
    <2> QED
      BY <2>1, <2>2, StopCalm, QuietOrderly
  <1>2. CASE Shutdown
    BY <1>2, StopCalm, QuietOrderly DEF Shutdown
  <1>3. CASE Tick
    <2>1. /\ clock <= clock' /\ clock' <= MaxTime
          /\ UNCHANGED <<store, pc, job, nonces, closes, crossed>>
      BY <1>0, <1>3, LifecycleAssumption DEF Tick
    <2> QED
      BY <2>1, QuietMoves DEF Orderly, Calm, Same
  <1>4. ASSUME NEW t \in Threads, Fatal(t) \/ Lost(t)
        PROVE  Orderly
    <2>1. /\ UNCHANGED <<clock, closes, store, nonces, crossed>>
          /\ StopDaemon \/ \E label \in {"idle", "dead"} : Call(t, label, NoJob)
      BY <1>4 DEF Fatal, Lost
    <2>2. Calm
      BY <2>1, StopCalm
    <2> QED
      BY <2>1, <2>2, QuietOrderly
  <1>5. CASE (\E h \in Hosts : DeadmanFires(h)) \/ UNCHANGED vars
    <2>1. UNCHANGED <<clock, store, pc, job, nonces, closes, crossed>>
      BY <1>5 DEF DeadmanFires, vars
    <2>2. Calm
      BY <2>1 DEF Calm, Same
    <2> QED
      BY <2>1, <2>2, QuietOrderly
  <1> QED
    BY <1>1, <1>2, <1>3, <1>4, <1>5

\* The commit that closes a grant, and the line it leaves in the journal.
Closing(t) == FinishReverting(t) \/ JournalClose(t)

LEMMA StepOrderly ==
    ASSUME TypeOK, ReturnsOK, Dated, PendingsOK, [Next]_vars,
           \A t \in Threads : ~Closing(t)
    PROVE  Orderly
  <1>0. ThreadsOK /\ WorldOK
    BY TypeParts DEF TypeOK, WorldOK
  <1>1. ASSUME NEW t \in Listeners, NEW h \in Hosts, Request(t, h)
        PROVE  Orderly
    <2>1. t \in Threads
      BY DEF Threads, Daemon
    <2> QED
      BY <1>0, <1>1, <2>1, NewRequestOrderly, ReadingRequestOrderly DEF Request
  <1>2. ASSUME NEW t \in Threads, Continue(t)
        PROVE  Orderly
    BY <1>0, <1>2, NewRequestOrderly, ApproveOrderly, OpenOrderly, CloseOrderly, RevertOrderly,
       RenewOrderly, PassOrderly, BootOrderly, EnvironmentOrderly, LifecycleAssumption
       DEF Continue, Closing
  <1>3. ASSUME NEW t \in {Main} \union Once, BootDemote(t)
        PROVE  Orderly
    BY <1>0, <1>3, BootOrderly DEF Threads, Daemon
  <1>4. CASE \/ Crash \/ Shutdown \/ Tick \/ (\E t \in Threads : Lost(t))
             \/ (\E h \in Hosts : DeadmanFires(h)) \/ UNCHANGED vars
    BY <1>0, <1>4, EnvironmentOrderly
  <1> QED
    BY <1>1, <1>2, <1>3, <1>4 DEF Next

(***************************************************************************)
(* The steps that close a grant.                                            *)
(***************************************************************************)
\* What every step does.
Tidy ==
    /\ crossed \subseteq crossed' /\ clock <= clock' /\ (clock <= MaxTime => clock' <= MaxTime)
    /\ \A h \in Hosts : HostMoves(h)
    /\ \A s \in Threads : Same(s) \/ Fine(s)

\* A revert that somebody else has finished is an ordinary return.
LEMMA FinishLoses ==
    ASSUME ThreadsOK, WorldOK, ReturnsOK, Dated, PendingsOK, NEW t \in Threads,
           FinishReverting(t), ~Reverting(store[job[t].host])
    PROVE  Orderly
  <1>1. Return(t) /\ UNCHANGED <<clock, closes, store, nonces, crossed>>
    BY DEF FinishReverting
  <1> QED
    BY <1>1, ReturnCalm, QuietOrderly

\* The commit of Closed: the thread is to journal it.
LEMMA FinishWins ==
    ASSUME ThreadsOK, WorldOK, Dated, PendingsOK, NEW t \in Threads,
           NEW h \in Hosts, h = job[t].host, FinishReverting(t), Reverting(store[h])
    PROVE  /\ Tidy /\ UNCHANGED <<closes, nonces>>
           /\ store[h].state # "closed" /\ store'[h].state = "closed"
           /\ \A k \in Hosts \ {h} : store'[k] = store[k]
           /\ pc[t] # "journal-close" /\ pc'[t] = "journal-close" /\ job'[t] = job[t]
           /\ \A s \in Threads \ {t} : Same(s)
  <1>1. /\ Commit(h, Closed) /\ Cross(t) /\ Goto(t, "journal-close") /\ UNCHANGED job
        /\ UNCHANGED <<clock, closes, nonces>> /\ pc[t] = "finish-revert"
    BY DEF FinishReverting, At
  <1>2. Closed.state = "closed" /\ store[h].state = "needs-revert" /\ clock \in Nat
    BY DEF Closed, Reverting, WorldOK
  <1>3. store'[h] = Closed /\ \A k \in Hosts \ {h} : store'[k] = store[k]
    BY <1>1 DEF Commit, WorldOK
  <1>4. pc'[t] = "journal-close" /\ job'[t] = job[t] /\ \A s \in Threads \ {t} : Same(s)
    BY <1>1, GotoMoves
  <1>5. Fine(t)
    BY <1>1, <1>4 DEF Fine, ClaimOK, Dated
  <1>6. \A k \in Hosts : HostMoves(k)
    BY <1>1, <1>2, CommitMoves
  <1>7. Tidy
    BY <1>1, <1>2, <1>4, <1>5, <1>6, CrossGrows DEF Tidy
  <1> QED
    BY <1>1, <1>2, <1>3, <1>4, <1>7

\* The Close line.
LEMMA JournalMoves ==
    ASSUME ThreadsOK, WorldOK, ReturnsOK, Dated, PendingsOK, NEW t \in Threads,
           NEW h \in Hosts, h = job[t].host, JournalClose(t)
    PROVE  /\ Tidy /\ UNCHANGED <<store, nonces>>
           /\ closes'[h] = closes[h] + 1 /\ \A k \in Hosts \ {h} : closes'[k] = closes[k]
           /\ pc[t] = "journal-close" /\ pc'[t] # "journal-close"
           /\ \A s \in Threads \ {t} : Same(s)
  <1>1. /\ Return(t) /\ UNCHANGED <<clock, store, nonces, crossed>> /\ pc[t] = "journal-close"
        /\ closes' = [closes EXCEPT ![h] = @ + 1]
    BY DEF JournalClose
  <1>2. Calm
    BY <1>1, ReturnCalm
  <1>3. closes'[h] = closes[h] + 1 /\ \A k \in Hosts \ {h} : closes'[k] = closes[k]
    BY <1>1 DEF WorldOK
  <1>4. pc'[t] # "journal-close" /\ \A s \in Threads \ {t} : Same(s)
    BY <1>1 DEF Return, ThreadsOK, ReturnsOK, Same
  <1>5. Tidy
    BY <1>1, <1>2, QuietMoves DEF Tidy, Calm, WorldOK
  <1> QED
    BY <1>1, <1>3, <1>4, <1>5

LEMMA StepTidy ==
    ASSUME TypeOK, ReturnsOK, Dated, PendingsOK, [Next]_vars
    PROVE  Tidy
  <1>0. ThreadsOK /\ WorldOK
    BY TypeParts
  <1>1. Orderly => Tidy
    BY DEF Orderly, Calm, Tidy
  <1>2. ASSUME NEW t \in Threads, Closing(t)
        PROVE  Tidy
    <2>h. PICK h \in Hosts : h = job[t].host
      BY <1>0, JobFields
    <2>1. CASE JournalClose(t)
      BY <1>0, <2>h, <2>1, JournalMoves
    <2>2. CASE FinishReverting(t) /\ Reverting(store[h])
      BY <1>0, <2>h, <2>2, FinishWins
    <2>3. CASE FinishReverting(t) /\ ~Reverting(store[h])
      BY <1>0, <1>1, <2>h, <2>3, FinishLoses
    <2> QED
      BY <1>2, <2>1, <2>2, <2>3 DEF Closing
  <1> QED
    BY <1>1, <1>2, StepOrderly

(***************************************************************************)
(* Every thread works with a past instant, every pending grant is of the    *)
(* request its host is at.                                                  *)
(***************************************************************************)
RequestInv == Dated /\ PendingsOK

LEMMA StepRequests ==
    ASSUME TypeOK, TypeOK', ReturnsOK, RequestInv, [Next]_vars
    PROVE  RequestInv' /\ Tidy
  <1>1. Tidy
    BY StepTidy DEF RequestInv
  <1>2. PendingsOK'
    BY <1>1 DEF Tidy, HostMoves, PendingsOK
  <1>3. ASSUME NEW t \in Threads
        PROVE  job'[t].now <= clock'
    <2>1. CASE Same(t)
      <3>1. job'[t].now = job[t].now /\ job[t].now \in Nat /\ job[t].now <= clock
        BY <2>1, TypeParts, JobFields DEF Same, RequestInv, Dated
      <3>2. clock \in Nat /\ clock' \in Nat /\ clock <= clock'
        BY <1>1 DEF TypeOK, Tidy
      <3> QED
        BY <3>1, <3>2
    <2>2. CASE ~Same(t)
      BY <1>1, <2>2 DEF Tidy, Fine
    <2> QED
      BY <2>1, <2>2
  <1> QED
    BY <1>1, <1>2, <1>3 DEF RequestInv, Dated

LEMMA InitRequests == Init => RequestInv
  <1> SUFFICES ASSUME Init PROVE RequestInv
    OBVIOUS
  <1>1. \A t \in Threads : pc[t] \in {"idle", "down"} /\ job[t].now = 0
    BY DEF Init, NoJob
  <1>2. \A h \in Hosts : store[h].state = "closed"
    BY DEF Init, Closed
  <1>3. clock = 0
    BY DEF Init
  <1> QED
    BY <1>1, <1>2, <1>3 DEF RequestInv, Dated, PendingsOK, PendingOK

LEMMA RequestInvariant == Spec => [](TypeOK /\ ReturnsOK /\ RequestInv)
  <1>1. Init => RequestInv
    BY InitRequests
  <1>2. TypeOK /\ TypeOK' /\ ReturnsOK /\ RequestInv /\ [Next]_vars => RequestInv'
    BY StepRequests
  <1>3. AccessInv => ReturnsOK
    BY DEF AccessInv
  <1> QED
    BY <1>1, <1>2, <1>3, AccessInvariant, PTL DEF Spec

(***************************************************************************)
(* The claim.                                                               *)
(***************************************************************************)
ClaimInv == clock <= MaxTime /\ \A t \in Threads : ClaimOK(t)

\* A request that was met is met by more proofs and more time.
LEMMA MetGrows ==
    ASSUME NEW g \in PendingGrants, NEW k \in PendingGrants, NEW m \in Nat, NEW n \in Nat,
           m <= n, n <= MaxTime, g.profile = k.profile, g.requested_at = k.requested_at,
           g.satisfied \subseteq k.satisfied, MetAt(g, m)
    PROVE  MetAt(k, n)
  <1>1. /\ g.requested_at \in Nat /\ g.profile \in Profiles
        /\ g.satisfied \in SUBSET Authenticators /\ k.satisfied \in SUBSET Authenticators
    BY DEF PendingGrants
  <1>2. /\ Elapsed(g, m) \in 0 .. MaxTime /\ Elapsed(k, n) \in 0 .. MaxTime
        /\ Elapsed(g, m) <= Elapsed(k, n)
    BY <1>1, LifecycleAssumption DEF Elapsed
  <1>3. ASSUME Met(g, Elapsed(g, m))
        PROVE  Met(k, Elapsed(k, n))
    BY <1>1, <1>2, <1>3, EvaluateAssumption DEF Met
  <1> QED
    BY <1>3 DEF MetAt

\* A thread that does not move still claims what it found met: the same
\* request, to which proofs may have been added, or another one, which it has
\* no work of.
LEMMA SameClaim ==
    ASSUME TypeOK, TypeOK', NEW t \in Threads, NEW h \in Hosts, h = job[t].host,
           job[t].now <= MaxTime, Same(t), HostMoves(h), ClaimOK(t)
    PROVE  ClaimOK(t)'
  <1>0. /\ job[t].nonce \in Nat /\ nonces[h] \in Nat /\ job[t].now \in Nat
        /\ nonces'[h] \in {nonces[h], nonces[h] + 1}
    BY TypeParts, JobFields DEF TypeOK, HostMoves
  <1> SUFFICES ASSUME pc'[t] = "claim"
               PROVE  /\ job'[t].nonce <= nonces'[job'[t].host]
                      /\ Current(t)' => MetAt(store'[job'[t].host], job'[t].now)
    BY DEF ClaimOK, MetAt, Met, Elapsed
  <1>1. pc[t] = "claim" /\ job'[t] = job[t] /\ job[t].nonce <= nonces[h]
    BY DEF Same, ClaimOK
  <1>2. job[t].nonce <= nonces'[h]
    BY <1>0, <1>1
  <1>3. ASSUME Current(t)'
        PROVE  MetAt(store'[h], job[t].now)
    <2>1. /\ job[t].nonce = nonces'[h] /\ store'[h].state = "pending"
          /\ job[t].now < store'[h].approval_deadline
      BY <1>1, <1>3 DEF Current, AwaitingApproval
    <2>2. nonces'[h] = nonces[h]
      BY <1>0, <1>1, <2>1
    <2>3. SamePending(h)
      BY <2>1, <2>2 DEF HostMoves
    <2>4. Current(t)
      BY <2>1, <2>2, <2>3 DEF Current, AwaitingApproval, SamePending
    <2>5. MetAt(store[h], job[t].now)
      BY <1>1, <2>4 DEF ClaimOK
    <2>6. store[h] \in PendingGrants /\ store'[h] \in PendingGrants
      BY <2>1, <2>3, GrantShape DEF TypeOK, SamePending
    <2> QED
      BY <1>0, <2>3, <2>5, <2>6, MetGrows DEF SamePending
  <1> QED
    BY <1>1, <1>2, <1>3

LEMMA StepClaim ==
    ASSUME TypeOK, TypeOK', RequestInv, ClaimInv, Tidy
    PROVE  ClaimInv'
  <1>1. clock' <= MaxTime
    BY DEF Tidy, ClaimInv
  <1>2. ASSUME NEW t \in Threads
        PROVE  ClaimOK(t)'
    <2>h. PICK h \in Hosts : h = job[t].host
      BY TypeParts, JobFields
    <2>1. job[t].now \in Nat /\ clock \in Nat /\ MaxTime \in Nat
      BY TypeParts, JobFields, LifecycleAssumption DEF TypeOK
    <2>2. job[t].now <= MaxTime
      BY <2>1 DEF ClaimInv, RequestInv, Dated
    <2>3. CASE Same(t)
      BY <2>h, <2>2, <2>3, SameClaim DEF Tidy, ClaimInv
    <2>4. CASE ~Same(t)
      BY <2>4 DEF Tidy, Fine
    <2> QED
      BY <2>3, <2>4
  <1> QED
    BY <1>1, <1>2 DEF ClaimInv

\* A step that opens a request was the claim of a thread that had found it met.
LEMMA StepOpensMet ==
    ASSUME TypeOK, RequestInv, ClaimInv, Tidy, NEW h \in Hosts \ crossed',
           store[h].state = "pending", store'[h].state = "opening"
    PROVE  MetAt(store[h], clock)
  <1>1. PICK t \in Threads : pc[t] = "claim" /\ job[t].host = h /\ Current(t)
    BY DEF Tidy, HostMoves, Opens
  <1>2. MetAt(store[h], job[t].now)
    BY <1>1 DEF ClaimInv, ClaimOK
  <1>3. job[t].now \in Nat /\ clock \in Nat /\ job[t].now <= clock /\ clock <= MaxTime
    BY TypeParts, JobFields DEF TypeOK, RequestInv, Dated, ClaimInv
  <1>4. store[h] \in PendingGrants
    BY GrantShape DEF TypeOK
  <1> QED
    BY <1>2, <1>3, <1>4, MetGrows

\* open_pending_now claims without looking at the authority again; yet a
\* request that opens is met, at that instant and by its own proofs, for nothing
\* that may happen between the evaluation and the claim takes that away.
THEOREM OpensWhenMet == Spec => OpensOnlyWhenMet
  <1>1. Init => ClaimInv
    <2> SUFFICES ASSUME Init PROVE ClaimInv
      OBVIOUS
    <2>1. \A t \in Threads : pc[t] \in {"idle", "down"}
      BY DEF Init
    <2>2. clock <= MaxTime
      BY LifecycleAssumption DEF Init
    <2> QED
      BY <2>1, <2>2 DEF ClaimInv, ClaimOK
  <1>2. TypeOK /\ TypeOK' /\ ReturnsOK /\ RequestInv /\ ClaimInv /\ [Next]_vars => ClaimInv'
    BY StepRequests, StepClaim
  <1>3. TypeOK /\ TypeOK' /\ ReturnsOK /\ RequestInv /\ ClaimInv /\ [Next]_vars =>
           [\A h \in Hosts \ crossed' :
              store[h].state = "pending" /\ store'[h].state = "opening"
                  => \/ store[h].profile \in {DRILL_PROFILE, DRY_RUN_PROFILE}
                     \/ Met(store[h], Elapsed(store[h], clock))]_vars
    BY StepRequests, StepOpensMet DEF MetAt, Synthetic
  <1> QED
    BY <1>1, <1>2, <1>3, RequestInvariant, PTL DEF Spec, OpensOnlyWhenMet

(***************************************************************************)
(* The journal.                                                             *)
(***************************************************************************)
\* A step that writes no Close line lets nobody into its queue, and a grant that
\* is no longer closed is of a new request.
LEMMA JournalFrame ==
    ASSUME TypeOK, TypeOK', Orderly, NEW h \in Hosts, JournalOK(h)
    PROVE  JournalOK(h)'
  <1>1. Journaling(h)' \subseteq Journaling(h)
    BY DEF Journaling, Orderly, Calm, Same
  <1>2. /\ IsFiniteSet(Journaling(h)') /\ Cardinality(Journaling(h)') \in Nat
        /\ Cardinality(Journaling(h)) \in Nat
        /\ Cardinality(Journaling(h)') <= Cardinality(Journaling(h))
    BY <1>1, FS_Subset, FS_CardinalityType DEF JournalOK
  <1>3. /\ closes[h] \in Nat /\ nonces[h] \in Nat /\ closes'[h] = closes[h]
        /\ Owed(h) \in {0, 1} /\ Owed(h)' \in {0, 1}
        /\ nonces'[h] \in {nonces[h], nonces[h] + 1}
        /\ nonces'[h] = nonces[h] => Owed(h)' <= Owed(h)
    BY DEF TypeOK, Owed, Orderly, HostMoves
  <1>4. Owed(h)' - Owed(h) <= nonces'[h] - nonces[h]
    BY <1>3
  <1>5. closes[h] + Cardinality(Journaling(h)) + Owed(h) <= nonces[h]
    BY DEF JournalOK
  <1>6. closes'[h] + Cardinality(Journaling(h)') + Owed(h)' <= nonces'[h]
    BY <1>2, <1>3, <1>4, <1>5
  <1> QED
    BY <1>2, <1>6 DEF JournalOK

\* The two steps that close a grant: the debt becomes a place in the queue, and
\* the place becomes a line.
LEMMA ClosingKeepsJournal ==
    ASSUME TypeOK, TypeOK', ReturnsOK, Dated, PendingsOK, JournalInv,
           NEW t \in Threads, Closing(t)
    PROVE  JournalInv'
  <1>h. PICK h \in Hosts : h = job[t].host
    BY TypeParts, JobFields
  <1>0. ThreadsOK /\ WorldOK
    BY TypeParts
  <1>n. ASSUME NEW k \in Hosts
        PROVE  /\ closes[k] \in Nat /\ nonces[k] \in Nat /\ IsFiniteSet(Journaling(k))
               /\ Cardinality(Journaling(k)) \in Nat
               /\ closes[k] + Cardinality(Journaling(k)) + Owed(k) <= nonces[k]
    BY FS_CardinalityType DEF TypeOK, JournalInv, JournalOK
  <1>1. CASE FinishReverting(t) /\ ~Reverting(store[h])
    BY <1>h, <1>0, <1>1, FinishLoses, JournalFrame DEF JournalInv
  <1>2. CASE FinishReverting(t) /\ Reverting(store[h])
    <2>1. /\ UNCHANGED <<closes, nonces>>
          /\ store[h].state # "closed" /\ store'[h].state = "closed"
          /\ \A k \in Hosts \ {h} : store'[k] = store[k]
          /\ pc[t] # "journal-close" /\ pc'[t] = "journal-close" /\ job'[t] = job[t]
          /\ \A s \in Threads \ {t} : Same(s)
      BY <1>h, <1>0, <1>2, FinishWins
    <2>2. ASSUME NEW k \in Hosts \ {h}
          PROVE  JournalOK(k)'
      <3>1. Journaling(k)' = Journaling(k)
        BY <1>h, <2>1 DEF Journaling, Same
      <3>2. Owed(k)' = Owed(k) /\ closes'[k] = closes[k] /\ nonces'[k] = nonces[k]
        BY <2>1 DEF Owed
      <3> QED
        BY <1>n, <3>1, <3>2 DEF JournalOK
    <2>3. JournalOK(h)'
      <3>1. Journaling(h)' = Journaling(h) \union {t} /\ t \notin Journaling(h)
        BY <1>h, <2>1 DEF Journaling, Same
      <3>2. /\ IsFiniteSet(Journaling(h)')
            /\ Cardinality(Journaling(h)') = Cardinality(Journaling(h)) + 1
        BY <1>n, <3>1, FS_AddElement
      <3>3. Owed(h) = 1 /\ Owed(h)' = 0 /\ closes'[h] = closes[h] /\ nonces'[h] = nonces[h]
        BY <2>1 DEF Owed
      <3>4. closes'[h] + Cardinality(Journaling(h)') + Owed(h)' <= nonces'[h]
        BY <1>n, <3>2, <3>3
      <3> QED
        BY <3>2, <3>4 DEF JournalOK
    <2> QED
      BY <2>2, <2>3 DEF JournalInv
  <1>3. CASE JournalClose(t)
    <2>1. /\ UNCHANGED <<store, nonces>>
          /\ closes'[h] = closes[h] + 1 /\ \A k \in Hosts \ {h} : closes'[k] = closes[k]
          /\ pc[t] = "journal-close" /\ pc'[t] # "journal-close"
          /\ \A s \in Threads \ {t} : Same(s)
      BY <1>h, <1>0, <1>3, JournalMoves
    <2>2. ASSUME NEW k \in Hosts \ {h}
          PROVE  JournalOK(k)'
      <3>1. Journaling(k)' = Journaling(k)
        BY <1>h, <2>1 DEF Journaling, Same
      <3>2. Owed(k)' = Owed(k) /\ closes'[k] = closes[k] /\ nonces'[k] = nonces[k]
        BY <2>1 DEF Owed
      <3> QED
        BY <1>n, <3>1, <3>2 DEF JournalOK
    <2>3. JournalOK(h)'
      <3>1. Journaling(h)' = Journaling(h) \ {t} /\ t \in Journaling(h)
        BY <1>h, <2>1 DEF Journaling, Same
      <3>2. /\ IsFiniteSet(Journaling(h)')
            /\ Cardinality(Journaling(h)') = Cardinality(Journaling(h)) - 1
        BY <1>n, <3>1, FS_RemoveElement
      <3>3. Owed(h)' = Owed(h) /\ Owed(h) \in {0, 1} /\ nonces'[h] = nonces[h]
        BY <2>1 DEF Owed
      <3>4. closes'[h] + Cardinality(Journaling(h)') + Owed(h)' <= nonces'[h]
        BY <1>n, <2>1, <3>2, <3>3
      <3> QED
        BY <3>2, <3>4 DEF JournalOK
    <2> QED
      BY <2>2, <2>3 DEF JournalInv
  <1> QED
    BY <1>h, <1>1, <1>2, <1>3 DEF Closing

LEMMA StepJournal ==
    ASSUME TypeOK, TypeOK', ReturnsOK, RequestInv, JournalInv, [Next]_vars
    PROVE  JournalInv'
  <1>1. CASE \E t \in Threads : Closing(t)
    BY <1>1, ClosingKeepsJournal DEF RequestInv
  <1>2. CASE \A t \in Threads : ~Closing(t)
    BY <1>2, StepOrderly, JournalFrame DEF RequestInv, JournalInv
  <1> QED
    BY <1>1, <1>2

\* drive_one_revert journals after its commit, outside the lock: however many
\* reverts of one grant meet there, and wherever a crash falls, a host never has
\* more Close lines than it had requests.
THEOREM ClosesOnce == Spec => []CloseJournaledOnce
  <1>1. Init => JournalInv
    <2> SUFFICES ASSUME Init, NEW h \in Hosts PROVE JournalOK(h)
      BY DEF JournalInv
    <2>1. Journaling(h) = {}
      BY DEF Init, Journaling
    <2>2. closes[h] = 0 /\ nonces[h] = 0 /\ Owed(h) = 0
      BY DEF Init, Owed, Closed
    <2> QED
      BY <2>1, <2>2, FS_EmptySet DEF JournalOK
  <1>2. TypeOK /\ TypeOK' /\ ReturnsOK /\ RequestInv /\ JournalInv /\ [Next]_vars => JournalInv'
    BY StepJournal
  <1>3. TypeOK /\ JournalInv => CloseJournaledOnce
    <2> SUFFICES ASSUME TypeOK, JournalInv, NEW h \in Hosts PROVE closes[h] <= nonces[h]
      BY DEF CloseJournaledOnce
    <2>1. /\ closes[h] \in Nat /\ nonces[h] \in Nat /\ Cardinality(Journaling(h)) \in Nat
          /\ Owed(h) \in {0, 1}
          /\ closes[h] + Cardinality(Journaling(h)) + Owed(h) <= nonces[h]
      BY FS_CardinalityType DEF TypeOK, JournalInv, JournalOK, Owed
    <2> QED
      BY <2>1
  <1> QED
    BY <1>1, <1>2, <1>3, RequestInvariant, PTL DEF Spec

(***************************************************************************)
(* An open and a renewal are committed under a whole dead-man that is due no *)
(* sooner than the grant expires, unless another thread has rewritten it.    *)
(***************************************************************************)
\* Where a thread is while it renews a grant, or drives an open, and where the
\* dead-man it has written should be in place.
Renewing == {"reschedule", "renew-channels", "renew"}
Guarding == Renewing \union Driving
Past == {"renew-channels", "renew", "finish-open"}

\* The thread was to write the dead-man of its host on its way there.
Guards(t) ==
    /\ job[t].host \in SshHosts
    /\ pc[t] = "finish-open" => WantsDeadman(job[t].host, job[t].channels)

\* A renewal carries the expiry it will commit, and a dead-man that was last
\* written by a thread that is past it is whole and of that thread's deadline.
DeadlineOK(t) ==
    /\ pc[t] \in Renewing => job[t].expires = job[t].now + job[t].ttl
    /\ pc[t] \in Past /\ Guards(t) /\ deadman[job[t].host].by = {t} =>
          Armed(job[t].host) /\ deadman[job[t].host].at = job[t].expires

\* The driver of an open carries the expiry of the grant it drives.
OpenerOK(t, h) == Drives(t, h) => store[h].expires_at = job[t].expires

\* What nobody has written is not there.
NobodysOK(h) == deadman[h].by = {} => deadman[h] = NoDeadman

DeadlineInv ==
    /\ \A t \in Threads : DeadlineOK(t)
    /\ \A h \in Hosts : NobodysOK(h)
    /\ \A h \in Hosts \ crossed : \A t \in Threads : OpenerOK(t, h)

(***************************************************************************)
(* What a step does to the backstop of a host.                              *)
(***************************************************************************)
\* An open under way is left as it is, or settled.
GrantKept(k) ==
    store[k].state = "opening" /\ store'[k].state = "opening" => store'[k] = store[k]

\* The dead-man is left alone, removed, or written by t.
DeadmanKept(k) == deadman'[k] = deadman[k] \/ deadman'[k] = NoDeadman
Rewritten(t, k) == DeadmanKept(k) \/ deadman'[k].by = {t}

\* A step that neither writes a dead-man nor takes up a renewal or an open.
Idle(s) == Same(s) \/ pc'[s] \notin Guarding
Placid ==
    /\ \A k \in Hosts : GrantKept(k) /\ DeadmanKept(k)
    /\ \A s \in Threads : Idle(s)

USE DEF Renewing, Guarding, Past, Driving

\* A thread that does not move still has the dead-man it wrote, or another
\* thread's, or none.
LEMMA DeadlineFrame ==
    ASSUME NEW s \in Threads, NEW t \in Threads \ {s}, NEW k \in Hosts, k = job[s].host,
           DeadlineOK(s), Same(s), Rewritten(t, k)
    PROVE  DeadlineOK(s)'
  <1>1. job'[s] = job[s] /\ pc'[s] = pc[s] /\ job'[s].host = k
    BY DEF Same
  <1>2. NoDeadman.by = {}
    BY DEF NoDeadman
  <1>3. deadman'[k].by = {s} => deadman'[k] = deadman[k]
    BY <1>2 DEF Rewritten, DeadmanKept
  <1>4. Guards(s)' => Guards(s)
    BY <1>1 DEF Guards, WantsDeadman
  <1>5. ASSUME pc'[s] \in Past, Guards(s)', deadman'[k].by = {s}
        PROVE  Armed(k)' /\ deadman'[k].at = job'[s].expires
    <2>1. deadman'[k] = deadman[k] /\ deadman[k].by = {s} /\ Guards(s)
      BY <1>3, <1>4, <1>5
    <2>2. Armed(k) /\ deadman[k].at = job[s].expires
      BY <1>1, <1>5, <2>1 DEF DeadlineOK
    <2> QED
      BY <1>1, <2>1, <2>2 DEF Armed
  <1>6. pc'[s] \in Renewing => job'[s].expires = job'[s].now + job'[s].ttl
    BY <1>1 DEF DeadlineOK
  <1> QED
    BY <1>1, <1>5, <1>6 DEF DeadlineOK

\* The driver of an open that does not move still has its grant: nobody else
\* settles it while the host is not crossed.
LEMMA OpenerFrame ==
    ASSUME AccessInv, AccessInv', NEW s \in Threads, NEW k \in Hosts \ crossed',
           k \notin crossed, OpenerOK(s, k), Same(s), GrantKept(k)
    PROVE  OpenerOK(s, k)'
  <1> SUFFICES ASSUME Drives(s, k)' PROVE OpenerOK(s, k)'
    BY DEF OpenerOK
  <1>1. Drives(s, k) /\ job'[s] = job[s]
    BY DEF Same, Drives
  <1>2. store'[k].state = "opening" /\ store[k].state = "opening"
    BY <1>1 DEF AccessInv, HostOK, ThreadOK, DriverOK, MidOpen
  <1> QED
    BY <1>1, <1>2 DEF OpenerOK, GrantKept

\* A thread that is elsewhere after the step has nothing to know.
LEMMA OutsideOK ==
    ASSUME NEW s, NEW k, pc'[s] \notin Guarding
    PROVE  DeadlineOK(s)' /\ OpenerOK(s, k)'
  BY DEF DeadlineOK, OpenerOK, Drives

\* The hypotheses every step of the argument starts from.
Start == /\ TypeOK /\ TypeOK' /\ AccessInv /\ AccessInv' /\ DeadlineInv
         /\ crossed \subseteq crossed'

\* A step of thread t: what the other threads know stays right.
LEMMA GuardStep ==
    ASSUME Start, NEW t \in Threads, \A s \in Threads \ {t} : Idle(s),
           \A k \in Hosts : GrantKept(k) /\ Rewritten(t, k),
           DeadlineOK(t)', \A k \in Hosts \ crossed' : OpenerOK(t, k)'
    PROVE  DeadlineInv'
  <1>1. ASSUME NEW k \in Hosts PROVE NobodysOK(k)'
    BY DEF Start, DeadlineInv, NobodysOK, Rewritten, DeadmanKept
  <1>2. ASSUME NEW s \in Threads \ {t} PROVE DeadlineOK(s)'
    <2>h. PICK k \in Hosts : k = job[s].host
      BY TypeParts, JobFields DEF Start
    <2>1. CASE Same(s)
      BY <2>h, <2>1, DeadlineFrame DEF Start, DeadlineInv
    <2>2. CASE pc'[s] \notin Guarding
      BY <2>2, OutsideOK
    <2> QED
      BY <2>1, <2>2 DEF Idle
  <1>3. ASSUME NEW s \in Threads \ {t}, NEW k \in Hosts \ crossed' PROVE OpenerOK(s, k)'
    <2>1. CASE Same(s)
      BY <2>1, OpenerFrame DEF Start, DeadlineInv
    <2>2. CASE pc'[s] \notin Guarding
      BY <2>2, OutsideOK
    <2> QED
      BY <2>1, <2>2 DEF Idle
  <1> QED
    BY <1>1, <1>2, <1>3 DEF DeadlineInv

\* A thread that keeps still keeps what it knows of a dead-man left alone.
LEMMA StillOK ==
    ASSUME NEW t \in Threads, NEW k \in Hosts, k = job[t].host, DeadlineOK(t), Same(t),
           DeadmanKept(k)
    PROVE  DeadlineOK(t)'
  <1>1. job'[t] = job[t] /\ pc'[t] = pc[t] /\ NoDeadman.by = {}
    BY DEF Same, NoDeadman
  <1>2. deadman'[k].by = {t} => deadman'[k] = deadman[k]
    BY <1>1 DEF DeadmanKept
  <1>3. Guards(t)' => Guards(t)
    BY <1>1 DEF Guards, WantsDeadman
  <1>4. ASSUME deadman'[k] = deadman[k], Armed(k) PROVE Armed(k)'
    BY <1>4 DEF Armed
  <1> QED
    BY <1>1, <1>2, <1>3, <1>4 DEF DeadlineOK

\* A placid step keeps everything.
LEMMA PlacidStep ==
    ASSUME Start, Placid
    PROVE  DeadlineInv'
  <1>1. PICK t \in Threads : t = Main
    BY DEF Threads, Daemon
  <1>h. PICK h \in Hosts : h = job[t].host
    BY TypeParts, JobFields DEF Start
  <1>2. CASE Same(t)
    <2>1. DeadlineOK(t)'
      BY <1>h, <1>2, StillOK DEF Start, DeadlineInv, Placid
    <2>2. \A k \in Hosts \ crossed' : OpenerOK(t, k)'
      BY <1>2, OpenerFrame DEF Start, DeadlineInv, Placid
    <2> QED
      BY <2>1, <2>2, GuardStep DEF Placid, Rewritten
  <1>3. CASE pc'[t] \notin Guarding
    BY <1>3, OutsideOK, GuardStep DEF Placid, Rewritten
  <1> QED
    BY <1>2, <1>3 DEF Placid, Idle

(***************************************************************************)
(* The placid steps: one step per action.                                   *)
(***************************************************************************)
\* A commit that leaves no open under way.
LEMMA CommitKept ==
    ASSUME WorldOK, NEW h \in Hosts, NEW g, Commit(h, g), g.state # "opening"
    PROVE  \A k \in Hosts : GrantKept(k)
  BY DEF WorldOK, Commit, GrantKept

\* A call, a jump or a return out of what guards a grant.
LEMMA CallIdle ==
    ASSUME ThreadsOK, NEW t \in Threads, NEW label, NEW j, Call(t, label, j),
           label \notin Guarding
    PROVE  \A s \in Threads : Idle(s)
  BY CallMoves DEF Idle

LEMMA GotoIdle ==
    ASSUME ThreadsOK, NEW t \in Threads, NEW label, Goto(t, label), UNCHANGED job,
           label \notin Guarding
    PROVE  \A s \in Threads : Idle(s)
  BY GotoMoves DEF Idle

LEMMA ReturnIdle ==
    ASSUME ThreadsOK, ReturnsOK, NEW t \in Threads, Return(t)
    PROVE  \A s \in Threads : Idle(s)
  BY DEF Return, Same, ThreadsOK, ReturnsOK, Idle

\* The read at the start of an approve.
LEMMA ReadIdle ==
    ASSUME ThreadsOK, NEW t \in Threads, NEW j, ReadRequest(t, j)
    PROVE  \A s \in Threads : Idle(s)
  <1>1. CASE DryRun
    <2>1. Call(t, "claim", [j EXCEPT !.nonce = store[j.host].nonce])
      BY <1>1 DEF ReadRequest
    <2> QED
      BY <2>1, CallIdle
  <1>2. CASE ~DryRun
    <2>1. PICK id \in Authenticators :
             Call(t, "prove", [j EXCEPT !.nonce = store[j.host].nonce, !.proofs = {id}])
      BY <1>2 DEF ReadRequest
    <2> QED
      BY <2>1, CallIdle
  <1> QED
    BY <1>1, <1>2

\* The process stops, or a thread does.
LEMMA StopIdle ==
    ASSUME ThreadsOK, StopDaemon
    PROVE  \A s \in Threads : Idle(s)
  BY DEF StopDaemon, Same, ThreadsOK, Idle

LEMMA PanicIdle ==
    ASSUME ThreadsOK, NEW t \in Threads, Panic(t)
    PROVE  \A s \in Threads : Idle(s)
  <1>1. CASE t = Main
    BY <1>1, StopIdle DEF Panic
  <1>2. CASE t # Main
    BY <1>2 DEF Panic, Same, ThreadsOK, Idle
  <1> QED
    BY <1>1, <1>2

\* Nothing is written.
Unwritten == UNCHANGED <<store, deadman>> /\ \A s \in Threads : Idle(s)

LEMMA UnwrittenPlacid ==
    ASSUME Unwritten
    PROVE  Placid
  BY DEF Unwritten, Placid, GrantKept, DeadmanKept

\* A commit that leaves no open under way, and the dead-men left alone.
LEMMA CommitPlacid ==
    ASSUME WorldOK, NEW h \in Hosts, NEW g, Commit(h, g), g.state # "opening",
           UNCHANGED deadman, \A s \in Threads : Idle(s)
    PROVE  Placid
  BY CommitKept DEF Placid, DeadmanKept

\* Every request but a renewal.
LEMMA RequestPlacid ==
    ASSUME ThreadsOK, WorldOK, NEW t \in Threads, NEW h \in Hosts,
           \/ \E ttl \in Ttls, p \in Profiles : OpenRequest(t, h, ttl, p)
           \/ Approve(t, h) \/ McpApprove(t, h) \/ Close(t, h) \/ Drill(t, h)
    PROVE  Placid
  <1>1. ASSUME NEW ttl \in Ttls, NEW p \in Profiles, OpenRequest(t, h, ttl, p)
        PROVE  Placid
    <2> DEFINE g == BeginPending(clock, clock + ApprovalWindow, ttl, nonces[h] + 1, p)
    <2>1. Commit(h, g) /\ UNCHANGED deadman /\ \A s \in Threads : Idle(s)
      BY <1>1 DEF OpenRequest, Idle, Same
    <2>2. g.state = "pending"
      BY DEF BeginPending, Pending
    <2> HIDE DEF g
    <2> QED
      BY <2>1, <2>2, CommitPlacid
  <1>2. CASE Approve(t, h)
    <2>1. \A s \in Threads : Idle(s)
      BY <1>2, ReadIdle DEF Approve
    <2> QED
      BY <1>2, <2>1, UnwrittenPlacid DEF Approve, Unwritten
  <1>3. CASE McpApprove(t, h)
    BY <1>3, CallIdle, UnwrittenPlacid DEF McpApprove, Unwritten
  <1>4. CASE Close(t, h)
    <2>1. \A s \in Threads : Idle(s)
      BY <1>4, CallIdle DEF Close, ReadForClose
    <2> QED
      BY <1>4, <2>1, UnwrittenPlacid DEF Close, Unwritten
  <1>5. CASE Drill(t, h)
    BY <1>5, CallIdle, UnwrittenPlacid DEF Drill, Unwritten
  <1> QED
    BY <1>1, <1>2, <1>3, <1>4, <1>5

\* The proofs of an approval.
LEMMA ProvePlacid ==
    ASSUME ThreadsOK, WorldOK, ReturnsOK, NEW t \in Threads,
           ApproveGated(t) \/ Prove(t) \/ EvaluateProofs(t) \/ BeginDrill(t)
    PROVE  Placid
  <1>h. PICK h \in Hosts : h = job[t].host
    BY JobFields
  <1>1. CASE ApproveGated(t)
    <2>1. \A s \in Threads : Idle(s)
      BY <1>1, ReadIdle, ReturnIdle DEF ApproveGated
    <2> QED
      BY <1>1, <2>1, UnwrittenPlacid DEF ApproveGated, Unwritten
  <1>2. CASE Prove(t)
    <2>1. \A s \in Threads : Idle(s)
      BY <1>2, CallIdle, ReturnIdle DEF Prove
    <2>2. CASE ~CanAddSatisfied(store[h], job[t].now)
      BY <1>h, <1>2, <2>1, <2>2, UnwrittenPlacid DEF Prove, Unwritten
    <2>3. CASE CanAddSatisfied(store[h], job[t].now)
      <3>1. PICK id \in job[t].proofs : Commit(h, AddSatisfied(store[h], id))
        BY <1>h, <1>2, <2>3 DEF Prove
      <3>2. store[h] \in PendingGrants
        BY <2>3, GrantShape DEF CanAddSatisfied, AwaitingApproval, WorldOK
      <3>3. AddSatisfied(store[h], id).state = "pending"
        BY <3>2 DEF AddSatisfied, PendingGrants
      <3> QED
        BY <1>2, <2>1, <3>1, <3>3, CommitPlacid DEF Prove
    <2> QED
      BY <2>2, <2>3
  <1>3. CASE EvaluateProofs(t)
    <2>1. \A s \in Threads : Idle(s)
      BY <1>3, CallIdle, ReturnIdle DEF EvaluateProofs
    <2> QED
      BY <1>3, <2>1, UnwrittenPlacid DEF EvaluateProofs, Unwritten
  <1>4. CASE BeginDrill(t)
    <2>1. \A s \in Threads : Idle(s)
      BY <1>4, CallIdle, ReturnIdle DEF BeginDrill
    <2>2. CASE ~CanBeginPending(store[h])
      BY <1>h, <1>4, <2>1, <2>2, UnwrittenPlacid DEF BeginDrill, Unwritten
    <2>3. CASE CanBeginPending(store[h])
      <3> DEFINE g == BeginPending(job[t].now, job[t].now + ApprovalWindow, DRILL_TTL,
                                   nonces[h] + 1, DRILL_PROFILE)
      <3>1. Commit(h, g) /\ UNCHANGED deadman
        BY <1>h, <1>4, <2>3 DEF BeginDrill
      <3>2. g.state = "pending"
        BY DEF BeginPending, Pending
      <3> HIDE DEF g
      <3> QED
        BY <2>1, <3>1, <3>2, CommitPlacid
    <2> QED
      BY <2>2, <2>3
  <1> QED
    BY <1>1, <1>2, <1>3, <1>4

\* A failed open, a close and a revert: what they write has no interval, and
\* the only thing done to a dead-man is to remove it.
LEMMA ClosePlacid ==
    ASSUME ThreadsOK, WorldOK, ReturnsOK, NEW t \in Threads,
           \/ UnwindOpening(t) \/ CloseDrill(t) \/ CancelPending(t) \/ BeginReverting(t)
           \/ RevertChannels(t) \/ RemoveDeadman(t) \/ FinishReverting(t)
           \/ JournalClose(t) \/ RetainStuck(t)
    PROVE  Placid
  <1>h. PICK h \in Hosts : h = job[t].host
    BY JobFields
  <1>0. /\ Closed.state = "closed"
        /\ \A c : NeedsRevert(c).state = "needs-revert"
        /\ \A c : UnwindOpen(c).state \in {"closed", "needs-revert"}
        /\ \A g : BeginRevert(g).state = "needs-revert"
    BY DEF Closed, NeedsRevert, UnwindOpen, BeginRevert
  <1>1. CASE UnwindOpening(t)
    <2>1. \A s \in Threads : Idle(s)
      BY <1>1, ReturnIdle, PanicIdle DEF UnwindOpening
    <2>2. UNCHANGED deadman /\ (UNCHANGED store \/ Commit(h, UnwindOpen(job[t].stuck)))
      BY <1>h, <1>1 DEF UnwindOpening
    <2> QED
      BY <1>0, <2>1, <2>2, CommitPlacid, UnwrittenPlacid DEF Unwritten
  <1>2. CASE CloseDrill(t)
    <2>1. \A s \in Threads : Idle(s)
      BY <1>2, CallIdle DEF CloseDrill, ReadForClose
    <2> QED
      BY <1>2, <2>1, UnwrittenPlacid DEF CloseDrill, Unwritten
  <1>3. CASE CancelPending(t)
    <2>1. \A s \in Threads : Idle(s)
      BY <1>3, ReturnIdle, PanicIdle DEF CancelPending
    <2>2. UNCHANGED deadman /\ (UNCHANGED store \/ Commit(h, Closed))
      BY <1>h, <1>3 DEF CancelPending
    <2> QED
      BY <1>0, <2>1, <2>2, CommitPlacid, UnwrittenPlacid DEF Unwritten
  <1>4. CASE BeginReverting(t)
    <2>1. \A s \in Threads : Idle(s)
      BY <1>4, ReturnIdle, CallIdle DEF BeginReverting
    <2>2. UNCHANGED deadman /\ (UNCHANGED store \/ Commit(h, BeginRevert(store[h])))
      BY <1>h, <1>4 DEF BeginReverting
    <2> QED
      BY <1>0, <2>1, <2>2, CommitPlacid, UnwrittenPlacid DEF Unwritten
  <1>5. CASE RevertChannels(t)
    <2>1. \A s \in Threads : Idle(s)
      BY <1>5, CallIdle DEF RevertChannels
    <2> QED
      BY <1>5, <2>1, UnwrittenPlacid DEF RevertChannels, Unwritten
  <1>6. CASE RemoveDeadman(t)
    <2>1. \A s \in Threads : Idle(s)
      BY <1>6, GotoIdle, CallIdle DEF RemoveDeadman
    <2>2. UNCHANGED store /\ \A k \in Hosts : DeadmanKept(k)
      BY <1>h, <1>6, DisarmLeaves DEF RemoveDeadman, DisarmStopped, DeadmanKept
    <2> QED
      BY <2>1, <2>2 DEF Placid, GrantKept
  <1>7. CASE FinishReverting(t)
    <2>1. \A s \in Threads : Idle(s)
      BY <1>7, GotoIdle, ReturnIdle DEF FinishReverting
    <2>2. UNCHANGED deadman /\ (UNCHANGED store \/ Commit(h, Closed))
      BY <1>h, <1>7 DEF FinishReverting
    <2> QED
      BY <1>0, <2>1, <2>2, CommitPlacid, UnwrittenPlacid DEF Unwritten
  <1>8. CASE JournalClose(t)
    BY <1>8, ReturnIdle, UnwrittenPlacid DEF JournalClose, Unwritten
  <1>9. CASE RetainStuck(t)
    <2>1. \A s \in Threads : Idle(s)
      BY <1>9, ReturnIdle DEF RetainStuck
    <2>2. UNCHANGED deadman /\ (UNCHANGED store \/ Commit(h, NeedsRevert(job[t].stuck)))
      BY <1>h, <1>9 DEF RetainStuck
    <2> QED
      BY <1>0, <2>1, <2>2, CommitPlacid, UnwrittenPlacid DEF Unwritten
  <1> QED
    BY <1>1, <1>2, <1>3, <1>4, <1>5, <1>6, <1>7, <1>8, <1>9

\* A pass: the reap begins reverts and ends requests.
LEMMA PassPlacid ==
    ASSUME ThreadsOK, WorldOK, NEW t \in Threads,
           PassReap(t) \/ PassList(t) \/ PassRevert(t) \/ PassAwaiting(t) \/ PassWait(t)
    PROVE  Placid
  <1>1. CASE PassReap(t)
    <2>1. \A s \in Threads : Idle(s)
      BY <1>1, CallIdle DEF PassReap
    <2>2. \A k \in Hosts : store'[k] = Reap(store[k], clock)
      BY <1>1 DEF PassReap
    <2>3. Closed.state = "closed" /\ \A g : BeginRevert(g).state = "needs-revert"
      BY DEF Closed, BeginRevert, NeedsRevert
    <2>4. ASSUME NEW k \in Hosts PROVE GrantKept(k)
      BY <2>2, <2>3 DEF GrantKept, Reap
    <2> QED
      BY <1>1, <2>1, <2>4 DEF PassReap, Placid, DeadmanKept
  <1>2. CASE PassList(t)
    BY <1>2, CallIdle, UnwrittenPlacid DEF PassList, Unwritten
  <1>3. CASE PassRevert(t)
    <2>1. \A s \in Threads : Idle(s)
      BY <1>3 DEF PassRevert, Call, Goto, Idle, Same, ThreadsOK
    <2> QED
      BY <1>3, <2>1, UnwrittenPlacid DEF PassRevert, Unwritten
  <1>4. CASE PassAwaiting(t)
    BY <1>4, CallIdle, UnwrittenPlacid DEF PassAwaiting, Unwritten
  <1>5. CASE PassWait(t)
    <2>1. \A s \in Threads : Idle(s)
      BY <1>5 DEF PassWait, Call, Goto, Idle, Same, ThreadsOK
    <2> QED
      BY <1>5, <2>1, UnwrittenPlacid DEF PassWait, Unwritten
  <1> QED
    BY <1>1, <1>2, <1>3, <1>4, <1>5

\* A boot: the demotion takes the interval of an interrupted open away.
LEMMA BootPlacid ==
    ASSUME ThreadsOK, WorldOK, NEW t \in Threads,
           \/ BootDemote(t) \/ BootList(t) \/ BootReestablish(t) \/ BootRetract(t)
           \/ BootDone(t)
    PROVE  Placid
  <1>h. PICK h \in Hosts : h = job[t].host
    BY JobFields
  <1>1. CASE BootDemote(t)
    <2>1. \A s \in Threads : Idle(s)
      BY <1>1, CallIdle DEF BootDemote
    <2>2. \A k \in Hosts : store'[k] = Demote(store[k])
      BY <1>1 DEF BootDemote
    <2>3. \A c : NeedsRevert(c).state = "needs-revert"
      BY DEF NeedsRevert
    <2>4. ASSUME NEW k \in Hosts PROVE GrantKept(k)
      BY <2>2, <2>3 DEF GrantKept, Demote
    <2> QED
      BY <1>1, <2>1, <2>4 DEF BootDemote, Placid, DeadmanKept
  <1>2. CASE BootList(t)
    BY <1>2, CallIdle, UnwrittenPlacid DEF BootList, Unwritten
  <1>3. CASE BootReestablish(t)
    <2>1. \A s \in Threads : Idle(s)
      BY <1>3 DEF BootReestablish, Call, Goto, Idle, Same, ThreadsOK
    <2> QED
      BY <1>3, <2>1, UnwrittenPlacid DEF BootReestablish, Unwritten
  <1>4. CASE BootRetract(t)
    <2>1. \A s \in Threads : Idle(s)
      BY <1>4, GotoIdle, PanicIdle DEF BootRetract
    <2>2. UNCHANGED deadman /\ (UNCHANGED store \/ Commit(h, BeginRevert(store[h])))
      BY <1>h, <1>4 DEF BootRetract
    <2>3. BeginRevert(store[h]).state = "needs-revert"
      BY DEF BeginRevert, NeedsRevert
    <2> QED
      BY <2>1, <2>2, <2>3, CommitPlacid, UnwrittenPlacid DEF Unwritten
  <1>5. CASE BootDone(t)
    <2>1. \A s \in Threads : Idle(s)
      BY <1>5 DEF BootDone, Idle, Same, ThreadsOK
    <2> QED
      BY <1>5, <2>1, UnwrittenPlacid DEF BootDone, Unwritten
  <1> QED
    BY <1>1, <1>2, <1>3, <1>4, <1>5

\* Time, cron and the ends of the daemon.
LEMMA EnvironmentPlacid ==
    ASSUME ThreadsOK, WorldOK,
           \/ Shutdown \/ Tick \/ UNCHANGED vars
           \/ \E t \in Threads : Lost(t) \/ Fatal(t)
           \/ \E h \in Hosts : DeadmanFires(h)
    PROVE  Placid
  <1>1. CASE Shutdown
    <2>1. StopDaemon /\ UNCHANGED <<store, deadman>>
      BY <1>1 DEF Shutdown
    <2> QED
      BY <2>1, StopIdle, UnwrittenPlacid DEF Unwritten
  <1>2. CASE Tick \/ UNCHANGED vars
    <2>1. UNCHANGED <<store, deadman, pc, job>>
      BY <1>2 DEF Tick, vars
    <2> QED
      BY <2>1, UnwrittenPlacid DEF Unwritten, Idle, Same
  <1>3. ASSUME NEW t \in Threads, Lost(t) \/ Fatal(t)
        PROVE  Placid
    <2>1. /\ UNCHANGED <<store, deadman>>
          /\ StopDaemon \/ \E label \in {"idle", "dead"} : Call(t, label, NoJob)
      BY <1>3 DEF Lost, Fatal
    <2>2. \A s \in Threads : Idle(s)
      BY <2>1, StopIdle, CallIdle
    <2> QED
      BY <2>1, <2>2, UnwrittenPlacid DEF Unwritten
  <1>4. ASSUME NEW h \in Hosts, DeadmanFires(h)
        PROVE  Placid
    <2>1. UNCHANGED <<store, pc, job>> /\ DisarmStopped(h)
      BY <1>4 DEF DeadmanFires, DisarmStopped
    <2>2. \A k \in Hosts : DeadmanKept(k)
      BY <2>1, DisarmLeaves DEF DeadmanKept
    <2> QED
      BY <2>1, <2>2 DEF Placid, GrantKept, Idle, Same
  <1> QED
    BY <1>1, <1>2, <1>3, <1>4

\* The commit of Open and of a renewal: neither writes a dead-man.
LEMMA ExtendPlacid ==
    ASSUME ThreadsOK, WorldOK, ReturnsOK, NEW t \in Threads, FinishOpening(t) \/ CommitRenewal(t)
    PROVE  Placid
  <1>h. PICK h \in Hosts : h = job[t].host
    BY JobFields
  <1>1. CASE FinishOpening(t)
    <2>1. \A s \in Threads : Idle(s)
      BY <1>1, ReturnIdle, PanicIdle DEF FinishOpening
    <2>2. UNCHANGED deadman /\ (UNCHANGED store \/ Commit(h, FinishOpen(store[h])))
      BY <1>h, <1>1 DEF FinishOpening
    <2>3. FinishOpen(store[h]).state = "open"
      BY DEF FinishOpen, OpenGrant
    <2> QED
      BY <2>1, <2>2, <2>3, CommitPlacid, UnwrittenPlacid DEF Unwritten
  <1>2. CASE CommitRenewal(t)
    <2>1. \A s \in Threads : Idle(s)
      BY <1>2, ReturnIdle DEF CommitRenewal
    <2>2. /\ UNCHANGED deadman
          /\ UNCHANGED store \/ Commit(h, Renew(store[h], job[t].now, job[t].ttl))
      BY <1>h, <1>2 DEF CommitRenewal
    <2>3. Renew(store[h], job[t].now, job[t].ttl).state = "open"
      BY DEF Renew, OpenGrant
    <2> QED
      BY <2>1, <2>2, <2>3, CommitPlacid, UnwrittenPlacid DEF Unwritten
  <1> QED
    BY <1>1, <1>2

(***************************************************************************)
(* The steps that write a dead-man or take up a renewal or an open.         *)
(***************************************************************************)
\* A renewal arrives, with its deadline.
LEMMA RenewRequestKeeps ==
    ASSUME Start, NEW t \in Listeners, NEW h \in Hosts, NEW ttl \in Ttls, RenewRequest(t, h, ttl)
    PROVE  DeadlineInv'
  <1>0. ThreadsOK /\ WorldOK /\ t \in Threads
    BY TypeParts DEF Start, Threads, Daemon
  <1>1. PICK j : j = [Begin(h) EXCEPT !.ttl = ttl, !.expires = clock + ttl]
    OBVIOUS
  <1>2. /\ Call(t, IF h \in SshHosts THEN "reschedule" ELSE "renew-channels", j)
        /\ UNCHANGED <<store, deadman>>
    BY <1>1 DEF RenewRequest
  <1>3. j.host = h /\ j.expires = j.now + j.ttl
    <2>1. Begin(h) \in Jobs /\ Begin(h).host = h /\ Begin(h).now = clock
      BY <1>0, BeginType DEF Begin, NoJob
    <2> QED
      BY <1>1, <2>1 DEF Jobs
  <1>4. /\ pc'[t] = IF h \in SshHosts THEN "reschedule" ELSE "renew-channels"
        /\ job'[t] = j /\ \A s \in Threads \ {t} : Same(s)
    BY <1>0, <1>2, CallMoves
  <1>5. DeadlineOK(t)' /\ \A k \in Hosts : OpenerOK(t, k)'
    BY <1>3, <1>4 DEF DeadlineOK, Guards, OpenerOK, Drives
  <1>6. \A k \in Hosts : GrantKept(k) /\ Rewritten(t, k)
    BY <1>2 DEF GrantKept, Rewritten, DeadmanKept
  <1> QED
    BY <1>0, <1>4, <1>5, <1>6, GuardStep DEF Idle

\* The reschedule goes through, or the renewal is refused.
LEMMA RescheduleKeeps ==
    ASSUME Start, NEW t \in Threads, RescheduleDeadman(t)
    PROVE  DeadlineInv'
  <1>h. PICK h \in Hosts : h = job[t].host
    BY TypeParts, JobFields DEF Start
  <1>0. /\ ThreadsOK /\ WorldOK /\ ReturnsOK /\ DeadlineOK(t) /\ pc[t] = "reschedule"
        /\ UNCHANGED store /\ ArmStopped(t, h)
    BY <1>h, TypeParts, ArmIsStop DEF Start, AccessInv, DeadlineInv, RescheduleDeadman
  <1>1. \A k \in Hosts : GrantKept(k) /\ Rewritten(t, k)
    BY <1>0, ArmLeaves DEF GrantKept, Rewritten, DeadmanKept
  <1>2. CASE Return(t)
    <2>1. pc'[t] \notin Guarding /\ \A s \in Threads \ {t} : Same(s)
      BY <1>0, <1>2 DEF Return, Same, ThreadsOK, ReturnsOK
    <2> QED
      BY <1>1, <2>1, OutsideOK, GuardStep DEF Idle
  <1>3. CASE Arm(t, h) /\ Goto(t, "renew-channels") /\ UNCHANGED job
    <2>1. /\ pc'[t] = "renew-channels" /\ job'[t] = job[t] /\ \A s \in Threads \ {t} : Same(s)
      BY <1>0, <1>3, GotoMoves
    <2>2. Armed(h)' /\ deadman'[h].at = job[t].expires
      BY <1>0, <1>3, ArmLeaves
    <2>3. DeadlineOK(t)' /\ \A k \in Hosts : OpenerOK(t, k)'
      BY <1>h, <1>0, <2>1, <2>2 DEF DeadlineOK, OpenerOK, Drives
    <2> QED
      BY <1>1, <2>1, <2>3, GuardStep DEF Idle
  <1> QED
    BY <1>h, <1>2, <1>3 DEF RescheduleDeadman

\* The channels are told the new deadline.
LEMMA RenewChannelsKeeps ==
    ASSUME Start, NEW t \in Threads, RenewChannels(t)
    PROVE  DeadlineInv'
  <1>h. PICK h \in Hosts : h = job[t].host
    BY TypeParts, JobFields DEF Start
  <1>0. /\ ThreadsOK /\ ReturnsOK /\ DeadlineOK(t) /\ pc[t] = "renew-channels"
        /\ UNCHANGED <<store, deadman>>
    BY TypeParts DEF Start, AccessInv, DeadlineInv, RenewChannels, At
  <1>1. CASE Return(t)
    BY <1>0, <1>1, ReturnIdle, UnwrittenPlacid, PlacidStep DEF Unwritten
  <1>2. CASE Goto(t, "renew") /\ UNCHANGED job
    <2>1. pc'[t] = "renew" /\ job'[t] = job[t] /\ \A s \in Threads \ {t} : Same(s)
      BY <1>0, <1>2, GotoMoves
    <2>2. Guards(t)' => Guards(t)
      BY <1>0, <2>1 DEF Guards
    <2>3. Armed(h)' <=> Armed(h)
      BY <1>0 DEF Armed
    <2>4. DeadlineOK(t)'
      BY <1>h, <1>0, <2>1, <2>2, <2>3 DEF DeadlineOK
    <2>5. \A k \in Hosts : OpenerOK(t, k)' /\ GrantKept(k) /\ Rewritten(t, k)
      BY <1>0, <2>1 DEF OpenerOK, Drives, GrantKept, Rewritten, DeadmanKept
    <2> QED
      BY <2>1, <2>4, <2>5, GuardStep DEF Idle
  <1> QED
    BY <1>1, <1>2 DEF RenewChannels

\* The claim writes the expiry it then carries.
LEMMA ClaimKeepsGuard ==
    ASSUME Start, NEW t \in Threads, Claim(t)
    PROVE  DeadlineInv'
  <1>h. PICK h \in Hosts : h = job[t].host
    BY TypeParts, JobFields DEF Start
  <1>0. ThreadsOK /\ WorldOK /\ ReturnsOK /\ job[t] \in Jobs /\ UNCHANGED deadman
    BY TypeParts, JobFields DEF Start, AccessInv, Claim
  <1>1. CASE ~CanApprove(store[h], job[t].now)
    BY <1>h, <1>0, <1>1, ReturnIdle, UnwrittenPlacid, PlacidStep DEF Claim, Unwritten
  <1>2. CASE CanApprove(store[h], job[t].now)
    <2> DEFINE j == [job[t] EXCEPT !.nonce = nonces[h], !.channels = Drivable(h),
                                   !.expires = job[t].now + store[h].ttl]
               g == ApproveToOpening(store[h], job[t].now, Drivable(h))
    <2>1. Commit(h, g) /\ Call(t, "apply", j) /\ store[h].state = "pending"
      BY <1>h, <1>2 DEF Claim, CanApprove, AwaitingApproval
    <2>2. j.host = h /\ j.expires = job[t].now + store[h].ttl
      BY <1>h, <1>0 DEF Jobs
    <2>3. g.expires_at = job[t].now + store[h].ttl
      BY DEF ApproveToOpening, Opening
    <2> HIDE DEF g, j
    <2>4. store'[h] = g /\ \A k \in Hosts \ {h} : store'[k] = store[k]
      BY <1>0, <2>1 DEF Commit, WorldOK
    <2>5. pc'[t] = "apply" /\ job'[t] = j /\ \A s \in Threads \ {t} : Same(s)
      BY <1>0, <2>1, CallMoves
    <2>6. DeadlineOK(t)' /\ \A k \in Hosts : OpenerOK(t, k)'
      BY <2>2, <2>3, <2>4, <2>5 DEF DeadlineOK, OpenerOK, Drives
    <2>7. \A k \in Hosts : GrantKept(k) /\ Rewritten(t, k)
      BY <1>0, <2>1, <2>4 DEF GrantKept, Rewritten, DeadmanKept
    <2> QED
      BY <2>5, <2>6, <2>7, GuardStep DEF Idle
  <1> QED
    BY <1>1, <1>2

\* A driver's step that leaves the grant at Opening.
LEMMA DriverKeepsGuard ==
    ASSUME Start, NEW t \in Threads, NEW h \in Hosts, Drives(t, h), UNCHANGED store,
           \A s \in Threads \ {t} : Same(s), \A k \in Hosts : Rewritten(t, k),
           job'[t] = job[t] \/ \E stuck : job'[t] = [job[t] EXCEPT !.stuck = stuck],
           pc'[t] \in Driving \ {"apply"},
           pc'[t] = "finish-open" /\ WantsDeadman(h, job[t].channels) =>
              Armed(h)' /\ deadman'[h].at = job[t].expires
    PROVE  DeadlineInv'
  <1>0. job[t] \in Jobs /\ job[t].host = h
    BY TypeParts, JobFields DEF Start, Drives
  <1>1. /\ job'[t].host = h /\ job'[t].channels = job[t].channels
        /\ job'[t].expires = job[t].expires
    BY <1>0 DEF Jobs
  <1>2. DeadlineOK(t)'
    <2>1. Guards(t)' /\ pc'[t] = "finish-open" => WantsDeadman(h, job[t].channels)
      BY <1>1 DEF Guards, WantsDeadman
    <2> QED
      BY <1>1, <2>1 DEF DeadlineOK
  <1>3. ASSUME NEW k \in Hosts \ crossed' PROVE OpenerOK(t, k)'
    <2>1. CASE k = h
      BY <1>1, <2>1 DEF Start, DeadlineInv, OpenerOK
    <2>2. CASE k # h
      BY <1>1, <2>2 DEF OpenerOK, Drives
    <2> QED
      BY <2>1, <2>2
  <1>4. \A k \in Hosts : GrantKept(k)
    BY DEF GrantKept
  <1> QED
    BY <1>2, <1>3, <1>4, GuardStep DEF Idle

\* drive_open up to its commit: where a dead-man is wanted, the install arms it
\* for the grant's own expiry.
LEMMA OpenKeepsGuard ==
    ASSUME Start, NEW t \in Threads, ApplyChannels(t) \/ InstallDeadman(t) \/ UnwindApplied(t)
    PROVE  DeadlineInv'
  <1>h. PICK h \in Hosts : h = job[t].host
    BY TypeParts, JobFields DEF Start
  <1>0. ThreadsOK /\ WorldOK
    BY TypeParts DEF Start
  <1>1. Drives(t, h) /\ UNCHANGED store
    BY <1>h DEF ApplyChannels, InstallDeadman, UnwindApplied, Drives
  <1>2. UNCHANGED deadman => \A k \in Hosts : Rewritten(t, k)
    BY DEF Rewritten, DeadmanKept
  <1>3. ASSUME \E stuck : Call(t, "unwind-open", [job[t] EXCEPT !.stuck = stuck]),
               UNCHANGED deadman
        PROVE  DeadlineInv'
    <2>1. PICK stuck : Call(t, "unwind-open", [job[t] EXCEPT !.stuck = stuck])
      BY <1>3
    <2>2. /\ pc'[t] = "unwind-open" /\ job'[t] = [job[t] EXCEPT !.stuck = stuck]
          /\ \A s \in Threads \ {t} : Same(s)
      BY <1>0, <2>1, CallMoves
    <2> QED
      BY <1>1, <1>2, <1>3, <2>2, DriverKeepsGuard
  <1>4. CASE ApplyChannels(t)
    <2>0. UNCHANGED deadman
      BY <1>4 DEF ApplyChannels
    <2>1. CASE /\ Goto(t, IF WantsDeadman(h, job[t].channels) THEN "install" ELSE "finish-open")
               /\ UNCHANGED job
      <3>1. /\ pc'[t] = IF WantsDeadman(h, job[t].channels) THEN "install" ELSE "finish-open"
            /\ job'[t] = job[t] /\ \A s \in Threads \ {t} : Same(s)
        BY <1>0, <2>1, GotoMoves
      <3> QED
        BY <1>1, <1>2, <2>0, <3>1, DriverKeepsGuard
    <2> QED
      BY <1>h, <1>3, <1>4, <2>0, <2>1 DEF ApplyChannels
  <1>5. CASE InstallDeadman(t)
    <2>1. /\ UNCHANGED job /\ ArmStopped(t, h)
          /\ (Arm(t, h) /\ Goto(t, "finish-open")) \/ Goto(t, "unwind")
      BY <1>h, <1>5, ArmIsStop DEF InstallDeadman
    <2>2. /\ pc'[t] \in {"finish-open", "unwind"} /\ job'[t] = job[t]
          /\ pc'[t] = "finish-open" => Arm(t, h)
          /\ \A s \in Threads \ {t} : Same(s)
      <3>1. CASE Arm(t, h) /\ Goto(t, "finish-open")
        BY <1>0, <2>1, <3>1, GotoMoves
      <3>2. CASE Goto(t, "unwind")
        <4>1. pc'[t] = "unwind" /\ job'[t] = job[t] /\ \A s \in Threads \ {t} : Same(s)
          BY <1>0, <2>1, <3>2, GotoMoves
        <4> QED
          BY <4>1
      <3> QED
        BY <2>1, <3>1, <3>2
    <2>3. \A k \in Hosts : Rewritten(t, k)
      BY <1>0, <2>1, ArmLeaves DEF Rewritten, DeadmanKept
    <2>4. pc'[t] = "finish-open" => Armed(h)' /\ deadman'[h].at = job[t].expires
      BY <1>0, <2>1, <2>2, ArmLeaves
    <2> QED
      BY <1>1, <2>2, <2>3, <2>4, DriverKeepsGuard
  <1>6. CASE UnwindApplied(t)
    BY <1>3, <1>6 DEF UnwindApplied
  <1> QED
    BY <1>4, <1>5, <1>6

\* A crash stops the thread whose write it cuts.
LEMMA CrashKeepsGuard ==
    ASSUME Start, Crash
    PROVE  DeadlineInv'
  <1>0. /\ ThreadsOK /\ WorldOK /\ StopDaemon /\ UNCHANGED store
        /\ \A s \in Threads : Idle(s) /\ \A k \in Hosts : GrantKept(k)
    BY TypeParts, StopIdle DEF Start, Crash, GrantKept
  <1>1. CASE UNCHANGED deadman
    BY <1>0, <1>1, UnwrittenPlacid, PlacidStep DEF Unwritten
  <1>2. ASSUME NEW t \in Daemon, CutShort(t), ~UNCHANGED deadman
        PROVE  DeadlineInv'
    <2>0. t \in Threads /\ pc'[t] \notin Guarding
      BY <1>0 DEF Threads, StopDaemon
    <2>h. PICK h \in Hosts : h = job[t].host
      BY <1>0, <2>0, JobFields
    <2>1. ArmStopped(t, h) \/ DisarmStopped(h)
      BY <1>2, <2>h DEF CutShort
    <2>2. \A k \in Hosts : Rewritten(t, k)
      BY <1>0, <2>0, <2>1, ArmLeaves, DisarmLeaves DEF Rewritten, DeadmanKept
    <2> QED
      BY <1>0, <2>0, <2>2, OutsideOK, GuardStep
  <1> QED
    BY <1>1, <1>2 DEF Crash

(***************************************************************************)
(* The theorem.                                                             *)
(***************************************************************************)
LEMMA StepDeadline ==
    ASSUME TypeOK, TypeOK', AccessInv, AccessInv', RequestInv, DeadlineInv, [Next]_vars
    PROVE  DeadlineInv'
  <1>0. ThreadsOK /\ WorldOK /\ ReturnsOK
    BY TypeParts DEF AccessInv
  <1>1. Start
    BY <1>0, StepRequests DEF Start, Tidy
  <1>2. ASSUME NEW t \in Listeners, NEW h \in Hosts, Request(t, h)
        PROVE  DeadlineInv'
    <2>1. t \in Threads
      BY DEF Threads, Daemon
    <2> QED
      BY <1>0, <1>1, <1>2, <2>1, RequestPlacid, PlacidStep, RenewRequestKeeps DEF Request
  <1>3. ASSUME NEW t \in Threads, Continue(t)
        PROVE  DeadlineInv'
    BY <1>0, <1>1, <1>3, PlacidStep, ProvePlacid, ClosePlacid, PassPlacid, BootPlacid,
       EnvironmentPlacid, ExtendPlacid, RescheduleKeeps, RenewChannelsKeeps,
       ClaimKeepsGuard, OpenKeepsGuard DEF Continue
  <1>4. ASSUME NEW t \in {Main} \union Once, BootDemote(t)
        PROVE  DeadlineInv'
    BY <1>0, <1>1, <1>4, PlacidStep, BootPlacid DEF Threads, Daemon
  <1>5. CASE \/ Shutdown \/ Tick \/ (\E t \in Threads : Lost(t))
             \/ (\E h \in Hosts : DeadmanFires(h)) \/ UNCHANGED vars
    BY <1>0, <1>1, <1>5, PlacidStep, EnvironmentPlacid
  <1> QED
    BY <1>1, <1>2, <1>3, <1>4, <1>5, CrashKeepsGuard DEF Next

LEMMA InitDeadline == Init => DeadlineInv
  <1> SUFFICES ASSUME Init PROVE DeadlineInv
    OBVIOUS
  <1>1. \A t \in Threads : pc[t] \in {"idle", "down"}
    BY DEF Init
  <1>2. \A h \in Hosts : deadman[h] = NoDeadman
    BY DEF Init
  <1> QED
    BY <1>1, <1>2 DEF DeadlineInv, DeadlineOK, NobodysOK, OpenerOK, Drives

\* A dead-man that is wanted is there, and if nobody but t has written it then
\* it is of t's deadline.
LEMMA OwnDeadline ==
    ASSUME TypeOK, DeadlineInv, NEW t \in Threads, NEW h \in Hosts, h = job[t].host,
           pc[t] \in Past, Guards(t), Standing(h), deadman[h].by \subseteq {t}
    PROVE  Armed(h) /\ deadman[h].at = job[t].expires
  <1>1. deadman[h].by # {}
    <2>1. NobodysOK(h)
      BY DEF DeadlineInv
    <2>2. deadman[h] # NoDeadman
      BY DEF Standing, Armed, NoDeadman
    <2> QED
      BY <2>1, <2>2 DEF NobodysOK
  <1>2. deadman[h].by = {t}
    BY <1>1
  <1> QED
    BY <1>2 DEF DeadlineInv, DeadlineOK

\* A thread leaves "finish-open" or "renew" with its grant written only by the
\* commit of an open or of a renewal.
LEMMA ExtendsIs ==
    ASSUME ThreadsOK, WorldOK, [Next]_vars, NEW t \in Threads, NEW h \in Hosts, Extends(t, h)
    PROVE  FinishOpening(t) \/ CommitRenewal(t)
  <1>0. /\ pc[t] \in {"finish-open", "renew"} /\ pc'[t] # pc[t] /\ ~UNCHANGED store
    BY DEF Extends
  <1>1. ASSUME NEW s \in Threads, NEW label, Goto(s, label), s # t
        PROVE  FALSE
    BY <1>0, <1>1 DEF Goto, ThreadsOK
  <1>2. ASSUME NEW s \in Threads, Return(s), s # t
        PROVE  FALSE
    BY <1>0, <1>2 DEF Return, ThreadsOK
  <1>3. ASSUME NEW s \in Listeners, NEW k \in Hosts, Request(s, k)
        PROVE  FALSE
    <2>1. UNCHANGED store \/ UNCHANGED pc
      BY <1>3 DEF Request, OpenRequest, Approve, McpApprove, Close, RenewRequest, Drill
    <2> QED
      BY <1>0, <2>1
  <1>4. ASSUME NEW s \in Threads, Continue(s)
        PROVE  \/ Prove(s) \/ Claim(s) \/ FinishOpening(s) \/ UnwindOpening(s) \/ CancelPending(s)
               \/ BeginReverting(s) \/ FinishReverting(s) \/ RetainStuck(s) \/ CommitRenewal(s)
               \/ BeginDrill(s) \/ PassReap(s) \/ BootRetract(s)
    BY <1>0, <1>4 DEF Continue, ApproveGated, EvaluateProofs, ApplyChannels, InstallDeadman,
       UnwindApplied, CloseDrill, RevertChannels, RemoveDeadman, JournalClose,
       RescheduleDeadman, RenewChannels, PassList, PassRevert, PassAwaiting, PassWait, BootList,
       BootReestablish, BootDone, Fatal
  <1>5. ASSUME NEW s \in Threads, Continue(s), s # t
        PROVE  FALSE
    <2>1. CASE Prove(s) \/ Claim(s) \/ BeginReverting(s) \/ BeginDrill(s) \/ PassReap(s)
      BY <1>0, <1>1, <1>2, <1>5, <2>1
         DEF Prove, Claim, BeginReverting, BeginDrill, PassReap, Call
    <2>2. CASE FinishOpening(s) \/ UnwindOpening(s) \/ CancelPending(s) \/ BootRetract(s)
      BY <1>0, <1>1, <1>2, <1>5, <2>2
         DEF FinishOpening, UnwindOpening, CancelPending, BootRetract
    <2>3. CASE FinishReverting(s) \/ RetainStuck(s) \/ CommitRenewal(s)
      BY <1>0, <1>1, <1>2, <1>5, <2>3 DEF FinishReverting, RetainStuck, CommitRenewal
    <2> QED
      BY <1>4, <1>5, <2>1, <2>2, <2>3
  <1>6. ASSUME Continue(t)
        PROVE  FinishOpening(t) \/ CommitRenewal(t)
    <2>1. ~PassReap(t)
      BY <1>0 DEF PassReap, At
    <2> QED
      BY <1>0, <1>4, <1>6, <2>1 DEF Prove, Claim, UnwindOpening, CancelPending, BeginReverting,
         FinishReverting, RetainStuck, BeginDrill, BootRetract, At
  <1>7. ASSUME NEW s \in {Main} \union Once, BootDemote(s)
        PROVE  FALSE
    <2>1. s \in Threads /\ Goto(s, "boot-list") /\ pc[s] \in {"down", "idle"}
      BY <1>7 DEF BootDemote, Call, Threads, Daemon
    <2> QED
      BY <1>0, <1>1, <2>1
  <1> QED
    BY <1>0, <1>3, <1>5, <1>6, <1>7
       DEF Next, vars, Crash, Lost, Shutdown, Tick, DeadmanFires

\* renew reschedules the dead-man before it commits the new expiry, and drive_open
\* installs it for the grant's own: whatever fails, crashes, expires, fires or is
\* reverted in between, what is committed ends no later than the whole dead-man
\* that is in place then.  The one exemption is a dead-man that another thread
\* wrote after this one (MCLifecycle_renew_race shows that it is needed).
THEOREM CommitsUnderBackstop == Spec => OpensUnderBackstop
  <1>1. Init => DeadlineInv
    BY InitDeadline
  <1>2. TypeOK /\ TypeOK' /\ AccessInv /\ AccessInv' /\ RequestInv /\ DeadlineInv
          /\ [Next]_vars => DeadlineInv'
    BY StepDeadline
  <1>3. ASSUME TypeOK, TypeOK', ReturnsOK, AccessInv, RequestInv, DeadlineInv, [Next]_vars,
               NEW t \in Threads, NEW h \in Hosts, Extends(t, h), deadman[h].by \subseteq {t}
        PROVE  Covered(h)
    <2>0. /\ ThreadsOK /\ WorldOK /\ job[t].host = h /\ WantsDeadman(h, applied[h])
          /\ store'[h] # store[h] /\ job[t].expires \in Nat
      BY <1>3, TypeParts, JobFields DEF Extends
    <2>1. h \notin crossed
      BY <1>3, StepRequests DEF Extends, Tidy
    <2>2. HostOK(h)
      BY <1>3, <2>1 DEF AccessInv
    <2>3. CASE FinishOpening(t)
      <3>1. pc[t] = "finish-open" /\ Drives(t, h)
        BY <2>0, <2>3 DEF FinishOpening, At, Drives
      <3>2. Standing(h) /\ MidOpen(store[h]) /\ store[h].channels = job[t].channels
        BY <2>0, <2>2, <3>1 DEF HostOK, ThreadOK, DriverOK
      <3>3. applied[h] \subseteq job[t].channels
        BY <2>2, <3>2 DEF HostOK, RecordOK, Recorded, MidOpen
      <3>4. Guards(t)
        BY <2>0, <3>3 DEF Guards, WantsDeadman
      <3>5. Armed(h) /\ deadman[h].at = job[t].expires
        BY <1>3, <2>0, <3>1, <3>2, <3>4, OwnDeadline
      <3>6. store'[h].expires_at = store[h].expires_at
        BY <2>0, <2>3, <3>2 DEF FinishOpening, Commit, WorldOK, FinishOpen, OpenGrant
      <3>7. store[h].expires_at = job[t].expires
        BY <1>3, <2>1, <3>1 DEF DeadlineInv, OpenerOK
      <3> QED
        BY <2>0, <3>5, <3>6, <3>7 DEF Covered
    <2>4. CASE CommitRenewal(t)
      <3>1. /\ pc[t] = "renew" /\ Commit(h, Renew(store[h], job[t].now, job[t].ttl))
            /\ store[h].state = "open"
        BY <2>0, <2>4 DEF CommitRenewal, At, CanRenew, IsOpen
      <3>2. Standing(h)
        BY <2>0, <2>2, <3>1 DEF HostOK, RecordOK
      <3>3. Guards(t)
        BY <2>0, <3>1 DEF Guards, WantsDeadman
      <3>4. Armed(h) /\ deadman[h].at = job[t].expires
        BY <1>3, <2>0, <3>1, <3>2, <3>3, OwnDeadline
      <3>5. store'[h].expires_at = job[t].now + job[t].ttl
        BY <2>0, <3>1 DEF Commit, WorldOK, Renew, OpenGrant
      <3>6. job[t].expires = job[t].now + job[t].ttl
        BY <1>3, <3>1 DEF DeadlineInv, DeadlineOK
      <3> QED
        BY <2>0, <3>4, <3>5, <3>6 DEF Covered
    <2> QED
      BY <1>3, <2>0, <2>3, <2>4, ExtendsIs
  <1>4. TypeOK /\ TypeOK' /\ ReturnsOK /\ AccessInv /\ RequestInv /\ DeadlineInv /\ [Next]_vars =>
          [\A t \in Threads, h \in Hosts :
              Extends(t, h) /\ deadman[h].by \subseteq {t} => Covered(h)]_vars
    BY <1>3
  <1> QED
    BY <1>1, <1>2, <1>4, AccessInvariant, RequestInvariant, PTL DEF Spec, OpensUnderBackstop
=============================================================================
