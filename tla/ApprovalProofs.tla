--------------------------- MODULE ApprovalProofs ---------------------------
(***************************************************************************)
(* The two ledgers of approve: for any number of threads, hosts, secrets    *)
(* and crashes a TOTP counter is honoured once, and the counter of a FIDO2  *)
(* credential only goes up.                                                 *)
(***************************************************************************)
EXTENDS Approval, WellFoundedInduction, TLAPS

(***************************************************************************)
(* The inductive invariant.                                                 *)
(***************************************************************************)
\* The locals of a thread that verifies: its instant is at most MaxLag old, and
\* a FIDO2 token names a credential and a counter.
Verifier(j) ==
    /\ j.now \in 0 .. clock
    /\ clock <= j.now + MaxLag
    /\ j.token.shape = "fido2" => j.token.by \in OfKind("fido2") /\ j.token.counter \in FidoCounters

\* What a ledger may let pass.
Honoured == [id : Authenticators, counter : Int]

Base ==
    /\ clock \in Nat
    /\ pc = [t \in Threads |-> pc[t]] /\ job = [t \in Threads |-> job[t]]
    /\ \A t \in Threads : pc[t] = "verify" => Verifier(job[t])
    /\ accepted \in Seq(Honoured)
    /\ marks \in [OfKind("fido2") -> Nat]

\* When the step of counter c begins.
StepStart(c) == c * STEP_SECS

\* An entry of the ledger was written no earlier than one step before the step
\* its counter names.
EntriesOK ==
    \A e \in spent : e.at \in Nat /\ e.counter \in Int /\ StepStart(e.counter - 1) <= e.at

\* The window of no thread, now or later, reaches back to counter c.
OutOfReach(c) == StepStart(c + 2) + MaxLag <= clock

\* What was honoured is in the ledger until it is out of everyone's reach.
LedgerCovers ==
    \A i \in 1 .. Len(accepted) : accepted[i].id \in OfKind("totp") =>
        \/ OutOfReach(accepted[i].counter)
        \/ \E e \in spent : e.authenticator = accepted[i].id /\ e.counter = accepted[i].counter

\* The mark of a credential is at least every counter it was honoured with.
MarksCover ==
    \A i \in 1 .. Len(accepted) : accepted[i].id \in OfKind("fido2") =>
        accepted[i].counter <= marks[accepted[i].id]

IInv == Base /\ EntriesOK /\ LedgerCovers /\ MarksCover /\ SpentOnce /\ CountersAdvance

(***************************************************************************)
(* Arithmetic.                                                              *)
(***************************************************************************)
\* An instant lies in its step.
LEMMA StepBounds ==
    ASSUME NEW n \in Nat
    PROVE  /\ counter_at(n) \in Nat
           /\ StepStart(counter_at(n)) <= n
           /\ n < StepStart(counter_at(n) + 1)
  BY ApprovalAssumption DEF counter_at, StepStart

\* Later counters start later.
LEMMA StepsAscend ==
    ASSUME NEW c \in Int, NEW d \in Int, c <= d
    PROVE  StepStart(c) <= StepStart(d)
  <1>1. d - c \in Nat /\ STEP_SECS \in Nat
    BY ApprovalAssumption
  <1>2. (d - c) * STEP_SECS \in Nat
    BY <1>1
  <1>3. (d - c) * STEP_SECS = d * STEP_SECS - c * STEP_SECS
    BY <1>1
  <1> QED
    BY <1>1, <1>2, <1>3 DEF StepStart

\* A step begins at some instant.
LEMMA StepStartType ==
    ASSUME NEW c \in Int
    PROVE  StepStart(c) \in Int
  BY ApprovalAssumption DEF StepStart

\* Three steps lie between the start of the earliest and the end of the latest
\* step at which a counter is accepted.
LEMMA ThreeSteps ==
    ASSUME NEW c \in Int
    PROVE  /\ StepStart(c + 2) \in Int /\ StepStart(c - 1) \in Int
           /\ StepStart(c + 2) = StepStart(c - 1) + 3 * STEP_SECS
  <1>1. STEP_SECS \in Int
    BY ApprovalAssumption
  <1> QED
    BY <1>1 DEF StepStart

\* A nonempty set of naturals has a least element, which Min picks.
LEMMA MinIsMember ==
    ASSUME NEW S \in SUBSET Nat, S # {}
    PROVE  Min(S) \in S
  <1> DEFINE R == {ss \in Nat \X Nat : ss[1] < ss[2]}
  <1>1. IsWellFoundedOn(R, Nat)
    BY NatLessThanWellFounded, Zenon DEF OpToRel
  <1>2. PICK x \in S : \A y \in S : ~(<<y, x>> \in R)
    BY <1>1, WFMin, Zenon
  <1>3. ASSUME NEW y \in S PROVE x <= y
    <2>1. x \in Nat /\ y \in Nat /\ <<y, x>> \notin R
      BY <1>2, Zenon
    <2>2. ~(y < x)
      BY <2>1
    <2> QED
      BY <2>1, <2>2
  <1> QED
    BY <1>3 DEF Min

\* A nonempty part of a window of three has a greatest element.
LEMMA WindowMax ==
    ASSUME NEW k \in Nat, NEW M \in SUBSET ((k - 1) .. (k + 1)), M # {}
    PROVE  \E x \in M : \A y \in M : x >= y
  <1>1. \A y \in M : y \in Int /\ (y = k - 1 \/ y = k \/ y = k + 1)
    OBVIOUS
  <1>2. CASE k + 1 \in M
    BY <1>1, <1>2
  <1>3. CASE k + 1 \notin M /\ k \in M
    BY <1>1, <1>3
  <1>4. CASE k + 1 \notin M /\ k \notin M
    <2>1. PICK x \in M : TRUE
      OBVIOUS
    <2>2. \A y \in M : y = x /\ y \in Int
      BY <1>1, <1>4
    <2> QED
      BY <2>2
  <1> QED
    BY <1>2, <1>3, <1>4

\* A code that matches, matches a TOTP secret at a counter of the window.
LEMMA TotpHit ==
    ASSUME NEW code, NEW now \in Nat, Totp(code, now).id # Nobody
    PROVE  /\ Totp(code, now).id \in OfKind("totp")
           /\ Totp(code, now).counter \in Int
           /\ counter_at(now) - 1 <= Totp(code, now).counter
           /\ Totp(code, now).counter <= counter_at(now) + 1
  <1> DEFINE I == {i \in 1 .. Len(TotpSecrets) : Matching(TotpSecrets[i], code, now) # {}}
             first == SelectInSeq(TotpSecrets, LAMBDA id : Matching(id, code, now) # {})
             M == Matching(TotpSecrets[first], code, now)
  <1>1. first = IF I # {} THEN Min(I) ELSE 0
    BY DEF SelectInSeq
  <1>2. first # 0
    BY DEF Totp
  <1>3. first \in I
    <2>1. I \in SUBSET Nat
      OBVIOUS
    <2> QED
      BY <1>1, <1>2, <2>1, MinIsMember
  <1>4. Totp(code, now) = [id |-> TotpSecrets[first], counter |-> Max(M)]
    BY <1>2 DEF Totp
  <1>5. TotpSecrets[first] \in OfKind("totp") /\ M # {}
    <2>1. first \in 1 .. Len(TotpSecrets) /\ M # {}
      BY <1>3
    <2> HIDE DEF first
    <2>2. TotpSecrets \in Seq(OfKind("totp"))
      BY ApprovalAssumption
    <2> QED
      BY <2>1, <2>2
  <1>6. Max(M) \in M
    <2>1. counter_at(now) \in Nat
      BY StepBounds
    <2>2. M \subseteq (counter_at(now) - 1) .. (counter_at(now) + 1)
      BY DEF Matching
    <2> HIDE DEF M
    <2>3. \E x \in M : \A y \in M : x >= y
      BY <1>5, <2>1, <2>2, WindowMax
    <2> QED
      BY <2>3 DEF Max
  <1>7. Max(M) \in (counter_at(now) - 1) .. (counter_at(now) + 1)
    BY <1>6 DEF Matching
  <1> QED
    BY <1>4, <1>5, <1>7, StepBounds

(***************************************************************************)
(* The steps.                                                               *)
(***************************************************************************)
\* Threads move; the clock and the ledgers stay.
LEMMA FrameKeeps ==
    ASSUME IInv, UNCHANGED <<clock, spent, marks, accepted>>,
           pc' = [t \in Threads |-> pc'[t]], job' = [t \in Threads |-> job'[t]],
           \A t \in Threads : pc'[t] = "verify" => Verifier(job'[t])
    PROVE  IInv'
  <1>1. Base'
    BY DEF IInv, Base, Verifier
  <1>2. EntriesOK' /\ LedgerCovers' /\ MarksCover'
    BY DEF IInv, EntriesOK, LedgerCovers, MarksCover, OutOfReach
  <1>3. SpentOnce' /\ CountersAdvance'
    BY DEF IInv, SpentOnce, CountersAdvance
  <1> QED
    BY <1>1, <1>2, <1>3 DEF IInv

\* What was honoured has a counter.
LEMMA CounterType ==
    ASSUME IInv, NEW i \in 1 .. Len(accepted)
    PROVE  accepted[i].id \in Authenticators /\ accepted[i].counter \in Int
  <1>1. accepted \in Seq(Honoured)
    BY DEF IInv, Base
  <1>2. accepted[i] \in Honoured
    BY <1>1
  <1> QED
    BY <1>2 DEF Honoured

\* A thread that ends or accepts no longer verifies.
LEMMA Leaves ==
    ASSUME IInv, NEW t \in Threads, NEW id, Finish(t) \/ Accept(t, id)
    PROVE  /\ pc' = [s \in Threads |-> pc'[s]] /\ job' = [s \in Threads |-> job'[s]]
           /\ pc'[t] # "verify"
           /\ \A s \in Threads \ {t} : pc'[s] = pc[s] /\ job'[s] = job[s]
           /\ \A s \in Threads : pc'[s] = "verify" => Verifier(job'[s])
  BY DEF IInv, Base, Finish, Accept

\* A counter that is honoured at `now` was not honoured before.
LEMMA FreshCounter ==
    ASSUME IInv, NEW now \in Nat, now <= clock, clock <= now + MaxLag, NEW id \in OfKind("totp"),
           NEW c \in Int, counter_at(now) - 1 <= c, ~AlreadySpent(id, c, now)
    PROVE  \A i \in 1 .. Len(accepted) : accepted[i] # [id |-> id, counter |-> c]
  <1> SUFFICES ASSUME NEW i \in 1 .. Len(accepted), accepted[i] = [id |-> id, counter |-> c]
               PROVE  FALSE
    OBVIOUS
  <1>0. /\ clock \in Nat /\ MaxLag \in Nat /\ STEP_SECS \in Nat /\ RETAIN_SECS \in Nat
        /\ RETAIN_SECS >= 3 * STEP_SECS - 1 + MaxLag
    BY ApprovalAssumption DEF IInv, Base
  <1>1. now < StepStart(c + 2)
    <2>0. counter_at(now) \in Nat
      BY StepBounds
    <2>1. counter_at(now) + 1 <= c + 2 /\ counter_at(now) \in Nat
      BY <2>0
    <2>2. StepStart(counter_at(now) + 1) <= StepStart(c + 2)
      BY <2>1, StepsAscend
    <2>3. StepStart(counter_at(now) + 1) \in Int /\ StepStart(c + 2) \in Int
      BY <2>1, StepStartType
    <2>4. now < StepStart(counter_at(now) + 1)
      BY StepBounds
    <2> QED
      BY <2>2, <2>3, <2>4
  <1>2. accepted[i].id = id /\ accepted[i].counter = c
    OBVIOUS
  <1>3. CASE OutOfReach(c)
    <2>1. StepStart(c + 2) \in Int
      BY StepStartType
    <2> QED
      BY <1>0, <1>1, <1>3, <2>1 DEF OutOfReach
  <1>4. CASE \E e \in spent : e.authenticator = id /\ e.counter = c
    <2>1. PICK e \in spent : e.authenticator = id /\ e.counter = c
      BY <1>4
    <2>2. e.at \in Nat /\ StepStart(c - 1) <= e.at
      BY <2>1 DEF IInv, EntriesOK
    <2>3. now - e.at > RETAIN_SECS
      BY <1>0, <2>1, <2>2 DEF AlreadySpent, Retained
    <2>4. /\ StepStart(c + 2) \in Int /\ StepStart(c - 1) \in Int
          /\ StepStart(c + 2) = StepStart(c - 1) + 3 * STEP_SECS
      BY ThreeSteps
    <2> QED
      BY <1>0, <1>1, <2>2, <2>3, <2>4
  <1> QED
    BY <1>2, <1>3, <1>4 DEF IInv, LedgerCovers

\* Pruning drops an entry only when its counter is out of reach.
LEMMA PruningKeepsCover ==
    ASSUME IInv, NEW now \in Nat, now <= clock, NEW e \in spent, e.counter \in Int
    PROVE  OutOfReach(e.counter) \/ e \in Retained(now)
  <1> DEFINE c == e.counter
  <1>0. /\ clock \in Nat /\ MaxLag \in Nat /\ STEP_SECS \in Nat /\ RETAIN_SECS \in Nat
        /\ RETAIN_SECS >= 3 * STEP_SECS - 1 + MaxLag
    BY ApprovalAssumption DEF IInv, Base
  <1> SUFFICES ASSUME e \notin Retained(now)
               PROVE  OutOfReach(c)
    OBVIOUS
  <1>1. e.at \in Nat /\ StepStart(c - 1) <= e.at
    BY DEF IInv, EntriesOK
  <1>2. now - e.at > RETAIN_SECS
    BY <1>0, <1>1 DEF Retained
  <1>3. /\ StepStart(c + 2) \in Int /\ StepStart(c - 1) \in Int
          /\ StepStart(c + 2) = StepStart(c - 1) + 3 * STEP_SECS
    BY ThreeSteps
  <1> QED
    BY <1>0, <1>1, <1>2, <1>3 DEF OutOfReach

\* consume: a code is honoured, or refused with the ledger pruned.
LEMMA TotpKeeps ==
    ASSUME IInv, NEW t \in Threads, VerifyTotp(t)
    PROVE  IInv'
  <1> DEFINE now == job[t].now
             hit == Totp(job[t].token.code, now)
             entry == [authenticator |-> hit.id, counter |-> hit.counter, at |-> now]
             new == [id |-> hit.id, counter |-> hit.counter]
  <1>0. /\ now \in Nat /\ now <= clock /\ clock <= now + MaxLag /\ clock \in Nat
        /\ UNCHANGED <<clock, marks>>
    BY DEF IInv, Base, Verifier, VerifyTotp, Verifying
  <1>1. CASE hit.id = Nobody
    <2>1. Finish(t) /\ UNCHANGED <<spent, accepted>>
      BY <1>1 DEF VerifyTotp
    <2> QED
      BY <1>0, <2>1, Leaves, FrameKeeps
  <1>2. CASE hit.id # Nobody
    <2>0. /\ hit.id \in OfKind("totp") /\ hit.counter \in Int
          /\ counter_at(now) - 1 <= hit.counter /\ hit.counter <= counter_at(now) + 1
      BY <1>0, <1>2, TotpHit
    <2> HIDE DEF hit, now
    <2>1. /\ spent' \in {Retained(now), Retained(now) \union {entry}}
          /\ \/ spent' = Retained(now) /\ accepted' = accepted
             \/ /\ spent' = Retained(now) \union {entry} /\ accepted' = Append(accepted, new)
                /\ ~AlreadySpent(hit.id, hit.counter, now)
          /\ Finish(t) \/ Accept(t, hit.id)
      BY <1>2 DEF VerifyTotp, hit, now
    <2>2. EntriesOK'
      <3>1. StepStart(hit.counter - 1) <= now
        <4>1. counter_at(now) \in Nat /\ hit.counter - 1 <= counter_at(now)
          BY <1>0, <2>0, StepBounds
        <4>2. StepStart(hit.counter - 1) <= StepStart(counter_at(now))
          BY <2>0, <4>1, StepsAscend
        <4>3. StepStart(hit.counter - 1) \in Int /\ StepStart(counter_at(now)) \in Int
          BY <2>0, <4>1, StepStartType
        <4>4. StepStart(counter_at(now)) <= now
          BY <1>0, StepBounds
        <4> QED
          BY <1>0, <4>2, <4>3, <4>4
      <3>2. \A e \in spent' : e \in spent \/ e = entry
        BY <2>1 DEF Retained
      <3> QED
        BY <1>0, <2>0, <3>1, <3>2 DEF IInv, EntriesOK
    <2>3. accepted \in Seq(Honoured) /\ new \in Honoured
      BY <2>0 DEF IInv, Base, OfKind, Honoured
    <2>4. Base'
      <3>1. accepted' \in Seq(Honoured)
        <4> HIDE DEF new
        <4> QED
          BY <2>1, <2>3
      <3> QED
        BY <1>0, <2>1, <3>1, Leaves DEF IInv, Base, Verifier
    <2>5. \A i \in 1 .. Len(accepted) : accepted[i].id \in OfKind("totp") =>
             \/ OutOfReach(accepted[i].counter)
             \/ \E e \in spent' : e.authenticator = accepted[i].id /\ e.counter = accepted[i].counter
      <3> SUFFICES ASSUME NEW i \in 1 .. Len(accepted), accepted[i].id \in OfKind("totp")
                   PROVE  \/ OutOfReach(accepted[i].counter)
                          \/ \E e \in spent' : /\ e.authenticator = accepted[i].id
                                              /\ e.counter = accepted[i].counter
        OBVIOUS
      <3> DEFINE who == accepted[i].id
                 at == accepted[i].counter
      <3>1. at \in Int
        BY CounterType
      <3>3. OutOfReach(at) \/ \E e \in spent : e.authenticator = who /\ e.counter = at
        BY DEF IInv, LedgerCovers
      <3>4. now \in Nat /\ now <= clock
        BY <1>0
      <3> HIDE DEF now, who, at
      <3>5. OutOfReach(at) \/ \E e \in Retained(now) : e.authenticator = who /\ e.counter = at
        <4> SUFFICES ASSUME NEW e \in spent, e.authenticator = who, e.counter = at
                     PROVE  OutOfReach(e.counter) \/ e \in Retained(now)
          BY <3>3, Zenon
        <4> QED
          BY <3>1, <3>4, PruningKeepsCover
      <3>2. \/ OutOfReach(accepted[i].counter)
            \/ \E e \in Retained(now) : /\ e.authenticator = accepted[i].id
                                       /\ e.counter = accepted[i].counter
        BY <3>5 DEF who, at
      <3> QED
        BY <2>1, <3>2
    <2>6. CASE accepted' = accepted
      BY <1>0, <2>2, <2>4, <2>5, <2>6
      DEF IInv, LedgerCovers, OutOfReach, MarksCover, SpentOnce, CountersAdvance
    <2>7. CASE /\ accepted' = Append(accepted, new) /\ spent' = Retained(now) \union {entry}
               /\ ~AlreadySpent(hit.id, hit.counter, now)
      <3>1. /\ Len(accepted) \in Nat /\ Len(accepted') = Len(accepted) + 1
            /\ \A i \in 1 .. Len(accepted) : accepted'[i] = accepted[i]
            /\ accepted'[Len(accepted) + 1] = new
        BY <2>3, <2>7
      <3>2. hit.id \notin OfKind("fido2")
        BY <2>0 DEF OfKind
      <3>3. \A i \in 1 .. Len(accepted) : accepted[i] # new
        BY <1>0, <2>0, <2>7, FreshCounter
      <3>4. SpentOnce'
        BY <3>1, <3>3 DEF IInv, SpentOnce
      <3>5. CountersAdvance'
        BY <3>1, <3>2 DEF IInv, CountersAdvance
      <3>6. MarksCover'
        BY <1>0, <3>1, <3>2 DEF IInv, MarksCover
      <3>7. LedgerCovers'
        <4>1. entry \in spent' /\ entry.authenticator = new.id /\ entry.counter = new.counter
          BY <2>7
        <4>2. \A c : OutOfReach(c)' <=> OutOfReach(c)
          BY <1>0 DEF OutOfReach
        <4> SUFFICES ASSUME NEW i \in 1 .. Len(accepted) + 1, accepted'[i].id \in OfKind("totp")
                     PROVE  \/ OutOfReach(accepted'[i].counter)
                            \/ \E e \in spent' : /\ e.authenticator = accepted'[i].id
                                                /\ e.counter = accepted'[i].counter
          BY <3>1, <4>2 DEF LedgerCovers
        <4>3. CASE i = Len(accepted) + 1
          BY <3>1, <4>1, <4>3
        <4>4. CASE i \in 1 .. Len(accepted)
          BY <2>5, <3>1, <4>4
        <4> QED
          BY <3>1, <4>3, <4>4
      <3> QED
        BY <2>2, <2>4, <3>4, <3>5, <3>6, <3>7 DEF IInv
    <2> QED
      BY <2>1, <2>6, <2>7
  <1> QED
    BY <1>1, <1>2

\* observe: the mark goes up with what is honoured.
LEMMA Fido2Keeps ==
    ASSUME IInv, NEW t \in Threads, VerifyFido2(t)
    PROVE  IInv'
  <1> DEFINE id == job[t].token.by
             c == job[t].token.counter
             new == [id |-> id, counter |-> c]
  <1>0. id \in OfKind("fido2") /\ c \in Nat /\ UNCHANGED <<clock, spent>>
    BY ApprovalAssumption DEF IInv, Base, Verifier, VerifyFido2, Verifying
  <1>1. CASE Finish(t) /\ UNCHANGED <<marks, accepted>>
    BY <1>0, <1>1, Leaves, FrameKeeps
  <1>2. CASE /\ ~Regressed(id, c) /\ Accept(t, id) /\ accepted' = Append(accepted, new)
             /\ marks' = IF c > 0 THEN [marks EXCEPT ![id] = c] ELSE marks
    <2> HIDE DEF id, c
    <2>1. accepted \in Seq(Honoured) /\ new \in Honoured
      BY <1>0 DEF IInv, Base, OfKind, Honoured
    <2>2. /\ Len(accepted) \in Nat /\ Len(accepted') = Len(accepted) + 1
          /\ \A i \in 1 .. Len(accepted) : accepted'[i] = accepted[i]
          /\ accepted'[Len(accepted) + 1] = new
      BY <1>2, <2>1
    <2>0. \A i \in 1 .. Len(accepted) : accepted[i].counter \in Int
      BY CounterType
    <2>3. marks \in [OfKind("fido2") -> Nat] /\ (marks[id] = 0 \/ c > marks[id])
      BY <1>0, <1>2 DEF IInv, Base, Regressed
    <2>4. /\ marks' \in [OfKind("fido2") -> Nat] /\ marks[id] <= marks'[id] /\ c <= marks'[id]
          /\ \A d \in OfKind("fido2") : marks[d] <= marks'[d]
      BY <1>0, <1>2, <2>3
    <2>5. MarksCover'
      <3> SUFFICES ASSUME NEW i \in 1 .. Len(accepted) + 1, accepted'[i].id \in OfKind("fido2")
                   PROVE  accepted'[i].counter <= marks'[accepted'[i].id]
        BY <2>2 DEF MarksCover
      <3>1. CASE i = Len(accepted) + 1
        BY <2>2, <2>4, <3>1
      <3>2. CASE i \in 1 .. Len(accepted)
        <4>1. accepted[i].id \in OfKind("fido2") /\ accepted[i].counter <= marks[accepted[i].id]
          BY <2>2, <3>2 DEF IInv, MarksCover
        <4> QED
          BY <2>0, <2>2, <2>3, <2>4, <3>2, <4>1
      <3> QED
        BY <2>2, <3>1, <3>2
    <2>6. CountersAdvance'
      <3> SUFFICES ASSUME NEW i \in 1 .. Len(accepted) + 1, NEW j \in 1 .. Len(accepted) + 1,
                          i < j, accepted'[i].id = accepted'[j].id,
                          accepted'[i].id \in OfKind("fido2"), accepted'[i].counter > 0
                   PROVE  accepted'[j].counter > accepted'[i].counter
        BY <2>2 DEF CountersAdvance
      <3>1. i \in 1 .. Len(accepted)
        BY <2>2
      <3>2. CASE j = Len(accepted) + 1
        <4>1. accepted[i].id = id /\ accepted[i].counter > 0 /\ accepted[i].counter \in Int
          BY <2>0, <2>2, <3>1, <3>2
        <4>2. accepted[i].counter <= marks[id] /\ marks[id] \in Nat
          BY <1>0, <2>3, <3>1, <4>1 DEF IInv, MarksCover
        <4> QED
          BY <1>0, <2>2, <2>3, <3>1, <3>2, <4>1, <4>2
      <3>3. CASE j \in 1 .. Len(accepted)
        BY <2>2, <3>1, <3>3 DEF IInv, CountersAdvance
      <3> QED
        BY <2>2, <3>2, <3>3
    <2>7. id \notin OfKind("totp")
      BY <1>0 DEF OfKind
    <2>10. \A i \in 1 .. Len(accepted') : accepted'[i].id \in OfKind("totp") =>
              i \in 1 .. Len(accepted) /\ accepted'[i] = accepted[i]
      BY <2>2, <2>7
    <2>8. SpentOnce' /\ LedgerCovers' /\ EntriesOK'
      <3>1. SpentOnce'
        BY <2>10 DEF IInv, SpentOnce
      <3>2. LedgerCovers'
        BY <1>0, <2>10 DEF IInv, LedgerCovers, OutOfReach
      <3>3. EntriesOK'
        BY <1>0 DEF IInv, EntriesOK
      <3> QED
        BY <3>1, <3>2, <3>3
    <2>9. Base'
      <3>1. accepted' \in Seq(Honoured)
        BY <1>2, <2>1
      <3> QED
        BY <1>0, <1>2, <2>4, <3>1, Leaves DEF IInv, Base, Verifier
    <2> QED
      BY <2>5, <2>6, <2>8, <2>9 DEF IInv
  <1> QED
    BY <1>1, <1>2 DEF VerifyFido2

\* A token that is presented names what its shape says.
LEMMA PresentKeeps ==
    ASSUME IInv, NEW t \in Threads, NEW h \in Hosts, Present(t, h)
    PROVE  IInv'
  <1>1. PICK token \in Tokens :
          job' = [job EXCEPT ![t] = [host |-> h, token |-> token, nonce |-> request[h].nonce,
                                     now |-> clock, id |-> Nobody]]
    BY DEF Present
  <1>2. token.shape = "fido2" => token.by \in OfKind("fido2") /\ token.counter \in FidoCounters
    BY DEF Tokens, Challenged
  <1>3. clock \in Nat /\ MaxLag \in Nat
    BY ApprovalAssumption DEF IInv, Base
  <1>4. Verifier(job'[t])
    BY <1>1, <1>2, <1>3 DEF IInv, Base, Verifier
  <1> QED
    BY <1>1, <1>4, FrameKeeps DEF Present, IInv, Base

\* Time passes while no thread falls behind by more than MaxLag.
LEMMA TickKeeps ==
    ASSUME IInv, Tick
    PROVE  IInv'
  <1>1. clock \in Nat /\ clock' = clock + 1 /\ MaxLag \in Nat
    BY ApprovalAssumption DEF IInv, Base, Tick
  <1>2. ASSUME NEW t \in Threads, pc[t] = "verify" PROVE Verifier(job[t])'
    <2>1. Verifier(job[t]) /\ clock < job[t].now + MaxLag /\ job' = job
      BY <1>2 DEF IInv, Base, Tick
    <2> QED
      BY <1>1, <2>1 DEF Verifier
  <1>3. Base'
    BY <1>1, <1>2 DEF IInv, Base, Tick
  <1>4. ASSUME NEW c \in Int, OutOfReach(c) PROVE OutOfReach(c)'
    BY <1>1, <1>4, StepStartType DEF OutOfReach
  <1>5. LedgerCovers'
    <2>1. \A i \in 1 .. Len(accepted) : accepted[i].counter \in Int
      BY CounterType
    <2> QED
      BY <1>4, <2>1 DEF IInv, LedgerCovers, Tick
  <1> QED
    BY <1>3, <1>5 DEF IInv, EntriesOK, MarksCover, SpentOnce, CountersAdvance, Tick

LEMMA Inductive ==
    ASSUME IInv, [Next]_vars
    PROVE  IInv'
  <1>1. ASSUME NEW t \in Threads,
               VerifyBound(t) \/ VerifyPassword(t) \/ LedgerFails(t) \/ Evaluate(t)
        PROVE  IInv'
    <2>1. (\E id : Accept(t, id)) \/ Finish(t)
      BY <1>1 DEF VerifyBound, VerifyPassword, LedgerFails, Evaluate
    <2>2. UNCHANGED <<clock, spent, marks, accepted>>
      BY <1>1 DEF VerifyBound, VerifyPassword, LedgerFails, Evaluate
    <2> QED
      BY <2>1, <2>2, Leaves, FrameKeeps
  <1>2. ASSUME NEW t \in Threads, Record(t) PROVE IInv'
    <2>1. UNCHANGED <<clock, spent, marks, accepted>>
      BY <1>2 DEF Record
    <2>2. CASE Finish(t)
      BY <2>1, <2>2, Leaves, FrameKeeps
    <2>3. CASE /\ pc' = [pc EXCEPT ![t] = "evaluate"]
               /\ job' = [job EXCEPT ![t] = [Idle EXCEPT !.host = job[t].host]]
      BY <2>1, <2>3, FrameKeeps DEF IInv, Base
    <2> QED
      BY <1>2, <2>2, <2>3 DEF Record
  <1>3. ASSUME NEW h \in Hosts, NewRequest(h) \/ Withdraw(h) PROVE IInv'
    BY <1>3, FrameKeeps DEF NewRequest, Withdraw, IInv, Base
  <1>4. ASSUME Crash PROVE IInv'
    BY <1>4, FrameKeeps DEF Crash, IInv, Base
  <1>5. ASSUME UNCHANGED vars PROVE IInv'
    BY <1>5, FrameKeeps DEF vars, IInv, Base
  <1> QED
    BY <1>1, <1>2, <1>3, <1>4, <1>5, TotpKeeps, Fido2Keeps, PresentKeeps, TickKeeps DEF Next

(***************************************************************************)
(* Theorems.                                                                *)
(***************************************************************************)
LEMMA Invariant == Spec => []IInv
  <1>1. Init => IInv
    BY DEF Init, IInv, Base, EntriesOK, LedgerCovers, MarksCover, SpentOnce, CountersAdvance
  <1> QED
    BY <1>1, Inductive, PTL DEF Spec

\* consume() of the TOTP ledger honours a counter of a secret at most once, for
\* any number of threads and secrets and any retention of at least three steps
\* and the longest wait for the ledger's lock.
THEOREM TotpSpentOnce == Spec => []SpentOnce
  BY Invariant, PTL DEF IInv

\* observe() of the FIDO2 ledger lets a credential that has counted through only
\* with a higher counter.
THEOREM Fido2CountersAdvance == Spec => []CountersAdvance
  BY Invariant, PTL DEF IInv
=============================================================================
