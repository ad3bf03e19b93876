------------------------------ MODULE Approval ------------------------------
(***************************************************************************)
(* Proofs toward pending requests: approve and verify_proof of              *)
(* daemon/src/lifecycle.rs, the TOTP ledger and the FIDO2 counter ledger,   *)
(* and the verifiers of core they call.                                     *)
(*                                                                          *)
(* A token is what its verifier can tell about it: who made it, for which   *)
(* nonce, with which counter.  Signatures and MACs are unforgeable: a token *)
(* for a nonce exists only once the request was issued.  An update of a     *)
(* ledger is one step, as LockFile shows it to be.  What is done with the   *)
(* grant is the subject of Lifecycle, what counts as enough of Authority:   *)
(* here a request is pending or gone, and Enough is the verdict.            *)
(***************************************************************************)
EXTENDS Integers, Sequences, FiniteSets, SequencesExt

CONSTANTS
    Threads,
    Hosts,
    Kind,           \* Kind[id]: what sort of authenticator id is
    TotpSecrets,    \* the TOTP authenticators, in the order they are tried
    PasswordHashes, \* the password authenticators, in the order they are tried
    CodeOf,         \* CodeOf[id][c]: the code of secret id at counter c
    WordOf,         \* WordOf[id]: the password of id
    Enough,         \* the sets of authenticators that satisfy the authority
    FidoCounters,   \* the signature counters an assertion may carry
    Nobody,         \* no authenticator: a refusal, or no request
    STEP_SECS,      \* totp.rs: the time step
    RETAIN_SECS,    \* totp_ledger.rs: how long a spent code is remembered
    MaxLag,         \* the age `now` may reach before the ledger is updated
    MaxTime,        \* bound: the clock
    MaxRequests,    \* bound: requests issued
    MaxProofs,      \* bound: proofs presented
    MaxCrashes      \* bound: crashes of the daemon

Authenticators == DOMAIN Kind
OfKind(k) == {id \in Authenticators : Kind[id] = k}
Bound == OfKind("sshsig") \union OfKind("tpm") \union OfKind("hmac")

\* A code is accepted from one step before its own to the end of the one
\* after it: three steps, and a request that is late by MaxLag.
ASSUME ApprovalAssumption ==
    /\ TotpSecrets \in Seq(OfKind("totp")) /\ ToSet(TotpSecrets) = OfKind("totp")
    /\ PasswordHashes \in Seq(OfKind("password")) /\ ToSet(PasswordHashes) = OfKind("password")
    /\ Nobody \notin Authenticators
    /\ Enough \subseteq SUBSET Authenticators
    /\ FidoCounters \subseteq Nat
    /\ STEP_SECS \in Nat \ {0}
    /\ {RETAIN_SECS, MaxLag, MaxTime, MaxRequests, MaxProofs, MaxCrashes} \subseteq Nat
    /\ RETAIN_SECS >= 3 * STEP_SECS - 1 + MaxLag

VARIABLES
    clock,
    request,    \* request[h]: the pending request of host h
    issued,     \* requests issued: the last nonce
    pc,
    job,        \* job[t]: the proof thread t is working on
    spent,      \* totp-ledger.json
    marks,      \* fido2-counters.json: the highest counter of a credential
    accepted,   \* ghost: what the ledgers let pass, in order
    credited,   \* ghost: bound tokens, with each request they counted for
    presented,  \* proofs presented
    crashes

vars == <<clock, request, issued, pc, job, spent, marks, accepted, credited,
          presented, crashes>>

NoRequest == [nonce |-> 0, satisfied |-> {}]

(***************************************************************************)
(* Tokens, told apart by their shape.                                       *)
(***************************************************************************)
Challenged ==
    [shape : {"bound"}, by : Bound, nonce : 1 .. issued]
        \union [shape : {"fido2"}, by : OfKind("fido2"), nonce : 1 .. issued,
                counter : FidoCounters]

Tokens ==
    Challenged
        \union [shape : {"digits"}, code : UNION {Range(CodeOf[id]) : id \in OfKind("totp")}]
        \union [shape : {"other"}, word : Range(WordOf)]

NoToken == [shape |-> "none"]
Idle == [host |-> CHOOSE h \in Hosts : TRUE, token |-> NoToken, nonce |-> 0, now |-> 0,
         id |-> Nobody]

\* Only a pending request has satisfied authenticators; the ledgers hold what
\* their verifiers may put there.
TypeOK ==
    /\ clock \in 0 .. MaxTime
    /\ request \in [Hosts -> {NoRequest} \union
                             [nonce : 1 .. issued, satisfied : SUBSET Authenticators]]
    /\ issued \in 0 .. MaxRequests
    /\ pc \in [Threads -> {"idle", "verify", "record", "evaluate"}]
    /\ job \in [Threads -> [host : Hosts, token : Tokens \union {NoToken},
                            nonce : 0 .. issued,
                            now : 0 .. clock, id : Authenticators \union {Nobody}]]
    /\ \A e \in spent : /\ e.authenticator \in OfKind("totp")
                        /\ e.counter \in Nat
                        /\ e.at \in 0 .. clock
    /\ marks \in [OfKind("fido2") -> {0} \union FidoCounters]
    /\ presented \in 0 .. MaxProofs
    /\ crashes \in 0 .. MaxCrashes

Init ==
    /\ clock = 0
    /\ request = [h \in Hosts |-> NoRequest]
    /\ issued = 0
    /\ pc = [t \in Threads |-> "idle"]
    /\ job = [t \in Threads |-> Idle]
    /\ spent = {}
    /\ marks = [id \in OfKind("fido2") |-> 0]
    /\ accepted = <<>>
    /\ credited = {}
    /\ presented = 0
    /\ crashes = 0

(***************************************************************************)
(* TOTP                                                                     *)
(***************************************************************************)
counter_at(now) == now \div STEP_SECS

\* The counters of the window, one step either side, that give this code.
Matching(id, code, now) ==
    {c \in (counter_at(now) - 1) .. (counter_at(now) + 1) :
        c \in DOMAIN CodeOf[id] /\ CodeOf[id][c] = code}

\* The first secret the code matches decides; the window is scanned in full,
\* so the last match is the counter that is spent.
Totp(code, now) ==
    LET first == SelectInSeq(TotpSecrets, LAMBDA id : Matching(id, code, now) # {})
    IN  IF first = 0 THEN [id |-> Nobody, counter |-> 0]
        ELSE [id |-> TotpSecrets[first],
              counter |-> Max(Matching(TotpSecrets[first], code, now))]

\* Mutant: the ledger forgets a code after the two steps of the skew.
RetainedForSkew(now) == {e \in spent : now - e.at <= 2 * STEP_SECS}
\* consume: entries past the window are dropped; a request behind the entry
\* it looks at (saturating_sub) keeps it.
Retained(now) == {e \in spent : now - e.at <= RETAIN_SECS}
AlreadySpent(id, counter, now) ==
    \E e \in Retained(now) : e.authenticator = id /\ e.counter = counter

(***************************************************************************)
(* The steps of approve.                                                    *)
(***************************************************************************)
Finish(t) == /\ pc' = [pc EXCEPT ![t] = "idle"]
             /\ job' = [job EXCEPT ![t] = Idle]
Accept(t, id) == /\ pc' = [pc EXCEPT ![t] = "record"]
                 /\ job' = [job EXCEPT ![t] = [@ EXCEPT !.id = id, !.now = 0, !.nonce = 0]]

\* The pending request is read, and `now` sampled, before the proof is looked
\* at.  Without a request it is refused.
Present(t, h) ==
    /\ pc[t] = "idle"
    /\ presented < MaxProofs
    /\ presented' = presented + 1
    /\ request[h] # NoRequest
    /\ \E token \in Tokens :
          job' = [job EXCEPT ![t] = [host |-> h, token |-> token,
                                     nonce |-> request[h].nonce, now |-> clock, id |-> Nobody]]
    /\ pc' = [pc EXCEPT ![t] = "verify"]
    /\ UNCHANGED <<clock, request, issued, spent, marks, accepted, credited, crashes>>

Verifying(t, shape) == pc[t] = "verify" /\ job[t].token.shape = shape

\* SSHSIG, TPM and HMAC: the challenge the key must have signed is the one
\* that was read with the request.
VerifyBound(t) ==
    /\ Verifying(t, "bound")
    /\ IF job[t].token.nonce = job[t].nonce THEN Accept(t, job[t].token.by) ELSE Finish(t)
    /\ UNCHANGED <<clock, request, issued, spent, marks, accepted, credited, presented, crashes>>

\* Mutant: a counter equal to the mark is taken for an advance.
RegressedBelow(id, counter) == marks[id] > 0 /\ counter < marks[id]
\* observe: zero means "no counter" until the credential has counted once.
Regressed(id, counter) == marks[id] > 0 /\ counter <= marks[id]

VerifyFido2(t) ==
    LET token == job[t].token
    IN  /\ Verifying(t, "fido2")
        /\ IF token.nonce = job[t].nonce /\ ~Regressed(token.by, token.counter)
           THEN /\ Accept(t, token.by)
                /\ marks' = IF token.counter > 0
                            THEN [marks EXCEPT ![token.by] = token.counter] ELSE marks
                /\ accepted' = Append(accepted, [id |-> token.by, counter |-> token.counter])
           ELSE Finish(t) /\ UNCHANGED <<marks, accepted>>
        /\ UNCHANGED <<clock, request, issued, spent, credited, presented, crashes>>

\* The pruned ledger is written back even when the code is refused.
VerifyTotp(t) ==
    LET now == job[t].now
        hit == Totp(job[t].token.code, now)
        entry == [authenticator |-> hit.id, counter |-> hit.counter, at |-> now]
    IN  /\ Verifying(t, "digits")
        /\ \/ /\ hit.id = Nobody
              /\ Finish(t) /\ UNCHANGED <<spent, accepted>>
           \/ /\ hit.id # Nobody /\ AlreadySpent(hit.id, hit.counter, now)
              /\ spent' = Retained(now)
              /\ Finish(t) /\ UNCHANGED accepted
           \/ /\ hit.id # Nobody /\ ~AlreadySpent(hit.id, hit.counter, now)
              /\ spent' = Retained(now) \union {entry}
              /\ accepted' = Append(accepted, [id |-> hit.id, counter |-> hit.counter])
              /\ Accept(t, hit.id)
        /\ UNCHANGED <<clock, request, issued, marks, credited, presented, crashes>>

\* Anything else is a password, reusable by design: the first that fits.
VerifyPassword(t) ==
    LET first == SelectInSeq(PasswordHashes, LAMBDA id : WordOf[id] = job[t].token.word)
    IN  /\ Verifying(t, "other")
        /\ IF first = 0 THEN Finish(t) ELSE Accept(t, PasswordHashes[first])
        /\ UNCHANGED <<clock, request, issued, spent, marks, accepted, credited, presented, crashes>>

\* A ledger that cannot be locked, read or written is an error, never a pass:
\* the thread ends, and with it the daemon, whose restart is not told apart.
LedgerFails(t) ==
    /\ pc[t] = "verify" /\ job[t].token.shape \in {"fido2", "digits"}
    /\ Finish(t)
    /\ UNCHANGED <<clock, request, issued, spent, marks, accepted, credited, presented, crashes>>

\* add_satisfied: under the store's lock, on the request that is pending now.
Record(t) ==
    LET h == job[t].host
    IN  /\ pc[t] = "record"
        /\ IF request[h] # NoRequest
           THEN /\ request' = [request EXCEPT ![h].satisfied = @ \union {job[t].id}]
                /\ credited' = credited \union
                      ({job[t].token} \cap Challenged) \X {request[h].nonce}
                /\ pc' = [pc EXCEPT ![t] = "evaluate"]
                /\ job' = [job EXCEPT ![t] = [Idle EXCEPT !.host = h]]
           ELSE Finish(t) /\ UNCHANGED <<request, credited>>
        /\ UNCHANGED <<clock, issued, spent, marks, accepted, presented, crashes>>

\* pending_view and evaluate; a request that is met becomes a grant.
Evaluate(t) ==
    LET h == job[t].host
    IN  /\ pc[t] = "evaluate"
        /\ request' = IF request[h] # NoRequest /\ request[h].satisfied \in Enough
                      THEN [request EXCEPT ![h] = NoRequest] ELSE request
        /\ Finish(t)
        /\ UNCHANGED <<clock, issued, spent, marks, accepted, credited, presented, crashes>>

(***************************************************************************)
(* The daemon's other threads, its end, and time.                           *)
(***************************************************************************)
NewRequest(h) ==
    /\ request[h] = NoRequest
    /\ issued < MaxRequests
    /\ issued' = issued + 1
    /\ request' = [request EXCEPT ![h] = [nonce |-> issued + 1, satisfied |-> {}]]
    /\ UNCHANGED <<clock, pc, job, spent, marks, accepted, credited, presented, crashes>>

\* A request is cancelled by close, or reaped when its window has passed.
Withdraw(h) ==
    /\ request[h] # NoRequest
    /\ request' = [request EXCEPT ![h] = NoRequest]
    /\ UNCHANGED <<clock, issued, pc, job, spent, marks, accepted, credited, presented, crashes>>

\* The files survive, the threads do not.
Crash ==
    /\ crashes < MaxCrashes
    /\ crashes' = crashes + 1
    /\ pc' = [t \in Threads |-> "idle"]
    /\ job' = [t \in Threads |-> Idle]
    /\ UNCHANGED <<clock, request, issued, spent, marks, accepted, credited, presented>>

\* The wait for a ledger's lock is bounded, and with it the age of `now`.
Tick ==
    /\ clock < MaxTime
    /\ \A t \in Threads : pc[t] = "verify" => clock < job[t].now + MaxLag
    /\ clock' = clock + 1
    /\ UNCHANGED <<request, issued, pc, job, spent, marks, accepted, credited, presented, crashes>>

Next ==
    \/ \E t \in Threads :
          \/ \E h \in Hosts : Present(t, h)
          \/ VerifyBound(t) \/ VerifyFido2(t) \/ VerifyTotp(t) \/ VerifyPassword(t)
          \/ LedgerFails(t) \/ Record(t) \/ Evaluate(t)
    \/ \E h \in Hosts : NewRequest(h) \/ Withdraw(h)
    \/ Crash
    \/ Tick

Spec == Init /\ [][Next]_vars

(***************************************************************************)
(* Properties                                                               *)
(***************************************************************************)
\* A TOTP counter of a secret is honoured at most once: not for another host,
\* not after a crash between the ledger and the request, and not after the
\* ledger has dropped the entry, although threads consult it with instants of
\* different age.
SpentOnce ==
    \A i, j \in 1 .. Len(accepted) :
        accepted[i] = accepted[j] /\ accepted[i].id \in OfKind("totp") => i = j

\* Once a FIDO2 credential has counted, every later assertion that passes
\* carries a higher counter than all before it: neither a second device nor a
\* sudden zero gets through, across crashes and concurrent approvals.
CountersAdvance ==
    \A i, j \in 1 .. Len(accepted) :
        /\ i < j
        /\ accepted[i].id = accepted[j].id
        /\ accepted[i].id \in OfKind("fido2")
        /\ accepted[i].counter > 0
        => accepted[j].counter > accepted[i].counter

\* A proof that is bound to a challenge is counted toward one request only.
CountsForOne ==
    \A a, b \in credited :
        a[1] = b[1] => a = b
=============================================================================
