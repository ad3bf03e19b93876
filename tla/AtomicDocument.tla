--------------------------- MODULE AtomicDocument ---------------------------
(***************************************************************************)
(* What the daemon's threads and processes rely on when they share a file   *)
(* of state (the grant store and the three ledgers): an update is applied   *)
(* to the document the update before it left, whole or not at all, and one  *)
(* that was answered Ok stays.  The promise is void once a lock has been    *)
(* taken from a holder that was still alive.                                *)
(***************************************************************************)
EXTENDS Sequences

CONSTANT Updates

VARIABLES
    document,   \* the updates applied so far, in order
    answered,   \* the updates whose caller was told Ok
    void        \* the promise no longer stands

vars == <<document, answered, void>>

Init ==
    /\ document = <<>>
    /\ answered = {}
    /\ void = FALSE

Has(u) == \E i \in DOMAIN document : document[i] = u

Apply(u) ==
    /\ ~void
    /\ ~Has(u)
    /\ document' = Append(document, u)
    /\ UNCHANGED <<answered, void>>

Answer(u) ==
    /\ ~void
    /\ Has(u)
    /\ answered' = answered \union {u}
    /\ UNCHANGED <<document, void>>

Void == ~void /\ void' = TRUE /\ UNCHANGED <<document, answered>>

Voided == void /\ void'

Next ==
    \/ \E u \in Updates : Apply(u) \/ Answer(u)
    \/ Void
    \/ Voided

Spec == Init /\ [][Next]_vars
=============================================================================
