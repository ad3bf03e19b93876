---------------------------- MODULE MCLifecycle ----------------------------
(* Small instances of Lifecycle for TLC. *)
EXTENDS Lifecycle

CONSTANTS h1, main, operator, mcp, once

\* "key" opens on a proof alone, "wait" on a proof and one unit of time.
MCProfiles == {"key", "wait", "drill", "dry-run"}
MCEvaluate(profile, satisfied, elapsed) ==
    /\ profile \in {"key", "wait"}
    /\ "a" \in satisfied
    /\ profile = "wait" => elapsed >= 1

DeclaredAll == [h \in {h1} |-> Channels]
Ops == {"open", "approve", "close", "renew", "drill"}
OperatorOps == {operator} \X Ops
FrontDoorOps == ({operator} \X {"open", "approve", "close"}) \union ({mcp} \X {"open", "approve"})
BothRenew ==
    ({operator} \X {"open", "approve", "renew", "drill"}) \union ({mcp} \X {"approve", "renew"})
OpenCloseOps == {operator} \X {"open", "approve", "close"}
NoDrillOps == {operator} \X {"open", "approve", "close", "renew"}
=============================================================================
