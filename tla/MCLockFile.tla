----------------------------- MODULE MCLockFile -----------------------------
(* Instances of LockFile: a process that is killed, and one with two threads. *)
EXTENDS LockFile

TwoProcesses == [t \in Threads |-> IF t = "old" THEN "p1" ELSE "p2"]
=============================================================================
