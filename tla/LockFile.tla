------------------------------ MODULE LockFile ------------------------------
(***************************************************************************)
(* The files the daemon keeps its state in, and the lock file that guards   *)
(* each: daemon/src/lockfile.rs with the read-modify-write of store.rs,     *)
(* which totp_ledger.rs, fido2_counters.rs and device_state.rs repeat.      *)
(*                                                                          *)
(* The threads of one process share its PID, and with it the name of the    *)
(* temporary file.  A step is one call to the file system; a process may    *)
(* be killed between any two.                                               *)
(***************************************************************************)
EXTENDS Naturals, Sequences, FiniteSets

CONSTANTS
    Threads,
    Pids,
    PidOf,          \* PidOf[t]: the process of thread t
    MayStall,       \* a live holder may keep the lock past stale_lock_after
    MaxUpdates,     \* bound: updates begun per thread
    MaxCrashes,     \* bound: processes killed
    NoPid,          \* what an empty lock file says of its holder
    NoLock,         \* no file at the lock's path
    Absent,         \* no temporary file
    Partial         \* a temporary file cut off or not yet written

ASSUME LockFileAssumption ==
    /\ PidOf \in [Threads -> Pids]
    /\ NoPid \notin Pids
    /\ NoLock \notin [owner : Threads, pid : Pids \union {NoPid}, old : BOOLEAN]
    /\ {Absent, Partial} \cap Seq(Threads \X (1 .. MaxUpdates)) = {}
    /\ MayStall \in BOOLEAN
    /\ {MaxUpdates, MaxCrashes} \subseteq Nat

VARIABLES
    lock,       \* the file at the lock's path
    file,       \* the document at its path: the updates it holds, in order
    tmp,        \* tmp[p]: the temporary file of process p
    pc,         \* where each thread is
    copy,       \* copy[t]: the document thread t has read
    begun,      \* begun[t]: updates thread t has begun
    answered,   \* updates that were answered Ok
    alive,      \* the processes that exist
    robbed      \* ghost: a lock was taken from a live holder

vars == <<lock, file, tmp, pc, copy, begun, answered, alive, robbed>>

Updates == Threads \X (1 .. MaxUpdates)
Update(t) == <<t, begun[t]>>
Documents == Seq(Updates)

Holding == {"record", "read", "save", "sync", "rename", "commit", "abort"}
Waiting == {"judge", "steal", "deadline"}
Labels == {"idle", "create", "dead"} \union Waiting \union Holding

Lock == [owner : Threads, pid : Pids \union {NoPid}, old : BOOLEAN]

\* The lock is absent or some thread's; a temporary file may be half written.
TypeOK ==
    /\ lock \in {NoLock} \union Lock
    /\ file \in {Partial} \union Documents
    /\ tmp \in [Pids -> {Absent, Partial} \union Documents]
    /\ pc \in [Threads -> Labels]
    /\ copy \in [Threads -> Documents]
    /\ begun \in [Threads -> 0 .. MaxUpdates]
    /\ answered \subseteq Updates
    /\ alive \subseteq Pids
    /\ robbed \in BOOLEAN

Init ==
    /\ lock = NoLock
    /\ file = <<>>
    /\ tmp = [p \in Pids |-> Absent]
    /\ pc = [t \in Threads |-> "idle"]
    /\ copy = [t \in Threads |-> <<>>]
    /\ begun = [t \in Threads |-> 0]
    /\ answered = {}
    /\ alive = Pids
    /\ robbed = FALSE

Goto(t, label) == pc' = [pc EXCEPT ![t] = label]

Begin(t) ==
    /\ pc[t] = "idle"
    /\ begun[t] < MaxUpdates
    /\ begun' = [begun EXCEPT ![t] = @ + 1]
    /\ Goto(t, "create")
    /\ UNCHANGED <<lock, file, tmp, copy, answered, alive, robbed>>

(***************************************************************************)
(* acquire                                                                  *)
(***************************************************************************)
\* Mutant: create() where create_new() is needed.
CreateShared(t) ==
    /\ pc[t] = "create"
    /\ lock' = [owner |-> t, pid |-> NoPid, old |-> FALSE]
    /\ Goto(t, "record")
    /\ UNCHANGED <<file, tmp, copy, begun, answered, alive, robbed>>

\* create_new: succeeds only where there is no file; it is empty at first.
Create(t) ==
    /\ pc[t] = "create"
    /\ IF lock = NoLock
       THEN /\ lock' = [owner |-> t, pid |-> NoPid, old |-> FALSE]
            /\ Goto(t, "record")
       ELSE /\ Goto(t, "judge")
            /\ UNCHANGED lock
    /\ UNCHANGED <<file, tmp, copy, begun, answered, alive, robbed>>

\* The PID goes into the file that was created, wherever it is by now; the
\* write is best effort.
RecordPid(t) ==
    /\ pc[t] = "record"
    /\ \/ UNCHANGED lock
       \/ /\ lock # NoLock /\ lock.owner = t
          /\ lock' = [lock EXCEPT !.pid = PidOf[t]]
    /\ Goto(t, "read")
    /\ UNCHANGED <<file, tmp, copy, begun, answered, alive, robbed>>

\* holder_pid and pid_alive: an unknown holder is not a dead one.
HolderDead == lock.pid # NoPid /\ lock.pid \notin alive

\* Mutant: only the age of the file counts.
JudgeByAge(t) ==
    /\ pc[t] = "judge"
    /\ Goto(t, IF lock # NoLock /\ lock.old THEN "steal" ELSE "deadline")
    /\ UNCHANGED <<lock, file, tmp, copy, begun, answered, alive, robbed>>

\* What metadata and holder_pid tell of the file there now, if there is one.
Judge(t) ==
    /\ pc[t] = "judge"
    /\ Goto(t, IF lock # NoLock /\ (HolderDead \/ lock.old) THEN "steal" ELSE "deadline")
    /\ UNCHANGED <<lock, file, tmp, copy, begun, answered, alive, robbed>>

Held(l) == l # NoLock /\ pc[l.owner] \in Holding

\* rename, then remove: whatever file is there by now goes.
Steal(t) ==
    /\ pc[t] = "steal"
    /\ lock' = NoLock
    /\ robbed' = (robbed \/ Held(lock))
    /\ Goto(t, "deadline")
    /\ UNCHANGED <<file, tmp, copy, begun, answered, alive>>

\* Past the deadline the caller is told the lock is held.
Deadline(t) ==
    /\ pc[t] = "deadline"
    /\ \E label \in {"create", "idle"} : Goto(t, label)
    /\ UNCHANGED <<lock, file, tmp, copy, begun, answered, alive, robbed>>

(***************************************************************************)
(* mutate: read, apply the closure, write by replacement.  An error on the  *)
(* way releases the lock and leaves the document alone.                     *)
(***************************************************************************)
Refuse(t) ==
    /\ pc[t] \in {"read", "save", "sync", "rename"}
    /\ Goto(t, "abort")
    /\ UNCHANGED <<lock, file, tmp, copy, begun, answered, alive, robbed>>

\* Mutant: the document is the one an earlier call has read.
ReadCached(t) ==
    /\ pc[t] = "read"
    /\ Goto(t, "save")
    /\ UNCHANGED <<lock, file, tmp, copy, begun, answered, alive, robbed>>

\* A document that does not parse is refused, never taken for an empty one.
Read(t) ==
    /\ pc[t] = "read"
    /\ file # Partial
    /\ copy' = [copy EXCEPT ![t] = file]
    /\ Goto(t, "save")
    /\ UNCHANGED <<lock, file, tmp, begun, answered, alive, robbed>>

\* File::create truncates.
CreateTmp(t) ==
    /\ pc[t] = "save"
    /\ tmp' = [tmp EXCEPT ![PidOf[t]] = Partial]
    /\ Goto(t, "sync")
    /\ UNCHANGED <<lock, file, copy, begun, answered, alive, robbed>>

\* write_all and sync_all.
SyncTmp(t) ==
    /\ pc[t] = "sync"
    /\ tmp' = [tmp EXCEPT ![PidOf[t]] = Append(copy[t], Update(t))]
    /\ Goto(t, "rename")
    /\ UNCHANGED <<lock, file, copy, begun, answered, alive, robbed>>

Rename(t) ==
    LET text == tmp[PidOf[t]] IN
    /\ pc[t] = "rename"
    /\ IF text = Absent
       THEN Goto(t, "abort") /\ UNCHANGED <<file, tmp>>
       ELSE /\ file' = text
            /\ tmp' = [tmp EXCEPT ![PidOf[t]] = Absent]
            /\ Goto(t, "commit")
    /\ UNCHANGED <<lock, copy, begun, answered, alive, robbed>>

\* LockGuard::drop removes the file at the path, then the caller is answered.
Release(t) ==
    /\ pc[t] \in {"commit", "abort"}
    /\ lock' = NoLock
    /\ robbed' = (robbed \/ (Held(lock) /\ lock.owner # t))
    /\ answered' = IF pc[t] = "commit" THEN answered \union {Update(t)} ELSE answered
    /\ Goto(t, "idle")
    /\ UNCHANGED <<file, tmp, copy, begun, alive>>

(***************************************************************************)
(* The world: time passes over a held lock, a process is killed.            *)
(***************************************************************************)
GrowOld ==
    /\ lock # NoLock
    /\ ~lock.old
    /\ Held(lock) => MayStall
    /\ lock' = [lock EXCEPT !.old = TRUE]
    /\ UNCHANGED <<file, tmp, pc, copy, begun, answered, alive, robbed>>

Kill(p) ==
    /\ p \in alive
    /\ Cardinality(Pids \ alive) < MaxCrashes
    /\ alive' = alive \ {p}
    /\ pc' = [t \in Threads |-> IF PidOf[t] = p THEN "dead" ELSE pc[t]]
    /\ UNCHANGED <<lock, file, tmp, copy, begun, answered, robbed>>

\* Nobody has anything left to do.
Finished ==
    /\ \A t \in Threads : pc[t] = "dead" \/ (pc[t] = "idle" /\ begun[t] = MaxUpdates)
    /\ UNCHANGED vars

Step(t) ==
    \/ Create(t) \/ RecordPid(t) \/ Judge(t) \/ Steal(t) \/ Deadline(t)
    \/ Read(t) \/ CreateTmp(t) \/ SyncTmp(t) \/ Rename(t) \/ Release(t)

Next ==
    \/ \E t \in Threads : Begin(t) \/ Step(t) \/ Refuse(t)
    \/ GrowOld
    \/ \E p \in Pids : Kill(p)
    \/ Finished

Spec == Init /\ [][Next]_vars

\* A running thread goes on, and a file left behind grows old.
FairSpec ==
    /\ Spec
    /\ \A t \in Threads : WF_vars(Step(t))
    /\ WF_vars(GrowOld)

(***************************************************************************)
(* Properties.                                                              *)
(***************************************************************************)
\* Two threads never hold the lock of acquire() at once, so no mutate reads a
\* document another one is about to replace, as long as no live holder is
\* robbed; a lock left by a killed process does not endanger it.
OneHolder ==
    ~robbed => \A s, t \in Threads : pc[s] \in Holding /\ pc[t] \in Holding => s = t

\* The files of mutate() and write() keep the promise of AtomicDocument, also
\* when a process is killed between any two calls to the file system.
Atomic == INSTANCE AtomicDocument WITH document <- file, void <- robbed

KeepsPromise == Atomic!Spec

\* The lock of a killed process whose PID is in it does not last: a thread of
\* acquire() that meets it takes it away before it gives up, unless that
\* thread's process is killed too.
DeadHolderStolen ==
    \A p \in Pids, t \in Threads :
        (lock # NoLock /\ lock.pid = p /\ p \notin alive /\ pc[t] = "judge")
            ~> (lock = NoLock \/ lock.pid # p \/ pc[t] = "dead")

\* Stealing by rename lets only one waiter win: never do two threads that
\* acquire() let in hold the lock at once.
OneWinner ==
    \A s, t \in Threads : pc[s] \in Holding /\ pc[t] \in Holding => s = t
=============================================================================
