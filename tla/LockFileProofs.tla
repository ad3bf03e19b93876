--------------------------- MODULE LockFileProofs ---------------------------
(***************************************************************************)
(* For any threads, processes and bounds, the lock file admits one holder   *)
(* at a time and the document under it keeps the promise of AtomicDocument, *)
(* until a lock is taken from a live holder.                                *)
(***************************************************************************)
EXTENDS LockFile, TLAPS

(***************************************************************************)
(* The inductive invariant.                                                 *)
(***************************************************************************)
\* A thread that is past Begin has begun an update.
HasBegun == \A t \in Threads : pc[t] \notin {"idle", "dead"} => begun[t] >= 1

\* Who holds owns the file at the lock's path.
HolderOwns == \A t \in Threads : pc[t] \in Holding => lock # NoLock /\ lock.owner = t

\* What a writer has read is still what is there.
CopyIsFresh == \A t \in Threads : pc[t] \in {"save", "sync", "rename"} => copy[t] = file

\* What is about to be renamed is that document with the update at its end.
TmpIsWhole ==
    \A t \in Threads : pc[t] = "rename" => tmp[PidOf[t]] = Append(copy[t], Update(t))

\* The document holds no update that was not begun.
NoneFromTheFuture == \A i \in DOMAIN file : file[i][2] <= begun[file[i][1]]

\* An update is in the document from its Rename on, and only from then on.
AppliedAtRename ==
    \A t \in Threads :
        /\ Atomic!Has(Update(t)) => pc[t] \in {"commit", "idle", "dead"}
        /\ pc[t] = "commit" => Atomic!Has(Update(t))

WriterInv ==
    /\ file \in Documents
    /\ CopyIsFresh
    /\ TmpIsWhole
    /\ NoneFromTheFuture
    /\ AppliedAtRename

TypeInv == TypeOK /\ HasBegun

LockInv == ~robbed => HolderOwns

DocInv == ~robbed => WriterInv

IInv == TypeInv /\ LockInv /\ DocInv

(***************************************************************************)
(* Lemmas.                                                                  *)
(***************************************************************************)
\* The update of a thread that is past Begin is one of Updates.
LEMMA UpdateIsUpdate ==
    ASSUME TypeInv, NEW t \in Threads, pc[t] \notin {"idle", "dead"}
    PROVE  Update(t) \in Updates
  BY DEF TypeInv, TypeOK, HasBegun, Update, Updates

\* At most one thread holds.
LEMMA OwnerIsOne ==
    ASSUME HolderOwns
    PROVE  \A s, t \in Threads : pc[s] \in Holding /\ pc[t] \in Holding => s = t
  BY DEF HolderOwns

\* A lock that is created or filled in is a lock.
LEMMA LockIsLock ==
    ASSUME TypeOK, NEW t \in Threads, Create(t) \/ RecordPid(t)
    PROVE  lock' \in {NoLock} \union Lock
  <1>1. CASE Create(t)
    <2>1. [owner |-> t, pid |-> NoPid, old |-> FALSE] \in Lock
      BY DEF Lock
    <2> QED
      BY <1>1, <2>1 DEF TypeOK, Create
  <1>2. CASE RecordPid(t)
    <2>1. CASE lock' = lock
      BY <2>1 DEF TypeOK
    <2>2. CASE lock # NoLock /\ lock' = [lock EXCEPT !.pid = PidOf[t]]
      <3>1. lock \in Lock /\ PidOf[t] \in Pids
        BY <2>2, LockFileAssumption DEF TypeOK
      <3> QED
        BY <2>2, <3>1 DEF Lock
    <2> QED
      BY <1>2, <2>1, <2>2 DEF RecordPid
  <1> QED
    BY <1>1, <1>2

\* Every step keeps the types.
LEMMA TypeStep ==
    ASSUME TypeInv, [Next]_vars
    PROVE  TypeInv'
  <1> USE LockFileAssumption DEF TypeInv
  <1>1. ASSUME NEW t \in Threads, Begin(t) PROVE TypeInv'
    <2>1. begun[t] + 1 \in 1 .. MaxUpdates
      BY <1>1 DEF TypeOK, Begin
    <2>2. TypeOK'
      BY <1>1, <2>1 DEF TypeOK, Begin, Goto, Labels
    <2>3. HasBegun'
      BY <1>1, <2>1 DEF TypeOK, HasBegun, Begin, Goto
    <2> QED
      BY <2>2, <2>3
  <1>2. ASSUME NEW t \in Threads, Create(t) \/ RecordPid(t) PROVE TypeInv'
    <2>0. lock' \in {NoLock} \union Lock
      BY <1>2, LockIsLock
    <2>1. TypeOK'
      BY <1>2, <2>0 DEF TypeOK, Create, RecordPid, Goto, Labels, Waiting, Holding
    <2>2. HasBegun'
      BY <1>2 DEF TypeOK, HasBegun, Create, RecordPid, Goto
    <2> QED
      BY <2>1, <2>2
  <1>3. ASSUME NEW t \in Threads, Judge(t) \/ Steal(t) \/ Deadline(t) \/ Refuse(t)
        PROVE  TypeInv'
    <2>1. TypeOK'
      BY <1>3 DEF TypeOK, Judge, Steal, Deadline, Refuse, Goto, Labels, Waiting, Holding, Held
    <2>2. HasBegun'
      BY <1>3 DEF TypeOK, HasBegun, Judge, Steal, Deadline, Refuse, Goto
    <2> QED
      BY <2>1, <2>2
  <1>4. ASSUME NEW t \in Threads, Read(t) \/ CreateTmp(t) PROVE TypeInv'
    <2>1. TypeOK'
      BY <1>4 DEF TypeOK, Read, CreateTmp, Goto, Labels, Holding
    <2>2. HasBegun'
      BY <1>4 DEF TypeOK, HasBegun, Read, CreateTmp, Goto
    <2> QED
      BY <2>1, <2>2
  <1>5. ASSUME NEW t \in Threads, SyncTmp(t) PROVE TypeInv'
    <2>0. Update(t) \in Updates /\ copy[t] \in Seq(Updates)
      BY <1>5, UpdateIsUpdate DEF TypeOK, SyncTmp, Documents
    <2>1. Append(copy[t], Update(t)) \in Documents
      BY <2>0 DEF Documents
    <2>2. TypeOK'
      BY <1>5, <2>1 DEF TypeOK, SyncTmp, Goto, Labels, Holding
    <2>3. HasBegun'
      BY <1>5 DEF TypeOK, HasBegun, SyncTmp, Goto
    <2> QED
      BY <2>2, <2>3
  <1>6. ASSUME NEW t \in Threads, Rename(t) PROVE TypeInv'
    <2>0. tmp[PidOf[t]] \in {Absent, Partial} \union Documents /\ PidOf[t] \in Pids
      BY DEF TypeOK
    <2>3. file' \in {Partial} \union Documents
      BY <1>6, <2>0 DEF TypeOK, Rename
    <2>1. TypeOK'
      BY <1>6, <2>0, <2>3 DEF TypeOK, Rename, Goto, Labels, Holding
    <2>2. HasBegun'
      BY <1>6 DEF TypeOK, HasBegun, Rename, Goto
    <2> QED
      BY <2>1, <2>2
  <1>7. ASSUME NEW t \in Threads, Release(t) PROVE TypeInv'
    <2>1. Update(t) \in Updates
      BY <1>7, UpdateIsUpdate DEF Release
    <2>2. TypeOK'
      BY <1>7, <2>1 DEF TypeOK, Release, Goto, Labels, Held
    <2>3. HasBegun'
      BY <1>7 DEF TypeOK, HasBegun, Release, Goto
    <2> QED
      BY <2>2, <2>3
  <1>8. ASSUME GrowOld PROVE TypeInv'
    BY <1>8 DEF TypeOK, HasBegun, GrowOld, Lock
  <1>9. ASSUME NEW p \in Pids, Kill(p) PROVE TypeInv'
    BY <1>9 DEF TypeOK, HasBegun, Kill, Labels
  <1>10. ASSUME UNCHANGED vars PROVE TypeInv'
    BY <1>10 DEF TypeOK, HasBegun, vars
  <1> QED
    BY <1>1, <1>2, <1>3, <1>4, <1>5, <1>6, <1>7, <1>8, <1>9, <1>10 DEF Next, Step, Finished

\* Nobody is let in while somebody holds, and who takes the file of a holder robs it.
LEMMA LockStep ==
    ASSUME TypeInv, LockInv, [Next]_vars
    PROVE  LockInv'
  <1> SUFFICES ASSUME ~robbed' PROVE HolderOwns'
    BY DEF LockInv
  <1> USE DEF TypeInv, TypeOK
  <1>0. ~robbed /\ HolderOwns
    BY DEF LockInv, Next, Step, Begin, Create, RecordPid, Judge, Steal, Deadline, Read, CreateTmp,
           SyncTmp, Rename, Release, Refuse, GrowOld, Kill, Finished, vars
  <1>1. ASSUME NEW t \in Threads, Begin(t) PROVE HolderOwns'
    BY <1>0, <1>1 DEF HolderOwns, Begin, Goto, Holding
  <1>2. ASSUME NEW t \in Threads, Create(t) PROVE HolderOwns'
    <2>1. CASE lock = NoLock
      <3>1. lock' = [owner |-> t, pid |-> NoPid, old |-> FALSE]
        BY <1>2, <2>1 DEF Create
      <3>2. lock'.owner = t /\ lock' \in Lock
        BY <3>1 DEF Lock
      <3>3. lock' # NoLock
        BY <3>2, LockFileAssumption DEF Lock
      <3> QED
        BY <1>0, <1>2, <2>1, <3>2, <3>3 DEF HolderOwns, Create, Goto
    <2>2. CASE lock # NoLock
      BY <1>0, <1>2, <2>2 DEF HolderOwns, Create, Goto, Holding
    <2> QED
      BY <2>1, <2>2
  <1>3. ASSUME NEW t \in Threads, RecordPid(t) PROVE HolderOwns'
    <2>1. lock # NoLock /\ lock.owner = t /\ lock \in Lock
      BY <1>0, <1>3 DEF HolderOwns, RecordPid, Holding
    <2>2. lock' # NoLock /\ lock'.owner = t
      BY <1>3, <2>1, TypeStep, LockFileAssumption DEF RecordPid, Lock
    <2> QED
      BY <1>0, <1>3, <2>1, <2>2 DEF HolderOwns, RecordPid, Goto, Holding
  <1>4. ASSUME NEW t \in Threads, Steal(t) PROVE HolderOwns'
    BY <1>0, <1>4 DEF HolderOwns, Steal, Goto, Holding, Held
  <1>5. ASSUME NEW t \in Threads, Judge(t) \/ Deadline(t) PROVE HolderOwns'
    BY <1>0, <1>5 DEF HolderOwns, Judge, Deadline, Goto, Holding
  <1>6. ASSUME NEW t \in Threads, Read(t) \/ CreateTmp(t) \/ SyncTmp(t) \/ Rename(t) \/ Refuse(t)
        PROVE  HolderOwns'
    <2>1. pc[t] \in Holding /\ lock' = lock
      BY <1>6 DEF Read, CreateTmp, SyncTmp, Rename, Refuse, Holding
    <2>2. \A s \in Threads \ {t} : pc'[s] = pc[s]
      BY <1>6 DEF Read, CreateTmp, SyncTmp, Rename, Refuse, Goto
    <2> QED
      BY <1>0, <2>1, <2>2 DEF HolderOwns
  <1>7. ASSUME NEW t \in Threads, Release(t) PROVE HolderOwns'
    BY <1>0, <1>7, OwnerIsOne DEF HolderOwns, Release, Goto, Holding, Held
  <1>8. ASSUME GrowOld PROVE HolderOwns'
    <2>1. lock \in Lock /\ lock' = [lock EXCEPT !.old = TRUE]
      BY <1>8 DEF GrowOld
    <2>2. lock' \in Lock /\ lock'.owner = lock.owner
      BY <2>1 DEF Lock
    <2>3. lock' # NoLock
      BY <2>2, LockFileAssumption DEF Lock
    <2> QED
      BY <1>0, <1>8, <2>2, <2>3 DEF HolderOwns, GrowOld
  <1>9. ASSUME NEW p \in Pids, Kill(p) PROVE HolderOwns'
    BY <1>0, <1>9 DEF HolderOwns, Kill, Holding
  <1>10. ASSUME UNCHANGED vars PROVE HolderOwns'
    BY <1>0, <1>10 DEF HolderOwns, vars
  <1> QED
    BY <1>1, <1>2, <1>3, <1>4, <1>5, <1>6, <1>7, <1>8, <1>9, <1>10 DEF Next, Step, Finished

\* A step that only moves a thread, and to where it owes the document nothing.
LEMMA WriterFrame ==
    ASSUME TypeInv, WriterInv, UNCHANGED <<file, tmp, copy, begun>>,
           \A t \in Threads :
               \/ pc'[t] = pc[t]
               \/ pc'[t] = "dead"
               \/ /\ pc[t] \notin {"commit", "idle", "dead"}
                  /\ pc'[t] \in {"record", "read", "abort", "create", "idle"} \union Waiting
               \/ pc[t] \in {"commit", "abort"} /\ pc'[t] = "idle"
    PROVE  WriterInv'
  <1>1. \A t \in Threads : pc'[t] \in {"save", "sync", "rename", "commit"} => pc'[t] = pc[t]
    BY DEF Waiting
  <1>2. CopyIsFresh' /\ TmpIsWhole'
    BY <1>1 DEF WriterInv, CopyIsFresh, TmpIsWhole, Update
  <1>3. AppliedAtRename'
    <2> SUFFICES ASSUME NEW t \in Threads
                 PROVE  /\ Atomic!Has(Update(t)) => pc'[t] \in {"commit", "idle", "dead"}
                        /\ pc'[t] = "commit" => Atomic!Has(Update(t))
      BY DEF AppliedAtRename, Atomic!Has, Update
    <2> QED
      BY <1>1 DEF WriterInv, AppliedAtRename
  <1> QED
    BY <1>2, <1>3 DEF WriterInv, NoneFromTheFuture

\* An update enters the document at its Rename, behind what its writer has read.
LEMMA DocStep ==
    ASSUME IInv, [Next]_vars
    PROVE  DocInv'
  <1> SUFFICES ASSUME ~robbed' PROVE WriterInv'
    BY DEF DocInv
  <1> USE LockFileAssumption DEF IInv, TypeInv
  <1>0. ~robbed /\ HolderOwns /\ WriterInv
    BY DEF LockInv, DocInv, TypeOK, Next, Step, Begin, Create, RecordPid, Judge, Steal, Deadline,
           Read, CreateTmp, SyncTmp, Rename, Release, Refuse, GrowOld, Kill, Finished, vars
  <1>1. ASSUME NEW t \in Threads, Begin(t) PROVE WriterInv'
    <2>1. begun[t] \in Nat /\ begun' = [begun EXCEPT ![t] = begun[t] + 1] /\ file' = file
      BY <1>1 DEF Begin, TypeOK
    <2>2. \A i \in DOMAIN file : file[i] \in Updates
      BY <1>0 DEF WriterInv, Documents
    <2>3. \A i \in DOMAIN file : file[i][1] \in Threads /\ file[i][2] \in Nat
      BY <2>2 DEF Updates
    <2>4. NoneFromTheFuture'
      BY <1>0, <2>1, <2>3 DEF WriterInv, NoneFromTheFuture, TypeOK
    <2>5. ~Atomic!Has(<<t, begun[t] + 1>>)
      BY <1>0, <2>1, <2>3 DEF WriterInv, NoneFromTheFuture, Atomic!Has
    <2>6. \A s \in Threads \ {t} : pc'[s] = pc[s] /\ begun'[s] = begun[s]
      BY <1>1, <2>1 DEF Begin, Goto, TypeOK
    <2>7. pc'[t] = "create" /\ begun'[t] = begun[t] + 1
      BY <1>1, <2>1 DEF Begin, Goto, TypeOK
    <2>8. AppliedAtRename'
      <3> SUFFICES ASSUME NEW s \in Threads
                   PROVE  /\ Atomic!Has(<<s, begun'[s]>>) => pc'[s] \in {"commit", "idle", "dead"}
                          /\ pc'[s] = "commit" => Atomic!Has(<<s, begun'[s]>>)
        BY <2>1 DEF AppliedAtRename, Atomic!Has, Update
      <3>1. CASE s = t
        BY <3>1, <2>5, <2>7
      <3>2. CASE s # t
        BY <3>2, <1>0, <2>6 DEF WriterInv, AppliedAtRename, Update
      <3> QED
        BY <3>1, <3>2
    <2>9. CopyIsFresh' /\ TmpIsWhole'
      BY <1>0, <1>1, <2>6, <2>7 DEF WriterInv, CopyIsFresh, TmpIsWhole, Update, Begin
    <2> QED
      BY <1>0, <2>1, <2>4, <2>8, <2>9 DEF WriterInv
  <1>2. ASSUME NEW t \in Threads, Create(t) \/ RecordPid(t) \/ Judge(t) PROVE WriterInv'
    BY <1>0, <1>2, WriterFrame DEF Create, RecordPid, Judge, Goto, TypeOK, Waiting
  <1>3. ASSUME NEW t \in Threads, Steal(t) \/ Deadline(t) \/ Refuse(t) PROVE WriterInv'
    BY <1>0, <1>3, WriterFrame DEF Steal, Deadline, Refuse, Goto, TypeOK, Waiting
  <1>4. ASSUME NEW t \in Threads, Release(t) PROVE WriterInv'
    BY <1>0, <1>4, WriterFrame DEF Release, Goto, TypeOK
  <1>5. ASSUME NEW t \in Threads, Read(t) \/ CreateTmp(t) \/ SyncTmp(t) PROVE WriterInv'
    <2>1. /\ pc[t] \in {"read", "save", "sync"} /\ pc'[t] \in {"save", "sync", "rename"}
          /\ \A s \in Threads \ {t} : pc'[s] = pc[s] /\ copy'[s] = copy[s]
          /\ file' = file /\ begun' = begun
      BY <1>5 DEF Read, CreateTmp, SyncTmp, Goto, TypeOK
    <2>2. \A s \in Threads \ {t} : pc[s] \notin Holding
      BY <1>0, <2>1, OwnerIsOne DEF Holding
    <2>3. CopyIsFresh'
      BY <1>0, <1>5, <2>1, <2>2
      DEF WriterInv, CopyIsFresh, Holding, Read, CreateTmp, SyncTmp, Goto, TypeOK
    <2>4. pc'[t] = "rename" => tmp'[PidOf[t]] = Append(copy'[t], Update(t)')
      BY <1>5 DEF Read, CreateTmp, SyncTmp, Goto, TypeOK, Update
    <2>5. TmpIsWhole'
      BY <2>1, <2>2, <2>4 DEF TmpIsWhole, Holding
    <2>6. AppliedAtRename'
      <3> SUFFICES ASSUME NEW s \in Threads
                   PROVE  /\ Atomic!Has(Update(s)) => pc'[s] \in {"commit", "idle", "dead"}
                          /\ pc'[s] = "commit" => Atomic!Has(Update(s))
        BY <2>1 DEF AppliedAtRename, Atomic!Has, Update
      <3> QED
        BY <1>0, <2>1 DEF WriterInv, AppliedAtRename
    <2> QED
      BY <1>0, <2>1, <2>3, <2>5, <2>6 DEF WriterInv, NoneFromTheFuture
  <1>6. ASSUME NEW t \in Threads, Rename(t) PROVE WriterInv'
    <2>1. tmp[PidOf[t]] = Append(file, Update(t)) /\ Update(t) \in Updates /\ file \in Seq(Updates)
      BY <1>0, <1>6, UpdateIsUpdate DEF Rename, WriterInv, CopyIsFresh, TmpIsWhole, Documents
    <2>2. Append(file, Update(t)) \in Documents
      BY <2>1 DEF Documents
    <2>3. tmp[PidOf[t]] # Absent
      BY <2>1, <2>2 DEF Documents, Updates
    <2>4. file' = Append(file, Update(t)) /\ pc'[t] = "commit" /\ begun' = begun
      BY <1>6, <2>1, <2>3 DEF Rename, Goto, TypeOK
    <2>5. \A s \in Threads \ {t} : pc'[s] = pc[s] /\ pc[s] \notin Holding
      BY <1>0, <1>6, OwnerIsOne DEF Rename, Goto, TypeOK, Holding
    <2>6. CopyIsFresh' /\ TmpIsWhole'
      BY <2>4, <2>5 DEF CopyIsFresh, TmpIsWhole, Holding
    <2>7. /\ Len(file') = Len(file) + 1 /\ Len(file) \in Nat
          /\ DOMAIN file' = 1 .. Len(file) + 1 /\ DOMAIN file = 1 .. Len(file)
          /\ \A i \in 1 .. Len(file) : file'[i] = file[i]
          /\ file'[Len(file) + 1] = Update(t)
      BY <2>1, <2>4
    <2>8. NoneFromTheFuture'
      <3> SUFFICES ASSUME NEW i \in 1 .. Len(file) + 1 PROVE file'[i][2] <= begun[file'[i][1]]
        BY <2>4, <2>7 DEF NoneFromTheFuture
      <3>1. CASE i = Len(file) + 1
        BY <2>7, <3>1 DEF Update, TypeOK
      <3>2. CASE i \in 1 .. Len(file)
        BY <1>0, <2>7, <3>2 DEF WriterInv, NoneFromTheFuture
      <3> QED
        BY <2>7, <3>1, <3>2
    <2>9. \A u : Atomic!Has(u)' <=> Atomic!Has(u) \/ u = Update(t)
      BY <2>7 DEF Atomic!Has
    <2>10. AppliedAtRename'
      <3> SUFFICES ASSUME NEW s \in Threads
                   PROVE  /\ Atomic!Has(Update(s))' => pc'[s] \in {"commit", "idle", "dead"}
                          /\ pc'[s] = "commit" => Atomic!Has(Update(s))'
        BY DEF AppliedAtRename
      <3> QED
        BY <1>0, <2>4, <2>5, <2>9 DEF WriterInv, AppliedAtRename, Update, Holding
    <2> QED
      BY <2>2, <2>4, <2>6, <2>8, <2>10 DEF WriterInv
  <1>7. ASSUME GrowOld PROVE WriterInv'
    BY <1>0, <1>7, WriterFrame DEF GrowOld
  <1>8. ASSUME NEW p \in Pids, Kill(p) PROVE WriterInv'
    BY <1>0, <1>8, WriterFrame DEF Kill
  <1>9. ASSUME UNCHANGED vars PROVE WriterInv'
    BY <1>0, <1>9, WriterFrame DEF vars
  <1> QED
    BY <1>1, <1>2, <1>3, <1>4, <1>5, <1>6, <1>7, <1>8, <1>9 DEF Next, Step, Finished

(***************************************************************************)
(* Theorems.                                                                *)
(***************************************************************************)
\* The inductive invariant of lockfile.rs and of mutate() in store.rs.
LEMMA Invariant == Spec => []IInv
  <1>1. Init => IInv
    <2> SUFFICES ASSUME Init PROVE IInv
      OBVIOUS
    <2>1. TypeInv
      <3>1. <<>> \in Documents
        BY DEF Documents
      <3>2. robbed \in BOOLEAN /\ answered \subseteq Updates /\ alive \subseteq Pids
        BY DEF Init
      <3>3. pc \in [Threads -> Labels] /\ HasBegun
        BY DEF Init, Labels, HasBegun
      <3>4. begun \in [Threads -> 0 .. MaxUpdates]
        BY LockFileAssumption DEF Init
      <3> QED
        BY <3>1, <3>2, <3>3, <3>4 DEF Init, TypeInv, TypeOK
    <2>2. LockInv
      BY DEF Init, LockInv, HolderOwns, Holding
    <2>3. DocInv
      BY DEF Init, DocInv, WriterInv, CopyIsFresh, TmpIsWhole, NoneFromTheFuture, AppliedAtRename,
             Documents, Atomic!Has
    <2> QED
      BY <2>1, <2>2, <2>3 DEF IInv
  <1>2. IInv /\ [Next]_vars => IInv'
    BY TypeStep, LockStep, DocStep DEF IInv
  <1> QED
    BY <1>1, <1>2, PTL DEF Spec

\* For any threads and processes, two threads never hold the lock of acquire()
\* at once unless a live holder has been robbed: not after a crash either.
THEOREM OneHolderAlways == Spec => []OneHolder
  <1>1. IInv => OneHolder
    BY OwnerIsOne DEF IInv, LockInv, OneHolder
  <1> QED
    BY <1>1, Invariant, PTL

\* A step of the files is a step of AtomicDocument, or none.
LEMMA StepKeepsPromise ==
    ASSUME IInv, [Next]_vars
    PROVE  [Atomic!Next]_(Atomic!vars)
  <1> USE DEF IInv, TypeInv
  <1>1. CASE robbed
    <2>1. robbed'
      BY <1>1 DEF TypeOK, Next, Step, Begin, Create, RecordPid, Judge, Steal, Deadline, Read,
             CreateTmp, SyncTmp, Rename, Release, Refuse, GrowOld, Kill, Finished, vars
    <2> QED
      BY <1>1, <2>1 DEF Atomic!Next, Atomic!Voided
  <1>2. CASE ~robbed
    <2>0. HolderOwns /\ WriterInv
      BY <1>2 DEF LockInv, DocInv
    <2>1. ASSUME NEW t \in Threads, Steal(t) PROVE [Atomic!Next]_(Atomic!vars)
      <3>1. robbed' \in BOOLEAN /\ UNCHANGED <<file, answered>>
        BY <2>1 DEF Steal, TypeOK, Held
      <3>2. CASE robbed'
        BY <1>2, <3>1, <3>2 DEF Atomic!Next, Atomic!Void
      <3>3. CASE ~robbed'
        BY <1>2, <3>1, <3>3 DEF Atomic!vars, TypeOK
      <3> QED
        BY <3>2, <3>3
    <2>2. ASSUME NEW t \in Threads, Rename(t) PROVE [Atomic!Next]_(Atomic!vars)
      <3>1. /\ tmp[PidOf[t]] = Append(file, Update(t))
            /\ Update(t) \in Updates /\ file \in Seq(Updates)
            /\ ~Atomic!Has(Update(t))
        BY <2>0, <2>2, UpdateIsUpdate
        DEF Rename, WriterInv, CopyIsFresh, TmpIsWhole, AppliedAtRename, Documents
      <3>2. Append(file, Update(t)) \in Documents
        BY <3>1 DEF Documents
      <3>3. tmp[PidOf[t]] # Absent
        BY <3>1, <3>2, LockFileAssumption DEF Documents, Updates
      <3>4. Atomic!Apply(Update(t))
        BY <1>2, <2>2, <3>1, <3>3 DEF Rename, Atomic!Apply
      <3> QED
        BY <3>1, <3>4 DEF Atomic!Next
    <2>3. ASSUME NEW t \in Threads, Release(t) PROVE [Atomic!Next]_(Atomic!vars)
      <3>1. lock.owner = t /\ ~robbed' /\ file' = file
        BY <1>2, <2>0, <2>3 DEF HolderOwns, Release, Holding
      <3>2. CASE pc[t] = "commit"
        <4>1. Atomic!Answer(Update(t))
          BY <1>2, <2>0, <2>3, <3>1, <3>2 DEF Release, WriterInv, AppliedAtRename, Atomic!Answer, TypeOK
        <4> QED
          BY <3>2, <4>1, UpdateIsUpdate DEF Atomic!Next
      <3>3. CASE pc[t] # "commit"
        BY <1>2, <2>3, <3>1, <3>3 DEF Release, Atomic!vars, TypeOK
      <3> QED
        BY <3>2, <3>3
    <2>4. ASSUME NEW t \in Threads,
                 Begin(t) \/ Create(t) \/ RecordPid(t) \/ Judge(t) \/ Deadline(t)
                   \/ Read(t) \/ CreateTmp(t) \/ SyncTmp(t) \/ Refuse(t)
          PROVE  UNCHANGED Atomic!vars
      BY <2>4 DEF Begin, Create, RecordPid, Judge, Deadline, Read, CreateTmp, SyncTmp, Refuse,
                  Atomic!vars
    <2>5. ASSUME GrowOld \/ (\E p \in Pids : Kill(p)) \/ UNCHANGED vars
          PROVE  UNCHANGED Atomic!vars
      BY <2>5 DEF GrowOld, Kill, vars, Atomic!vars
    <2> QED
      BY <2>1, <2>2, <2>3, <2>4, <2>5 DEF Next, Step, Finished
  <1> QED
    BY <1>1, <1>2

\* The files of mutate() and write() keep the promise of AtomicDocument for any
\* number of threads, processes, updates and crashes.
THEOREM FilesKeepPromise == Spec => KeepsPromise
  <1>1. Init => Atomic!Init
    BY DEF Init, Atomic!Init
  <1>2. IInv /\ [Next]_vars => [Atomic!Next]_(Atomic!vars)
    BY StepKeepsPromise
  <1> QED
    BY <1>1, <1>2, Invariant, PTL DEF Spec, KeepsPromise, Atomic!Spec
=============================================================================
