----------------------------- MODULE LockProofs -----------------------------
(***************************************************************************)
(* Theorems about the process lock, for every number of daemons, lock      *)
(* files and kills.                                                        *)
(***************************************************************************)
EXTENDS ProcessLock, TLAPS

(* The path and the open files name files that were created. *)
FilesExist ==
    /\ path # NoFile => path <= created
    /\ \A p \in Process : fd[p] # NoFile => fd[p] <= created

(* A flock is held by a process that is between Flock and Unlock, on the   *)
(* file it has open.                                                       *)
FlockHeld ==
    \A p \in Process, i \in Inode :
        owner[i] = p <=> fd[p] = i /\ pc[p] \in {"locked", "running"}

PidWritten == \A p \in Process : Running(p) => content[fd[p]] = p

IInv == TypeOK /\ FilesExist /\ FlockHeld /\ PidWritten

-----------------------------------------------------------------------------
LEMMA LockInit == Init => IInv
BY NoFileAssumption, BoundsAssumption
   DEF Init, IInv, TypeOK, FilesExist, FlockHeld, PidWritten, Running, Inode,
       States

(* Every system call of AcquireLock and Close, and the death of a process, *)
(* keeps the files, the flocks and the pids in step.                       *)
LEMMA LockStep == IInv /\ [Next]_vars => IInv'
<1> SUFFICES ASSUME IInv, [Next]_vars PROVE IInv' OBVIOUS
<1> USE NoFileAssumption, BoundsAssumption
    DEF IInv, TypeOK, FilesExist, FlockHeld, PidWritten, Running, Inode, States
<1>1. ASSUME NEW p \in Process, Open(p) PROVE IInv'
  <2>1. CASE path # NoFile
    <3>1. /\ path \in Inode /\ path <= created
          /\ UNCHANGED <<path, created, owner, content, kills>>
          /\ fd' = [fd EXCEPT ![p] = path] /\ pc' = [pc EXCEPT ![p] = "opened"]
      BY <1>1, <2>1 DEF Open
    <3>2. TypeOK' BY <3>1
    <3>3. FilesExist' BY <3>1
    <3>4. FlockHeld' BY <1>1, <3>1 DEF Open
    <3>5. PidWritten' BY <1>1, <3>1 DEF Open
    <3> QED BY <3>2, <3>3, <3>4, <3>5
  <2>2. CASE path = NoFile
    <3>1. /\ created < MaxInodes /\ created' = created + 1 /\ path' = created + 1
          /\ UNCHANGED <<owner, content, kills>>
          /\ fd' = [fd EXCEPT ![p] = created + 1]
          /\ pc' = [pc EXCEPT ![p] = "opened"]
      BY <1>1, <2>2 DEF Open
    <3>2. TypeOK' BY <3>1
    <3>3. FilesExist' BY <3>1
    <3>4. FlockHeld' BY <1>1, <3>1 DEF Open
    <3>5. PidWritten' BY <1>1, <3>1 DEF Open
    <3> QED BY <3>2, <3>3, <3>4, <3>5
  <2> QED BY <2>1, <2>2
<1>2. ASSUME NEW p \in Process, Flock(p) PROVE IInv' BY <1>2 DEF Flock
<1>3. ASSUME NEW p \in Process, Refused(p) PROVE IInv' BY <1>3 DEF Refused
<1>4. ASSUME NEW p \in Process, WritePid(p) PROVE IInv' BY <1>4 DEF WritePid
<1>5. ASSUME NEW p \in Process, Unlock(p) PROVE IInv' BY <1>5 DEF Unlock
<1>6. ASSUME NEW p \in Process, CloseFile(p) PROVE IInv' BY <1>6 DEF CloseFile
<1>7. ASSUME NEW p \in Process, RemovePath(p) PROVE IInv' BY <1>7 DEF RemovePath
<1>8. ASSUME NEW p \in Process, Kill(p) PROVE IInv' BY <1>8 DEF Kill
<1>9. CASE UNCHANGED vars BY <1>9 DEF vars
<1> QED BY <1>1, <1>2, <1>3, <1>4, <1>5, <1>6, <1>7, <1>8, <1>9
        DEF Next, Acquire, Close

LEMMA LockInvariant == Spec => []IInv
BY LockInit, LockStep, PTL DEF Spec

(* No path through AcquireLock and Close leaks the lock file or closes it  *)
(* early, for any number of daemons, files and kills.                      *)
THEOREM LockTypeOK == Spec => []TypeOK
<1>1. IInv => TypeOK BY DEF IInv
<1> QED BY <1>1, LockInvariant, PTL

(* The file a running daemon has locked always holds that daemon's pid.    *)
THEOREM LockHolderNamed == Spec => []HolderNamed
<1>1. IInv => HolderNamed
  BY NoFileAssumption
     DEF IInv, TypeOK, FlockHeld, PidWritten, HolderNamed, Running, Inode, States
<1> QED BY <1>1, LockInvariant, PTL

(* However many daemons start, stop and are killed, two run together only  *)
(* after an orderly stop has removed a lock file.                          *)
THEOREM LockExcludes == Spec => []ExclusiveUnlessRemoved
<1>1. IInv => ExclusiveUnlessRemoved
  <2> SUFFICES ASSUME IInv, created <= 1, NEW p \in Process, NEW q \in Process,
                      Running(p), Running(q)
               PROVE  p = q
    BY DEF ExclusiveUnlessRemoved, MutualExclusion
  <2>1. fd[p] \in Inode /\ fd[q] \in Inode
    BY DEF IInv, TypeOK, Running, Inode
  <2>2. fd[p] = 1 /\ fd[q] = 1
    BY <2>1, NoFileAssumption, BoundsAssumption DEF IInv, TypeOK, FilesExist, Inode
  <2>3. owner[1] = p /\ owner[1] = q
    BY <2>1, <2>2 DEF IInv, FlockHeld, Running
  <2> QED BY <2>3
<1> QED BY <1>1, LockInvariant, PTL
=============================================================================
