---------------------------- MODULE ProcessLock ----------------------------
(***************************************************************************)
(* The process lock of `factor run` (src/internal/daemon/lock.go): a lock  *)
(* file created on demand, locked with a non-blocking flock, and removed   *)
(* by the process that releases it.  A lock belongs to the inode a process *)
(* opened, not to the path: the model keeps both.                          *)
(***************************************************************************)
EXTENDS Integers

CONSTANTS
    Process,        \* daemon processes; a restart reuses the name
    NoFile,         \* no inode, no lock owner
    MaxInodes,      \* bound: lock files created in a behaviour
    MaxKills        \* bound: processes killed in a behaviour

ASSUME NoFileAssumption == NoFile \notin Process \cup Nat
ASSUME BoundsAssumption == MaxInodes \in Nat \ {0} /\ MaxKills \in Nat

VARIABLES
    path,           \* the inode the lock path names
    created,        \* inodes created so far: 1..created
    owner,          \* who holds the flock of an inode
    content,        \* whose pid an inode holds
    fd,             \* the inode each process has open
    pc,
    kills

vars == <<path, created, owner, content, fd, pc, kills>>

Inode == 1..MaxInodes
States == {"stopped", "opened", "locked", "running", "unlocked", "closed"}

Init ==
    /\ path = NoFile
    /\ created = 0
    /\ owner = [i \in Inode |-> NoFile]
    /\ content = [i \in Inode |-> NoFile]
    /\ fd = [p \in Process |-> NoFile]
    /\ pc = [p \in Process |-> "stopped"]
    /\ kills = 0

(* Mutant: the file is truncated when it is opened, not when it is locked. *)
OpenTruncates(p) ==
    /\ pc[p] = "stopped"
    /\ \/ /\ path # NoFile
          /\ fd' = [fd EXCEPT ![p] = path]
          /\ content' = [content EXCEPT ![path] = NoFile]
          /\ UNCHANGED <<path, created>>
       \/ /\ path = NoFile /\ created < MaxInodes
          /\ created' = created + 1
          /\ path' = created + 1
          /\ fd' = [fd EXCEPT ![p] = created + 1]
          /\ UNCHANGED content
    /\ pc' = [pc EXCEPT ![p] = "opened"]
    /\ UNCHANGED <<owner, kills>>

(* os.OpenFile(path, O_CREATE|O_RDWR). *)
Open(p) ==
    /\ pc[p] = "stopped"
    /\ \/ /\ path # NoFile
          /\ fd' = [fd EXCEPT ![p] = path]
          /\ UNCHANGED <<path, created>>
       \/ /\ path = NoFile /\ created < MaxInodes
          /\ created' = created + 1
          /\ path' = created + 1
          /\ fd' = [fd EXCEPT ![p] = created + 1]
    /\ pc' = [pc EXCEPT ![p] = "opened"]
    /\ UNCHANGED <<owner, content, kills>>

(* Mutant: the lock file's existence, not its flock, decides. *)
FlockIgnored(p) ==
    /\ pc[p] = "opened"
    /\ owner' = [owner EXCEPT ![fd[p]] = p]
    /\ pc' = [pc EXCEPT ![p] = "locked"]
    /\ UNCHANGED <<path, created, content, fd, kills>>

(* syscall.Flock(LOCK_EX|LOCK_NB) succeeds. *)
Flock(p) ==
    /\ pc[p] = "opened"
    /\ owner[fd[p]] = NoFile
    /\ owner' = [owner EXCEPT ![fd[p]] = p]
    /\ pc' = [pc EXCEPT ![p] = "locked"]
    /\ UNCHANGED <<path, created, content, fd, kills>>

(* Mutant: the file of a refused start stays open. *)
RefusedLeaksFd(p) ==
    /\ pc[p] = "opened"
    /\ owner[fd[p]] # NoFile
    /\ pc' = [pc EXCEPT ![p] = "stopped"]
    /\ UNCHANGED <<path, created, owner, content, fd, kills>>

(* "process lock already held": the file is closed, the daemon exits. *)
Refused(p) ==
    /\ pc[p] = "opened"
    /\ owner[fd[p]] # NoFile
    /\ fd' = [fd EXCEPT ![p] = NoFile]
    /\ pc' = [pc EXCEPT ![p] = "stopped"]
    /\ UNCHANGED <<path, created, owner, content, kills>>

(* Truncate, then the pid: AcquireLock returns and the daemon runs. *)
WritePid(p) ==
    /\ pc[p] = "locked"
    /\ content' = [content EXCEPT ![fd[p]] = p]
    /\ pc' = [pc EXCEPT ![p] = "running"]
    /\ UNCHANGED <<path, created, owner, fd, kills>>

(* Close: LOCK_UN ... *)
Unlock(p) ==
    /\ pc[p] = "running"
    /\ owner' = [owner EXCEPT ![fd[p]] = NoFile]
    /\ pc' = [pc EXCEPT ![p] = "unlocked"]
    /\ UNCHANGED <<path, created, content, fd, kills>>

(* ... close(2) ... *)
CloseFile(p) ==
    /\ pc[p] = "unlocked"
    /\ fd' = [fd EXCEPT ![p] = NoFile]
    /\ pc' = [pc EXCEPT ![p] = "closed"]
    /\ UNCHANGED <<path, created, owner, content, kills>>

(* ... os.Remove(path), whatever file the path names by now. *)
RemovePath(p) ==
    /\ pc[p] = "closed"
    /\ path' = NoFile
    /\ pc' = [pc EXCEPT ![p] = "stopped"]
    /\ UNCHANGED <<created, owner, content, fd, kills>>

(* Mutant: the flock of a dead process survives it, as a pid file would. *)
KillKeepsLock(p) ==
    /\ pc[p] # "stopped" /\ kills < MaxKills
    /\ kills' = kills + 1
    /\ fd' = [fd EXCEPT ![p] = NoFile]
    /\ pc' = [pc EXCEPT ![p] = "stopped"]
    /\ UNCHANGED <<path, created, owner, content>>

(* The process dies: the kernel closes its files and drops its flock; the  *)
(* lock file stays.  A failed write of the pid ends the same way.          *)
Kill(p) ==
    /\ pc[p] # "stopped" /\ kills < MaxKills
    /\ kills' = kills + 1
    /\ owner' = [i \in Inode |-> IF owner[i] = p THEN NoFile ELSE owner[i]]
    /\ fd' = [fd EXCEPT ![p] = NoFile]
    /\ pc' = [pc EXCEPT ![p] = "stopped"]
    /\ UNCHANGED <<path, created, content>>

Acquire(p) == Open(p) \/ Flock(p) \/ Refused(p) \/ WritePid(p)
Close(p) == Unlock(p) \/ CloseFile(p) \/ RemovePath(p)

Next == \E p \in Process : Acquire(p) \/ Close(p) \/ Kill(p)

Spec == Init /\ [][Next]_vars

(* A started daemon, and one that is closing, keeps going; systemd starts  *)
(* it again.  Nothing obliges a running daemon to stop.                    *)
FairSpec ==
    /\ Spec
    /\ \A p \in Process :
          WF_vars(Acquire(p)) /\ WF_vars(CloseFile(p) \/ RemovePath(p))

-----------------------------------------------------------------------------
Running(p) == pc[p] = "running"

(* Types, and which files are open: a process has the lock file open from  *)
(* OpenFile to close, and no path of AcquireLock or Close leaks it.        *)
TypeOK ==
    /\ path \in Inode \cup {NoFile}
    /\ created \in 0..MaxInodes
    /\ owner \in [Inode -> Process \cup {NoFile}]
    /\ content \in [Inode -> Process \cup {NoFile}]
    /\ fd \in [Process -> Inode \cup {NoFile}]
    /\ pc \in [Process -> States]
    /\ \A p \in Process : fd[p] = NoFile <=> pc[p] \in {"stopped", "closed"}
    /\ kills \in 0..MaxKills

(* A second AcquireLock fails while a first lock is held: at most one      *)
(* daemon runs at a time.                                                  *)
MutualExclusion ==
    \A p, q \in Process : Running(p) /\ Running(q) => p = q

(* The file a running daemon has locked holds its pid, whoever locked or   *)
(* removed the file before and whatever the path names now.                *)
HolderNamed ==
    \A p \in Process : Running(p) => content[fd[p]] = p /\ owner[fd[p]] = p

(* Killed daemons never defeat the lock: two daemons run together only     *)
(* when an orderly stop has removed a lock file, so that a second one was  *)
(* created.                                                                *)
ExclusiveUnlessRemoved == created <= 1 => MutualExclusion

(* Bound: the path is gone and no further lock file can be created. *)
Exhausted == path = NoFile /\ created = MaxInodes

(* Nobody is locked out by a lock file that a dead daemon left or that a   *)
(* stopping one is about to remove: when no daemon runs, some start        *)
(* succeeds.                                                               *)
LockRecovers ==
    (\A p \in Process : ~Running(p)) ~> (\E p \in Process : Running(p)) \/ Exhausted
=============================================================================
