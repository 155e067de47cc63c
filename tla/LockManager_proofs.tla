-------------------------- MODULE LockManager_proofs --------------------------
(***************************************************************************)
(* Proofs about LockManager, for every set of processes and of inodes.     *)
(* LockInv is inductive; what survives of mutual exclusion follows.        *)
(***************************************************************************)
EXTENDS LockManager, TLAPS

\* The initial state: no file, every process idle.
LEMMA InitLockInv == Init => LockInv
  BY LockAssumption
  DEF Init, LockInv, TypeOK, LocalsConsistent, NoLeakedLock, HolderIsNamed,
      Holding, Control, Locked

\* Steps that move a process between control points at which it has no
\* descriptor leave every descriptor and every flock as it was.
LEMMA NoDescriptorStep ==
  ASSUME LockInv, NEW p \in Process,
         \/ \E wait \in BOOLEAN : AcquireLock(p, wait)
         \/ TryOpenFails(p) \/ ReadStalePid(p)
         \/ UnlinkStale(p) \/ UnlinkReleased(p)
  PROVE  LockInv'
<1> USE LockAssumption
    DEF LockInv, TypeOK, LocalsConsistent, NoLeakedLock, HolderIsNamed,
        Holding, Control, Locked, At, Goto, AfterFailedTry
<1>1. CASE \E wait \in BOOLEAN : AcquireLock(p, wait)
  BY <1>1 DEF AcquireLock
<1>2. CASE TryOpenFails(p)
  BY <1>2 DEF TryOpenFails
<1>3. CASE ReadStalePid(p)
  BY <1>3 DEF ReadStalePid
<1>4. CASE UnlinkStale(p)
  BY <1>4 DEF UnlinkStale
<1>5. CASE UnlinkReleased(p)
  BY <1>5 DEF UnlinkReleased
<1>6. QED
  BY <1>1, <1>2, <1>3, <1>4, <1>5

\* Opening the path empties a file only if no process has it open, so the PID
\* in a holder's file survives.
LEMMA OpenStep ==
  ASSUME LockInv, NEW p \in Process, TryOpen(p) \/ ProbeOpen(p)
  PROVE  LockInv'
<1> USE LockAssumption
    DEF LockInv, TypeOK, LocalsConsistent, NoLeakedLock, HolderIsNamed,
        Holding, Control, Locked, At, Goto, OpenFile
<1>1. CASE TryOpen(p)
  BY <1>1 DEF TryOpen
<1>2. CASE ProbeOpen(p)
  BY <1>2 DEF ProbeOpen
<1>3. QED
  BY <1>1, <1>2

\* flock succeeds only on an inode that nobody has locked.
LEMMA FlockStep ==
  ASSUME LockInv, NEW p \in Process,
         TryLock(p) \/ ProbeLock(p) \/ TryLockFails(p)
  PROVE  LockInv'
<1> USE LockAssumption
    DEF LockInv, TypeOK, LocalsConsistent, NoLeakedLock, HolderIsNamed,
        Holding, Control, Locked, At, Goto, AfterFailedTry
<1>1. CASE TryLock(p)
  BY <1>1 DEF TryLock
<1>2. CASE ProbeLock(p)
  BY <1>2 DEF ProbeLock
<1>3. CASE TryLockFails(p)
  BY <1>3 DEF TryLockFails
<1>4. QED
  BY <1>1, <1>2, <1>3

\* The PID is written under the flock, so in no other holder's file.
LEMMA WriteStep ==
  ASSUME LockInv, NEW p \in Process, WritePid(p) \/ WriteFails(p)
  PROVE  LockInv'
<1> USE LockAssumption
    DEF LockInv, TypeOK, LocalsConsistent, NoLeakedLock, HolderIsNamed,
        Holding, Control, Locked, At, Goto, AfterFailedTry, Unlocked
<1>1. CASE WritePid(p)
  BY <1>1 DEF WritePid
<1>2. CASE WriteFails(p)
  BY <1>2 DEF WriteFails
<1>3. QED
  BY <1>1, <1>2

\* Closing a descriptor, by release, probe or death, frees exactly its flock.
LEMMA CloseStep ==
  ASSUME LockInv, NEW p \in Process,
         \/ UnlockAndClose(p) \/ ProbeClose(p) \/ Crash(p) \/ Restart(p)
  PROVE  LockInv'
<1> USE LockAssumption
    DEF LockInv, TypeOK, LocalsConsistent, NoLeakedLock, HolderIsNamed,
        Holding, Control, Locked, At, Goto, Unlocked
<1>1. CASE UnlockAndClose(p)
  BY <1>1 DEF UnlockAndClose
<1>2. CASE ProbeClose(p)
  BY <1>2 DEF ProbeClose
<1>3. CASE Crash(p)
  BY <1>3 DEF Crash
<1>4. CASE Restart(p)
  BY <1>4 DEF Restart
<1>5. QED
  BY <1>1, <1>2, <1>3, <1>4

\* LockInv is an invariant of the lock, whatever the number of processes.
THEOREM LockInvariant == Spec => []LockInv
<1>1. LockInv /\ [Next]_vars => LockInv'
  <2> SUFFICES ASSUME LockInv, [Next]_vars
               PROVE  LockInv'
    OBVIOUS
  <2>1. ASSUME NEW p \in Process, Step(p) \/ Crash(p) \/ Restart(p)
        PROVE  LockInv'
    BY <2>1, NoDescriptorStep, OpenStep, FlockStep, WriteStep, CloseStep
    DEF Step
  <2>2. CASE UNCHANGED vars
    BY <2>2 DEF vars, LockInv, TypeOK, LocalsConsistent, NoLeakedLock,
                HolderIsNamed, Holding
  <2>3. QED
    BY <2>1, <2>2 DEF Next
<1>2. QED
  BY InitLockInv, <1>1, PTL DEF Spec

\* No crash, failed attempt or probe leaves a flock behind: a stale lock file
\* never keeps anybody out (release_lock, is_locked, _try_acquire).
THEOREM LockNeverLeaks == Spec => []NoLeakedLock
<1>1. LockInv => NoLeakedLock
  BY DEF LockInv
<1>2. QED
  BY <1>1, LockInvariant, PTL

\* At most one process in the critical section holds the file that the lock
\* path names, although several may hold files that have been unlinked.
THEOREM PathIsHeldOnce == Spec => []OneHolderOfThePath
<1>1. LockInv => OneHolderOfThePath
  BY LockAssumption
  DEF LockInv, TypeOK, LocalsConsistent, NoLeakedLock, OneHolderOfThePath,
      Holding, Locked
<1>2. QED
  BY <1>1, LockInvariant, PTL

\* The PID in a holder's file is the holder's, which is what makes the reading
\* of the file by _clean_stale_lock meaningful.
THEOREM HolderStaysNamed == Spec => []HolderIsNamed
<1>1. LockInv => HolderIsNamed
  BY DEF LockInv
<1>2. QED
  BY <1>1, LockInvariant, PTL

=============================================================================
