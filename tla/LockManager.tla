----------------------------- MODULE LockManager -----------------------------
(***************************************************************************)
(* The file lock of core/lock_manager.py: one LockManager object in each   *)
(* of several processes, all on the same path.  The model keeps what POSIX *)
(* makes of the calls: the path names an inode, a process opens the inode  *)
(* the path names at that moment, flock belongs to the inode and not to    *)
(* the path, and unlink detaches the path from whatever inode it names.    *)
(* One action is one system call, since that is what processes interleave. *)
(*                                                                         *)
(* A dead process may start again under the same identity, which is also   *)
(* the reuse of a PID by an unrelated process.  Calls the code answers     *)
(* without touching the file (acquire_lock and is_locked by the holder,    *)
(* release_lock by a process that holds nothing) change nothing and are    *)
(* not actions.                                                            *)
(***************************************************************************)
EXTENDS Naturals, FiniteSets

CONSTANTS Process,   \* the processes that share the lock path
          Inode,     \* identities of files; one that nothing refers to is reused
          NoProcess, \* an inode that nobody has flocked, a file without a PID
          NoInode    \* a path that names no file, a process with no open file

ASSUME LockAssumption ==
    /\ NoProcess \notin Process
    /\ NoInode \notin Inode

VARIABLES
    path,     \* the inode the lock path names
    content,  \* the PID written in each inode
    owner,    \* the process whose descriptor holds the flock of each inode
    fd,       \* the inode each process has open (_lock_file, or a local fd)
    pc,       \* where each process is in the LockManager methods
    patient,  \* whether its acquire_lock call was given a timeout > 0
    alive     \* whether the process exists

vars == <<path, content, owner, fd, pc, patient, alive>>

-----------------------------------------------------------------------------
(* Control points, named for what the process does next.                    *)

\* Those at which the descriptor of the process holds a flock.
Locked == {"writing", "held", "probed"}

Control == {"idle",       \* outside the methods, holding nothing
            "opening",    \* _try_acquire: about to open the path
            "locking",    \* _try_acquire: about to flock the descriptor
            "deadline",   \* acquire_lock timed out: about to read the file
            "cleaning",   \* _clean_stale_lock: about to unlink the path
            "unlinking",  \* release_lock: closed, about to unlink the path
            "probing"}    \* is_locked: about to flock the descriptor
           \cup Locked

Init ==
    /\ path = NoInode
    /\ content = [i \in Inode |-> NoProcess]
    /\ owner = [i \in Inode |-> NoProcess]
    /\ fd = [p \in Process |-> NoInode]
    /\ pc = [p \in Process |-> "idle"]
    /\ patient = [p \in Process |-> FALSE]
    /\ alive = [p \in Process |-> TRUE]

At(p, label) == alive[p] /\ pc[p] = label

Goto(p, label) == pc' = [pc EXCEPT ![p] = label]

\* open(path, "a"): the file the path names, or a new empty one.
OpenFile(p) ==
    \E i \in Inode :
        /\ \/ /\ path = i
              /\ UNCHANGED content
           \/ /\ path = NoInode
              /\ \A q \in Process : fd[q] # i
              /\ content' = [content EXCEPT ![i] = NoProcess]
        /\ path' = i
        /\ fd' = [fd EXCEPT ![p] = i]

\* The owners once the descriptor of p is closed.
Unlocked(p) == [i \in Inode |-> IF owner[i] = p THEN NoProcess ELSE owner[i]]

-----------------------------------------------------------------------------
(* acquire_lock and _try_acquire                                            *)

\* acquire_lock(timeout): `wait` is timeout > 0.
AcquireLock(p, wait) ==
    /\ At(p, "idle")
    /\ patient' = [patient EXCEPT ![p] = wait]
    /\ Goto(p, "opening")
    /\ UNCHANGED <<path, content, owner, fd, alive>>

TryOpen(p) ==
    /\ At(p, "opening")
    /\ OpenFile(p)
    /\ Goto(p, "locking")
    /\ UNCHANGED <<owner, patient, alive>>

\* Mutant for TypeOK: a failed attempt ends at a point nobody goes on from.
AfterFailedTryLost(p) ==
    IF patient[p] THEN Goto(p, "opening") ELSE Goto(p, "failed")

\* A failed attempt: return False, sleep and try again, or run out of time.
AfterFailedTry(p) ==
    IF patient[p] THEN Goto(p, "opening") \/ Goto(p, "deadline")
                  ELSE Goto(p, "idle")

\* Mutant for OneHolderOfThePath: the flock is shared instead of exclusive.
TryLockShared(p) ==
    /\ At(p, "locking")
    /\ owner' = [owner EXCEPT ![fd[p]] = p]
    /\ Goto(p, "writing")
    /\ UNCHANGED <<path, content, fd, patient, alive>>

TryLock(p) ==
    /\ At(p, "locking")
    /\ owner[fd[p]] = NoProcess
    /\ owner' = [owner EXCEPT ![fd[p]] = p]
    /\ Goto(p, "writing")
    /\ UNCHANGED <<path, content, fd, patient, alive>>

\* flock raises because another descriptor has it: the local fd is closed.
TryLockFails(p) ==
    /\ At(p, "locking")
    /\ owner[fd[p]] # NoProcess
    /\ fd' = [fd EXCEPT ![p] = NoInode]
    /\ AfterFailedTry(p)
    /\ UNCHANGED <<path, content, owner, patient, alive>>

\* open itself raises: nothing to close.
TryOpenFails(p) ==
    /\ At(p, "opening")
    /\ AfterFailedTry(p)
    /\ UNCHANGED <<path, content, owner, fd, patient, alive>>

\* Mutant for HolderIsNamed: the PID is written to whatever file the path
\* names by now, not to the file that is locked.
WritePidByPath(p) ==
    /\ At(p, "writing")
    /\ content' = [i \in Inode |-> IF i = path THEN p ELSE content[i]]
    /\ Goto(p, "held")
    /\ UNCHANGED <<path, owner, fd, patient, alive>>

\* truncate, write the PID, flush, and keep the descriptor.
WritePid(p) ==
    /\ At(p, "writing")
    /\ content' = [content EXCEPT ![fd[p]] = p]
    /\ Goto(p, "held")
    /\ UNCHANGED <<path, owner, fd, patient, alive>>

\* Mutant for NoLeakedLock: the descriptor is not closed after the error.
WriteFailsOpen(p) ==
    /\ At(p, "writing")
    /\ content' = [content EXCEPT ![fd[p]] = NoProcess]
    /\ AfterFailedTry(p)
    /\ UNCHANGED <<path, owner, fd, patient, alive>>

\* truncate, write or flush raises: the local fd is closed, the file is empty.
WriteFails(p) ==
    /\ At(p, "writing")
    /\ content' = [content EXCEPT ![fd[p]] = NoProcess]
    /\ owner' = Unlocked(p)
    /\ fd' = [fd EXCEPT ![p] = NoInode]
    /\ AfterFailedTry(p)
    /\ UNCHANGED <<path, patient, alive>>

-----------------------------------------------------------------------------
(* _clean_stale_lock, run when acquire_lock has timed out                   *)

\* Read the file: on to unlink only if it names a process that is dead.
ReadStalePid(p) ==
    /\ At(p, "deadline")
    /\ IF /\ path # NoInode
          /\ content[path] # NoProcess
          /\ ~alive[content[path]]
         THEN Goto(p, "cleaning")
         ELSE Goto(p, "idle")
    /\ UNCHANGED <<path, content, owner, fd, patient, alive>>

UnlinkStale(p) ==
    /\ At(p, "cleaning")
    /\ path' = NoInode
    /\ Goto(p, "idle")
    /\ UNCHANGED <<content, owner, fd, patient, alive>>

-----------------------------------------------------------------------------
(* release_lock                                                             *)

UnlockAndClose(p) ==
    /\ At(p, "held")
    /\ owner' = Unlocked(p)
    /\ fd' = [fd EXCEPT ![p] = NoInode]
    /\ Goto(p, "unlinking")
    /\ UNCHANGED <<path, content, patient, alive>>

UnlinkReleased(p) ==
    /\ At(p, "unlinking")
    /\ path' = NoInode
    /\ Goto(p, "idle")
    /\ UNCHANGED <<content, owner, fd, patient, alive>>

-----------------------------------------------------------------------------
(* is_locked                                                                *)

ProbeOpen(p) ==
    /\ At(p, "idle")
    /\ OpenFile(p)
    /\ Goto(p, "probing")
    /\ UNCHANGED <<owner, patient, alive>>

\* The lock was free: the probe has it until its next step.
ProbeLock(p) ==
    /\ At(p, "probing")
    /\ owner[fd[p]] = NoProcess
    /\ owner' = [owner EXCEPT ![fd[p]] = p]
    /\ Goto(p, "probed")
    /\ UNCHANGED <<path, content, fd, patient, alive>>

\* Unlock what the probe took, or close after flock has raised.
ProbeClose(p) ==
    /\ \/ At(p, "probed")
       \/ At(p, "probing") /\ owner[fd[p]] # NoProcess
    /\ owner' = Unlocked(p)
    /\ fd' = [fd EXCEPT ![p] = NoInode]
    /\ Goto(p, "idle")
    /\ UNCHANGED <<path, content, patient, alive>>

-----------------------------------------------------------------------------
(* Processes die anywhere; the kernel closes their descriptors, the file    *)
(* and the PID in it stay.                                                  *)

Crash(p) ==
    /\ alive[p]
    /\ alive' = [alive EXCEPT ![p] = FALSE]
    /\ owner' = Unlocked(p)
    /\ fd' = [fd EXCEPT ![p] = NoInode]
    /\ Goto(p, "idle")
    /\ UNCHANGED <<path, content, patient>>

Restart(p) ==
    /\ ~alive[p]
    /\ alive' = [alive EXCEPT ![p] = TRUE]
    /\ UNCHANGED <<path, content, owner, fd, pc, patient>>

Step(p) ==
    \/ \E wait \in BOOLEAN : AcquireLock(p, wait)
    \/ TryOpen(p)
    \/ TryOpenFails(p)
    \/ TryLock(p)
    \/ TryLockFails(p)
    \/ WritePid(p)
    \/ WriteFails(p)
    \/ ReadStalePid(p)
    \/ UnlinkStale(p)
    \/ UnlockAndClose(p)
    \/ UnlinkReleased(p)
    \/ ProbeOpen(p)
    \/ ProbeLock(p)
    \/ ProbeClose(p)

Next == \E p \in Process : Step(p) \/ Crash(p) \/ Restart(p)

Spec == Init /\ [][Next]_vars

-----------------------------------------------------------------------------
(* Properties                                                               *)

TypeOK ==
    /\ path \in Inode \cup {NoInode}
    /\ content \in [Inode -> Process \cup {NoProcess}]
    /\ owner \in [Inode -> Process \cup {NoProcess}]
    /\ fd \in [Process -> Inode \cup {NoInode}]
    /\ pc \in [Process -> Control]
    /\ patient \in [Process -> BOOLEAN]
    /\ alive \in [Process -> BOOLEAN]

\* A process is in the critical section from the moment acquire_lock returns
\* True until release_lock starts.
Holding(p) == pc[p] = "held"

\* The promise of the module's docstring, process-level mutual exclusion.  It
\* does not hold: release_lock unlinks the path after it has unlocked, when
\* another process may already hold the inode it unlinks.
MutualExclusion ==
    \A p, q \in Process : Holding(p) /\ Holding(q) => p = q

\* No path through the methods, no failed attempt and no crash leaves a flock
\* behind: an inode is locked exactly by a live process whose open descriptor
\* is on it, between its flock and its unlock.  Hence a stale lock file never
\* refuses the lock to anyone, whatever PID it contains.
NoLeakedLock ==
    \A i \in Inode, p \in Process :
        owner[i] = p <=> alive[p] /\ fd[p] = i /\ pc[p] \in Locked

\* What is left of mutual exclusion: of the processes in the critical section
\* at most one holds the file that the lock path names.
OneHolderOfThePath ==
    \A p, q \in Process :
        Holding(p) /\ Holding(q) /\ fd[p] = path /\ fd[q] = path => p = q

\* The file of a holder keeps the holder's PID for as long as it holds the
\* lock, whoever else opens, probes or times out meanwhile: a reader that finds
\* a dead PID in it was overtaken, not misled by the file.
HolderIsNamed ==
    \A p \in Process : Holding(p) => content[fd[p]] = p

\* The local facts the invariants above rest on: a dead process has no control
\* point, and a descriptor is open exactly between open and close.
LocalsConsistent ==
    \A p \in Process :
        /\ ~alive[p] => pc[p] = "idle"
        /\ fd[p] # NoInode <=> pc[p] \in {"locking", "probing"} \cup Locked

LockInv == TypeOK /\ LocalsConsistent /\ NoLeakedLock /\ HolderIsNamed

=============================================================================
