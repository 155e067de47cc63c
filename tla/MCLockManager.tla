---------------------------- MODULE MCLockManager ----------------------------
(* LockManager with model values for the processes and the inodes.          *)
EXTENDS LockManager, TLC

Symmetry == Permutations(Process) \cup Permutations(Inode)

=============================================================================
