SPECIFICATION Spec
CONSTANTS
    Process = {p1, p2}
    Inode = {i1, i2, i3}
    NoProcess = NoProcess
    NoInode = NoInode
INVARIANT
    MutualExclusion
