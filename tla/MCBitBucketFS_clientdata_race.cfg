\* Two goroutines share one BitBucketFS and call every operation, Rename
\* included, with Stat step by step; either node type.
CONSTANTS
    Procs = {p1, p2}
    Leaves = {"a", "b"}
    Names <- PlainNames
    Ops <- EveryOp
    ErrorValues = {ErrBad}
    NoError = NoError
    MaxDepth = 3
    MaxFakeList = 2
    Absent = Absent
    None = None
    Detached = Detached
    NilNode = NilNode
    NodeLevels <- BothLevels
    MkdirPerms <- StdPerms
SPECIFICATION Spec
SYMMETRY ProcSymmetry
INVARIANT
    StatReportsResolvedEntry
CHECK_DEADLOCK FALSE
