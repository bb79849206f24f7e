\* Two goroutines, no Rename: can a Stat return what no single state gives?
CONSTANTS
    Procs = {p1, p2}
    Leaves = {"a", "b"}
    Names <- PlainNames
    Ops <- NoRenameOps
    ErrorValues = {ErrBad}
    NoError = NoError
    MaxDepth = 3
    MaxFakeList = 2
    Absent = Absent
    None = None
    Detached = Detached
    NilNode = NilNode
    NodeLevels <- Functional
    MkdirPerms <- StdPerms
INIT LinInit
NEXT LinNext
INVARIANT
    StatLinearizable
CHECK_DEADLOCK FALSE
