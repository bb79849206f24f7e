\* Two goroutines; entries are only ever added: is every Stat atomic?
CONSTANTS
    Procs = {p1, p2}
    Leaves = {"a", "b"}
    Names <- PlainNames
    Ops <- AddOnlyOps
    ErrorValues = {ErrBad}
    NoError = NoError
    MaxDepth = 3
    MaxFakeList = 2
    Absent = Absent
    None = None
    Detached = Detached
    NilNode = NilNode
    NodeLevels <- BothLevels
    MkdirPerms <- StdPerms
INIT LinInit
NEXT LinNext
INVARIANT
    StatLinearizable
CHECK_DEADLOCK FALSE
