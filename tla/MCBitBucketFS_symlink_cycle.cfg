\* One goroutine builds a symbolic link that leads back to itself and Stats it.
CONSTANTS
    Procs = {p1}
    Leaves = {"a", "b"}
    Names <- PlainNames
    Ops <- EveryOp
    ErrorValues = {ErrBad}
    NoError = NoError
    MaxDepth = 3
    MaxFakeList = 2
    Absent = Absent
    None = None
    Detached = Detached
    NilNode = NilNode
    NodeLevels <- Functional
    MkdirPerms <- StdPerms
SPECIFICATION Spec
INVARIANT
    NoStackOverflow
CHECK_DEADLOCK FALSE
