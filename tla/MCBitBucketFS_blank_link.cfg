\* One goroutine: a link to a blank-named entry holds a nil node.
CONSTANTS
    Procs = {p1}
    Leaves = {"a", "b"}
    Names <- BlankNames
    Ops <- EveryOp
    ErrorValues = {ErrBad}
    NoError = NoError
    MaxDepth = 3
    MaxFakeList = 2
    Absent = Absent
    None = None
    Detached = Detached
    NilNode = NilNode
    NodeLevels <- Functional
    MkdirPerms <- StdPerms
SPECIFICATION Spec
INVARIANT
    NilNodeNeverDereferenced
CHECK_DEADLOCK FALSE
