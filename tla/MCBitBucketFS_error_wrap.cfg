\* One goroutine; does every hybrid-mode failure wrap the injected error?
CONSTANTS
    Procs = {p1}
    Leaves = {"a", "b"}
    Names <- PlainNames
    Ops <- EveryOp
    ErrorValues = {ErrBad}
    NoError = NoError
    MaxDepth = 3
    MaxFakeList = 2
    Absent = Absent
    None = None
    Detached = Detached
    NilNode = NilNode
    NodeLevels <- Functional
    MkdirPerms <- StdPerms
SPECIFICATION Spec
INVARIANT
    HybridFailuresWrapInjected
CHECK_DEADLOCK FALSE
