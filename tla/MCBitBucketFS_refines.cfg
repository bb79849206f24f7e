\* One goroutine calls every operation on paths spelt every way the two
\* cleaners treat differently; the facade must implement NamespaceAbs.
CONSTANTS
    Procs = {p1}
    Leaves = {"a", "b"}
    Names <- RefineNames
    Ops <- EveryOp
    ErrorValues = {ErrBad}
    NoError = NoError
    MaxDepth = 3
    MaxFakeList = 2
    Absent = Absent
    None = None
    Detached = Detached
    NilNode = NilNode
    NodeLevels <- Functional
    MkdirPerms <- StdPerms
SPECIFICATION Spec
INVARIANTS
    TypeOK
    SilentModeStoresNothing
PROPERTY
    ImplementsNamespace
CHECK_DEADLOCK FALSE
