\* One goroutine; Stat and Lstat of a name spelt with ~/ or leading white space.
CONSTANTS
    Procs = {p1}
    Leaves = {"a", "b"}
    Names <- TildeNames
    Ops <- EveryOp
    ErrorValues = {ErrBad}
    NoError = NoError
    MaxDepth = 3
    MaxFakeList = 2
    Absent = Absent
    None = None
    Detached = Detached
    NilNode = NilNode
    NodeLevels <- Functional
    MkdirPerms <- StdPerms
SPECIFICATION Spec
INVARIANT
    StatAgreesWithLstat
CHECK_DEADLOCK FALSE
