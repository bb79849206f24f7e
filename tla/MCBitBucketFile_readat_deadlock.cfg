\* A caller makes every call on a descriptor OpenFile returned; ReadAt
\* below the size must return.  The goroutine that blocks is the only
\* one, so the process stops there.
CONSTANTS
    FileOps <- AllFileOps
    ErrorValues = {ErrBad}
    NoError = NoError
    Lengths = {0, 1, 2}
    Offsets <- FileOffsets
    Whences = {0, 1, 2, 3}
SPECIFICATION FSpecImpl
PROPERTY ReadAtReturns
CHECK_DEADLOCK FALSE
