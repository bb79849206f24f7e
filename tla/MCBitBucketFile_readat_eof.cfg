CONSTANTS
    FileOps <- AllFileOps
    ErrorValues = {ErrBad}
    NoError = NoError
    Lengths = {0, 1, 2}
    Offsets <- FileOffsets
    Whences = {0, 1, 2, 3}
INIT FInit
NEXT FNext
INVARIANT ShortReadReportsEOF
