CONSTANTS
    FileOps <- CursorOps
    ErrorValues = {ErrBad}
    NoError = NoError
    Lengths = {0, 1, 2}
    Offsets <- FileOffsets
    Whences = {0, 1, 2, 3}
INIT FInit
NEXT FNext
PROPERTY FileImplementsSpec
