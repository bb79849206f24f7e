\* linux/amd64 values of Go's os.O_* flags
CONSTANTS
    O_RDONLY = 0
    O_WRONLY = 1
    O_RDWR = 2
    O_APPEND = 1024
    O_CREATE = 64
    O_EXCL = 128
    O_SYNC = 1052672
    O_TRUNC = 512
    Inputs <- DocumentedFlags
SPECIFICATION Spec
INVARIANT StringNamesSetFlags
