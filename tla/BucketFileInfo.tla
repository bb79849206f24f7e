--------------------------- MODULE BucketFileInfo ---------------------------
(***************************************************************************)
(* os.FileMode words as bucketfs builds and tests them, and the FileInfo  *)
(* projection of src/bucketfs/bitbucket_fileinfo.go.                      *)
(*                                                                         *)
(* A FileMode is a uint32 bit set; here it is the set of its bits.  The   *)
(* type bits the code tests (os.ModeDir, os.ModeSymlink) are kept; the    *)
(* nine permission bits are abstracted to r, w and x, since no line of    *)
(* the code tests one of them (0777 is {r, w, x}, 0666 is {r, w}).        *)
(* a | b is a \cup b, a & b is a \cap b and ^a & b is b \ a.              *)
(*                                                                         *)
(* A FileInfo keeps IName, IMode and IDir.  ISize is always 0 (no node's  *)
(* fsize is ever set to anything else), IModTime is time.Now() and ISys   *)
(* is nil, so they are left out.                                          *)
(***************************************************************************)
CONSTANT None   \* an empty name or slot

ModeDir == {"ModeDir"}
ModeSymlink == {"ModeSymlink"}
ModePerm == {"r", "w", "x"}

FileModes == SUBSET (ModeDir \cup ModeSymlink \cup ModePerm)

(* ALL_PERMS (0777) and ALL_RW_PERMS (0666) of bitbucket_node.go *)
ALL_PERMS == ModePerm
ALL_RW_PERMS == {"r", "w"}

(* vfs.HasFileModeFlag(flag, flags): flags&flag == flag *)
HasFileModeFlag(flag, flags) == flag \subseteq flags

(* newBitBucketFileInfo(name, size, fmode): the directory bit cleared *)
newBitBucketFileInfo(name, fmode) ==
    [name |-> name,
     mode |-> IF HasFileModeFlag(ModeDir, fmode) THEN fmode \ ModeDir ELSE fmode,
     dir  |-> FALSE]

(* newBitBucketDirInfo(name, size, fmode): the directory bit set *)
newBitBucketDirInfo(name, fmode) ==
    [name |-> name, mode |-> ModeDir \cup fmode, dir |-> TRUE]

(* defaultFileInfo: no name, ALL_PERMS, not a directory *)
defaultFileInfo == [name |-> None, mode |-> ALL_PERMS, dir |-> FALSE]
=============================================================================
