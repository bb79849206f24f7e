-------------------------- MODULE MCBitBucketFile --------------------------
EXTENDS BitBucketFile

(* Descriptor calls: Write, Read and Close, whose effect on size and    *)
(* cursor spec 4.3 states.                                               *)
CursorOps == {"Write", "Read", "Close"}
(* Every method of the descriptor. *)
AllFileOps == {"Write", "Read", "ReadAt", "Seek", "Truncate", "Close", "Sync"}
(* Offsets one below, at and one above the size of a new file. *)
FileOffsets == {-1, 0, 1}
=============================================================================
