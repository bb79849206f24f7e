------------------------------ MODULE FileSpec ------------------------------
(***************************************************************************)
(* The fake open file as spec 4.3 and 3 describe it: an exclusively owned *)
(* handle whose calls update its cursor and size.  Only the byte counts  *)
(* and whether a call reported end of file are observed.                 *)
(***************************************************************************)
EXTENDS Integers

CONSTANTS MaxSize,   \* writes stop once the file would exceed this size
          Lengths,   \* buffer lengths passed to Write, Read, ReadAt
          Offsets    \* offsets passed to ReadAt, Seek, Truncate

VARIABLES size, cursor, out

fvars == <<size, cursor, out>>

Out(o, n, eof, failed) == [op |-> o, n |-> n, eof |-> eof, failed |-> failed]

FInit == size = 0 /\ cursor = 0 /\ out = Out("Open", 0, FALSE, FALSE)

(* Read(buffer) from cursor c of a file of size s *)
ReadFrom(o, c, s, len) ==
    IF len < s - c
    THEN cursor' = c + len /\ out' = Out(o, len, FALSE, FALSE)
    ELSE cursor' = (IF s = 0 THEN 0 ELSE s - 1) /\ out' = Out(o, s - c, TRUE, TRUE)

FNext ==
    \/ \E len \in Lengths :
          /\ size + len <= MaxSize
          /\ size' = size + len /\ out' = Out("Write", len, FALSE, FALSE)
          /\ UNCHANGED cursor
    \/ \E len \in Lengths : ReadFrom("Read", cursor, size, len) /\ UNCHANGED size
    \/ \E len \in Lengths, off \in Offsets :
          /\ IF off < size
             THEN /\ ReadFrom("ReadAt", off, size, len)
             ELSE /\ out' = Out("ReadAt", 0, TRUE, TRUE)
                  /\ UNCHANGED cursor
          /\ UNCHANGED size
    \/ \E off \in Offsets, whence \in 0 .. 2 :
          LET new == CASE whence = 0 -> off [] whence = 1 -> cursor + off
                       [] whence = 2 -> size - off
          IN  /\ whence \in 0 .. 2
              /\ IF 0 <= new /\ new < size
                 THEN cursor' = new /\ out' = Out("Seek", new, FALSE, FALSE)
                 ELSE out' = Out("Seek", 0, FALSE, TRUE) /\ UNCHANGED cursor
              /\ UNCHANGED size
    \/ \E k \in Offsets :
          /\ k >= 0
          /\ IF k < size THEN size' = k /\ cursor' = (IF cursor > k THEN k ELSE cursor)
                         ELSE UNCHANGED <<size, cursor>>
          /\ out' = Out("Truncate", 0, FALSE, FALSE)
    \/ cursor' = 0 /\ out' = Out("Close", 0, FALSE, FALSE) /\ UNCHANGED size
    \/ \E failed \in BOOLEAN : out' = Out("Sync", 0, FALSE, failed) /\ UNCHANGED <<size, cursor>>

FSpec == FInit /\ [][FNext]_fvars
=============================================================================
