--------------------------- MODULE BitBucketFile ---------------------------
(***************************************************************************)
(* The fake descriptor of bucketfs/bitbucket_file.go as the code has it.  *)
(* Every method has a value receiver: a call runs on a copy of the       *)
(* BitBucketFile the caller holds, so what the body assigns to f.size or *)
(* f.at is lost when it returns and only the results reach the caller.   *)
(* Each method is an operator from a descriptor and the call's inputs   *)
(* to the copy it ends with and its results; each action returns the    *)
(* results and leaves the caller's descriptor fd as it was.             *)
(*                                                                         *)
(* Every copy shares one *sync.RWMutex.  Each method but Sync locks it    *)
(* for its whole body, so a call is one step, except ReadAt below the    *)
(* size: it calls f.Read while it holds the lock, and Read locks again.  *)
(***************************************************************************)
EXTENDS Integers

CONSTANTS FileOps,      \* the methods the caller may invoke
          ErrorValues,  \* errors a hybrid filesystem may have been given
          NoError,      \* the nil error (silent mode)
          Lengths,      \* lengths of the buffers passed to Write/Read/ReadAt
          Offsets,      \* offsets passed to ReadAt, Seek and Truncate
          Whences       \* whence values passed to Seek

VARIABLES fd,    \* the BitBucketFile value the caller holds
          ferr,  \* f.err, captured from the filesystem by OpenFile
          out,   \* the results of the last call
          mu,    \* the shared *sync.RWMutex: "free" or "locked"
          pc,    \* "idle", or "Read": ReadAt waiting inside f.Read
          args   \* ReadAt's len(p) and offset

vars == <<fd, ferr, out, mu, pc, args>>

Errs(e) == IF e = NoError THEN {} ELSE {e}

(* A call's results: the method, the requested length, the count or     *)
(* offset returned and the errors the returned error wraps.             *)
Res(o, len, n, wraps) == [op |-> o, len |-> len, n |-> n, wraps |-> wraps]
Body(f, r) == [f |-> f, r |-> r]

(* newBitBucketFile: size and at start at 0. *)
newBitBucketFile == [size |-> 0, at |-> 0]

Write(f, len) == Body([f EXCEPT !.size = @ + len], Res("Write", len, len, {}))

Read(f, len, o) ==
    LET remains == f.size - f.at
    IN  IF len < remains
        THEN Body([f EXCEPT !.at = @ + len], Res(o, len, len, {}))
        ELSE Body([f EXCEPT !.at = f.size - 1], Res(o, len, remains, {"EOF"} \cup Errs(ferr)))

(* ReadAt past the end: it builds the EOF error but returns f.err. *)
ReadAtEnd(f, len) == Body(f, Res("ReadAt", len, 0, Errs(ferr)))

Seek(f, off, whence) ==
    LET new == CASE whence = 0 -> off
                 [] whence = 1 -> f.at + off
                 [] whence = 2 -> f.size - off
    IN  CASE whence \notin {0, 1, 2}     -> Body(f, Res("Seek", 0, 0, Errs(ferr)))
          [] new < 0 \/ new >= f.size     -> Body(f, Res("Seek", 0, 0, Errs(ferr) \cup {"ErrSeek"}))
          [] OTHER                        -> Body([f EXCEPT !.at = new], Res("Seek", 0, new, {}))

Truncate(f, size) ==
    Body(IF size < f.size THEN [f EXCEPT !.size = size] ELSE f, Res("Truncate", 0, 0, {}))

Close(f) == Body([f EXCEPT !.at = 0], Res("Close", 0, 0, {}))

Sync(f) == Body(f, Res("Sync", 0, 0, Errs(ferr)))

(* A call through the value held by the caller, under the mutex (Sync *)
(* takes none): the body's copy is dropped, its results are returned.  *)
Call(o, b) ==
    /\ o \in FileOps /\ pc = "idle"
    /\ o = "Sync" \/ mu = "free"
    /\ out' = b.r
    /\ UNCHANGED <<fd, ferr, mu, pc, args>>

(* ReadAt(p, offset): f.mutex.Lock(), then below the size f.at = offset  *)
(* and f.Read(p), whose f.mutex.Lock() waits for the lock ReadAt holds.  *)
ReadAt(len, off) ==
    /\ "ReadAt" \in FileOps /\ pc = "idle" /\ mu = "free"
    /\ IF off < fd.size
       THEN /\ mu' = "locked"
            /\ pc' = "Read"
            /\ args' = [len |-> len, off |-> off]
            /\ UNCHANGED <<fd, ferr, out>>
       ELSE Call("ReadAt", ReadAtEnd(fd, len))

(* f.Read(p) inside ReadAt once it has the lock; both unlock on return. *)
ReadAtRead ==
    /\ pc = "Read" /\ mu = "free"
    /\ out' = Read([fd EXCEPT !.at = args.off], args.len, "ReadAt").r
    /\ pc' = "idle"
    /\ UNCHANGED <<fd, ferr, mu, args>>

FInit ==
    /\ fd = newBitBucketFile
    /\ ferr \in {NoError} \cup ErrorValues
    /\ out = Res("Open", 0, 0, {})
    /\ mu = "free"
    /\ pc = "idle"
    /\ args = [len |-> 0, off |-> 0]

FNext ==
    \/ \E len \in Lengths : Call("Write", Write(fd, len))
    \/ \E len \in Lengths : Call("Read", Read(fd, len, "Read"))
    \/ \E len \in Lengths, off \in Offsets : ReadAt(len, off)
    \/ ReadAtRead
    \/ \E off \in Offsets, whence \in Whences : Call("Seek", Seek(fd, off, whence))
    \/ \E size \in Offsets : Call("Truncate", Truncate(fd, size))
    \/ Call("Close", Close(fd))
    \/ Call("Sync", Sync(fd))

(* A goroutine waiting for a free mutex gets it: Go's scheduler runs   *)
(* every runnable goroutine.                                             *)
FSpecImpl == FInit /\ [][FNext]_vars /\ WF_vars(ReadAtRead)

TypeOK ==
    /\ fd \in [size : Int, at : Int]
    /\ ferr \in {NoError} \cup ErrorValues
    /\ out.wraps \subseteq {"EOF", "ErrSeek"} \cup ErrorValues
    /\ mu \in {"free", "locked"}
    /\ pc \in {"idle", "Read"}
    /\ args \in [len : Lengths \cup {0}, off : Offsets \cup {0}]

-----------------------------------------------------------------------------
(* Every call on the descriptor returns (spec 5: no operation blocks).  *)
(* ReadAt below the size calls f.Read while it holds f.mutex, and Read  *)
(* locks the same *sync.RWMutex again.                                  *)
ReadAtReturns == pc # "idle" ~> pc = "idle"

(* Spec 4.3: a read that returns fewer bytes than the buffer holds has  *)
(* reached the end of the file and reports EOF.  ReadAt past the end of *)
(* the file is the case bitbucket_file.go handles in its else branch.   *)
ShortReadReportsEOF ==
    out.op \in {"Read", "ReadAt"} /\ out.n < out.len => "EOF" \in out.wraps

(* Spec 4.3: the descriptor behaves as the exclusively owned handle of  *)
(* FileSpec: Write grows the size, Read advances the cursor, Close      *)
(* rewinds it.  The code's methods run on copies of the caller's value. *)
Spec43 == INSTANCE FileSpec WITH
              MaxSize <- 4,   \* room for two writes of the lengths checked
              size <- fd.size, cursor <- fd.at,
              out <- [op |-> out.op, n |-> out.n, eof |-> "EOF" \in out.wraps,
                      failed |-> out.wraps # {}]
FileImplementsSpec == Spec43!FSpec
=============================================================================
