---------------------------- MODULE NamespaceAbs ----------------------------
(***************************************************************************)
(* What the BitBucketFS facade promises its callers: a map from cleaned  *)
(* path to entry (a FileMode and, for a link, a target), a mode that    *)
(* only ever goes from silent to hybrid, and operations that each take  *)
(* effect atomically, Stat included: Stat resolves the whole link chain *)
(* in one step.  The normalisation each operation applies is the one    *)
(* the code applies (filepath.Clean, vfs.CleanPath for Stat's lookups). *)
(***************************************************************************)
EXTENDS Naturals, FiniteSets, VfsPath, BucketFileInfo

CONSTANTS Procs, Names, Ops, ErrorValues, NoError, MaxDepth, MaxFakeList,
          Absent, MkdirPerms

Keys == {Clean(n) : n \in Names} \cup {CleanPath(n) : n \in Names}
Entry == [mode : FileModes, target : Keys \cup {None}]
Sentinels == {"ErrNotExist", "ErrDirExists", "ErrFileExists",
              "ErrIsDirectory", "ErrNotDirectory"}
Info == [name : Keys \cup {None}, mode : FileModes, dir : BOOLEAN]

VARIABLES silent, err, ns, last

avars == <<silent, err, ns, last>>

Injected == IF err = NoError THEN {} ELSE {err}
Present(k) == ns[k] # Absent
IsDirAt(k) == Present(k) /\ HasFileModeFlag(ModeDir, ns[k].mode)
IsLinkAt(k) == Present(k) /\ HasFileModeFlag(ModeSymlink, ns[k].mode)

Outcome(p, o, failed, wraps, info, n, res) ==
    [proc |-> p, op |-> o, failed |-> failed, wraps |-> wraps, info |-> info,
     arg |-> n, resolved |-> res]
Ok(p, o) == Outcome(p, o, FALSE, {}, None, None, None)
Err(p, o, wraps) == Outcome(p, o, TRUE, wraps, None, None, None)

(* Where a link chain starting at path k ends, looking each hop up with *)
(* CleanPath: the key of the first entry that is not a link, Absent if  *)
(* a hop is missing, None if the chain is longer than d hops.           *)
RECURSIVE Resolve(_, _)
Resolve(k, d) ==
    LET c == CleanPath(k)
    IN  CASE ~Present(c)          -> Absent
          [] ~IsLinkAt(c)         -> c
          [] d = 0                -> None
          [] OTHER                -> Resolve(ns[c].target, d - 1)

(* The FileInfo of the entry under k; the default one, named k, when   *)
(* there is none.                                                        *)
StatInfo(k) == CASE ~Present(k) -> [defaultFileInfo EXCEPT !.name = k]
                 [] IsDirAt(k)  -> newBitBucketDirInfo(k, ns[k].mode)
                 [] OTHER       -> newBitBucketFileInfo(k, ns[k].mode)

(* The outcome of Stat(n) in the current state; None while the chain is *)
(* longer than the dereference can follow.                              *)
StatOutcome(p, n) ==
    LET c == CleanPath(n)
    IN  CASE silent -> Outcome(p, "Stat", FALSE, {}, defaultFileInfo, n, None)
          [] ~Present(c) -> Outcome(p, "Stat", TRUE, {"ErrNotExist"}, None, n, None)
          [] ~IsLinkAt(c) -> Outcome(p, "Stat", FALSE, {}, StatInfo(c), n, None)
          [] OTHER ->
                LET r == Resolve(ns[c].target, MaxDepth - 1)
                IN  CASE r = Absent -> Outcome(p, "Stat", TRUE, {"ErrNotExist"}, None, n, None)
                      [] r = None   -> None
                      [] OTHER      -> Outcome(p, "Stat", FALSE, {}, StatInfo(r), n, r)

LstatOutcome(p, k) ==
    IF ~silent /\ ~Present(k) THEN Err(p, "Lstat", Injected)
    ELSE Outcome(p, "Lstat", FALSE, {}, StatInfo(k), None, None)

Init ==
    /\ \/ silent = TRUE /\ err = NoError
       \/ silent = FALSE /\ err \in ErrorValues \ {NoError}
    /\ ns = [k \in Keys |-> Absent]
    /\ last = None

(* A store update that happens only in hybrid mode and only when ok. *)
Update(p, o, ok, new, failure) ==
    /\ o \in Ops
    /\ IF silent \/ ok
       THEN /\ ns' = IF silent THEN ns ELSE new
            /\ last' = Ok(p, o)
       ELSE /\ last' = Err(p, o, failure)
            /\ UNCHANGED ns
    /\ UNCHANGED <<silent, err>>

Query(p, o, outcome) ==
    /\ o \in Ops /\ outcome # None
    /\ last' = outcome
    /\ UNCHANGED <<silent, err, ns>>

ANext ==
    \E p \in Procs :
        \/ \E e \in ErrorValues :
              /\ "WithError" \in Ops
              /\ silent' = FALSE /\ err' = e /\ last' = Ok(p, "WithError")
              /\ UNCHANGED ns
        \/ \E l \in SUBSET Names, mode \in {ModeDir \cup ALL_PERMS, ALL_RW_PERMS} :
              LET o == IF mode = ALL_RW_PERMS THEN "WithFakeFiles" ELSE "WithFakeDirectories"
                  ks == {Clean(n) : n \in l}
              IN  /\ l # {} /\ Cardinality(l) <= MaxFakeList
                  /\ Update(p, o, TRUE,
                            [k \in Keys |-> IF k \in ks THEN [mode |-> mode, target |-> None]
                                            ELSE ns[k]], {})
        \/ \E n \in Names :
              LET k == Clean(n) IN
              \/ Update(p, "Remove", Present(k), [ns EXCEPT ![k] = Absent], Injected)
              \* a new directory gets the permission bits of perm, as os.Mkdir gives
              \/ \E perm \in MkdirPerms :
                    Update(p, "Mkdir", ~Present(k),
                           [ns EXCEPT ![k] = [mode |-> ModeDir \cup (perm \cap ModePerm), target |-> None]],
                           Injected \cup IF IsDirAt(k) THEN {"ErrDirExists"} ELSE {"ErrFileExists"})
              \/ \E create \in BOOLEAN :
                    Query(p, "OpenFile",
                          CASE silent -> Ok(p, "OpenFile")
                            [] IsDirAt(k) -> Err(p, "OpenFile", Injected \cup {"ErrIsDirectory"})
                            [] Present(k) \/ create -> Ok(p, "OpenFile")
                            [] OTHER -> Err(p, "OpenFile", Injected))
              \/ Query(p, "ReadDir",
                       CASE silent \/ IsDirAt(k) -> Ok(p, "ReadDir")
                         [] Present(k) -> Err(p, "ReadDir", Injected \cup {"ErrNotDirectory"})
                         [] OTHER -> Err(p, "ReadDir", Injected))
              \/ Query(p, "Lstat", LstatOutcome(p, k))
              \/ Query(p, "Stat", StatOutcome(p, n))
        \/ \E n1, n2 \in Names :
              LET old == Clean(n1)
                  new == Clean(n2)
              IN  \/ Update(p, "Rename", Present(old) /\ ~Present(new),
                            [ns EXCEPT ![old] = Absent, ![new] = ns[old]], Injected)
                  \/ Update(p, "Symlink", Present(old) /\ ~Present(new),
                            [ns EXCEPT ![new] = [mode |-> ModeSymlink \cup ALL_PERMS, target |-> old]], Injected)

ASpec == Init /\ [][ANext]_avars
=============================================================================
