---------------------------- MODULE BitBucketFS ----------------------------
(***************************************************************************)
(* The BitBucketFS facade of src/bucketfs/bitbucket_filesystem.go and the *)
(* nodes of src/bucketfs/bitbucket_node.go, shared by several goroutines. *)
(* createNode builds the functional bucketNode; bucketNodeLite is the    *)
(* other choice its comment offers, and each run fixes one at the start. *)
(*                                                                         *)
(* Every operation that holds bfs.mutex for its whole body is one atomic  *)
(* action.  Stat is not: it reads bfs.silent without the lock, takes the  *)
(* read lock once per findNode, writes the resolved name into the found   *)
(* node's ClientData slot with no lock held, reads it back, and finally   *)
(* calls internalStat under a fresh read lock.  Stat is therefore a       *)
(* sequence of steps of the calling process, and other processes' steps   *)
(* interleave with them.                                                  *)
(***************************************************************************)
EXTENDS Naturals, FiniteSets, VfsPath, BucketFileInfo

CONSTANTS
    Procs,        \* goroutines calling the same *BitBucketFS
    Names,        \* the path arguments the callers pass
    Ops,          \* the operations the callers invoke
    ErrorValues,  \* the errors passed to CreateWithError / WithError
    NoError,      \* Go's nil error
    MaxDepth,     \* dereferenceSymLink frames that fit on a goroutine stack
    MaxFakeList,  \* longest list passed to WithFakeFiles / WithFakeDirectories
    Absent,       \* no entry under a key
    MkdirPerms,   \* the perm arguments passed to Mkdir
    Detached,     \* a node held by Stat that is no longer in bfs.entries
    NilNode,      \* a nil *bucketNode stored in bfs.entries
    NodeLevels    \* node types to build: "functional", "lite"

ASSUME Names \subseteq Path
ASSUME MaxDepth \in Nat /\ MaxFakeList \in Nat
(* Mkdir's perm carries permission bits.  With os.ModeSymlink in perm the *)
(* new directory would also be a link with the empty target "", which    *)
(* the runs leave out.                                                   *)
ASSUME MkdirPerms \subseteq SUBSET ModePerm
ASSUME NodeLevels \subseteq {"functional", "lite"}

AllOps == {"Mkdir", "Remove", "Rename", "Symlink", "OpenFile", "Stat",
           "Lstat", "ReadDir", "WithError", "WithFakeFiles",
           "WithFakeDirectories"}
ASSUME Ops \subseteq AllOps

(* Every key the code can look up: filepath.Clean or vfs.CleanPath of an  *)
(* argument.  A link's target is a cleaned argument, so it is a key too.  *)
Keys == {Clean(n) : n \in Names} \cup {CleanPath(n) : n \in Names}

(* A node: its mode bits, target ("" is None) and ClientData slot extra.  *)
(* A bucketNode keeps fmode whole; a bucketNodeLite keeps only isDir and  *)
(* isLink, here its mode's type bits.  fsize is never set to anything    *)
(* but 0, so it is left out.                                              *)
Node == [mode : FileModes, target : Keys \cup {None}, extra : Keys \cup {None}]

VARIABLE level  \* the node type createNode builds

(* newBucketNode(mode) and newBucketNodeLite(mode) *)
newBucketNode(mode) == [mode |-> mode, target |-> None, extra |-> None]
newBucketNodeLite(mode) == [newBucketNode(mode) EXCEPT !.mode = mode \cap (ModeDir \cup ModeSymlink)]

createNode(mode) == IF level = "lite" THEN newBucketNodeLite(mode) ELSE newBucketNode(mode)

(* IsDir(), IsLink(), Mode() and Target() of either node type; a lite   *)
(* node is a link only with a non-empty target, and reports ALL_PERMS.  *)
IsDir(nd) == HasFileModeFlag(ModeDir, nd.mode)
IsLink(nd) == HasFileModeFlag(ModeSymlink, nd.mode) /\ (level = "lite" => nd.target # None)
Mode(nd) == IF level = "lite" THEN ALL_PERMS \cup nd.mode ELSE nd.mode
Target(nd) == nd.target

(* LinkTo(key): a fresh link node; the target node is untouched.  The   *)
(* bucketNode returns nil for a key that trims to empty; the lite node  *)
(* has no such test.                                                     *)
LinkTo(key) ==
    CASE level = "lite" -> [newBucketNodeLite(ModeSymlink \cup ALL_PERMS) EXCEPT !.target = key]
      [] Blank(key)     -> NilNode
      [] OTHER          -> [newBucketNode(ModeSymlink \cup ALL_PERMS) EXCEPT !.target = key]

(* The sentinel errors a returned error may wrap (errors.Is). *)
Sentinels == {"ErrNotExist", "ErrDirExists", "ErrFileExists",
              "ErrIsDirectory", "ErrNotDirectory"}

Info == [name : Keys \cup {None}, mode : FileModes, dir : BOOLEAN]

VARIABLES
    silent,    \* bfs.silent
    err,       \* bfs.err
    entries,   \* bfs.entries: key -> node or Absent
    crashed,   \* "no", or why the process died: "stack overflow", "nil dereference"
    pc,        \* where each process is inside Stat ("idle" outside it)
    arg,       \* Stat's name argument
    path,      \* the path Stat is about to look up
    depth,     \* dereferenceSymLink frames on Stat's stack
    ref,       \* key of the node Stat holds between findNode and ClientData()
    own,       \* the ClientData of a held node that left bfs.entries
    resolved,  \* (ghost) cname of the node Stat's dereference stopped at
    last       \* (ghost) the most recently completed call and its outcome

statVars == <<pc, arg, path, depth, ref, own, resolved>>
vars == <<silent, err, entries, crashed, statVars, last>>

(* The outcome of a call: whether it failed, the errors the returned    *)
(* error wraps, and the FileInfo of the stat family.  For Stat also its *)
(* argument and where its dereference stopped.                          *)
Result == [proc : Procs, op : AllOps, failed : BOOLEAN,
           wraps : SUBSET (Sentinels \cup ErrorValues), info : Info \cup {None},
           arg : Names \cup {None}, resolved : Keys \cup {None}]

Done(p, o, info) == [proc |-> p, op |-> o, failed |-> FALSE, wraps |-> {},
                     info |-> info, arg |-> None, resolved |-> None]
Fail(p, o, wraps) == [proc |-> p, op |-> o, failed |-> TRUE, wraps |-> wraps,
                      info |-> None, arg |-> None, resolved |-> None]

(* fmt.Errorf("... %w", bfs.err) and &os.PathError{op, name, bfs.err}: *)
(* the injected error, or nothing when it is nil.                        *)
Injected == IF err = NoError THEN {} ELSE {err}

(* A store operation may not change bfs.entries under a node Stat holds:  *)
(* when it removes or replaces the node, Stat keeps a private one.        *)
Detach(ks) ==
    /\ ref' = [q \in Procs |-> IF ref[q] \in ks THEN Detached ELSE ref[q]]
    /\ own' = [q \in Procs |-> IF ref[q] \in ks THEN entries[ref[q]].extra ELSE own[q]]

(* Rename moves the same node object to another key. *)
Follow(old, new) ==
    /\ ref' = [q \in Procs |-> IF ref[q] = old THEN new ELSE ref[q]]
    /\ UNCHANGED own

(* A method of the node under key k called in hybrid mode panics when *)
(* the node is a nil *bucketNode.                                       *)
PanicsAt(k) == ~silent /\ entries[k] = NilNode

(* The nil dereference kills the process; what the call changed before *)
(* it is beyond any caller.                                             *)
NilPanic == crashed' = "nil dereference" /\ UNCHANGED <<silent, err, entries, statVars, last>>

(* findNode(name): the node under vfs.CleanPath(name), read under the  *)
(* read lock; the cleaned name is CleanPath(name).                      *)
findNode(n) == entries[CleanPath(n)]

(* node.WithClientData(data) on the node under key k, and ClientData() *)
WithClientData(k, data) == [entries EXCEPT ![k].extra = data]
ClientData(k) == entries[k].extra

Running == crashed = "no"

Call(p, o) == Running /\ o \in Ops /\ pc[p] = "idle"

-----------------------------------------------------------------------------
(* Construction: Create() (silent) or CreateWithError(e), which panics   *)
(* on a nil e, so a hybrid instance starts with a non-nil error.         *)
Init ==
    /\ \/ silent = TRUE /\ err = NoError
       \/ silent = FALSE /\ err \in ErrorValues \ {NoError}
    /\ entries = [k \in Keys |-> Absent]
    /\ crashed = "no"
    /\ pc = [p \in Procs |-> "idle"]
    /\ arg = [p \in Procs |-> None]
    /\ path = [p \in Procs |-> None]
    /\ depth = [p \in Procs |-> 0]
    /\ ref = [p \in Procs |-> None]
    /\ own = [p \in Procs |-> None]
    /\ resolved = [p \in Procs |-> None]
    /\ last = None
    /\ level \in NodeLevels

(* WithError(customError) *)
WithError(p, e) ==
    /\ Call(p, "WithError")
    /\ silent' = FALSE
    /\ err' = e
    /\ last' = Done(p, "WithError", None)
    /\ UNCHANGED <<entries, crashed, statVars>>

(* WithFakeDirectories(dirs) / WithFakeFiles(files): in hybrid mode every *)
(* name is cleaned and gets a fresh node, replacing any existing one.    *)
WithFake(p, o, mode, list) ==
    /\ Call(p, o)
    /\ LET ks == {Clean(n) : n \in list}
       IN  IF silent
           THEN UNCHANGED <<entries, ref, own>>
           ELSE /\ entries' = [k \in Keys |-> IF k \in ks THEN createNode(mode) ELSE entries[k]]
                /\ Detach(ks)
    /\ last' = Done(p, o, None)
    /\ UNCHANGED <<silent, err, crashed, pc, arg, path, depth, resolved>>

WithFakeDirectories(p, dirs) == WithFake(p, "WithFakeDirectories", ModeDir \cup ALL_PERMS, dirs)
WithFakeFiles(p, files) == WithFake(p, "WithFakeFiles", ALL_RW_PERMS, files)

(* Remove as it would be with bfs.entries[name] = nil in place of the  *)
(* delete: the key stays, bound to no node.                             *)
Remove_nil(p, n) ==
    /\ Call(p, "Remove")
    /\ LET k == Clean(n)
       IN  IF silent \/ entries[k] = Absent
           THEN /\ last' = IF silent THEN Done(p, "Remove", None)
                                ELSE Fail(p, "Remove", Injected)
                /\ UNCHANGED <<entries, ref, own>>
           ELSE /\ entries' = [entries EXCEPT ![k] = None]
                /\ Detach({k})
                /\ last' = Done(p, "Remove", None)
    /\ UNCHANGED <<silent, err, crashed, pc, arg, path, depth, resolved>>

(* Remove(name), through executePath: a found node is printed with   *)
(* node.IsDir() before it is deleted.                                   *)
Remove(p, n) ==
    /\ Call(p, "Remove")
    /\ LET k == Clean(n)
       IN  CASE silent \/ entries[k] = Absent ->
                    /\ last' = IF silent THEN Done(p, "Remove", None)
                                       ELSE Fail(p, "Remove", Injected)
                    /\ UNCHANGED <<entries, ref, own, crashed>>
             [] PanicsAt(k) -> NilPanic
             [] OTHER ->
                    /\ entries' = [entries EXCEPT ![k] = Absent]
                    /\ Detach({k})
                    /\ last' = Done(p, "Remove", None)
                    /\ UNCHANGED crashed
    /\ UNCHANGED <<silent, err, pc, arg, path, depth, resolved>>

(* Rename without its test that newPath is free: it overwrites. *)
Rename_overwrite(p, n1, n2) ==
    /\ Call(p, "Rename")
    /\ LET old == Clean(n1)
           new == Clean(n2)
       IN  IF silent \/ entries[old] = Absent
           THEN /\ last' = IF silent THEN Done(p, "Rename", None)
                                ELSE Fail(p, "Rename", Injected)
                /\ UNCHANGED <<entries, ref, own>>
           ELSE /\ entries' = [entries EXCEPT ![old] = Absent, ![new] = entries[old]]
                /\ Follow(old, new)
                /\ last' = Done(p, "Rename", None)
    /\ UNCHANGED <<silent, err, crashed, pc, arg, path, depth, resolved>>

(* Rename(oldPath, newPath); the moved node is printed with IsDir(). *)
Rename(p, n1, n2) ==
    /\ Call(p, "Rename")
    /\ LET old == Clean(n1)
           new == Clean(n2)
       IN  CASE silent \/ entries[old] = Absent \/ entries[new] # Absent ->
                    /\ last' = IF silent THEN Done(p, "Rename", None)
                                       ELSE Fail(p, "Rename", Injected)
                    /\ UNCHANGED <<entries, ref, own, crashed>>
             [] PanicsAt(old) -> NilPanic
             [] OTHER ->
                    /\ entries' = [entries EXCEPT ![old] = Absent, ![new] = entries[old]]
                    /\ Follow(old, new)
                    /\ last' = Done(p, "Rename", None)
                    /\ UNCHANGED crashed
    /\ UNCHANGED <<silent, err, pc, arg, path, depth, resolved>>

(* Symlink(oldName, newName): newName becomes node.LinkTo(oldName), and *)
(* the target node is printed with IsDir().                             *)
Symlink(p, n1, n2) ==
    /\ Call(p, "Symlink")
    /\ LET old == Clean(n1)
           new == Clean(n2)
       IN  CASE silent \/ entries[old] = Absent \/ entries[new] # Absent ->
                    /\ last' = IF silent THEN Done(p, "Symlink", None)
                                       ELSE Fail(p, "Symlink", Injected)
                    /\ UNCHANGED <<entries, crashed>>
             [] PanicsAt(old) -> NilPanic
             [] OTHER ->
                    /\ entries' = [entries EXCEPT ![new] = LinkTo(old)]
                    /\ last' = Done(p, "Symlink", None)
                    /\ UNCHANGED crashed
    /\ UNCHANGED <<silent, err, statVars>>

(* Mkdir without its bfs.silent branch. *)
Mkdir_anymode(p, n, perm) ==
    /\ Call(p, "Mkdir")
    /\ LET k == Clean(n)
       IN  IF entries[k] = Absent
           THEN /\ entries' = [entries EXCEPT ![k] = createNode(ModeDir \cup perm)]
                /\ last' = Done(p, "Mkdir", None)
           ELSE /\ last' = Fail(p, "Mkdir", Injected)
                /\ UNCHANGED entries
    /\ UNCHANGED <<silent, err, crashed, statVars>>

(* Mkdir(name, perm); an existing node is printed with IsDir().  The new *)
(* node's mode is os.ModeDir | perm, whatever bits perm carries.          *)
Mkdir(p, n, perm) ==
    /\ Call(p, "Mkdir")
    /\ LET k == Clean(n)
       IN  CASE silent ->
                    /\ last' = Done(p, "Mkdir", None)
                    /\ UNCHANGED <<entries, crashed>>
             [] entries[k] = Absent ->
                    /\ entries' = [entries EXCEPT ![k] = createNode(ModeDir \cup perm)]
                    /\ last' = Done(p, "Mkdir", None)
                    /\ UNCHANGED crashed
             [] PanicsAt(k) -> NilPanic
             [] OTHER ->
                    /\ last' = Fail(p, "Mkdir", Injected \cup IF IsDir(entries[k])
                                                       THEN {"ErrDirExists"}
                                                       ELSE {"ErrFileExists"})
                    /\ UNCHANGED <<entries, crashed>>
    /\ UNCHANGED <<silent, err, statVars>>

(* OpenFile(name, flag, perm); create is HasModeFlag(O_CREATE, flag).    *)
(* Only the outcome matters here: the descriptor is BitBucketFile, and a *)
(* create that succeeds on a missing name inserts no entry.              *)
OpenFile(p, n, create) ==
    /\ Call(p, "OpenFile")
    /\ LET k == Clean(n)
           nd == entries[k]
       IN  IF PanicsAt(k) THEN NilPanic
           ELSE /\ last' = CASE silent                     -> Done(p, "OpenFile", None)
                         [] nd # Absent /\ IsDir(nd) ->
                                Fail(p, "OpenFile", Injected \cup {"ErrIsDirectory"})
                         [] nd # Absent \/ create      -> Done(p, "OpenFile", None)
                         [] OTHER                      -> Fail(p, "OpenFile", Injected)
                /\ UNCHANGED <<silent, err, entries, crashed, statVars>>

(* Open(name): OpenFile(name, os.O_RDONLY, 0), which has no O_CREATE.    *)
Open(p, n) == OpenFile(p, n, FALSE)

(* ReadDir(path) *)
ReadDir(p, n) ==
    /\ Call(p, "ReadDir")
    /\ LET k == Clean(n)
           nd == entries[k]
       IN  IF PanicsAt(k) THEN NilPanic
           ELSE /\ last' = CASE silent \/ (nd # Absent /\ IsDir(nd)) -> Done(p, "ReadDir", None)
                         [] nd # Absent -> Fail(p, "ReadDir", Injected \cup {"ErrNotDirectory"})
                         [] OTHER       -> Fail(p, "ReadDir", Injected)
                /\ UNCHANGED <<silent, err, entries, crashed, statVars>>

(* internalStat(operation, name) under the read lock: the node's own     *)
(* FileInfo, links not followed; the default FileInfo renamed in silent  *)
(* mode.  A nil node panics in IsDir() (PanicsAt).                       *)
internalStat(p, o, k) ==
    LET nd == entries[k]
    IN  CASE ~silent /\ nd = Absent -> Fail(p, o, Injected)
          [] nd = Absent            -> Done(p, o, [defaultFileInfo EXCEPT !.name = k])
          [] IsDir(nd)              -> Done(p, o, newBitBucketDirInfo(k, Mode(nd)))
          [] OTHER                  -> Done(p, o, newBitBucketFileInfo(k, Mode(nd)))

(* Lstat(name) *)
Lstat(p, n) ==
    /\ Call(p, "Lstat")
    /\ IF PanicsAt(Clean(n)) THEN NilPanic
       ELSE /\ last' = internalStat(p, "Lstat", Clean(n))
            /\ UNCHANGED <<silent, err, entries, crashed, statVars>>

(* Stat(n) returns r; its locals are dropped. *)
StatReturn(p, n, r) ==
    /\ last' = [r EXCEPT !.arg = n, !.resolved = resolved[p]]
    /\ pc' = [pc EXCEPT ![p] = "idle"]
    /\ arg' = [arg EXCEPT ![p] = None]
    /\ path' = [path EXCEPT ![p] = None]
    /\ depth' = [depth EXCEPT ![p] = 0]
    /\ resolved' = [resolved EXCEPT ![p] = None]

(* Stat, first step: the unlocked read of bfs.silent and findNode(name), *)
(* which normalises with vfs.CleanPath.  bfs.silent only ever changes    *)
(* from TRUE to FALSE, so reading it together with the lookup loses no   *)
(* outcome.                                                              *)
StatFind(p, n) ==
    /\ Call(p, "Stat")
    /\ LET k == CleanPath(n)
           nd == findNode(n)
       IN  IF PanicsAt(k) THEN NilPanic
           ELSE /\ CASE silent ->
                        StatReturn(p, n, Done(p, "Stat", defaultFileInfo))
                   [] nd = Absent ->
                        StatReturn(p, n, Fail(p, "Stat", {"ErrNotExist"}))
                   [] IsLink(nd) ->
                        /\ pc' = [pc EXCEPT ![p] = "hop"]
                        /\ arg' = [arg EXCEPT ![p] = n]
                        /\ path' = [path EXCEPT ![p] = Target(nd)]
                        /\ depth' = [depth EXCEPT ![p] = 1]
                        /\ UNCHANGED <<resolved, last>>
                   [] OTHER ->
                        /\ pc' = [pc EXCEPT ![p] = "internal"]
                        /\ arg' = [arg EXCEPT ![p] = n]
                        /\ path' = [path EXCEPT ![p] = k]
                        /\ UNCHANGED <<depth, resolved, last>>
                /\ UNCHANGED <<silent, err, entries, crashed, ref, own>>

(* One frame of dereferenceSymLink(operation, name): findNode(name) under *)
(* the read lock; a link recurses on its target, a missing name ends the *)
(* Stat with ErrNotExist, any other node is held with its cname for the  *)
(* unlocked WithClientData(cname) of StatSetData.                        *)
StatHop(p) ==
    /\ Running
    /\ pc[p] = "hop"
    /\ depth[p] <= MaxDepth
    /\ LET k == CleanPath(path[p])
           nd == findNode(path[p])
       IN  CASE PanicsAt(k) -> NilPanic
             [] nd = Absent ->
                    /\ StatReturn(p, arg[p], Fail(p, "Stat", {"ErrNotExist"}))
                    /\ UNCHANGED <<silent, err, crashed, own, entries, ref>>
             [] IsLink(nd) ->
                    /\ path' = [path EXCEPT ![p] = Target(nd)]
                    /\ depth' = [depth EXCEPT ![p] = @ + 1]
                    /\ UNCHANGED <<silent, err, crashed, own, entries, pc, arg, ref, resolved, last>>
             [] OTHER ->
                    /\ ref' = [ref EXCEPT ![p] = k]
                    /\ path' = [path EXCEPT ![p] = k]
                    /\ pc' = [pc EXCEPT ![p] = "setdata"]
                    /\ depth' = [depth EXCEPT ![p] = 0]
                    /\ UNCHANGED <<silent, err, crashed, own, entries, arg, resolved, last>>

(* node.WithClientData(cname) after findNode released the lock: the node *)
(* may since have been renamed (ref follows it) or removed (its slot is  *)
(* own), and cname is the key it was found under.                        *)
StatSetData(p) ==
    /\ Running
    /\ pc[p] = "setdata"
    /\ IF ref[p] = Detached
       THEN own' = [own EXCEPT ![p] = path[p]] /\ UNCHANGED entries
       ELSE entries' = WithClientData(ref[p], path[p]) /\ UNCHANGED own
    /\ resolved' = [resolved EXCEPT ![p] = path[p]]
    /\ path' = [path EXCEPT ![p] = None]
    /\ pc' = [pc EXCEPT ![p] = "getdata"]
    /\ UNCHANGED <<silent, err, crashed, arg, depth, ref, last>>

(* A link chain deeper than the goroutine stack: Go aborts the process.  *)
StackOverflow(p) ==
    /\ Running
    /\ pc[p] = "hop"
    /\ depth[p] > MaxDepth
    /\ crashed' = "stack overflow"
    /\ UNCHANGED <<silent, err, entries, statVars, last>>

(* Stat without cleaned = node.ClientData(): it stats the link itself. *)
StatGetData_keepname(p) ==
    /\ Running
    /\ pc[p] = "getdata"
    /\ path' = [path EXCEPT ![p] = CleanPath(arg[p])]
    /\ ref' = [ref EXCEPT ![p] = None]
    /\ own' = [own EXCEPT ![p] = None]
    /\ pc' = [pc EXCEPT ![p] = "internal"]
    /\ UNCHANGED <<silent, err, entries, crashed, arg, depth, resolved, last>>

(* Back in Stat: cleaned = node.ClientData().(string), read unlocked.    *)
StatGetData(p) ==
    /\ Running
    /\ pc[p] = "getdata"
    /\ path' = [path EXCEPT ![p] = IF ref[p] = Detached THEN own[p]
                                   ELSE ClientData(ref[p])]
    /\ ref' = [ref EXCEPT ![p] = None]
    /\ own' = [own EXCEPT ![p] = None]
    /\ pc' = [pc EXCEPT ![p] = "internal"]
    /\ UNCHANGED <<silent, err, entries, crashed, arg, depth, resolved, last>>

(* Stat's last step: internalStat("Stat", cleaned) under a new read lock *)
StatInternal(p) ==
    /\ Running
    /\ pc[p] = "internal"
    /\ IF PanicsAt(Clean(path[p])) THEN NilPanic
       ELSE /\ StatReturn(p, arg[p], internalStat(p, "Stat", Clean(path[p])))
            /\ UNCHANGED <<silent, err, entries, crashed, ref, own>>

-----------------------------------------------------------------------------
FakeLists == {l \in SUBSET Names : l # {} /\ Cardinality(l) <= MaxFakeList}

(* A step of process p other than the start of a Stat *)
Step(p) ==
    \/ \E e \in ErrorValues : WithError(p, e)
    \/ \E l \in FakeLists : WithFakeDirectories(p, l) \/ WithFakeFiles(p, l)
    \/ \E n \in Names :
          \/ Remove(p, n) \/ ReadDir(p, n) \/ Lstat(p, n)
          \/ \E perm \in MkdirPerms : Mkdir(p, n, perm)
          \/ Open(p, n) \/ OpenFile(p, n, TRUE)
    \/ \E n1, n2 \in Names : Rename(p, n1, n2) \/ Symlink(p, n1, n2)
    \/ StatHop(p) \/ StackOverflow(p) \/ StatSetData(p) \/ StatGetData(p)
    \/ StatInternal(p)

Next == (\E p \in Procs : Step(p) \/ \E n \in Names : StatFind(p, n)) /\ UNCHANGED level

Spec == Init /\ [][Next]_<<vars, level>>

-----------------------------------------------------------------------------
TypeOK ==
    /\ silent \in BOOLEAN
    /\ err \in ErrorValues \cup {NoError}
    /\ entries \in [Keys -> Node \cup {Absent, NilNode}]
    /\ crashed \in {"no", "stack overflow", "nil dereference"}
    /\ pc \in [Procs -> {"idle", "hop", "setdata", "getdata", "internal"}]
    /\ arg \in [Procs -> Names \cup {None}]
    /\ path \in [Procs -> Keys \cup {None}]
    /\ depth \in [Procs -> 0 .. MaxDepth + 1]
    /\ ref \in [Procs -> Keys \cup {None, Detached}]
    /\ own \in [Procs -> Keys \cup {None}]
    /\ resolved \in [Procs -> Keys \cup {None}]
    /\ last \in Result \cup {None}
    /\ level \in NodeLevels

-----------------------------------------------------------------------------
(* Silent mode never touches the store (spec 3): every store write is   *)
(* behind the bfs.silent test of its operation, and WithError never     *)
(* switches back to silent mode.                                        *)
SilentModeStoresNothing == silent => \A k \in Keys : entries[k] = Absent

(* A Stat that followed links reports the entry its dereference reached: *)
(* the name Stat returns is the cname dereferenceSymLink found the final *)
(* node under, although it travels through the node's unlocked          *)
(* ClientData slot (WithClientData / ClientData) between the two.        *)
StatReportsResolvedEntry ==
    (last # None /\ last.op = "Stat" /\ ~last.failed /\ last.resolved # None)
        => last.info.name = last.resolved

(* Stat on a symbolic link returns, and does not bring the process down: *)
(* dereferenceSymLink has no cycle check, so a chain that leads back to  *)
(* itself recurses until the goroutine stack overflows.                 *)
NoStackOverflow == crashed # "stack overflow"

(* Every hybrid-mode failure wraps the injected error (spec 7: "all      *)
(* errors returned to callers wrap the single injected error").         *)
HybridFailuresWrapInjected ==
    (last # None /\ last.failed) => Injected \subseteq last.wraps

(* No call dereferences a nil node: Symlink stores what LinkTo returns *)
(* without a check, and LinkTo returns a nil node for a target name of *)
(* white space only.                                                    *)
NilNodeNeverDereferenced == crashed # "nil dereference"

(* Stat and Lstat agree on a name that is not a symbolic link: Stat only *)
(* differs by following links (spec 8), and every path is normalised the *)
(* same way before lookup (spec 4.1).  Stated for a single caller, so   *)
(* that the store has not changed since the Stat.                       *)
StatAgreesWithLstat ==
    (last # None /\ last.op = "Stat" /\ ~silent)
        => LET l == internalStat(last.proc, "Lstat", Clean(last.arg))
           IN  (~l.failed /\ ~HasFileModeFlag(ModeSymlink, l.info.mode))
                   => [last EXCEPT !.arg = None] = [l EXCEPT !.op = "Stat"]

-----------------------------------------------------------------------------
(* The facade implements the atomic namespace of NamespaceAbs: a node   *)
(* object is seen as its mode and target, and ClientData is invisible.  *)
Abs == INSTANCE NamespaceAbs
           WITH ns <- [k \in Keys |-> IF entries[k] = Absent THEN Absent
                                      ELSE [mode |-> Mode(entries[k]),
                                            target |-> Target(entries[k])]]

(* Every behaviour of the facade is a behaviour of the atomic namespace: *)
(* the same store changes and the same results, Stat's step-wise         *)
(* dereference included.                                                 *)
ImplementsNamespace == Abs!ASpec
=============================================================================
