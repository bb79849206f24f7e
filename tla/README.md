# TLA+ models of the BitBucket filesystem (`src/bucketfs`)

This directory holds TLA+ models of the fake filesystem in `src/bucketfs`, together with the TLC configurations that check them.

## The system

`bucketfs` is a `vfs.Filesystem` that stores nothing on disk. It has these parts:

* **Facade** (`bitbucket_filesystem.go`, type `BitBucketFS`).
  * It has two modes:
    * **silent** mode: every call is printed and succeeds;
    * **hybrid** mode: the outcome depends on a store of declared entries, and failures wrap an injected error.
  * State:
    * `silent`;
    * `err`;
    * `entries`, a map from cleaned path to node;
    * an `RWMutex`.
  * Every operation but `Stat` holds the mutex for its whole body.
  * `Stat` runs in pieces:
    1. It reads `silent` without the lock.
    2. It calls `findNode`, which takes the read lock.
    3. If the node is a link, it follows it with `dereferenceSymLink`. That function recurses once per link and calls `findNode` on every hop.
    4. The last hop stores the resolved name in the node's `ClientData` slot, with no lock held. `Stat` reads the slot back, also unlocked.
    5. It calls `internalStat`, which takes the read lock again.
* **Node** (`bitbucket_node.go`).
  * `createNode` builds a functional `bucketNode`, which keeps its whole `os.FileMode`. Its comment offers `bucketNodeLite` instead: that node keeps only `isDir` and `isLink`, reports every permission bit, and counts as a link only with a non-empty target.
  * A node also has a link target and the `ClientData` slot.
  * `Symlink` stores a fresh node from `LinkTo`. A link node is never a directory.
  * `LinkTo` returns a **nil** `*bucketNode` when the target name trims to empty, and `Symlink` stores it unchecked. Every method of a node dereferences its receiver, so the next operation on that entry panics.
* **Descriptor** (`bitbucket_file.go`, type `BitBucketFile`). `OpenFile` returns it.
  * It has a size, a cursor `at` and the filesystem's error, copied at open time.
  * Every method has a **value receiver**, so a copy of the struct is what changes. The copies share one `*sync.RWMutex`.
  * `ReadAt` below the size takes the lock and calls `f.Read`, which takes the same lock again.
* **FileInfo** (`bitbucket_fileinfo.go`). `Stat` and `Lstat` return a name, a mode and a directory flag. `newBitBucketFileInfo` clears `os.ModeDir`, and `newBitBucketDirInfo` sets it.
* **Open-flag word** (`permission.go`, type `vfs.Permission`).
  * `PrimaryMode` keeps the two low bits.
  * `Flags` clears those two bits. No call in the package uses it, and it is not modelled.
  * `String` renders the primary mode as `rw-`, `r--` or `-w-`, then one letter per flag it finds with `p&flag != 0`. It panics when the primary mode is 3.
* **Path utilities** (`fileutil.go`).
  * `vfs.CleanPath` trims spaces, applies `filepath.Clean` and expands `~/`.
  * `Stat` is the only caller that uses `CleanPath`. Every other operation uses plain `filepath.Clean`.

The parts interact as follows:
* The facade's operations update and read `entries`.
* Concurrent `Stat` calls share the nodes in `entries` through the `ClientData` slot.
* `OpenFile` hands the current `err` to a new descriptor.

## Modules

| Module | Models | State ↔ code |
|---|---|---|
| `BucketFileInfo` | `os.FileMode` words, the FileInfo constructors | A `FileMode` is the set of its bits. The type bits `ModeDir` and `ModeSymlink` are kept. The nine permission bits become `r`, `w` and `x`, because no line tests a single one of them. `\|` is ∪, `&` is ∩ and `&^` is set difference. `HasFileModeFlag` is ⊆. A FileInfo is `[name, mode, dir]`: the size is always 0, and the time and `Sys` are never compared. |
| `VfsPath` | `filepath.Clean`, `vfs.CleanPath` | A path is abstracted to the features the two cleaners treat differently: surrounding blank, `~/` prefix (`tilde`) vs. the home directory it expands to (`home`), a trailing `/.`, and the leaf name. |
| `BitBucketFS` | facade and node | `silent`, `err` and `entries` are the struct fields. A node is `[mode, target, extra]`, where `extra` is `ClientData`. `level` is the node type `createNode` builds, chosen in `Init` from `NodeLevels` and fixed afterwards. For a lite node, `mode` holds only its type bits, and `IsLink`, `Mode` and `LinkTo` follow the lite methods. Per goroutine, `pc`, `arg`, `path` and `depth` are `Stat`'s locals and its recursion depth. `ref` is the node `Stat` holds between `findNode` and `ClientData()`. It is tracked by key: it follows a `Rename`. When a `Remove` or `WithFake*` replaces the node, `own` keeps the detached node's slot. `crashed` records why the Go process died: a stack overflow, or a method call on the nil node `NilNode` (`PanicsAt`, `NilPanic`). Every action whose code calls a node method on the entry (`IsDir` in `Remove`, `Rename`, `Symlink`, `Mkdir`, `OpenFile`, `ReadDir` and `internalStat`; `IsLink` in `findNode` and `dereferenceSymLink`) has a branch that panics when that entry is the nil node. Silent mode touches no node, so it never panics. `last` is a ghost holding the most recent call's outcome. |
| `NamespaceAbs` | what the facade promises | An atomic namespace `ns` of `[mode, target]` entries, where every operation, `Stat` included, is one step. Its `Mkdir` keeps the permission bits of `perm`, as `os.Mkdir` does. `Resolve` is a RECURSIVE operator that follows a link chain. |
| `StatLinearizability` | linearizability of `Stat` | Adds the ghost `poss[p]`: the outcomes an atomic `Stat` could have had at any state between the call and its return. |
| `FileSpec` | the descriptor of spec §4.3 | An exclusively owned handle: `Write` grows `size`, `Read` moves `cursor`, and so on. |
| `BitBucketFile` | the descriptor as coded | Each method is an operator from a receiver copy and the call's inputs to the copy it ends with and its results. The action returns the results and leaves the caller's `fd` unchanged, as Go's value receiver does. `mu` is the shared mutex. `ReadAt` below the size is two actions: `ReadAt` takes the lock, and `ReadAtRead` is the nested `f.Read`, which needs the lock free. `pc` and `args` hold the call between them. |
| `Permission` | `permission.go` | `pe` is the flag word a caller builds by OR-ing flags into it (`AddFlag`). `str` is `String()` of it, or `"panic"`. `PrimaryMode` and `String` are operators over the `Bitwise` community module. The flag constants are Go's `os.O_*` values on linux/amd64, set in the cfg. `RefString` is the reference rendering: a letter for every flag that is set in full (`vfs.HasModeFlag`). |
| `MCBitBucketFS`, `MCStatLinearizability`, `MCBitBucketFile`, `MCPermission` | TLC instances | Path sets, operation sets, offsets, symmetry. |

### How the facade's actions map to the code

Each facade action covers one whole method body:

| Action | Method |
|---|---|
| `WithError` | `WithError` |
| `WithFakeDirectories` / `WithFakeFiles` | the methods of the same names |
| `Remove` | `executePath` |
| `Rename` | `Rename` |
| `Symlink` | `Symlink` |
| `Mkdir` | `Mkdir` |
| `Open` / `OpenFile` | the methods of the same names: the outcome only; no entry is created. `Open` is `OpenFile` without `O_CREATE`, and `create` stands for `HasModeFlag(O_CREATE, flag)` |
| `ReadDir` | `ReadDir` |
| `Lstat` | `internalStat` |

`Stat` is five actions, one per lock-separated step:

| Action | Step of `Stat` |
|---|---|
| `StatFind` | the unlocked read of `silent` and `findNode` |
| `StatHop` | one frame of `dereferenceSymLink` up to its `findNode`; a non-link node is held with its `cname` |
| `StatSetData` | the unlocked `node.WithClientData(cname)` on the held node, which may have been renamed or removed since |
| `StackOverflow` | the recursion exceeds `MaxDepth` frames |
| `StatGetData` | the unlocked `ClientData()` |
| `StatInternal` | `internalStat`, then return |

Outcomes record:
* whether the call failed;
* the set of errors the returned error wraps, as `errors.Is` sees them: the sentinels and the injected error;
* for the stat family, the returned name and kind.

## Runs

| Run | Expect | What it shows |
|---|---|---|
| `clientdata_race` | violation | Two goroutines interleave every operation, `Rename` included, with `Stat` step by step and either node type. `Stat(/b)` follows `/b -> /a` and writes `/a` into the directory node's `ClientData` slot. Then `/b` is removed, `/a` is renamed to `/b`, and `/a -> /b` is made. A second `Stat(/a)` writes `/b` into the same slot, and the first `Stat` stats `/b`, not the `/a` its dereference resolved (`StatReportsResolvedEntry`, the contract in the comment at lines 403-406). |
| `refines` | pass | With one goroutine and functional nodes, the facade implements `NamespaceAbs` (`ImplementsNamespace`). Silent mode never stores an entry (`SilentModeStoresNothing`). This covers the step-wise `Stat` and both normalisations. A stack overflow is a stutter of the abstraction; its own run covers it. |
| `symlink_cycle` | violation | `Remove`+`Symlink` build a cycle, and `Stat` overflows the stack (`NoStackOverflow`). |
| `stat_lstat` | violation | `Stat("~/a")` and `Lstat("~/a")` look up different keys (`StatAgreesWithLstat`). |
| `error_wrap` | violation | `Stat` of a missing path fails without the injected error (`HybridFailuresWrapInjected`). |
| `stat_linearizable` | violation | A `Remove` between `findNode` and `internalStat` gives an outcome no atomic `Stat` has (`StatLinearizable`). |
| `stat_linearizable_addonly` | pass | Two goroutines run every operation that only adds entries or reads them: `Stat`, `Lstat`, `Mkdir`, `Symlink`, `OpenFile`, `ReadDir` and `WithError`. Every `Stat` then returns what an atomic `Stat` returns in some state during the call (`StatLinearizable`). The lock splitting of `Stat` is harmful only together with removal or replacement. Both node types are checked. |
| `blank_link` | violation | A blank-named entry (`WithFakeDirectories` or `WithFakeFiles` of `" "`), then `Symlink(" ", "/a")` stores the nil node `LinkTo` returns, and `Remove("/a")` panics (`NilNodeNeverDereferenced`). |
| `permission_flags` | pass | Starting from `O_RDONLY`, a caller ORs any of the documented flags into the word. For every reachable word, `String` names exactly the flags that are set (`StringNamesSetFlags`). The run also covers `O_RDWR|O_WRONLY`, where `String` panics: the property is conditioned on a valid primary mode. |
| `write_size` | violation | `Write` through the caller's descriptor does not grow its size (`FileImplementsSpec`). |
| `readat_eof` | violation | `ReadAt` past the end returns `f.err`, not EOF (`ShortReadReportsEOF`). |
| `readat_deadlock` | violation | `ReadAt` at an offset below the size takes `f.mu.Lock()`, and the `f.Read` it calls blocks on `f.mu.Lock()` for ever (`ReadAtReturns`). The caller's copy always has size 0, so the offset −1 is what reaches it. |

`PROJECT.json` lists a **mutant** for every property of a passing run. A mutant is a plausible bug that TLC must catch:
* `Remove` storing nil;
* `Mkdir` without its silent branch;
* `Stat` forgetting `cleaned = ClientData()` (caught by `StatLinearizable`);
* `Rename` that overwrites;
* `String` testing `O_CREATE` where it means `O_EXCL`.

## Bounds and why they are enough

* **Paths.**
  * `clientdata_race` uses `/a` and `/b`. Two keys are enough for a link, its target, a self-link, and a two-link cycle.
  * `refines` adds `~/a`, the spelling that `CleanPath` and `Clean` map to different keys.
  * `stat_lstat` uses `~/a`, `<home>/a` and ` /b`.
* **Processes.** Two goroutines: a race between two `Stat`s, or between a `Stat` and a store update, needs no more.
* **Stack.** `MaxDepth = 3`: a `Stat` that follows three links crashes. Two keys allow chains of at most one real hop, so any recursion past 3 frames comes from a cycle, which recurses for ever in Go.
* **WithFake lists.** `MaxFakeList = 2`, which can declare both keys at once.
* **Errors.** One injected error value: every property tells errors apart only by "wraps the injected error".
* **Flag words.** `permission_flags` reaches all 128 words built from the seven documented flags. Every letter of `String` and both its panic and non-panic branches are reached.
* **Blank names.** `blank_link` uses one name that trims to empty and `/a`: one link is all the nil node needs.
* **Mkdir permissions.** `MkdirPerms = {0777}` (`StdPerms`). The facade copies `perm` into the node unchanged, and no property distinguishes permission bits other than through that copy. A second value doubles `refines` and adds no new branch.
* **Node types.** `clientdata_race` and `stat_linearizable_addonly` start from both node types. The other runs use the functional node that the build compiles.
* **Descriptor inputs.** Buffer lengths 0–2, offsets −1, 0 and 1, and whence values 0–3 cover every branch of `Read`, `ReadAt` and `Seek` on the empty file that `OpenFile` creates.

After a stack overflow the model stops, since the Go process dies. The passing runs therefore set `CHECK_DEADLOCK FALSE`.

## Fairness

* **Descriptor.** `ReadAtReturns` (a `ReadAt` in progress eventually returns) is checked under `FSpecImpl`, which has `WF_vars(ReadAtRead)`. Go's `sync.RWMutex` grants a free lock to a goroutine that waits on it, so a `ReadAtRead` that stays enabled is eventually taken. The property still fails, because the step is never enabled: the lock it waits for is held by its own call.
* **Facade.** No fairness is assumed. Every operation but `Stat` holds the mutex for one method body. `Stat`'s recursion is bounded by `MaxDepth`, so every `Stat` either returns or overflows the stack. That makes "`Stat` eventually returns" the same statement as `NoStackOverflow`, which `symlink_cycle` checks.

## Not modelled, and why

* **Descriptor composed with `OpenFile`.** Spec §3 says a descriptor carries the error in force when it was opened. A descriptor opened before a later `WithError` therefore keeps the old error by design (`bitbucket_filesystem.go:267`). `BitBucketFile` starts from every error the filesystem can hold (`FInit`), and composing the two modules would tell nothing more apart.
* **The caller's slice in `WithFakeDirectories`/`WithFakeFiles`.** Both calls write the cleaned names back into the caller's slice and sort it in place. A declared list is a set of names in the model, so that aliasing is not represented. `PROJECT.json` lists it as a hazard.
* **`Seek` at the end and `Truncate` below zero.** `Seek` refuses `offset == size`, so every `Seek` on an empty file fails. Spec §4.3 states the same range, so no property tells the code from the spec. `Seek` is listed as a hazard. `Truncate(-1)` stores a negative size and never clamps the cursor, and `Read` at the end of an empty file sets the cursor to −1. The value receivers drop these assignments before any caller sees them, so they are not hazards of this code.
* **`WithError(nil)`.** It is accepted, unlike in `CreateWithError`, and a hybrid failure then wraps nothing. No run asserts on it: the spec speaks of one injected error.
* **`Mkdir` with type bits in `perm`.** `Mkdir` stores `os.ModeDir|perm` unmasked. A `perm` holding `os.ModeSymlink` makes a node that is both a directory and a link, and `refines` fails at that step. The cfgs exclude it by an `ASSUME` (`MkdirPerms ⊆ SUBSET ModePerm`). `PROJECT.json` lists it as a hazard, not as a violation run.
* **`O_DSYNC` in `Permission.String`.** On Linux `os.O_SYNC` is `O_DSYNC|__O_SYNC`, so `p&os.O_SYNC != 0` also holds for `O_DSYNC` alone, which renders as `"s"`. `MCPermission` limits the inputs to the documented flags. The case is listed as a hazard.
* **The unlocked read of `silent` in `Stat`** (`bitbucket_filesystem.go:297`). `silent` only ever goes from true to false. Under Go's memory model, a stale read gives the outcome of a `Stat` ordered before the `WithError`, which the model's interleavings already contain.

Out of reach or out of scope:
* The node methods the facade never calls: `WithLink`, `Perms` and `String`. `internalStat` calls `Size`, which always returns 0.
* The printed diagnostics.
* The `FileInfo` size (always 0), timestamp and `Sys`.
* The test harness.
* The external memfs, OS, mount and read-only filesystems (spec §1).

With `Open` and both node types in place, every method of `bucketfs` that changes or reports state is an action or an operator of a module. The code left out is the list above: output, formatting, accessors that only return a field, and the external filesystems. The hazards that no run asserts on are listed in `PROJECT.json`, each with the reason. Most are defects that the value receivers hide from every caller, or cases where the spec and the code agree.
