# TLA+ models of usvfs: the shared directory tree and the hook manager

This directory holds TLA+ specifications of the two source files of this
repository. `src/shared/directory_tree.h` has the directory tree that usvfs
keeps in shared memory, and the container that grows that shared memory and
migrates the tree. `src/usvfs/hookmanager.cpp` has the per-process hook
manager. The directory also holds the TLC configurations that check the
specifications, and `PROJECT.json`, which lists the components, runs,
mutants, source map, findings and hazards.

Parse a module with `tlasany M.tla`. Check a run with
`tlc -workers 2 -config X.cfg M`, where the module and cfg of each run are
listed below.

## 1. The system

### Parts and how they interact

| Part | Source | State | Operations |
|---|---|---|---|
| `DirectoryTree<NodeDataT>` node | directory_tree.h 101-485 | `m_Flags`, `m_Parent`/`m_Self` (weak), `m_Name`, `m_Data`, `m_Nodes` (case-insensitive map of owning pointers) | `erase`, `clear`, `findNode`, `path`, `numNodesRecursive`, `find`/`findLocal` (wildcards), `visitPath` |
| `TreeContainer<TreeT>` | directory_tree.h 493-862 | `m_SHMName` (`<base>_<gen>`), `m_SHM` (mapping), `m_TreeMeta` | constructor, destructor, `get`/`operator->`, `addFile`, `addDirectory`, `clear`, and privately `addNode`, `copyTree`, `createOrOpen`, `activateSHM`, `unassign`, `reassign` |
| `TreeMeta` (one per segment, named "Meta") | 632-642 | `tree`, `referenceCount`, `outdated`, `mutex` | constructed, found, destroyed by containers |
| Shared memory segments (Boost.Interprocess, OS) | used at 758-832 | named segments of a fixed size | `open_only`, `create_only`, `remove`, `find`/`construct`/`destroy_ptr` |
| `HookManager` | hookmanager.cpp | `s_Instance`, `m_Hooks` (name to handle), `m_Stubs` (address to name), `m_Context` | constructor (`initHooks`), destructor (`removeHooks`), `instance`, `detour`, `removeHook`, `installHook`, `installStub`, `logStub` |

Several processes each own one `TreeContainer` over the same segment name.
They share one tree through the segment, and the segment's `TreeMeta` counts
the processes attached to it.

When an insertion runs out of space (`bad_alloc`), the process migrates the
tree:
1. It marks the current Meta `outdated`.
2. It opens or creates the successor name `<base>_<gen+1>` at twice the size.
3. It constructs a Meta there and deep-copies the tree into it.
4. It drops its reference to the old Meta. The last user destroys the old
   Meta and removes its name.

Every other process notices the `outdated` flag in `get()` and follows the
successor names.

In every process into which usvfs is injected, the `HookManager` patches API
functions with detours or logging stubs. The application's threads keep
calling those functions while the manager installs and removes the patches.

### Hard behaviours in this code

- **Interleavings between processes over shared memory.**
  - `open_only`/`create_only` in `createOrOpen` (765-769).
  - `find`/`construct` of the Meta (783-786).
  - The decrement-to-zero and `destroy_ptr` in `unassign` (826-827).
  - `remove` of the old name in `activateSHM` (800-802).
  - `copyTree` assigning entries in a tree that other processes already use
    (743).
- **State read before a call that can migrate the tree and used after it.**
  `addFile` takes `base` and the allocator from `m_TreeMeta` (600). The
  `get()` at the last component (689) may then reassign. `activateSHM`
  drops the old mapping when `oldSHM` goes out of scope, so the insertion
  that follows touches unmapped memory; the model makes it a fault.
- **Generations kept alive separately.** A container that has not yet
  noticed a migration holds only the outdated generation; the destructor
  of the last container on the newest one destroys that Meta (528).
- **Partial failures.**
  - An exception out of `construct` after `m_SHM.reset` (783-787).
  - `bad_alloc` in the middle of `copyTree`.
  - Processes that die without detaching.
- **Termination.** The `reassign` loop, and the recursive retry of `addFile`
  after `bad_alloc`.
- **Threads against the hook manager.**
  - A stub can be called before its table entry exists (173/189).
  - `logStub` can run while or after the destructor runs (71-76, 118-125).
- **The insertion algorithm itself.** The last component is looked up in
  the root (689). Parent pointers are set before the insertion is decided
  (697-699).

## 2. Modules

| Module | Models | Kind |
|---|---|---|
| `DirectoryTree` | The node heap and `addNode`/`erase`/`clear` of one tree; `findNode`, `path`, `visitPath`, wildcard `find` and `copyTree` as operators | Sequential component and pure algorithms |
| `TreeContainer` | The grow-and-migrate protocol of N processes over shared segments, and `addFile`/`clear`/`get`/destructor | Concurrent component |
| `SharedTree` | What a container promises its process: one set of entries that changes only by the process's own adds and clears | Abstract specification |
| `MCTreeContainer` | The TLC instance of `TreeContainer`: symmetry over processes, and the refinement mapping to `SharedTree` | MC module |
| `HookManager` | The singleton lifecycle, `initHooks` with module fallback, `removeHook`/`removeHooks`, and `logStub` from application threads | Concurrent component |

### DirectoryTree

The heap is a set of node ids `0..MaxNodes`, where node 0 is the root that
the `TreeMeta` constructor builds. Each member of a node is one variable:
`name`, `flags`, `data`, `parent` (the weak `m_Parent`), and `nodes` (the
`m_Nodes` map from a component to a child id). A component stands for its
whole case-insensitive class (`CILess`).

Ownership is modelled as reachability: after each operation, `Collect` frees
every node that no map entry reaches from the root. This is what
`~DirectoryTree` and `bi::shared_ptr` do.

`addNode` is a RECURSIVE operator over the path, threading the heap record:
- `SubDir` is the intermediate-component branch. It reuses a child, or
  creates a `DIRECTORY|DUMMY` node with an empty payload.
- `AddLeaf` is the last-component branch, written as the code does it. It
  looks the name up among the root's children, reuses that node or creates
  one, sets the node's parent to `base->m_Self` (`SelfOf`: never set for the
  root), and then assigns (overwrite) or inserts into `base`'s map.

The actions are `AddFile`, `AddDirectory`, `Erase` and `Clear`, each taking
its arguments from small sets. `RoomFor` bounds an insertion by the free
slots; running out of space is modelled in `TreeContainer`.

The read-only operations and the deep copy are operators over the heap,
and the invariants apply them to every reachable tree:
- `FindNode`/`findNodeFrom` model `findNode`, and `NodePath`/`pathUp` model
  `path()`.
- `VisitPath`/`visitFrom` model `visitPath`: the nodes handed to the
  visitor, in order.
- `Find` and the RECURSIVE `findLocal` model the wildcard search `find`.
  A pattern is the sequence of its components. A component is a name,
  `Star` (the component `*`) or `EmptyComp`. `EmptyComp` is what is left
  in front of a separator when `findLocal` recurses with
  `pattern.substr(1)`.
  - `Find` anchors at the components before the first wildcard, as the
    `find_first_of`/`find_last_of` pair does.
  - `PartialMatch` stands for `wildcard::PartialMatch`, which is not in
    this repository. It is modelled from the spec's partial-match rule:
    consume one component, return the residual.
- `copyTree`/`copyChildren`/`CopyLink` model `TreeContainer::copyTree`
  into the fresh tree `NewTree` that `TreeMeta`'s constructor builds. Each
  child gets `createSubNode(allocator, "", true, ...)` and its `m_Self`,
  has its subtree copied, and is then linked. Because the root's `m_Self`
  is never set, its copied children get an empty parent.

### TreeContainer

Shared state (the OS and the segments):
- `named`: the name-to-segment table, indexed by generation.
- `segs`, `segGen` and `size`.
- Per segment: `meta` (none, live or destroyed), `refs`, `outdated` and
  `content`.

The content is abstracted to the two levels that the code treats
differently. `content[s][t]` is Absent, or the set of names below the
top-level directory `t`. `addNode` creates `t` as a dummy directory and then
inserts the name. `copyTree` copies one top-level entry per map assignment.
Capacity is a node count: a segment of size `k` holds `k` nodes.

Per process, `pc` is the control point. The other per-process variables
mirror the code's fields and locals:
- `nm` mirrors `m_SHMName`, `shm` mirrors `m_SHM`, and `tm` mirrors
  `m_TreeMeta`.
- `tgt`, `sz` and `nsh` are `createOrOpen`'s arguments and `newSHM`.
- `todo` is what `copyTree` has still to copy.
- `op`, `base` and `stale` belong to the insertion in progress.
- `ret` is the return point of `reassign`/`createOrOpen`. It is the
  constructor, `addNode`'s retry, the last component, or a read.

Each access to shared memory is one step, so the steps of different
processes interleave as they can in the code:

| Action | Code |
|---|---|
| `Attach` | constructor |
| `Reassign` | `reassign()` marks outdated and computes the successor name and size |
| `Open`, `Create` | `createOrOpen` |
| `Find`, `Construct` | `activateSHM`: `m_SHM.reset`, then find or construct the Meta |
| `Copy` | `copyTree`, one top-level entry per step |
| `Incref` | `increaseRefCount` |
| `Decref`, `Destroy`, `Remove` | `unassign`, `destroy_ptr`, `remove` |
| `Finish` | the end of `activateSHM` and `reassign`'s loop test |
| `StartAdd`, `AddDir`, `AddGet`, `AddLeaf` | `addFile`/`addNode` |
| `Read`, `ReadDone` | `get()` |
| `Clear` | `clear()` |
| `Detach` | destructor |

Undefined behaviour is a nondeterministic choice:
- An insertion into a node that lies in an unmapped segment, or that was
  freed by another process's `copyTree` or `clear`, either faults
  (`Crashed`) or is silently lost while `addFile` returns the node.
- A process whose `m_TreeMeta` was left in an unmapped segment by an
  exception (`Dangling`) faults on its next access.
- A `bad_alloc` out of the `get()` at the last component (689) is caught
  by `addFile`, whose `reassign()` then writes to the `m_TreeMeta` that
  `activateSHM` left in the unmapped segment: a fault (`BadAlloc`).

### HookManager

A function `f` has two possible addresses: `<<f,1>>` in module1
(kernelbase/ntdll/shell32) and `<<f,2>>` in module2 (the kernel32 fallback).

The loader state `exports` is chosen in `Init`. kernelbase may be missing,
and a module may lack the export. Each `InstallHook`/`InstallStub` may
succeed or fail, which is chosen with `\E`.

State:
- `patched` is the set of addresses HookLib has patched.
- `hooks` and `stubTab` are `m_Hooks` and `m_Stubs`.
- `inst` is `s_Instance`, and `mgr` is the lifecycle of the object.
- `tpc` is the control point of each application thread.

Actions:
- `Install` is `installHook`/`installStub`, with `UsedAddr` for the
  fallback.
- `Record` is the two `insert`s that follow the patch.
- `InitDone`.
- `RemoveHook` is the public `removeHook`.
- `Destruct`, `RemoveFirst` and `Unregister` make up the destructor and
  `removeHooks`.
- `CallStub`, `Instance` and `LogStubInt` are a thread running a stub and
  `logStub`.

The roughly 50 functions that `initHooks` installs are abstracted to three
representatives:
- a stub with a fallback module;
- a stub without one;
- a hook with a fallback.

This abstraction is sufficient because every call follows one of these
three paths.

### Abstract specification and refinement

`SharedTree` has one variable, `items`, with the actions `Add(i)` and
`Clear`. `MCTreeContainer` maps `items` to the entries of the tree that the
single process's `m_TreeMeta` points to (`Visible`). It checks
`SharedTreeRefined == Abstract!Spec` as a PROPERTY:
- every migration step (reassign, open, create, construct, copy, refcount,
  remove) leaves the visible tree alone;
- every `AddLeaf` is an `Add`;
- every `Clear` is a `Clear`.

This holds for one process. With two processes it fails (see
`container_lost_add`), so the refinement is checked with one process only.
It therefore says nothing about a copy racing another process's insertion
(743); `AckedAddsKept` is the property about that.

## 3. Runs

| Run | Module / cfg | Expect | Properties | What it shows |
|---|---|---|---|---|
| dirtree_safety | DirectoryTree / DirectoryTree.cfg | pass | TypeOK, TreeShaped, PathRoundTrip, AddIsLocal, FindMatchesGlob, VisitPathFollowsFindNode, MigrationPreservesTree | With drive names only at the top level (as usvfs inserts them): the maps stay a tree; `path()` round-trips through `findNode()`; an insertion touches only its own path; `find()` returns only matching nodes, and every one for a pattern whose wildcard is last (below directories); `visitPath()` follows `findNode()`; `copyTree()` reproduces every reachable tree, parent pointers included |
| dirtree_find_misses | DirectoryTree / DirectoryTree_FindEveryMatch.cfg | violation | FindFindsEveryMatch | `find()` misses matching nodes: after `addFile("c/a")`, `find("*/a")` is empty; after `addFile("c")`, `addFile("c/a")`, `find("c/a")` is empty |
| dirtree_overwrite_subtree | DirectoryTree / DirectoryTree_OverwriteKeepsSubtree.cfg | violation | OverwriteKeepsSubtree | `addFile(c/a/a)` then an overwriting `addDirectory(c/a)` replaces the DUMMY directory `c/a` by a fresh node, and `c/a/a` is gone |
| container_safety | MCTreeContainer / MCTreeContainer.cfg | pass | TypeOK, RefCountAccurate | Under every interleaving of two processes, each live Meta's count equals its holders and never underflows |
| container_split_brain | MCTreeContainer / MCTreeContainer_SingleCurrentTree.cfg | violation | SingleCurrentTree | Destroy-before-remove lets an attaching process build a second, empty current tree |
| container_refcount_reset | MCTreeContainer / MCTreeContainer_RefCount3.cfg | violation | RefCountAccurate | With three processes: p2 finds the Meta just before p1's decrement to zero and increments it after `destroy_ptr`; p3 then finds no Meta in that segment and constructs one with count 0 while p2 holds it |
| container_lost_add | MCTreeContainer / MCTreeContainer_AckedAddsKept.cfg | violation | AckedAddsKept | p2 attaches to generation 1; p1 migrates to generation 2, adds `t1/x1` and detaches, destroying generation 2's Meta; generation 1, without `t1/x1`, is again the newest tree and p2 is on it |
| container_liveness | TreeContainer / TreeContainer_live.cfg | pass | OperationsReturn | Every operation returns, crashes or meets the generation bound: the retry and successor loops terminate |
| container_refines | MCTreeContainer / MCTreeContainer_single.cfg | pass | SharedTreeRefined | For one process, migration and `copyTree` are invisible |
| hooks_safety | HookManager / HookManager.cfg | pass | TypeOK, StubsNameTheirFunction, UnhookedOnShutdown | m_Stubs names every live stub by the address actually patched (also after the kernel32 fallback), and the destructor unpatches everything |
| hooks_after_shutdown | HookManager / HookManager_NoUseAfterShutdown.cfg | violation | NoUseAfterShutdown | A stub call that overlaps the destructor reaches the destroyed object through the never-reset `s_Instance` |
| hooks_stub_race | HookManager / HookManager_NoStubTableRace.cfg | violation | NoStubTableRace | A live stub's `logStubInt` reads `m_Stubs` while `initHooks` inserts into it |

Every property of a passing run has a mutant in `PROJECT.json`. A mutant is
a plausible bug in the mapped definition, under which TLC finds that
property violated:
- a returned node that was never linked;
- the last component looked up in the parent;
- `m_Self` never set;
- an intermediate directory always replaced;
- `find` searching the rest of the pattern from the root, not from the anchor;
- `visitPath` calling the visitor for missing components;
- `copyTree` setting `m_Self` only after copying the subtree;
- a skipped increment;
- `unassign` given the new Meta;
- `reassign` retrying the same name;
- `copyTree` stopping after the first entry;
- `installHook` recording a hook whose `InstallHook` failed;
- the fallback recording module1's address;
- `removeHooks` erasing without unpatching.

## 4. Findings

1. **`*/` never matches** (directory_tree.h:460). `findLocal` recurses
   into a directory child with `pattern.substr(1)`, which drops the `*`
   but keeps the separator. The child then matches its names against
   `/rest`, so `find("*/a")` is empty after `addFile("c/a")`. Spec 4.1,
   and the code's own comment at line 458, say that `*` before a
   separator matches exactly one directory level. `FindFindsEveryMatch`
   is violated after one insertion.
1b. **Nothing below a file is found** (710). `addNode`'s intermediate walk
   reuses whatever node the map holds. After `addFile("c")` and then
   `addFile("c/a")`, the file `c` has a child, and `findLocal` descends
   only into directories (466). `find("c/a")` is then empty, although
   `findNode` finds the node. Spec 3.1 says a node without DIRECTORY is a
   leaf, and spec 4.1 that `find` returns every matching descendant.
   `FindFindsEveryMatch` is violated here too; depending on the search
   order TLC reports this trace or that of finding 1.
2. **An overwriting insertion drops the subtree of a directory**
   (directory_tree.h:702). The last component is looked up in the root, not
   found, and a fresh node is assigned to `base->m_Nodes[name]`. The DUMMY
   directory that was there is released with everything below it.
   `addDirectory` defaults to `overwrite = true`, so mapping a directory
   loses the entries already linked below it. Spec 3.2 item 5 says a DUMMY
   node may be upgraded in place; section 9 leaves open whether the
   collision clears DUMMY and replaces the payload or is a no-op, and
   neither choice releases the node's children.
3. **Split brain** (800): the old Meta is destroyed before its name is
   removed. A process that opens the name in between constructs a fresh,
   non-outdated tree, against spec invariant 6.
4. **Refcount reset** (826, 786): decrement-to-zero and `destroy_ptr` are
   not atomic with respect to another process's find and increment. The
   process that incremented keeps using a destroyed Meta, and a third
   process that attaches to the same segment finds no Meta and constructs
   a new one whose count starts at 0 while the second still holds it.
   Spec invariant 7 (the count equals the attached containers) fails. It
   takes three processes: with two, no one is left to construct the
   second Meta, which is why `RefCountAccurate` holds in
   `container_safety`.
5. **Lost acknowledged insertion** (528, a spec gap). The reference count
   is per generation. A container still on the outdated generation 1
   keeps only that one alive; when the last container on generation 2
   is destroyed, `unassign` destroys generation 2's Meta with the entry
   added to it. The lagging container's next `get()` finds no Meta under
   the successor name, constructs one and copies generation 1 into it,
   so the insertion `addFile` acknowledged is gone. The spec lets readers
   miss the transition until their next operation (section 5) and unlinks
   an arena when the last attached process detaches (6.3), but does not
   say what keeps a newer arena alive while a process is attached to an
   older one.
6. **`s_Instance` is never reset** (hookmanager.cpp:71). `logStub`'s "after
   shutdown" path is unreachable, and a late stub call uses freed memory.
7. **Stubs are live before their `m_Stubs` entry exists**
   (hookmanager.cpp:173/189), which is a data race on `std::map`.

Further disagreements were met while modelling and reproduced with TLC.
Each is latent under the names usvfs inserts, or a deterministic sequence
of two calls, so no run is kept for them:
- **`addNode` looks up the last path component among the root's
  children** (689, `this->get()->node(...)`). A name that exists at the
  top level is re-parented and linked under `base`: one node shared by two
  maps, or a cycle, and the parent pointer moves even when a
  non-overwriting insert fails. TLC shows it with `addFile("a")` then
  `addFile("a/a")` once a name may occur at any depth. In usvfs the
  top-level names are drive names (`C:`), which cannot occur deeper, so
  `dirtree_safety` restricts its inputs to that usage, under which
  `TreeShaped` holds.
- **Overwriting an existing top-level name keeps the old payload** (689).
  The node found in the root is reused, and the new data is never
  assigned. This breaks spec scenario 5.

Because of findings 1 and 1b, `FindMatchesGlob` (in the passing run)
claims soundness for every pattern, but completeness only for patterns
whose wildcard is the last component, and only for matches below
directories; `FindFindsEveryMatch` drops both restrictions and is the
violated property of `dirtree_find_misses`.

`numNodesRecursive` (229) counts every child twice. It feeds only the
constructor's log line.

The root's `m_Self` is never set (635), so top-level nodes have an empty
parent. `path()` still round-trips because it ends at the first empty
parent, and `PathRoundTrip` checks this.

## 5. Bounds and why they suffice

**DirectoryTree.cfg:** `TopNames={c}`, `SubNames={a,b}`, two payloads,
`MaxNodes=5`, `MaxDepth=3`.
- Paths reach depth 3, so an intermediate directory is reused and also
  created.
- Both overwrite values and both file and directory are exercised, with
  erase and clear of any node.
- The heap holds a full three-level path plus siblings, and frees and
  reuses slots.
- `find` is checked for every pattern of up to three components over the
  names and `*`. These patterns include `*/a`, `c/*`, `*/*` and `*/a/*`,
  against every tree of the run. So are `visitPath` for every path, and
  `copyTree` of the whole tree.
- The run has 53k states and takes about 70 s. `MaxNodes=6` takes over 10
  minutes.

**DirectoryTree_OverwriteKeepsSubtree.cfg:** the same names, with
`MaxNodes=5`. This leaves room for a three-level path and a second
insertion at its middle directory.

**DirectoryTree_FindEveryMatch.cfg:** the constants of DirectoryTree.cfg;
the counterexamples need one or two insertions of depth at most 2.

**MCTreeContainer.cfg:** two processes, `Tops={t1,t2}`, `Subs={x1}`,
`InitSize=1`, `MaxGen=3`, `MaxSegs=3`, `MaxOps=2`.
- With size 1, the first insertion already migrates.
- Two top-level entries are needed for the capacity check of
  `addNode`'s first step to fail, and for `copyTree` to overflow when the
  other process has inserted into the new tree meanwhile.
- Three generations allow a process to land on an already outdated Meta
  and loop.
- Two operations per process allow a read or clear after a migration.
- Every action and every branch fires, which was checked with TLC
  coverage. The run has 698k states and takes about 25 s.
- `SYMMETRY` over the processes is sound because they run identical code
  from identical initial states. Top-level names are not symmetric:
  `copyTree` copies them in map order.

**MCTreeContainer_RefCount3.cfg:** the bounds of MCTreeContainer.cfg
with three processes. TLC finds the violation of finding 4 after about
3k states. `container_safety` stays at two processes because with three
it fails on that same finding; two processes still reach every action and
every branch, the migration races among them.

**TreeContainer_live.cfg:** the same bounds, with one operation per process
and no symmetry, because liveness checking and symmetry do not mix. The run
has 47k states.

**MCTreeContainer_single.cfg:** one process, two tops and two names, four
generations, three operations. This is enough to migrate a tree with
entries under both tops twice.

**HookManager.cfg:** three functions (as described in section 2), two
threads, and every loader state and install outcome.

`MaxGen`, `MaxSegs` and `MaxOps` are model bounds. A process that needs a
generation or segment beyond them stops (`AtBound`), and `Terminated` lets
the system stop when every process has detached, crashed or reached a bound.

## 6. Fairness

`TreeContainer` assumes weak fairness of each process's `Step`. A process is
a thread that keeps executing, and the only blocking it does is on the Meta
mutex, which is held for a single counter update (modelled as one step).
Nothing else waits.

`DirectoryTree` and `HookManager` are checked for safety only, so they
assume no fairness. `HookManager.cfg` sets `CHECK_DEADLOCK FALSE`: once the
manager is destroyed and every patch is removed, nothing in this file can
happen any more, and the process goes on in code that is not modelled.

## 7. Not modelled

- **`setFlag`, `exists`, the `node()` accessors and `numNodesRecursive`.**
  Nothing in `src/` calls `setFlag`, and letting it toggle any flag of any
  node took the DirectoryTree run past 1.2 million states in 15 minutes
  without finishing. The others are single map lookups, or
  a count that only reaches a log line.
- **The matcher's character level.** A pattern component is a name, `*`,
  or empty; patterns such as `c*.txt` or `?` are not modelled.
  `PartialMatch` follows the spec, because `wildcard.cpp` is not in this
  repository.
- **`HookManager::detour`** (87-95). It is a lookup in `m_Hooks` for the
  detours in `hooks/*.cpp`, which are not in this repository.
- **Payload types.** `createData`, `dataAssign` and `createDataEmpty` are
  declared here but defined elsewhere. Payloads are model values.
- **The bodies of the hook detours** (`hooks/*.cpp`), HookLib,
  `HookContext` (`registerProcess`), logging and `dumpTree`.
- **Re-creating a HookManager in a process after one was destroyed.** This
  always throws, because `s_Instance` stays set; it is listed as a hazard.
- **Torn updates of one node's map.** Each insert or erase in a node's
  `bi::map` is one step. Two processes updating the same map at once
  would race inside its red-black tree; spec section 5 leaves serializing
  writers of one node to the hook layer. What the model does keep is the
  unlocked `outdated` flag, but a writer that saw it false cannot still
  write into the old tree after the copy: see the next item.
- **The allocator's layout and fragmentation.** Capacity is a node count,
  so a `bad_alloc` happens exactly when the count would exceed the size.
  Once one process finds a segment full, every other insertion into it
  fails too, so the late write into an outdated tree (841) cannot happen
  in the model; with fragmentation a smaller insertion could still fit.
