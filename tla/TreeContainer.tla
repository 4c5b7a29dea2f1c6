--------------------------- MODULE TreeContainer ---------------------------
(***************************************************************************)
(* TreeContainer<TreeT> of src/shared/directory_tree.h: the per-process    *)
(* handle on the shared directory tree, and the grow-and-migrate protocol  *)
(* by which processes move the tree to a successor shared memory segment.  *)
(*                                                                         *)
(* Each process in Procs owns one container.  The OS keeps named segments; *)
(* a segment created for name <base>_g has generation g.  Each segment     *)
(* holds one TreeMeta ("Meta") with the tree root, the reference count and *)
(* the outdated flag.  The tree is abstracted to two levels, the ones      *)
(* copyTree and addNode treat differently: content[s][t] is Absent or the  *)
(* set of names below the top-level directory t.  Capacity is counted in   *)
(* tree nodes: a segment of size k holds k nodes below the root.           *)
(*                                                                         *)
(* Every access to shared memory is one step, so the steps of different   *)
(* processes interleave as they can in the code.                           *)
(***************************************************************************)
EXTENDS Integers, FiniteSets

CONSTANTS
  Procs,      \* processes, one TreeContainer each
  Tops,       \* top-level components (drive names)
  Subs,       \* components below a top-level directory
  Absent,     \* no entry for a top-level name
  InitSize,   \* size passed to the constructor, in nodes
  MaxGen,     \* bound: highest generation suffix a name can reach
  MaxSegs,    \* bound: number of segments ever created
  MaxOps      \* bound: operations per process between attach and detach

ASSUME InitSize \in Nat \ {0}
ASSUME MaxGen \in Nat \ {0} /\ MaxSegs \in Nat \ {0} /\ MaxOps \in Nat

Gens == 1 .. MaxGen
Segs == 1 .. MaxSegs
NoSeg == 0
Items == Tops \X Subs
Tree == [Tops -> (SUBSET Subs) \cup {Absent}]
EmptyTree == [t \in Tops |-> Absent]

\* Nodes of a tree below its root: one per directory and one per entry.
NodeCount(tr) == LET present == {t \in Tops : tr[t] # Absent}
                 IN Cardinality(present)
                    + Cardinality(UNION {tr[t] : t \in present})

VARIABLES
  \* operating system and shared memory
  named,      \* named[g]: segment the name <base>_g refers to, or NoSeg
  segs,       \* number of segments created so far
  segGen,     \* generation a segment was created for
  size,       \* size of a segment (get_size())
  meta,       \* "none" | "live" | "destroyed": the Meta object of a segment
  refs,       \* TreeMeta::referenceCount
  outdated,   \* TreeMeta::outdated
  content,    \* the tree of a segment
  \* per container
  pc,         \* control point
  ret,        \* where reassign()/createOrOpen returns to
  nm,         \* generation of m_SHMName
  shm,        \* segment of m_SHM
  tm,         \* segment of m_TreeMeta
  tgt,        \* generation createOrOpen is working on
  sz,         \* size argument of createOrOpen
  nsh,        \* newSHM inside createOrOpen/activateSHM
  todo,       \* top-level entries copyTree has still to copy
  op,         \* item of the addFile in progress
  base,       \* segment holding the node addNode inserts into
  stale,      \* who released that node meanwhile: "none", "copy", "clear"
  ops,        \* operations done by the process
  acked       \* items whose addFile returned a node

vars == <<named, segs, segGen, size, meta, refs, outdated, content,
          pc, ret, nm, shm, tm, tgt, sz, nsh, todo, op, base, stale, ops,
          acked>>
osVars == <<named, segs, segGen, size, meta, refs, outdated, content>>

-----------------------------------------------------------------------------
\* m_TreeMeta points into a segment the process no longer maps (an
\* exception left m_SHM and m_TreeMeta disagreeing): touching it faults.
Dangling(c) == tm[c] # shm[c]

Goto(c, l) == pc' = [pc EXCEPT ![c] = l]

\* An exception leaves the operation; the container keeps its fields.  An
\* exception out of the constructor leaves the process without a container.
Throw(c) ==
  /\ Goto(c, IF ret[c] = "Idle" THEN "Done" ELSE "Idle")
  /\ ops' = [ops EXCEPT ![c] = @ + 1]

\* The process faults (an access violation) and dies without detaching.
Crash(c) == Goto(c, "Crashed")

(* bad_alloc out of activateSHM unwinds oldSHM, unmapping the segment    *)
(* m_TreeMeta lies in.  Raised by the get() inside addFile's try, it is   *)
(* caught there and reassign() writes m_TreeMeta->outdated: a fault.       *)
(* Anywhere else it leaves the operation.                                  *)
BadAlloc(c) ==
  IF ret[c] = "AddLeaf" THEN Crash(c) /\ UNCHANGED ops ELSE Throw(c)

\* reassign() (and the recursive retry of addFile after bad_alloc).
CallReassign(c, r) ==
  /\ Goto(c, "Reassign")
  /\ ret' = [ret EXCEPT ![c] = r]

-----------------------------------------------------------------------------
(* Constructor: the name gets the suffix _1, then createOrOpen(name,size). *)
Attach(c) ==
  /\ pc[c] = "Detached"
  /\ Goto(c, "Open")
  /\ ret' = [ret EXCEPT ![c] = "Idle"]
  /\ nm' = [nm EXCEPT ![c] = 1]
  /\ tgt' = [tgt EXCEPT ![c] = 1]
  /\ sz' = [sz EXCEPT ![c] = InitSize]
  /\ UNCHANGED <<osVars, shm, tm, nsh, todo, op, base, stale, ops, acked>>

(* reassign(): mark the current Meta outdated, then createOrOpen the       *)
(* successor name with twice the size of the current segment.              *)
Reassign(c) ==
  /\ pc[c] = "Reassign"
  /\ outdated' = [outdated EXCEPT ![tm[c]] = TRUE]
  /\ tgt' = [tgt EXCEPT ![c] = nm[c] + 1]
  /\ sz' = [sz EXCEPT ![c] = 2 * size[shm[c]]]
  /\ Goto(c, "Open")
  /\ UNCHANGED <<named, segs, segGen, size, meta, refs, content, ret, nm,
                 shm, tm, nsh, todo, op, base, stale, ops, acked>>

\* createOrOpen: try open_only first.
Open(c) ==
  /\ pc[c] = "Open"
  /\ tgt[c] <= MaxGen
  /\ IF named[tgt[c]] # NoSeg
     THEN /\ nsh' = [nsh EXCEPT ![c] = named[tgt[c]]]
          /\ Goto(c, "Find")
     ELSE /\ Goto(c, "Create") /\ UNCHANGED nsh
  /\ UNCHANGED <<osVars, ret, nm, shm, tm, tgt, sz, todo, op, base, stale,
                 ops, acked>>

\* ... and create_only when open failed.  If another process created the
\* name in between, create_only throws and nothing catches it.
Create(c) ==
  /\ pc[c] = "Create"
  /\ IF named[tgt[c]] = NoSeg
     THEN LET s == segs + 1 IN
          /\ s <= MaxSegs
          /\ segs' = s
          /\ named' = [named EXCEPT ![tgt[c]] = s]
          /\ segGen' = [segGen EXCEPT ![s] = tgt[c]]
          /\ size' = [size EXCEPT ![s] = sz[c]]
          /\ nsh' = [nsh EXCEPT ![c] = s]
          /\ Goto(c, "Find")
          /\ UNCHANGED ops
     ELSE /\ Throw(c)
          /\ UNCHANGED <<named, segs, segGen, size, nsh>>
  /\ UNCHANGED <<meta, refs, outdated, content, ret, nm, shm, tm, tgt, sz,
                 todo, op, base, stale, acked>>

(* activateSHM: m_SHM.reset(shm) (the old mapping is kept by oldSHM until  *)
(* the function returns), then find<TreeMeta>("Meta").                     *)
Find(c) ==
  /\ pc[c] = "Find"
  /\ shm' = [shm EXCEPT ![c] = nsh[c]]
  /\ Goto(c, IF meta[nsh[c]] = "live" THEN "Incref" ELSE "Construct")
  /\ UNCHANGED <<osVars, ret, nm, tm, tgt, sz, nsh, todo, op, base, stale,
                 ops, acked>>

(* construct<TreeMeta>("Meta") with an empty tree; throws if another       *)
(* process constructed it since our find.  With a previous Meta, copyTree  *)
(* follows.                                                                *)
Construct(c) ==
  /\ pc[c] = "Construct"
  /\ LET s == nsh[c] IN
     IF meta[s] = "live"
     THEN /\ Throw(c)
          /\ UNCHANGED <<meta, refs, outdated, content, todo>>
     ELSE /\ meta' = [meta EXCEPT ![s] = "live"]
          /\ refs' = [refs EXCEPT ![s] = 0]
          /\ outdated' = [outdated EXCEPT ![s] = FALSE]
          /\ content' = [content EXCEPT ![s] = EmptyTree]
          /\ todo' = [todo EXCEPT ![c] =
                        IF tm[c] = NoSeg THEN {}
                        ELSE {t \in Tops : content[tm[c]][t] # Absent}]
          /\ Goto(c, IF tm[c] = NoSeg THEN "Incref" ELSE "Copy")
          /\ UNCHANGED ops
  /\ UNCHANGED <<named, segs, segGen, size, ret, nm, shm, tm, tgt, sz, nsh,
                 op, base, stale, acked>>

\* Mutant: copyTree stops after the first top-level entry it copied.
CopyFirstOnly(c) ==
  /\ pc[c] = "Copy"
  /\ LET s == nsh[c]
         src == content[tm[c]]
     IN IF todo[c] = {}
        THEN /\ Goto(c, "Incref")
             /\ UNCHANGED <<content, todo, stale, ops>>
        ELSE LET t == CHOOSE t \in todo[c] : TRUE
                 new == [content[s] EXCEPT ![t] = src[t]]
             IN IF NodeCount(new) > size[s]
                THEN /\ BadAlloc(c)
                     /\ UNCHANGED <<content, todo, stale>>
                ELSE /\ content' = [content EXCEPT ![s] = new]
                     /\ todo' = [todo EXCEPT ![c] = {}]
                     /\ stale' = [d \in Procs |->
                                    IF base[d] = s /\ op[d][1] = t /\ content[s][t] # Absent
                                    THEN "copy" ELSE stale[d]]
                     /\ UNCHANGED <<pc, ops>>
  /\ UNCHANGED <<named, segs, segGen, size, meta, refs, outdated, ret, nm,
                 shm, tm, tgt, sz, nsh, op, base, acked>>

(* copyTree: one top-level entry per step, in map order, each one          *)
(* assigned with destination->m_Nodes[name] = copy.  The assignment        *)
(* replaces an entry another process may have put there meanwhile; a      *)
(* process inserting below the replaced node is left with a node that is   *)
(* no longer in the tree.  Running out of space throws bad_alloc.          *)
Copy(c) ==
  /\ pc[c] = "Copy"
  /\ LET s == nsh[c]
         src == content[tm[c]]
     IN IF todo[c] = {}
        THEN /\ Goto(c, "Incref")
             /\ UNCHANGED <<content, todo, stale, ops>>
        ELSE LET t == CHOOSE t \in todo[c] : TRUE
                 new == [content[s] EXCEPT ![t] = src[t]]
             IN IF NodeCount(new) > size[s]
                THEN /\ BadAlloc(c)
                     /\ UNCHANGED <<content, todo, stale>>
                ELSE /\ content' = [content EXCEPT ![s] = new]
                     /\ todo' = [todo EXCEPT ![c] = @ \ {t}]
                     /\ stale' = [d \in Procs |->
                                    IF base[d] = s /\ op[d][1] = t /\ content[s][t] # Absent
                                    THEN "copy" ELSE stale[d]]
                     /\ UNCHANGED <<pc, ops>>
  /\ UNCHANGED <<named, segs, segGen, size, meta, refs, outdated, ret, nm,
                 shm, tm, tgt, sz, nsh, op, base, acked>>

\* Mutant: activateSHM does not count itself on the Meta it found or made.
IncrefSkipped(c) ==
  /\ pc[c] = "Incref"
  /\ Goto(c, IF tm[c] # NoSeg THEN "Decref" ELSE "Finish")
  /\ UNCHANGED <<named, segs, segGen, size, meta, refs, outdated, content, ret,
                 nm, shm, tm, tgt, sz, nsh, todo, op, base, stale, ops, acked>>

\* increaseRefCount under the Meta's mutex.
Incref(c) ==
  /\ pc[c] = "Incref"
  /\ refs' = [refs EXCEPT ![nsh[c]] = @ + 1]
  /\ Goto(c, IF tm[c] # NoSeg THEN "Decref" ELSE "Finish")
  /\ UNCHANGED <<named, segs, segGen, size, meta, outdated, content, ret, nm,
                 shm, tm, tgt, sz, nsh, todo, op, base, stale, ops, acked>>

\* Mutant: unassign is passed the new Meta instead of the old one.
DecrefNewMeta(c) ==
  /\ pc[c] = "Decref"
  /\ refs' = [refs EXCEPT ![nsh[c]] = @ - 1]
  /\ Goto(c, IF refs[nsh[c]] - 1 = 0 THEN "Destroy"
             ELSE IF ret[c] = "Done" THEN "Done" ELSE "Finish")
  /\ UNCHANGED <<named, segs, segGen, size, meta, outdated, content, ret, nm,
                 shm, tm, tgt, sz, nsh, todo, op, base, stale, ops, acked>>

(* unassign(old shm, m_TreeMeta): decreaseRefCount under the mutex.  Used  *)
(* by activateSHM and by the destructor (ret = "Done").                  *)
Decref(c) ==
  /\ pc[c] = "Decref"
  /\ refs' = [refs EXCEPT ![tm[c]] = @ - 1]
  /\ Goto(c, IF refs[tm[c]] - 1 = 0 THEN "Destroy"
             ELSE IF ret[c] = "Done" THEN "Done" ELSE "Finish")
  /\ UNCHANGED <<named, segs, segGen, size, meta, outdated, content, ret, nm,
                 shm, tm, tgt, sz, nsh, todo, op, base, stale, ops, acked>>

\* ... at zero, destroy_ptr(Meta), after the mutex was released.
Destroy(c) ==
  /\ pc[c] = "Destroy"
  /\ meta' = [meta EXCEPT ![tm[c]] = "destroyed"]
  /\ Goto(c, "Remove")
  /\ UNCHANGED <<named, segs, segGen, size, refs, outdated, content, ret, nm,
                 shm, tm, tgt, sz, nsh, todo, op, base, stale, ops, acked>>

\* ... and shared_memory_object::remove(m_SHMName): unlink the name,
\* whichever segment it refers to by now.
Remove(c) ==
  /\ pc[c] = "Remove"
  /\ named' = [named EXCEPT ![nm[c]] = NoSeg]
  /\ Goto(c, IF ret[c] = "Done" THEN "Done" ELSE "Finish")
  /\ UNCHANGED <<segs, segGen, size, meta, refs, outdated, content, ret, nm,
                 shm, tm, tgt, sz, nsh, todo, op, base, stale, ops, acked>>

\* Mutant: reassign() retries with the name it just opened.
FinishSameName(c) ==
  /\ pc[c] = "Finish"
  /\ nm' = [nm EXCEPT ![c] = tgt[c]]
  /\ tm' = [tm EXCEPT ![c] = nsh[c]]
  /\ IF ret[c] # "Idle" /\ outdated[nsh[c]]
     THEN /\ Goto(c, "Open")
          /\ UNCHANGED <<ops, tgt, sz>>
     ELSE /\ Goto(c, ret[c])
          /\ UNCHANGED <<ops, tgt, sz>>
  /\ UNCHANGED <<osVars, ret, shm, nsh, todo, op, base, stale, acked>>

(* activateSHM returns: m_SHMName = SHMName, the old mapping is dropped,   *)
(* and the caller stores the result in m_TreeMeta.  reassign() loops while *)
(* the Meta it landed on is outdated; the constructor does not check.      *)
Finish(c) ==
  /\ pc[c] = "Finish"
  /\ nm' = [nm EXCEPT ![c] = tgt[c]]
  /\ tm' = [tm EXCEPT ![c] = nsh[c]]
  /\ IF ret[c] # "Idle" /\ outdated[nsh[c]]
     THEN /\ tgt' = [tgt EXCEPT ![c] = @ + 1]
          /\ sz' = [sz EXCEPT ![c] = 2 * size[nsh[c]]]
          /\ Goto(c, "Open")
          /\ UNCHANGED ops
     ELSE /\ Goto(c, ret[c])
          /\ UNCHANGED <<ops, tgt, sz>>
  /\ UNCHANGED <<osVars, ret, shm, nsh, todo, op, base, stale, acked>>

-----------------------------------------------------------------------------
(* Operations of an attached container.                                    *)

\* addFile(path, data): the process starts an insertion of <<t, x>>.
StartAdd(c, t, x) ==
  /\ pc[c] = "Idle"
  /\ ops[c] < MaxOps
  /\ IF Dangling(c)
     THEN Crash(c) /\ UNCHANGED op
     ELSE Goto(c, "AddDir") /\ op' = [op EXCEPT ![c] = <<t, x>>]
  /\ UNCHANGED <<osVars, ret, nm, shm, tm, tgt, sz, nsh, todo, base, stale,
                 ops, acked>>

(* addNode on m_TreeMeta->tree (no outdated check), intermediate           *)
(* component: find t or allocate a DUMMY directory for it.  bad_alloc is   *)
(* caught by addFile, which calls reassign() and then itself again.        *)
AddDir(c) ==
  /\ pc[c] = "AddDir"
  /\ LET s == tm[c]
         t == op[c][1]
     IN /\ base' = [base EXCEPT ![c] = s]
        /\ stale' = [stale EXCEPT ![c] = "none"]
        /\ IF content[s][t] # Absent
           THEN Goto(c, "AddGet") /\ UNCHANGED <<content, ret>>
           ELSE IF NodeCount(content[s]) + 1 > size[shm[c]]
           THEN CallReassign(c, "AddDir") /\ UNCHANGED content
           ELSE /\ content' = [content EXCEPT ![s][t] = {}]
                /\ Goto(c, "AddGet")
                /\ UNCHANGED ret
  /\ UNCHANGED <<named, segs, segGen, size, meta, refs, outdated, nm, shm, tm,
                 tgt, sz, nsh, todo, op, ops, acked>>

(* Last component: this->get() checks m_TreeMeta->outdated and reassigns   *)
(* in the middle of the insertion, after base was taken from the old tree. *)
AddGet(c) ==
  /\ pc[c] = "AddGet"
  /\ IF outdated[tm[c]]
     THEN CallReassign(c, "AddLeaf")
     ELSE Goto(c, "AddLeaf") /\ UNCHANGED ret
  /\ UNCHANGED <<osVars, nm, shm, tm, tgt, sz, nsh, todo, op, base, stale,
                 ops, acked>>

(* createSubNode + the map assignment into base.  If the get() reassigned, *)
(* the allocator and base lie in the old segment, which activateSHM       *)
(* unmapped when it returned: createSubNode faults.  If another process   *)
(* released base (copyTree replaced it, or clear() emptied its map), the  *)
(* write goes to freed memory: undefined behaviour, which faults or is    *)
(* silently lost while addFile still returns the node.  An insertion that *)
(* overlapped a clear() may take effect before it, so only one whose base *)
(* a copyTree released counts as acknowledged.                            *)
AddLeaf(c) ==
  /\ pc[c] = "AddLeaf"
  /\ LET s == base[c]
         t == op[c][1]
         x == op[c][2]
     IN IF s # shm[c]
        THEN Crash(c) /\ UNCHANGED <<content, ret, ops, acked>>
        ELSE IF stale[c] # "none"
        THEN \/ Crash(c) /\ UNCHANGED <<content, ret, ops, acked>>
             \/ /\ Goto(c, "Idle")
                /\ ops' = [ops EXCEPT ![c] = @ + 1]
                /\ acked' = IF stale[c] = "copy" THEN acked \cup {op[c]} ELSE acked
                /\ UNCHANGED <<content, ret>>
        ELSE IF NodeCount(content[s]) + 1 > size[s]
        THEN CallReassign(c, "AddDir") /\ UNCHANGED <<content, ops, acked>>
        ELSE /\ content' = [content EXCEPT ![s][t] = @ \cup {x}]
             /\ acked' = acked \cup {op[c]}
             /\ Goto(c, "Idle")
             /\ ops' = [ops EXCEPT ![c] = @ + 1]
             /\ UNCHANGED ret
  /\ UNCHANGED <<named, segs, segGen, size, meta, refs, outdated, nm, shm, tm,
                 tgt, sz, nsh, todo, op, base, stale>>

\* operator->() / get(): reassign if the Meta is outdated, then read.
Read(c) ==
  /\ pc[c] = "Idle"
  /\ ops[c] < MaxOps
  /\ IF Dangling(c) THEN Crash(c) /\ UNCHANGED <<ret, ops>>
     ELSE IF outdated[tm[c]] THEN CallReassign(c, "ReadDone") /\ UNCHANGED ops
     ELSE Goto(c, "Idle") /\ ops' = [ops EXCEPT ![c] = @ + 1]
          /\ UNCHANGED ret
  /\ UNCHANGED <<osVars, nm, shm, tm, tgt, sz, nsh, todo, op, base, stale,
                 acked>>

ReadDone(c) ==
  /\ pc[c] = "ReadDone"
  /\ Goto(c, "Idle")
  /\ ops' = [ops EXCEPT ![c] = @ + 1]
  /\ UNCHANGED <<osVars, ret, nm, shm, tm, tgt, sz, nsh, todo, op, base,
                 stale, acked>>

(* clear(): m_TreeMeta->tree->clear(), without the outdated check of      *)
(* get(), so an outdated tree may be the one cleared.  The nodes of the    *)
(* old map are released, which frees the node another process's addNode   *)
(* may hold as its base.                                                   *)
Clear(c) ==
  /\ pc[c] = "Idle"
  /\ ops[c] < MaxOps
  /\ IF Dangling(c)
     THEN Crash(c) /\ UNCHANGED <<content, stale, ops, acked>>
     ELSE LET s == tm[c] IN
          /\ content' = [content EXCEPT ![s] = EmptyTree]
          /\ stale' = [d \in Procs |->
                         IF base[d] = s /\ content[s][op[d][1]] # Absent
                         THEN "clear" ELSE stale[d]]
          /\ acked' = {}
          /\ ops' = [ops EXCEPT ![c] = @ + 1]
          /\ UNCHANGED pc
  /\ UNCHANGED <<named, segs, segGen, size, meta, refs, outdated, ret, nm,
                 shm, tm, tgt, sz, nsh, todo, op, base>>

\* ~TreeContainer: unassign(m_SHM, m_TreeMeta) and remove on last user.
Detach(c) ==
  /\ pc[c] = "Idle"
  /\ IF Dangling(c) THEN Crash(c) /\ UNCHANGED ret
     ELSE Goto(c, "Decref") /\ ret' = [ret EXCEPT ![c] = "Done"]
  /\ UNCHANGED <<osVars, nm, shm, tm, tgt, sz, nsh, todo, op, base, stale,
                 ops, acked>>

-----------------------------------------------------------------------------
Init ==
  /\ named = [g \in Gens |-> NoSeg]
  /\ segs = 0
  /\ segGen = [s \in Segs |-> 0]
  /\ size = [s \in Segs |-> 0]
  /\ meta = [s \in Segs |-> "none"]
  /\ refs = [s \in Segs |-> 0]
  /\ outdated = [s \in Segs |-> FALSE]
  /\ content = [s \in Segs |-> EmptyTree]
  /\ pc = [c \in Procs |-> "Detached"]
  /\ ret = [c \in Procs |-> "Idle"]
  /\ nm = [c \in Procs |-> 0]
  /\ shm = [c \in Procs |-> NoSeg]
  /\ tm = [c \in Procs |-> NoSeg]
  /\ tgt = [c \in Procs |-> 0]
  /\ sz = [c \in Procs |-> 0]
  /\ nsh = [c \in Procs |-> NoSeg]
  /\ todo = [c \in Procs |-> {}]
  /\ op = [c \in Procs |-> <<Absent, Absent>>]
  /\ base = [c \in Procs |-> NoSeg]
  /\ stale = [c \in Procs |-> "none"]
  /\ ops = [c \in Procs |-> 0]
  /\ acked = {}

Step(c) ==
  \/ Attach(c) \/ Reassign(c) \/ Open(c) \/ Create(c) \/ Find(c)
  \/ Construct(c) \/ Copy(c) \/ Incref(c) \/ Decref(c) \/ Destroy(c)
  \/ Remove(c) \/ Finish(c)
  \/ \E t \in Tops, x \in Subs : StartAdd(c, t, x)
  \/ AddDir(c) \/ AddGet(c) \/ AddLeaf(c) \/ Read(c) \/ ReadDone(c)
  \/ Clear(c) \/ Detach(c)

\* createOrOpen needs a generation or a segment beyond the model's bounds.
AtBound(c) ==
  \/ pc[c] = "Open" /\ tgt[c] > MaxGen
  \/ pc[c] = "Create" /\ named[tgt[c]] = NoSeg /\ segs = MaxSegs

\* Every process has detached, failed to attach, died, or reached a bound.
Terminated ==
  /\ \A c \in Procs : pc[c] \in {"Done", "Crashed"} \/ AtBound(c)
  /\ UNCHANGED vars

Next == (\E c \in Procs : Step(c)) \/ Terminated

(* Each process is a thread of control that keeps running its steps; no   *)
(* step waits on another process except through the Meta mutex, which is  *)
(* held only for one counter update.                                       *)
Fairness == \A c \in Procs : WF_vars(Step(c))

Spec == Init /\ [][Next]_vars /\ Fairness

-----------------------------------------------------------------------------
(* Properties.                                                             *)

NoOp == <<Absent, Absent>>
Pcs == {"Detached", "Idle", "Reassign", "Open", "Create", "Find", "Construct",
        "Copy", "Incref", "Decref", "Destroy", "Remove", "Finish", "AddDir",
        "AddGet", "AddLeaf", "ReadDone", "Done", "Crashed"}

TypeOK ==
  /\ named \in [Gens -> Segs \cup {NoSeg}]
  /\ segs \in 0 .. MaxSegs
  /\ segGen \in [Segs -> 0 .. MaxGen]
  /\ size \in [Segs -> Nat]
  /\ meta \in [Segs -> {"none", "live", "destroyed"}]
  /\ refs \in [Segs -> Nat]
  /\ outdated \in [Segs -> BOOLEAN]
  /\ content \in [Segs -> Tree]
  /\ pc \in [Procs -> Pcs]
  /\ ret \in [Procs -> {"Idle", "AddDir", "AddLeaf", "ReadDone", "Done"}]
  /\ nm \in [Procs -> 0 .. MaxGen]
  /\ shm \in [Procs -> Segs \cup {NoSeg}]
  /\ tm \in [Procs -> Segs \cup {NoSeg}]
  /\ nsh \in [Procs -> Segs \cup {NoSeg}]
  /\ todo \in [Procs -> SUBSET Tops]
  /\ op \in [Procs -> Items \cup {NoOp}]
  /\ base \in [Procs -> Segs \cup {NoSeg}]
  /\ stale \in [Procs -> {"none", "copy", "clear"}]
  /\ ops \in [Procs -> 0 .. MaxOps]
  /\ acked \subseteq Items

\* The references process c owns on the Meta of segment s: its m_TreeMeta
\* until unassign decremented it, and the new Meta from increaseRefCount
\* until activateSHM returns.  A crashed process keeps its reference.
Holds(c, s) ==
  LET old == tm[c] = s
      new == nsh[c] = s /\ ret[c] # "Done"
  IN CASE pc[c] \in {"Detached", "Done"} -> FALSE
       [] pc[c] = "Decref"                -> old \/ new
       [] pc[c] \in {"Destroy", "Remove"} -> new
       [] pc[c] = "Finish"                -> new
       [] OTHER                           -> old

(* TreeMeta::referenceCount of every live Meta equals the number of        *)
(* containers holding it (spec section 3.2, invariant 7).  The count is    *)
(* changed by increaseRefCount/decreaseRefCount in activateSHM and the     *)
(* destructor while other processes open, find and construct the same     *)
(* Meta.                                                                   *)
RefCountAccurate ==
  \A s \in Segs :
    meta[s] = "live" => refs[s] = Cardinality({c \in Procs : Holds(c, s)})

(* Arena generations form one chain (spec section 3.2, invariant 6, and   *)
(* "Other-process invalidation"): at any time at most one live Meta is not *)
(* outdated, so every process that follows the successor names from an     *)
(* outdated Meta reaches the same tree.  Threatened by remove() of a name  *)
(* whose last user migrated while another process still lags behind it.   *)
SingleCurrentTree ==
  \A s1, s2 \in Segs :
    (/\ meta[s1] = "live" /\ ~outdated[s1]
     /\ meta[s2] = "live" /\ ~outdated[s2]) => s1 = s2

\* The Meta of the highest generation that has a live Meta.
Newest(s) ==
  meta[s] = "live" /\ \A s2 \in Segs : meta[s2] = "live" => segGen[s2] <= segGen[s]

(* Every insertion addFile acknowledged is in the tree of every container  *)
(* at rest on the newest Meta: neither a migration (copyTree racing an     *)
(* insertion into the new tree) nor a destructor's unassign of a newer     *)
(* generation, while another container still lags on an older one, loses *)
(* it (spec section 7: allocation pressure is invisible to callers).  A   *)
(* second current tree in an older generation is SingleCurrentTree's      *)
(* concern.                                                                *)
AckedAddsKept ==
  \A c \in Procs :
    (pc[c] = "Idle" /\ ~Dangling(c) /\ Newest(tm[c])) =>
      \A i \in acked : content[tm[c]][i[1]] # Absent
                        /\ i[2] \in content[tm[c]][i[1]]

(* Every operation a process starts (attach, addFile, a read, detach)      *)
(* returns: the retry loop of addFile and the successor loop of reassign() *)
(* terminate.                                                              *)
OperationsReturn ==
  \A c \in Procs :
    (pc[c] \notin {"Detached", "Idle", "Done", "Crashed"})
       ~> (pc[c] \in {"Idle", "Done", "Crashed"} \/ AtBound(c))

=============================================================================
