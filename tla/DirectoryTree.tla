--------------------------- MODULE DirectoryTree ---------------------------
(***************************************************************************)
(* The in-memory directory tree of usvfs (src/shared/directory_tree.h):    *)
(* DirectoryTree<NodeDataT> nodes and the insertion algorithm of           *)
(* TreeContainer::addNode that builds them.                                *)
(*                                                                         *)
(* Nodes live in a heap of ids 0..MaxNodes (id 0 is the root node that     *)
(* TreeMeta's constructor builds).  A node is destroyed when no map entry  *)
(* owns it any more (bi::shared_ptr ownership); we keep exactly the nodes  *)
(* reachable from the root and reset the slots of the others, so a slot    *)
(* can be reused by a later allocation.  Path components are the          *)
(* equivalence classes of _stricmp (CILess), so a name stands for all its  *)
(* case variants.                                                          *)
(***************************************************************************)
EXTENDS Integers, Sequences, FiniteSets

CONSTANTS
  TopNames,   \* components that may start a path (drive names in usvfs)
  SubNames,   \* components that may follow the first one
  Payloads,   \* NodeDataT values a caller passes to addFile/addDirectory
  EmptyData,  \* createDataEmpty<NodeDataT>(): payload of dummy directories
  NoName,     \* name of an unallocated slot
  MaxNodes,   \* bound: number of non-root node slots
  MaxDepth    \* bound: number of components of a path

ASSUME MaxNodes \in Nat \ {0} /\ MaxDepth \in Nat \ {0}
ASSUME EmptyData \notin Payloads

Names == TopNames \cup SubNames
RootId == 0
NoNode == -1
Nodes == 0 .. MaxNodes
NodeRef == Nodes \cup {NoNode}
RootName == ""                         \* TreeMeta constructs the root as ""

FLAG_DIRECTORY == "DIRECTORY"
FLAG_DUMMY == "DUMMY"
Flags == {FLAG_DIRECTORY, FLAG_DUMMY}

\* The paths the hook layer inserts: nonempty sequences of components.
Paths == UNION { {p \in [1 .. k -> Names] :
                    p[1] \in TopNames /\ \A i \in 2 .. k : p[i] \in SubNames}
                 : k \in 1 .. MaxDepth }

EmptyMap == [k \in Names |-> NoNode]

VARIABLES
  live,      \* allocated node ids
  name,      \* m_Name
  flags,     \* m_Flags
  data,      \* m_Data
  parent,    \* m_Parent (a weak pointer; NoNode when empty)
  nodes,     \* m_Nodes: the CILess map from component to owning pointer
  lastAdd    \* the last addFile/addDirectory call and what it returned

vars == <<live, name, flags, data, parent, nodes, lastAdd>>

NoAdd == [path |-> <<>>, data |-> EmptyData, overwrite |-> FALSE,
          result |-> NoNode]

-----------------------------------------------------------------------------
(* The heap as one record, so that the recursive insertion can thread it.  *)
Heap == [live |-> live, name |-> name, flags |-> flags, data |-> data,
         parent |-> parent, nodes |-> nodes]

\* Nodes reachable from the root through m_Nodes entries.
RECURSIVE ReachFrom(_, _)
ReachFrom(h, S) ==
  LET T == S \cup ({h.nodes[m][k] : m \in S, k \in Names} \ {NoNode})
  IN IF T = S THEN S ELSE ReachFrom(h, T)

Reachable(h) == ReachFrom(h, {RootId})

\* Destroy every node no longer owned from the root (~DirectoryTree runs,
\* its m_Nodes.clear() drops its children in turn) and free its slot.
Collect(h) ==
  LET R == Reachable(h) IN
  [live   |-> R,
   name   |-> [n \in Nodes |-> IF n \in R THEN h.name[n] ELSE NoName],
   flags  |-> [n \in Nodes |-> IF n \in R THEN h.flags[n] ELSE {}],
   data   |-> [n \in Nodes |-> IF n \in R THEN h.data[n] ELSE EmptyData],
   parent |-> [n \in Nodes |-> IF n \in R THEN h.parent[n] ELSE NoNode],
   nodes  |-> [n \in Nodes |-> IF n \in R THEN h.nodes[n] ELSE EmptyMap]]

SetHeap(h) ==
  /\ live' = h.live
  /\ name' = h.name
  /\ flags' = h.flags
  /\ data' = h.data
  /\ parent' = h.parent
  /\ nodes' = h.nodes

-----------------------------------------------------------------------------
(* TreeContainer::createSubNode + createSubPtr: construct a node with no   *)
(* parent and no children in a free slot.                                  *)
FreeSlot(h) == CHOOSE n \in Nodes \ h.live : TRUE

CreateSubNode(h, n, nm, fl, d) ==
  [h EXCEPT !.live = @ \cup {n}, !.name[n] = nm, !.flags[n] = fl,
            !.data[n] = d, !.parent[n] = NoNode, !.nodes[n] = EmptyMap]

\* Mutant: m_Self never assigned, so no node gets a parent pointer.
SelfOfNeverSet(b) == NoNode

\* m_Self: every node's weak self pointer is set when it is linked, except
\* the root's, which TreeMeta's constructor never sets.
SelfOf(b) == IF b = RootId THEN NoNode ELSE b

\* Mutant: an intermediate component always gets a fresh dummy directory,
\* replacing the existing entry (the map find dropped).
SubDirAlwaysNew(h, base, key) ==
  LET n  == FreeSlot(h)
      h1 == CreateSubNode(h, n, key, {FLAG_DIRECTORY, FLAG_DUMMY}, EmptyData)
  IN  <<[h1 EXCEPT !.nodes[base][key] = n, !.parent[n] = SelfOf(base)], n>>

(* The walk over an intermediate component (the else branch of           *)
(* TreeContainer::addNode): descend into base's child for key, creating a  *)
(* DUMMY directory with an empty payload when there is none.  Returns      *)
(* <<heap, child>>.                                                        *)
SubDir(h, base, key) ==
  IF h.nodes[base][key] # NoNode
  THEN <<h, h.nodes[base][key]>>
  ELSE LET n  == FreeSlot(h)
           h1 == CreateSubNode(h, n, key, {FLAG_DIRECTORY, FLAG_DUMMY}, EmptyData)
       IN  <<[h1 EXCEPT !.nodes[base][key] = n, !.parent[n] = SelfOf(base)], n>>

\* Mutant: the last component is looked up among the children of base's
\* parent instead of the root's.
AddLeafLookupInParent(h, base, key, d, overwrite, fl) ==
  LET scope == IF h.parent[base] = NoNode THEN RootId ELSE h.parent[base]
      found == h.nodes[scope][key]
      n     == IF found # NoNode THEN found ELSE FreeSlot(h)
      h1    == IF found # NoNode THEN h ELSE CreateSubNode(h, n, key, fl, d)
      h2    == [h1 EXCEPT !.parent[n] = SelfOf(base)]
  IN  IF overwrite \/ h2.nodes[base][key] = NoNode
      THEN <<[h2 EXCEPT !.nodes[base][key] = n], n>>
      ELSE <<h2, NoNode>>

\* Mutant: the node is returned even when the insertion did not happen.
AddLeafReturnsNode(h, base, key, d, overwrite, fl) ==
  LET found == h.nodes[RootId][key]
      n     == IF found # NoNode THEN found ELSE FreeSlot(h)
      h1    == IF found # NoNode THEN h ELSE CreateSubNode(h, n, key, fl, d)
      h2    == [h1 EXCEPT !.parent[n] = SelfOf(base)]
  IN  IF overwrite \/ h2.nodes[base][key] = NoNode
      THEN <<[h2 EXCEPT !.nodes[base][key] = n], n>>
      ELSE <<h2, n>>

(* The last component (the then branch of TreeContainer::addNode).  The    *)
(* code looks the name up with this->get()->node(...), i.e. among the      *)
(* children of the ROOT, not of base, and creates a node only when the     *)
(* root has none.  The node's parent is set to base before the insertion   *)
(* is attempted.  With overwrite the entry is assigned, otherwise it is    *)
(* inserted only if base has no entry for key.  Returns <<heap, result>>.  *)
AddLeaf(h, base, key, d, overwrite, fl) ==
  LET found == h.nodes[RootId][key]
      n     == IF found # NoNode THEN found ELSE FreeSlot(h)
      h1    == IF found # NoNode THEN h ELSE CreateSubNode(h, n, key, fl, d)
      h2    == [h1 EXCEPT !.parent[n] = SelfOf(base)]
  IN  IF overwrite \/ h2.nodes[base][key] = NoNode
      THEN <<[h2 EXCEPT !.nodes[base][key] = n], n>>
      ELSE <<h2, NoNode>>

\* TreeContainer::addNode: one step per path component.
RECURSIVE addNode(_, _, _, _, _, _, _)
addNode(h, base, path, i, d, overwrite, fl) ==
  IF i = Len(path)
  THEN AddLeaf(h, base, path[i], d, overwrite, fl)
  ELSE LET s == SubDir(h, base, path[i])
       IN  addNode(s[1], s[2], path, i + 1, d, overwrite, fl)

\* An insertion allocates at most one node per component; with fewer free
\* slots the arena would throw bad_alloc (modelled in TreeContainer).
RoomFor(path) == Cardinality(Nodes \ live) >= Len(path)

AddNodeStep(path, d, overwrite, fl) ==
  LET r == addNode(Heap, RootId, path, 1, d, overwrite, fl) IN
  /\ RoomFor(path)
  /\ SetHeap(Collect(r[1]))
  /\ lastAdd' = [path |-> path, data |-> d, overwrite |-> overwrite,
                 result |-> r[2]]

-----------------------------------------------------------------------------
(* Read-only operations of DirectoryTree.                                  *)

\* findNode(path): descend component by component from the root.
RECURSIVE findNodeFrom(_, _, _, _)
findNodeFrom(h, n, path, i) ==
  LET sub == h.nodes[n][path[i]] IN
  IF sub = NoNode \/ i = Len(path) THEN sub
  ELSE findNodeFrom(h, sub, path, i + 1)

FindNode(h, path) == findNodeFrom(h, RootId, path, 1)

\* path(): the names up the m_Parent chain.  A node whose parent pointer is
\* empty ends the chain (an empty name yields the empty path).  The fuel
\* argument stops the walk on a parent cycle.
RECURSIVE pathUp(_, _, _)
pathUp(h, n, fuel) ==
  IF fuel = 0 THEN <<>>
  ELSE IF h.parent[n] = NoNode
       THEN IF h.name[n] = RootName THEN <<>> ELSE <<h.name[n]>>
       ELSE pathUp(h, h.parent[n], fuel - 1) \o <<h.name[n]>>

NodePath(h, n) == pathUp(h, n, MaxNodes + 1)

\* visitPath(path, visitor): the nodes handed to the visitor, in order; the
\* walk stops silently at the first missing component.
RECURSIVE visitFrom(_, _, _, _)
visitFrom(h, n, path, i) ==
  LET sub == h.nodes[n][path[i]] IN
  IF sub = NoNode THEN <<>>
  ELSE <<sub>> \o (IF i = Len(path) THEN <<>> ELSE visitFrom(h, sub, path, i + 1))

\* Mutant: the visitor is called for every prefix, missing ones included.
VisitPathAllPrefixes(h, path) ==
  [i \in 1 .. Len(path) |-> FindNode(h, SubSeq(path, 1, i))]

VisitPath(h, path) == visitFrom(h, RootId, path, 1)

-----------------------------------------------------------------------------
(* Wildcard search: find(pattern) and findLocal.  A pattern is the         *)
(* sequence of its separator-delimited components.  A component is a name  *)
(* (matching its case class), Star (the component "*") or EmptyComp (the   *)
(* empty component in front of a leading separator).                       *)
Star == "*"
EmptyComp == "/"

\* Patterns of up to MaxDepth components, shaped like the inserted paths.
Patterns == UNION { {p \in [1 .. k -> Names \cup {Star}] :
                       /\ p[1] \in TopNames \cup {Star}
                       /\ \A i \in 2 .. k : p[i] \in SubNames \cup {Star}}
                    : k \in 1 .. MaxDepth }

(* wildcard::PartialMatch(name, pattern) (not in this repository; from the *)
(* spec): consume the first pattern component against the name and return *)
(* the residual pattern after its separator, or nothing (nullptr).         *)
PartialMatch(nm, pat) ==
  IF pat # <<>> /\ (pat[1] = Star \/ pat[1] = nm) THEN {Tail(pat)} ELSE {}

IsDirectory(h, n) == FLAG_DIRECTORY \in h.flags[n]

(* findLocal(output, pattern) over the children of n.  A leading "*/" on a *)
(* directory child recurses with pattern.substr(1), which drops the star   *)
(* but keeps the separator.  Otherwise the child is emitted when the       *)
(* residual is "" or "*", and a directory child is searched with the       *)
(* residual.                                                               *)
RECURSIVE findLocal(_, _, _)
findLocal(h, n, pat) ==
  UNION { LET c == h.nodes[n][k] IN
          IF Len(pat) > 1 /\ pat[1] = Star /\ IsDirectory(h, c)
          THEN findLocal(h, c, <<EmptyComp>> \o Tail(pat))
          ELSE UNION { (IF r \in {<<>>, <<Star>>} THEN {c} ELSE {})
                         \cup (IF IsDirectory(h, c) THEN findLocal(h, c, r) ELSE {})
                       : r \in PartialMatch(h.name[c], pat) }
        : k \in {k \in Names : h.nodes[n][k] # NoNode} }

\* Position of the first component holding a wildcard, 0 if there is none.
FirstWild(pat) ==
  LET W == {i \in DOMAIN pat : pat[i] = Star} IN
  IF W = {} THEN 0 ELSE CHOOSE i \in W : \A j \in W : i <= j

\* Mutant: the pattern rest is searched from this node, not the anchor.
FindLocalFromRoot(h, pat) ==
  LET w == FirstWild(pat) IN
  IF w > 1
  THEN LET a == FindNode(h, SubSeq(pat, 1, w - 1)) IN
       IF a = NoNode THEN {} ELSE findLocal(h, RootId, SubSeq(pat, w, Len(pat)))
  ELSE findLocal(h, RootId, pat)

(* find(pattern): the components before the first wildcard one (the text   *)
(* up to the last separator before the first '*' or '?') anchor the       *)
(* search at the node findNode finds for them; a pattern starting with a   *)
(* wildcard, or without one, is searched from the root.                    *)
Find(h, pat) ==
  LET w == FirstWild(pat) IN
  IF w > 1
  THEN LET a == FindNode(h, SubSeq(pat, 1, w - 1)) IN
       IF a = NoNode THEN {} ELSE findLocal(h, a, SubSeq(pat, w, Len(pat)))
  ELSE findLocal(h, RootId, pat)

-----------------------------------------------------------------------------
(* TreeContainer::copyTree(destination, reference), the deep copy made     *)
(* when the tree migrates to a larger segment, into the fresh tree that    *)
(* TreeMeta's constructor builds there.                                    *)
NewTree ==
  [live |-> {RootId},
   name |-> [n \in Nodes |-> IF n = RootId THEN RootName ELSE NoName],
   flags |-> [n \in Nodes |-> IF n = RootId THEN {FLAG_DIRECTORY} ELSE {}],
   data |-> [n \in Nodes |-> EmptyData],
   parent |-> [n \in Nodes |-> NoNode],
   nodes |-> [n \in Nodes |-> EmptyMap]]

\* Mutant: m_Self of the new node is assigned only after its subtree was
\* copied, so the nodes below it get an empty parent.
CopyLinkSelfLate(dh, d, n) ==
  [dh EXCEPT !.nodes[d][dh.name[n]] = n,
             !.parent[n] = SelfOf(d),
             !.parent = [m \in Nodes |-> IF m # n /\ @[m] = n THEN NoNode ELSE @[m]]]

\* destination->m_Nodes[newNode->m_Name] = newNodePtr, then
\* newNode->m_Parent = destination->m_Self.
CopyLink(dh, d, n) ==
  [dh EXCEPT !.nodes[d][dh.name[n]] = n, !.parent[n] = SelfOf(d)]

RECURSIVE copyTree(_, _, _, _), copyChildren(_, _, _, _, _)

\* Copy flags, payload (dataAssign) and name of reference r onto d, then
\* its children.
copyTree(dh, d, sh, r) ==
  copyChildren([dh EXCEPT !.flags[d] = sh.flags[r], !.data[d] = sh.data[r],
                          !.name[d] = sh.name[r]],
               d, sh, r, {k \in Names : sh.nodes[r][k] # NoNode})

\* One child per iteration: createSubNode(allocator, "", true, createEmpty()),
\* m_Self set (the new id), the subtree copied into it, then linked.
copyChildren(dh, d, sh, r, ks) ==
  IF ks = {} THEN dh
  ELSE LET k   == CHOOSE k \in ks : TRUE
           n   == FreeSlot(dh)
           dh1 == CreateSubNode(dh, n, RootName, {FLAG_DIRECTORY}, EmptyData)
       IN  copyChildren(CopyLink(copyTree(dh1, n, sh, sh.nodes[r][k]), d, n),
                        d, sh, r, ks \ {k})

-----------------------------------------------------------------------------
(* Operations.                                                             *)

Init ==
  /\ live = {RootId}
  /\ name = [n \in Nodes |-> IF n = RootId THEN RootName ELSE NoName]
  \* TreeMeta passes `true` as the root's flags: FLAG_DIRECTORY
  /\ flags = [n \in Nodes |-> IF n = RootId THEN {FLAG_DIRECTORY} ELSE {}]
  /\ data = [n \in Nodes |-> EmptyData]
  /\ parent = [n \in Nodes |-> NoNode]
  /\ nodes = [n \in Nodes |-> EmptyMap]
  /\ lastAdd = NoAdd

\* TreeContainer::addFile: addNode with the caller's flags (0 by default).
AddFile(path, d, overwrite) == AddNodeStep(path, d, overwrite, {})

\* TreeContainer::addDirectory: addNode with flags | FLAG_DIRECTORY.
AddDirectory(path, d, overwrite) ==
  AddNodeStep(path, d, overwrite, {FLAG_DIRECTORY})

\* DirectoryTree::erase(iter): drop one entry of a node's map.
Erase(n, k) ==
  /\ n \in live
  /\ nodes[n][k] # NoNode
  /\ SetHeap(Collect([Heap EXCEPT !.nodes[n][k] = NoNode]))
  /\ lastAdd' = NoAdd

\* DirectoryTree::clear() (TreeContainer::clear() calls it on the root).
Clear(n) ==
  /\ n \in live
  /\ nodes[n] # EmptyMap
  /\ SetHeap(Collect([Heap EXCEPT !.nodes[n] = EmptyMap]))
  /\ lastAdd' = NoAdd

Next ==
  \/ \E p \in Paths, d \in Payloads, ow \in BOOLEAN :
        AddFile(p, d, ow) \/ AddDirectory(p, d, ow)
  \/ \E n \in Nodes, k \in Names : Erase(n, k)
  \/ \E n \in Nodes : Clear(n)

Spec == Init /\ [][Next]_vars

-----------------------------------------------------------------------------
(* Properties.                                                             *)

TypeOK ==
  /\ RootId \in live /\ live \subseteq Nodes
  /\ name \in [Nodes -> Names \cup {RootName, NoName}]
  /\ flags \in [Nodes -> SUBSET Flags]
  /\ data \in [Nodes -> Payloads \cup {EmptyData}]
  /\ parent \in [Nodes -> NodeRef]
  /\ nodes \in [Nodes -> [Names -> NodeRef]]
  \* the NodePtrT addNode returns is null or a node of the tree
  /\ lastAdd.result \in live \cup {NoNode}

\* The map entries that own node c.
Owners(h, c) == {mk \in h.live \X Names : h.nodes[mk[1]][mk[2]] = c}

(* The ownership graph of the m_Nodes maps is a tree: the root is owned by *)
(* no entry and every other live node by exactly one, so no node is shared *)
(* by two directories and there is no ownership cycle (which would also    *)
(* leak the nodes and make numNodesRecursive() and path() recurse forever).*)
(* addNode's final-component lookup reuses an existing node; this says the *)
(* reuse never links a node into a second map.                            *)
TreeShaped ==
  /\ Owners(Heap, RootId) = {}
  /\ \A c \in live \ {RootId} : Cardinality(Owners(Heap, c)) = 1

(* path() round-trips through findNode(): following the m_Parent pointers  *)
(* of any node up to the top yields the path under which findNode() finds  *)
(* that same node (spec section 8, invariant 3).  It ties the parent       *)
(* pointers addNode sets to the map entries it creates.                    *)
PathRoundTrip ==
  \A n \in live \ {RootId} :
    LET p == NodePath(Heap, n) IN p # <<>> /\ FindNode(Heap, p) = n

\* <<map path, node>> for every node within d levels below n.
RECURSIVE EntriesBelow(_, _, _)
EntriesBelow(h, n, d) ==
  IF d = 0 THEN {}
  ELSE UNION { {<<<<k>>, h.nodes[n][k]>>}
                 \cup {<<<<k>> \o e[1], e[2]>> : e \in EntriesBelow(h, h.nodes[n][k], d - 1)}
               : k \in {k \in Names : h.nodes[n][k] # NoNode} }

GlobMatches(q, pat) ==
  Len(q) = Len(pat) /\ \A i \in DOMAIN pat : pat[i] \in {Star, q[i]}

\* The spec's reading of a pattern: a path matches it component by
\* component, or matches it up to a trailing "*" residual.
SpecMatches(q, pat) ==
  \/ GlobMatches(q, pat)
  \/ Len(pat) > 1 /\ pat[Len(pat)] = Star /\ GlobMatches(q, SubSeq(pat, 1, Len(pat) - 1))

\* Every proper prefix of map path q leads to a directory.
UnderDirs(h, q) ==
  \A j \in 1 .. Len(q) - 1 : IsDirectory(h, FindNode(h, SubSeq(q, 1, j)))

\* The nodes below directories whose map path matches pat component-wise.
MatchedBelowDirs(h, pat) ==
  {e[2] : e \in {e \in EntriesBelow(h, RootId, MaxDepth + 1) :
                   GlobMatches(e[1], pat) /\ UnderDirs(h, e[1])}}

(* find() returns only nodes whose path matches the pattern, and, for a   *)
(* pattern whose only wildcard is its last component, every node so       *)
(* matched below directories (spec 4.1: find returns the descendants whose *)
(* path matches the glob, a child being emitted when the residual is empty *)
(* or "*").  It ties the anchoring of find(), the "*/" recursion and the   *)
(* residual test of findLocal to the map paths of the tree.                *)
FindMatchesGlob ==
  LET E == EntriesBelow(Heap, RootId, MaxDepth + 1) IN
  \A pat \in Patterns :
    /\ \A n \in Find(Heap, pat) : \E e \in E : e[2] = n /\ SpecMatches(e[1], pat)
    /\ FirstWild(pat) \in {0, Len(pat)} => MatchedBelowDirs(Heap, pat) \subseteq Find(Heap, pat)

(* find() returns every node of the tree whose map path matches the      *)
(* pattern (spec 4.1), wherever its wildcards are and whatever the flags   *)
(* of the nodes above it.  Two parts of the code bear on it: findLocal's   *)
(* "*/" branch, which recurses with pattern.substr(1), and findLocal's     *)
(* refusal to descend into a non-directory, which addNode's intermediate   *)
(* walk may have given children (addFile(c) then addFile(c/a)).            *)
FindFindsEveryMatch ==
  \A pat \in Patterns :
    {e[2] : e \in {e \in EntriesBelow(Heap, RootId, MaxDepth + 1) : GlobMatches(e[1], pat)}}
      \subseteq Find(Heap, pat)

(* visitPath(p) hands the visitor exactly the nodes findNode finds for the *)
(* successive prefixes of p, never a null one, and stops only where the    *)
(* next prefix is missing (spec 4.1).                                      *)
VisitPathFollowsFindNode ==
  \A p \in Paths :
    LET v == VisitPath(Heap, p) IN
    /\ \A i \in 1 .. Len(v) : v[i] # NoNode /\ v[i] = FindNode(Heap, SubSeq(p, 1, i))
    /\ Len(v) < Len(p) => FindNode(Heap, SubSeq(p, 1, Len(v) + 1)) = NoNode

\* The map paths of a heap with the flags and payload found at each.
Shape(h) ==
  {<<e[1], h.flags[e[2]], h.data[e[2]]>> : e \in EntriesBelow(h, RootId, MaxDepth + 1)}

(* Migration copies the tree faithfully: copyTree of the current tree into *)
(* a fresh TreeMeta tree has the same paths with the same flags and        *)
(* payloads (spec section 8, invariant 7), and in the copy path() of every *)
(* node leads back to it, i.e. copyTree sets m_Self before it descends so  *)
(* that the copied children get their parent pointers (spec section 9).    *)
MigrationPreservesTree ==
  LET c == copyTree(NewTree, RootId, Heap, RootId) IN
  /\ Shape(c) = Shape(Heap)
  /\ \A n \in c.live \ {RootId} : FindNode(c, NodePath(c, n)) = n

IsPrefix(p, q) ==Len(p) <= Len(q) /\ SubSeq(q, 1, Len(p)) = p

(* An addFile/addDirectory call only affects its own path: every node that *)
(* existed at a path which does not extend the inserted one is still found *)
(* there afterwards, the same node with the same payload and flags.  The   *)
(* intermediate-component walk of addNode must reuse existing directories  *)
(* rather than replace them.                                               *)
AddIsLocal ==
  [][lastAdd' # NoAdd =>
       \A q \in Paths :
          LET n == FindNode(Heap, q) IN
          (n # NoNode /\ ~IsPrefix(lastAdd'.path, q)) =>
             /\ FindNode(Heap', q) = n
             /\ data'[n] = data[n]
             /\ flags'[n] = flags[n]]_vars

(* An overwriting insertion at the path of a DUMMY directory upgrades it  *)
(* in place (spec section 3.2, item 5: "A DUMMY node may be upgraded to a  *)
(* non-dummy node in place by a later explicit insertion"), so all that    *)
(* was found below that path is still found there.  addNode's final step   *)
(* assigns base->m_Nodes[name] whatever node it holds.                     *)
OverwriteKeepsSubtree ==
  [][lastAdd'.overwrite /\ lastAdd'.result # NoNode =>
       LET p == lastAdd'.path
           n == FindNode(Heap, p)
       IN  n # NoNode /\ FLAG_DUMMY \in flags[n] =>
             \A q \in Paths :
                IsPrefix(p, q) /\ FindNode(Heap, q) # NoNode => FindNode(Heap', q) # NoNode]_vars

=============================================================================
