-------------------------- MODULE MCTreeContainer --------------------------
(* Model-checking instance of TreeContainer.  The processes run the same   *)
(* code and start alike, so any permutation of them maps behaviours to     *)
(* behaviours; the top-level names are not symmetric, because copyTree     *)
(* copies them in map order.                                               *)
EXTENDS TreeContainer, TLC

ProcSymmetry == Permutations(Procs)

\* The entries of a tree: <<top, name>> for every name below a top-level
\* directory.
TreeItems(tr) == {i \in Items : tr[i[1]] # Absent /\ i[2] \in tr[i[1]]}

\* With a single process, the tree it sees is the one its m_TreeMeta points
\* to (empty before the constructor returns).
Visible ==
  LET c == CHOOSE c \in Procs : TRUE
  IN IF tm[c] = NoSeg THEN {} ELSE TreeItems(content[tm[c]])

Abstract == INSTANCE SharedTree WITH items <- Visible

(* The container of a single process implements SharedTree: every step    *)
(* of addFile, clear, get() and of the migration in reassign() and        *)
(* activateSHM either leaves the visible tree alone or is one Add or Clear *)
(* of the abstract tree; copyTree loses nothing.                           *)
SharedTreeRefined == Abstract!Spec
=============================================================================
