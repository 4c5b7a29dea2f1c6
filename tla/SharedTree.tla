----------------------------- MODULE SharedTree -----------------------------
(***************************************************************************)
(* What a TreeContainer promises its process (spec sections 3.3 and 7):    *)
(* one tree whose entries change only by the process's own addFile and   *)
(* clear calls; growing the shared memory and migrating the tree to a     *)
(* successor segment are invisible.  Entries are <<top, name>> pairs.      *)
(***************************************************************************)
CONSTANT Items

VARIABLE items

Init == items = {}

\* addFile(top/name) returned a node: the entry is in the tree.
Add(i) == items' = items \cup {i}

\* clear(): the tree is empty.
Clear == items' = {}

Next == (\E i \in Items : Add(i)) \/ Clear

Spec == Init /\ [][Next]_items
=============================================================================
