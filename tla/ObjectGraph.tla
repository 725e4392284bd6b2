----------------------------- MODULE ObjectGraph -----------------------------
(* The content-addressed object graph.  An object is named by its key, and  *)
(* its bytes fix the keys of its children, so the graph is a constant and   *)
(* "the object k" needs no other description.  A store is the set of keys   *)
(* whose (verified) objects it holds.                                       *)
EXTENDS FiniteSets, Integers

CONSTANTS
  Key,        \* object keys
  Kids,       \* Kids[k]: the children named by the bytes of object k
  Root        \* the root of the tree being transferred

ASSUME GraphAssumption ==
  /\ Root \in Key
  /\ Kids \in [Key -> SUBSET Key]

\* A set of objects no member of which names a child outside it.
Closed(C) == \A k \in C : Kids[k] \subseteq C

\* fstree.CheckComplete(k, st.Get, st.Has): k and everything below it is held.
Complete(store, k) == \E C \in SUBSET store : k \in C /\ Closed(C)

MustRequestIfAbsent(store, k) == k \notin store

\* Wants: k is pruned only when present AND complete below; presence alone is
\* not enough, since an interrupted transfer stores parents before children.
MustRequest(store, k) == k \notin store \/ ~Complete(store, k)
=============================================================================
