------------------------------ MODULE MCRBTree -------------------------------
(* Model-checking instances of RBTree.  In one every node has a key of its  *)
(* own, so that the state space is that of all trees over a set of keys; in *)
(* the other keys coincide, and the stale fields are kept.                  *)
EXTENDS RBTree

\* Distinct keys on both sides of the wrap of a word of 32 values.
DistinctKeys == [n \in Node |-> {(28 + n) % 32}]

\* Keys of a word of 8 values that coincide in pairs around the wrap.  One node
\* joins either side of it; another may come so late that the clock must have
\* moved on, and the keys before it gone.
TiedKeys ==
    [n \in Node |-> CASE n = 1 -> {7, 0}
                      [] n = 5 -> {0, 4}
                      [] OTHER -> {(6 + n \div 2) % 8}]

\* What can be reached from the root, and what a running loop works on.  It
\* leaves out the fields that are written before they are read again: those of
\* a node that is out of the tree, and a stale parent of the root and of the
\* sentinel.  RBTree_queue explores those too, on fewer nodes.
Reached ==
    <<tree.root, step, node, temp,
      [n \in InTree |-> <<Left(tree, n), Right(tree, n), tree.red[n]>>],
      IF step = "delete" /\ temp = Sentinel THEN tree.parent[Sentinel] ELSE Null>>
=============================================================================
