------------------------------- MODULE RBTree --------------------------------
(***************************************************************************)
(* The red-black tree of src/ngx_rbtree.c, on linked nodes, as the timers  *)
(* use it.  An insertion descends, links and then rebalances in a loop; a  *)
(* deletion unlinks and then rebalances in a loop.  Every iteration of a   *)
(* loop is a step, so that what holds in the middle of one can be stated.  *)
(*                                                                         *)
(* Left and right are one code with the sides exchanged: the two halves of *)
(* each function differ in nothing else.                                   *)
(***************************************************************************)
EXTENDS Integers, FiniteSets

CONSTANTS
    Node,    \* the nodes: the timer of each connection
    Msecs,   \* 2^64: the number of values of a key
    KeysOf   \* the keys each node may be given

Sentinel == 0
Null == -1

ASSUME NodeAssumption == IsFiniteSet(Node) /\ Node \subseteq Nat \ {0}

ASSUME KeysAssumption ==
    /\ Msecs \in Nat \ {0} /\ Msecs % 2 = 0
    /\ KeysOf \in [Node -> SUBSET (0..(Msecs - 1))]

VARIABLES
    tree,  \* root, and the nodes' fields
    step,  \* which loop is running
    node,  \* the loop variable of an insertion
    temp   \* that of a descent and of a deletion

rbVars == <<tree, step, node, temp>>

Side == {"left", "right"}
Other(s) == IF s = "left" THEN "right" ELSE "left"

-----------------------------------------------------------------------------
(***************************************************************************)
(* The tree, as its fields t say it is.                                    *)
(***************************************************************************)
Left(t, n) == t.child.left[n]
Right(t, n) == t.child.right[n]

\* The side of its parent a node hangs on, by the test the code makes.
Hangs(t, n) == IF n = Left(t, t.parent[n]) THEN "left" ELSE "right"

\* Mutant: one step to the left.
Min_OneStep(t, n) == IF Left(t, n) \in Node THEN Left(t, n) ELSE n

\* ngx_rbtree_min().
Min(t, n) ==
    LET m[x \in Node] == IF Left(t, x) \in Node THEN m[Left(t, x)] ELSE x
    IN  m[n]

\* The nodes of the subtree n: as many generations as there can be.
Below(t, n) ==
    LET B[i \in 0..Cardinality(Node)] ==
            [x \in Node \cup {Sentinel, Null} |->
                IF i = 0 \/ x \notin Node THEN {}
                ELSE {x} \cup B[i - 1][Left(t, x)] \cup B[i - 1][Right(t, x)]]
    IN  B[Cardinality(Node)][n]

InTree == Below(tree, tree.root)

\* Mutant: a comparison of words that forgets they wrap around.
Before_Plain(j, k) == j < k

\* (ngx_rbtree_key_int_t) (j - k) < 0.
Before(j, k) == 2 * ((j - k) % Msecs) >= Msecs

\* Keys within half of the word of each other: of these, one comes before the
\* other in the one sense only.
Together(K) ==
    \E b \in 0..(Msecs - 1) : \A k \in K : 2 * ((k - b) % Msecs) < Msecs

Painted(t, n, r) == [t EXCEPT !.red[n] = r]

\* The links c with n on side s of p.
Hung(c, s, p, n) == [c EXCEPT ![s][p] = n]

\* The parents p with n that of i, unless i is the sentinel.
Under(p, i, n) == IF i = Sentinel THEN p ELSE [p EXCEPT ![i] = n]

\* t with root r, the links c down and the links p up.
Linking(t, r, c, p) == [t EXCEPT !.root = r, !.child = c, !.parent = p]

\* Mutant: the subtree that changes sides keeps its old parent.
Turned_OldParent(t, n, m, i, s) ==
    LET c == Hung(Hung(t.child, Other(s), n, i), s, m, n)
    IN  Linking(t,
            IF n = t.root THEN m ELSE t.root,
            IF n = t.root THEN c ELSE Hung(c, Hangs(t, n), t.parent[n], m),
            Under(Under(t.parent, m, t.parent[n]), n, m))

\* n goes down on side s, its child m takes its place, and m's subtree i
\* changes over to n.
Turned(t, n, m, i, s) ==
    LET c == Hung(Hung(t.child, Other(s), n, i), s, m, n)
    IN  Linking(t,
            IF n = t.root THEN m ELSE t.root,
            IF n = t.root THEN c ELSE Hung(c, Hangs(t, n), t.parent[n], m),
            Under(Under(Under(t.parent, i, n), m, t.parent[n]), n, m))

\* ngx_rbtree_left_rotate() and ngx_rbtree_right_rotate(), by the side s.
Rotate(t, n, s) ==
    LET m == t.child[Other(s)][n] IN Turned(t, n, m, t.child[s][m], s)

-----------------------------------------------------------------------------
\* ngx_rbtree_init() of a static tree: the sentinel is black, all else 0.
Init ==
    /\ tree = [root   |-> Sentinel,
               child  |-> [s \in Side |-> [n \in Node \cup {Sentinel} |-> Null]],
               parent |-> [n \in Node \cup {Sentinel} |-> Null],
               red    |-> [n \in Node \cup {Sentinel} |-> FALSE],
               key    |-> [n \in Node |-> 0]]
    /\ step = "idle" /\ node = Null /\ temp = Null

\* Mutant: the right link of a new leaf is left as it was.
Leaf_OneLink(t, n, p, r) ==
    [t EXCEPT !.child.left[n] = Sentinel, !.parent[n] = p, !.red[n] = r]

\* n as a leaf under p.
Leaf(t, n, p, r) ==
    [t EXCEPT !.child.left[n] = Sentinel, !.child.right[n] = Sentinel,
              !.parent[n] = p, !.red[n] = r]

\* ngx_rbtree_insert() of a node that is not in the tree.  Its caller has set
\* the key, near those of the timers that are set, as EventTimer says of them.
Insert(n, k) ==
    /\ step = "idle"
    /\ n \notin InTree
    /\ Together({tree.key[m] : m \in InTree} \cup {k})
    /\ IF tree.root = Sentinel
       THEN /\ tree' = [Leaf(tree, n, Null, FALSE) EXCEPT !.root = n, !.key[n] = k]
            /\ UNCHANGED <<step, node, temp>>
       ELSE /\ tree' = [tree EXCEPT !.key[n] = k]
            /\ step' = "descend" /\ node' = n /\ temp' = tree.root

\* The side of temp that node belongs on.
Turn == IF Before(tree.key[node], tree.key[temp]) THEN "left" ELSE "right"

\* Mutant: the descent forgets temp = *p.
Descend_Stays ==
    /\ step = "descend"
    /\ IF tree.child[Turn][temp] # Sentinel THEN UNCHANGED rbVars
       ELSE /\ tree' = [Leaf(tree, node, temp, TRUE) EXCEPT !.child[Turn][temp] = node]
            /\ step' = "insert" /\ temp' = Null /\ UNCHANGED node

\* ngx_rbtree_insert_timer_value(): down one level, or the node is linked.
Descend ==
    /\ step = "descend"
    /\ IF tree.child[Turn][temp] # Sentinel
       THEN temp' = tree.child[Turn][temp] /\ UNCHANGED <<tree, step, node>>
       ELSE /\ tree' = [Leaf(tree, node, temp, TRUE) EXCEPT !.child[Turn][temp] = node]
            /\ step' = "insert" /\ temp' = Null /\ UNCHANGED node

\* The condition of the loop that rebalances an insertion.
RedParent == node # tree.root /\ tree.red[tree.parent[node]]

\* Mutant: the grandparent stays black.
Lifted_NoRed(t, p, u, g) == Painted(Painted(t, p, FALSE), u, FALSE)

\* A red uncle u: the conflict moves up to the grandparent.
Lifted(t, p, u, g) == Painted(Painted(Painted(t, p, FALSE), u, FALSE), g, TRUE)

\* Its body: p is the parent, g the grandparent and u the uncle.
InsertFixup ==
    /\ step = "insert" /\ RedParent
    /\ LET p == tree.parent[node]
           g == tree.parent[p]
           s == Hangs(tree, p)
           u == tree.child[Other(s)][g]
           \* node on the inner side is rotated to the outer side first
           swap == node = tree.child[Other(s)][p]
           n == IF swap THEN p ELSE node
           t == IF swap THEN Rotate(tree, p, s) ELSE tree
           h == t.parent[t.parent[n]]
       IN  IF tree.red[u]
           THEN tree' = Lifted(tree, p, u, g) /\ node' = g
           ELSE /\ tree' = Rotate(Painted(Painted(t, t.parent[n], FALSE), h, TRUE),
                                  h, Other(s))
                /\ node' = n
    /\ UNCHANGED <<step, temp>>

InsertDone ==
    /\ step = "insert" /\ ~RedParent
    /\ tree' = Painted(tree, tree.root, FALSE)
    /\ step' = "idle" /\ node' = Null /\ UNCHANGED temp

\* The node that leaves its place when n is deleted: n, or its successor.
Subst(t, n) ==
    IF Sentinel \in {Left(t, n), Right(t, n)} THEN n ELSE Min(t, Right(t, n))

\* The one subtree that node may have, which takes its place.
OnlyChild(t, z) == IF Left(t, z) # Sentinel THEN Left(t, z) ELSE Right(t, z)

\* The fields of a deleted node.
Forgotten(t, n) ==
    [t EXCEPT !.child.left[n] = Null, !.child.right[n] = Null,
              !.parent[n] = Null, !.key[n] = 0]

\* The parent of that subtree: the successor itself, if it was a child of n.
OrphanParent(t, n, z) == IF z # n /\ t.parent[z] = n THEN z ELSE t.parent[z]

\* z leaves its place to x, which gets the parent p, if it is the sentinel too.
Spliced(t, z, x, p) ==
    Linking(t, t.root, Hung(t.child, Hangs(t, z), t.parent[z], x), [t.parent EXCEPT ![x] = p])

\* Mutant: the successor keeps its own colour.
SubstColour_Own(t, n, z) == t.red[z]

\* ngx_rbt_copy_color(subst, node).
SubstColour(t, n, z) == t.red[n]

\* z takes n's place, its links and its colour.
Replaced(t, n, z) ==
    LET c == Hung(Hung(t.child, "left", z, Left(t, n)), "right", z, Right(t, n))
        p == Under(Under(t.parent, Left(t, n), z), Right(t, n), z)
    IN  Painted(Linking(t,
                    IF n = t.root THEN z ELSE t.root,
                    IF n = t.root THEN c ELSE Hung(c, Hangs(t, n), t.parent[n], z),
                    Under(p, z, t.parent[n])),
                z, SubstColour(t, n, z))

\* n out of the tree: z leaves its place to its only child, and takes n's.
Unlinked(t, n) ==
    LET z == Subst(t, n)
        u == Spliced(t, z, OnlyChild(t, z), OrphanParent(t, n, z))
    IN  IF z = n THEN u ELSE Replaced(u, n, z)

\* ngx_rbtree_delete() of a node in the tree, up to its loop.  It runs only if
\* the node that left its place was black.
Delete(n) ==
    /\ step = "idle"
    /\ n \in InTree
    /\ LET z == Subst(tree, n)
           x == OnlyChild(tree, z)
       IN  IF z = tree.root
           THEN /\ tree' = Forgotten([tree EXCEPT !.root = x, !.red[x] = FALSE], n)
                /\ UNCHANGED <<step, temp>>
           ELSE /\ tree' = Forgotten(Unlinked(tree, n), n)
                /\ IF tree.red[z] THEN UNCHANGED <<step, temp>>
                   ELSE step' = "delete" /\ temp' = x
    /\ UNCHANGED node

\* The sibling on the other side of p takes the colour and the place of p,
\* which comes down on side s, where a black is missing.
Repaid(t, p, s) ==
    LET w == t.child[Other(s)][p]
        far == t.child[Other(s)][w]
    IN  Rotate(Painted(Painted(Painted(t, w, t.red[p]), p, FALSE), far, FALSE), p, s)

\* A black is missing on side s of p in t, and the sibling w there is black.
Repay(t, p, s) ==
    LET o == Other(s)
        w == t.child[o][p]
        near == t.child[s][w]
        u == IF t.red[t.child[o][w]] THEN t
             ELSE Rotate(Painted(Painted(t, near, FALSE), w, TRUE), w, o)
    IN  IF ~t.red[Left(t, w)] /\ ~t.red[Right(t, w)]
        THEN tree' = Painted(t, w, TRUE) /\ temp' = p
        ELSE tree' = Repaid(u, p, s) /\ temp' = Repaid(u, p, s).root

\* The body of the loop that rebalances a deletion: p is the parent of temp,
\* which hangs on side s, and its sibling v is made a black one first.
DeleteFixup ==
    /\ step = "delete" /\ temp # tree.root /\ ~tree.red[temp]
    /\ LET p == tree.parent[temp]
           s == Hangs(tree, temp)
           v == tree.child[Other(s)][p]
           t == IF tree.red[v]
                THEN Rotate(Painted(Painted(tree, v, FALSE), p, TRUE), p, s)
                ELSE tree
       IN  Repay(t, p, s)
    /\ UNCHANGED <<step, node>>

DeleteDone ==
    /\ step = "delete" /\ (temp = tree.root \/ tree.red[temp])
    /\ tree' = Painted(tree, temp, FALSE)
    /\ step' = "idle" /\ temp' = Null /\ UNCHANGED node

Loop == Descend \/ InsertFixup \/ InsertDone \/ DeleteFixup \/ DeleteDone

Next ==
    \/ \E n \in Node : Delete(n) \/ \E k \in KeysOf[n] : Insert(n, k)
    \/ Loop

Spec == Init /\ [][Next]_rbVars

\* The program runs; only whoever calls the tree may leave it alone.
FairSpec == Spec /\ WF_rbVars(Loop)

-----------------------------------------------------------------------------
(***************************************************************************)
(* Correctness.                                                            *)
(***************************************************************************)
\* The queue the tree stands for.
Queue == INSTANCE TimerQueue WITH
    None <- Sentinel,
    queue <- [n \in InTree |-> tree.key[n]],
    first <- IF tree.root = Sentinel THEN Sentinel ELSE Min(tree, tree.root)

\* Every field has its type; what is in the tree links to nodes or to the
\* sentinel, never to null.
RBTypeOK ==
    /\ tree.root \in Node \cup {Sentinel}
    /\ tree.parent \in [Node \cup {Sentinel} -> Node \cup {Sentinel, Null}]
    /\ tree.red \in [Node \cup {Sentinel} -> BOOLEAN]
    /\ tree.key \in [Node -> 0..(Msecs - 1)]
    /\ \A n \in InTree, s \in Side : tree.child[s][n] \in Node \cup {Sentinel}
    /\ step \in {"idle", "descend", "insert", "delete"}
    /\ node \in Node \cup {Null} /\ temp \in Node \cup {Sentinel, Null}

\* In the middle of every operation too the links down and up agree, and every
\* node but the root hangs in one place.  The root's own parent may be stale:
\* ngx_rbtree_delete() leaves it, and every loop tests for the root first.
Linked ==
    /\ \A n \in InTree, s \in Side :
          LET m == tree.child[s][n] IN m # Sentinel => tree.parent[m] = n
    /\ \A n \in InTree \ {tree.root} :
          /\ tree.parent[n] \in InTree
          /\ Cardinality({s \in Side : tree.child[s][tree.parent[n]] = n}) = 1
    /\ \A n \in InTree : tree.root \notin {Left(tree, n), Right(tree, n)}

\* At every moment the tree is ordered, on a clock that wraps around and with
\* equal keys on both sides of each other once rotations have moved them.
Ordered ==
    \A n \in InTree :
        /\ \A m \in Below(tree, Left(tree, n)) :
              ~Queue!Before(tree.key[n], tree.key[m])
        /\ \A m \in Below(tree, Right(tree, n)) :
              ~Queue!Before(tree.key[m], tree.key[n])

\* How many black nodes the ways down from n have, the one that a running
\* deletion still owes on the way through temp included.
Blacks(n) ==
    LET Black(x) == IF tree.red[x] THEN 0 ELSE 1
        Owed(x, s) == IF /\ step = "delete" /\ temp = tree.child[s][x]
                         /\ tree.parent[temp] = x /\ Hangs(tree, temp) = s
                      THEN 1 ELSE 0
        b[x \in InTree \cup {Sentinel}] ==
            IF x = Sentinel THEN {0}
            ELSE UNION {{Black(x) + Owed(x, s) + w : w \in b[tree.child[s][x]]} :
                           s \in Side}
    IN  b[n]

\* "A sentinel must be black" (ngx_rbtree.h), and all ways down have as many
\* black nodes, but for the one black that a running deletion carries at temp.
\* Red nodes have black parents, but for the one a running insertion carries.
Coloured ==
    /\ ~tree.red[Sentinel]
    /\ Cardinality(Blacks(tree.root)) = 1
    /\ \A n \in InTree \ {tree.root} :
          tree.red[n] /\ tree.red[tree.parent[n]] =>
              \/ step = "insert" /\ n = node
              \/ step = "delete" /\ tree.red[temp] /\ temp \in {n, tree.parent[n]}
    /\ step \in {"idle", "descend"} => ~tree.red[tree.root]

\* Every operation ends.
Terminates == step # "idle" ~> step = "idle"

\* The tree is a queue of timers, and its leftmost node is the earliest of
\* them: rebalancing neither loses a timer nor changes which one is first.
ImplementsQueue == Queue!Spec
=============================================================================
