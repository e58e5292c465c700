---------------------------- MODULE RBTreeProofs -----------------------------
(***************************************************************************)
(* Theorems about RBTree, for every finite set of nodes and every width of *)
(* the keys.                                                               *)
(*                                                                         *)
(* The invariant says of the fields that some D is what is below each node *)
(* (Shape), that the keys below are in order (Order), and that some H is   *)
(* the black height of each node (Level), but for the one black that a     *)
(* deletion has in hand, or the one red node of an insertion.  Each loop's *)
(* body is a few rotations and paints, and each of these has its lemmas.   *)
(*                                                                         *)
(* The fields of a node are read through Child, Parent, Red and Key, which *)
(* the lemmas named ...Fields say the effect of each assignment on.        *)
(***************************************************************************)
EXTENDS RBTree, FiniteSetTheorems, WellFoundedInduction, TLAPS

-----------------------------------------------------------------------------
(***************************************************************************)
(* The fields of a node, and what each assignment does to them.            *)
(***************************************************************************)

\* The nodes and the sentinel, which the fields are of, and null.
Cell == Node \cup {Sentinel}
Place == Cell \cup {Null}

\* The tables of the links.
Children == [Side -> [Cell -> Place]]
Parents == [Cell -> Place]

\* The fields of the nodes: a tree, or the pieces of one.
Trees ==
    [root   : Cell,
     child  : Children,
     parent : Parents,
     red    : [Cell -> BOOLEAN],
     key    : [Node -> 0..(Msecs - 1)]]

\* The links of one node.
Down(c, s, n) == c[s][n]
Up(p, n) == p[n]

\* The fields of one node.
Root(t) == t.root
Child(t, s, n) == t.child[s][n]
Parent(t, n) == t.parent[n]
Red(t, n) == t.red[n]
Key(t, n) == t.key[n]

\* Nodes, the sentinel and null are told apart.
LEMMA Cells ==
    /\ Sentinel \notin Node /\ Null \notin Node /\ Sentinel # Null
    /\ \A n \in Node : n \in Cell /\ n \in Place /\ n # Sentinel /\ n # Null
    /\ Sentinel \in Cell /\ Null \notin Cell
    /\ \A n \in Cell : n \in Place /\ (n # Sentinel => n \in Node)
BY NodeAssumption DEF Sentinel, Null, Cell, Place

\* There are two sides, each the other of the other.
LEMMA Sides ==
    /\ "left" \in Side /\ "right" \in Side
    /\ Other("left") = "right" /\ Other("right") = "left"
    /\ \A s \in Side : /\ Other(s) \in Side /\ Other(s) # s /\ Other(Other(s)) = s
                       /\ \A q \in Side : q = s \/ q = Other(s)
BY DEF Side, Other

\* A node hangs on a side.
LEMMA HangsSide == \A t, n : Hangs(t, n) \in Side
BY DEF Hangs, Side

\* Assigning a child leaves a table of children.
LEMMA HungIs ==
    \A f, q, x, v : f \in Children /\ q \in Side /\ x \in Cell /\ v \in Place
        => Hung(f, q, x, v) \in Children
BY DEF Children, Hung

\* Assigning a child changes that child and no other.
LEMMA HungFields ==
    \A f, q, x, v, p, y :
        /\ f \in Children /\ q \in Side /\ x \in Cell /\ v \in Place
        /\ p \in Side /\ y \in Cell
        => Down(Hung(f, q, x, v), p, y) = IF p = q /\ y = x THEN v ELSE Down(f, p, y)
BY DEF Children, Hung, Down

\* Assigning a parent leaves a table of parents.
LEMMA UnderIs ==
    \A f, i, v : f \in Parents /\ i \in Cell /\ v \in Place => Under(f, i, v) \in Parents
BY DEF Parents, Under

\* Assigning a parent changes that node's alone, and never the sentinel's.
LEMMA UnderFields ==
    \A f, i, v, y :
        f \in Parents /\ i \in Cell /\ v \in Place /\ y \in Cell
        => Up(Under(f, i, v), y) = IF y = i /\ i # Sentinel THEN v ELSE Up(f, y)
BY DEF Parents, Under, Up

\* The fields of a tree have their types.
LEMMA TreeFields ==
    ASSUME NEW t \in Trees
    PROVE  /\ Root(t) \in Cell
           /\ \A s \in Side, n \in Cell : Child(t, s, n) \in Place
           /\ \A n \in Cell : Parent(t, n) \in Place /\ Red(t, n) \in BOOLEAN
           /\ \A n \in Node : Key(t, n) \in 0..(Msecs - 1)
BY DEF Trees, Children, Parents, Root, Child, Parent, Red, Key, Cell

\* The tables of a tree's links, read through Down and Up.
LEMMA LinkFields ==
    ASSUME NEW t \in Trees
    PROVE  \E c \in Children, p \in Parents :
              /\ c = t.child /\ p = t.parent
              /\ \A s \in Side, n \in Cell : Child(t, s, n) = Down(c, s, n)
              /\ \A n \in Cell : Parent(t, n) = Up(p, n)
BY DEF Trees, Child, Parent, Down, Up

\* A tree relinked has the new links, and its old colours and keys.
LEMMA LinkingFields ==
    ASSUME NEW t \in Trees, NEW z \in Cell, NEW c \in Children, NEW p \in Parents,
           NEW u, u = Linking(t, z, c, p)
    PROVE  /\ u \in Trees /\ Root(u) = z
           /\ \A q \in Side, x \in Cell : Child(u, q, x) = Down(c, q, x)
           /\ \A x \in Cell : Parent(u, x) = Up(p, x) /\ Red(u, x) = Red(t, x)
           /\ \A x \in Node : Key(u, x) = Key(t, x)
<1>1. /\ u \in Trees /\ u.root = z
      /\ u.child = c /\ u.parent = p /\ u.red = t.red /\ u.key = t.key
  BY DEF Trees, Linking
<1> QED
  BY <1>1 DEF Child, Parent, Red, Key, Root, Down, Up

\* Painting a node changes its colour, and nothing else.
LEMMA PaintedFields ==
    ASSUME NEW t \in Trees, NEW n \in Cell, NEW r \in BOOLEAN, NEW u, u = Painted(t, n, r)
    PROVE  /\ u \in Trees /\ Root(u) = Root(t)
           /\ \A q \in Side, x \in Cell : Child(u, q, x) = Child(t, q, x)
           /\ \A x \in Cell : /\ Parent(u, x) = Parent(t, x)
                              /\ Red(u, x) = IF x = n THEN r ELSE Red(t, x)
           /\ \A x \in Node : Key(u, x) = Key(t, x)
<1>1. /\ u \in Trees /\ u.root = t.root
      /\ u.child = t.child /\ u.parent = t.parent /\ u.key = t.key
  BY DEF Trees, Painted
<1>2. \A x \in Cell : u.red[x] = IF x = n THEN r ELSE t.red[x]
  BY DEF Trees, Painted
<1> QED
  BY <1>1, <1>2 DEF Child, Parent, Red, Key, Root

\* The six links that a rotation of n and its child m assigns, and no others.
LEMMA RotateFields ==
    ASSUME NEW t \in Trees, NEW n \in Node, NEW s \in Side,
           NEW m \in Node, m = Child(t, Other(s), n),
           NEW i \in Cell, i = Child(t, s, m),
           n = Root(t) \/ Parent(t, n) \in Cell,
           NEW r, r = Rotate(t, n, s)
    PROVE  /\ r \in Trees
           /\ Root(r) = IF n = Root(t) THEN m ELSE Root(t)
           /\ \A x \in Cell :
                 /\ Red(r, x) = Red(t, x)
                 /\ Parent(r, x) =
                     IF x = n THEN m
                     ELSE IF x = m THEN Parent(t, n)
                     ELSE IF x = i /\ i # Sentinel THEN n ELSE Parent(t, x)
           /\ \A x \in Node : Key(r, x) = Key(t, x)
           /\ \A x \in Cell, q \in Side : Child(r, q, x) =
                 IF n # Root(t) /\ q = Hangs(t, n) /\ x = Parent(t, n) THEN m
                 ELSE IF x = m /\ q = s THEN n
                 ELSE IF x = n /\ q = Other(s) THEN i
                 ELSE Child(t, q, x)
<1>1. PICK ch \in Children, pa \in Parents :
              /\ ch = t.child /\ pa = t.parent
              /\ \A q \in Side, x \in Cell : Child(t, q, x) = Down(ch, q, x)
              /\ \A x \in Cell : Parent(t, x) = Up(pa, x)
  BY LinkFields
<1>2. n \in Cell /\ m \in Cell /\ n \in Place /\ m \in Place /\ i \in Place
      /\ Parent(t, n) \in Place /\ m # Sentinel /\ n # Sentinel /\ Root(t) \in Cell
  BY Cells, TreeFields
<1>3. Other(s) \in Side /\ Hangs(t, n) \in Side
  BY Sides, HangsSide
<1> DEFINE a == Hung(ch, Other(s), n, i)
           c == Hung(a, s, m, n)
           d == Hung(c, Hangs(t, n), Parent(t, n), m)
           b == Under(pa, i, n)
           e == Under(b, m, Parent(t, n))
           f == Under(e, n, m)
           g == IF n = Root(t) THEN c ELSE d
           z == IF n = Root(t) THEN m ELSE Root(t)
<1>4. r = Turned(t, n, m, i, s)
  BY DEF Rotate, Child
<1>5. r = Linking(t, z, g, f)
  BY <1>1, <1>4 DEF Turned, Root, Parent
<1>6. a \in Children /\ \A y \in Side, x \in Cell :
         Down(a, y, x) = IF y = Other(s) /\ x = n THEN i ELSE Down(ch, y, x)
  BY <1>2, <1>3, HungIs, HungFields
<1>7. b \in Parents /\ \A x \in Cell :
         Up(b, x) = IF x = i /\ i # Sentinel THEN n ELSE Up(pa, x)
  BY <1>2, UnderIs, UnderFields
<1> HIDE DEF a, b
<1>8. c \in Children /\ \A y \in Side, x \in Cell :
         Down(c, y, x) = IF y = s /\ x = m THEN n ELSE Down(a, y, x)
  BY <1>2, <1>6, HungIs, HungFields
<1>9. e \in Parents /\ \A x \in Cell :
         Up(e, x) = IF x = m THEN Parent(t, n) ELSE Up(b, x)
  BY <1>2, <1>7, UnderIs, UnderFields
<1> HIDE DEF c, e
<1>10. n # Root(t) => d \in Children /\ \A y \in Side, x \in Cell :
         Down(d, y, x) = IF y = Hangs(t, n) /\ x = Parent(t, n) THEN m ELSE Down(c, y, x)
  BY <1>2, <1>3, <1>8, HungIs, HungFields
<1>11. f \in Parents /\ \A x \in Cell : Up(f, x) = IF x = n THEN m ELSE Up(e, x)
  BY <1>2, <1>9, UnderIs, UnderFields
<1> HIDE DEF d, f
<1>12. g \in Children /\ z \in Cell
  BY <1>2, <1>8, <1>10
<1> HIDE DEF g, z
<1>13. /\ r \in Trees /\ Root(r) = z
       /\ \A q \in Side, x \in Cell : Child(r, q, x) = Down(g, q, x)
       /\ \A x \in Cell : Parent(r, x) = Up(f, x) /\ Red(r, x) = Red(t, x)
       /\ \A x \in Node : Key(r, x) = Key(t, x)
  BY <1>5, <1>11, <1>12, LinkingFields
<1>14. ASSUME NEW x \in Cell
       PROVE  Parent(r, x) = IF x = n THEN m
                 ELSE IF x = m THEN Parent(t, n)
                 ELSE IF x = i /\ i # Sentinel THEN n ELSE Parent(t, x)
  BY <1>1, <1>7, <1>9, <1>11, <1>13
<1>15. ASSUME NEW x \in Cell, NEW q \in Side
       PROVE  Child(r, q, x) =
                 IF n # Root(t) /\ q = Hangs(t, n) /\ x = Parent(t, n) THEN m
                 ELSE IF x = m /\ q = s THEN n
                 ELSE IF x = n /\ q = Other(s) THEN i
                 ELSE Child(t, q, x)
  BY <1>1, <1>6, <1>8, <1>10, <1>13 DEF g
<1> QED
  BY <1>13, <1>14, <1>15 DEF z

-----------------------------------------------------------------------------
(***************************************************************************)
(* Shape: what is below each node.                                         *)
(***************************************************************************)

\* The nodes below x, x included, by the function D.
Sub(D, x) == IF x \in Node THEN D[x] ELSE {}

\* The nodes of the tree.
In(t, D) == Sub(D, Root(t))

\* D says what is below each node.
Shape(t, D) ==
    \A n \in Node, s \in Side :
        LET l == Child(t, s, n)
            r == Child(t, Other(s), n)
        IN  /\ Sub(D, n) = {n} \cup Sub(D, l) \cup Sub(D, r)
            /\ n \notin Sub(D, l)
            /\ Sub(D, l) \cap Sub(D, r) = {}
            /\ l \in Node => Parent(t, l) = n /\ n \in In(t, D)
            /\ n \in In(t, D) => l \in Cell

\* What may be said to be below the nodes.
Subtrees == [Node -> SUBSET Node]

\* Induction on the naturals, of a set that has 0 and all successors.
LEMMA Induction ==
    ASSUME NEW S, 0 \in S, \A n \in Nat : n \in S => n + 1 \in S
    PROVE  Nat \subseteq S
<1> DEFINE R == {ss \in Nat \X Nat : ss[1] < ss[2]}
<1>1. IsWellFoundedOn(R, Nat)
  BY NatLessThanWellFounded, Zenon DEF OpToRel
<1>2. \A x, y \in Nat : <<y, x>> \in R <=> y < x
  OBVIOUS
<1> HIDE DEF R
<1>3. SUFFICES ASSUME Nat \ S # {} PROVE FALSE
  OBVIOUS
<1>4. \E x \in Nat \ S : \A y \in Nat \ S : ~(<<y, x>> \in R)
  BY <1>1, <1>3, WFMin
<1>5. PICK m \in Nat \ S : \A n \in Nat \ S : ~(n < m)
  BY <1>2, <1>4
<1>6. m # 0 /\ m - 1 \in Nat /\ m - 1 < m /\ (m - 1) + 1 = m
  BY <1>5
<1>7. m - 1 \in S
  BY <1>5, <1>6
<1> QED
  BY <1>5, <1>6, <1>7

\* What is below a node is a finite set of nodes.
LEMMA SubIs ==
    ASSUME NEW D \in Subtrees
    PROVE  \A x : /\ Sub(D, x) \subseteq Node /\ (x \notin Node => Sub(D, x) = {})
                  /\ IsFiniteSet(Sub(D, x)) /\ Cardinality(Sub(D, x)) \in Nat
                  /\ x \in Node => Sub(D, x) = D[x]
<1> TAKE x
<1>1. /\ Sub(D, x) \subseteq Node
      /\ x \notin Node => Sub(D, x) = {}
      /\ x \in Node => Sub(D, x) = D[x]
  BY DEF Sub, Subtrees
<1>2. IsFiniteSet(Sub(D, x))
  BY <1>1, FS_Subset, NodeAssumption
<1> QED
  BY <1>1, <1>2, FS_CardinalityType

\* Shape, a fact at a time.
LEMMA ShapeFacts ==
    ASSUME NEW t, NEW D, Shape(t, D)
    PROVE  /\ \A n, s, x : n \in Node /\ s \in Side =>
                (x \in Sub(D, n) <=> \/ x = n \/ x \in Sub(D, Child(t, s, n))
                                     \/ x \in Sub(D, Child(t, Other(s), n)))
           /\ \A n, s : n \in Node /\ s \in Side => n \notin Sub(D, Child(t, s, n))
           /\ \A n, s, x : /\ n \in Node /\ s \in Side /\ x \in Sub(D, Child(t, s, n))
                           => x \notin Sub(D, Child(t, Other(s), n))
           /\ \A n, s : n \in Node /\ s \in Side /\ Child(t, s, n) \in Node
                        => Parent(t, Child(t, s, n)) = n /\ n \in In(t, D)
           /\ \A n, s : n \in Node /\ s \in Side /\ n \in In(t, D) => Child(t, s, n) \in Cell
           /\ \A n : n \in Node => n \in Sub(D, n)
<1>1. ASSUME NEW n, NEW s, NEW x, n \in Node, s \in Side
      PROVE  /\ x \in Sub(D, n) <=> \/ x = n \/ x \in Sub(D, Child(t, s, n))
                                     \/ x \in Sub(D, Child(t, Other(s), n))
             /\ x \in Sub(D, Child(t, s, n)) => x \notin Sub(D, Child(t, Other(s), n))
             /\ n \notin Sub(D, Child(t, s, n))
             /\ Child(t, s, n) \in Node => Parent(t, Child(t, s, n)) = n /\ n \in In(t, D)
             /\ n \in In(t, D) => Child(t, s, n) \in Cell
  BY <1>1 DEF Shape
<1>2. ASSUME NEW n, n \in Node PROVE n \in Sub(D, n)
  BY <1>1, <1>2, Sides
<1> QED
  BY <1>1, <1>2

\* What holds of a node if it holds of its children holds of all nodes.
LEMMA SubtreeInduction ==
    ASSUME NEW t, NEW D \in Subtrees, Shape(t, D), NEW S,
           \A x \in Node : (\A s \in Side : Child(t, s, x) \in Node => Child(t, s, x) \in S)
                              => x \in S
    PROVE  Node \subseteq S
<1> DEFINE Small(k) == \A x : x \in Node /\ Cardinality(Sub(D, x)) <= k => x \in S
           K == {k \in Nat : Small(k)}
<1>1. Small(0)
  <2> SUFFICES ASSUME NEW x, x \in Node, Cardinality(Sub(D, x)) <= 0 PROVE FALSE
    OBVIOUS
  <2>1. x \in Sub(D, x)
    BY ShapeFacts
  <2>2. IsFiniteSet(Sub(D, x)) /\ Cardinality(Sub(D, x)) = 0
    BY SubIs
  <2>3. Sub(D, x) = {}
    BY <2>2, FS_EmptySet
  <2> QED
    BY <2>1, <2>3
<1>2. ASSUME NEW k \in Nat, Small(k) PROVE Small(k + 1)
  <2> SUFFICES ASSUME NEW x, x \in Node, Cardinality(Sub(D, x)) <= k + 1 PROVE x \in S
    OBVIOUS
  <2>1. ASSUME NEW s \in Side, Child(t, s, x) \in Node PROVE Child(t, s, x) \in S
    <3> DEFINE y == Child(t, s, x)
    <3>1. Sub(D, y) \subseteq Sub(D, x) /\ x \in Sub(D, x) /\ x \notin Sub(D, y)
      BY ShapeFacts
    <3> HIDE DEF y
    <3>2. /\ Cardinality(Sub(D, y)) <= Cardinality(Sub(D, x))
          /\ Cardinality(Sub(D, y)) # Cardinality(Sub(D, x))
      BY <3>1, FS_Subset, SubIs
    <3>3. Cardinality(Sub(D, y)) <= k
      BY <3>2, SubIs
    <3> QED
      BY <1>2, <2>1, <3>3 DEF y
  <2> QED
    BY <2>1
<1> HIDE DEF Small
<1>3. Nat \subseteq K
  <2>1. 0 \in K
    BY <1>1
  <2>2. \A k \in Nat : k \in K => k + 1 \in K
    BY <1>2
  <2> HIDE DEF K
  <2> QED
    BY <2>1, <2>2, Induction
<1>4. SUFFICES ASSUME NEW x \in Node PROVE x \in S
  OBVIOUS
<1>5. Small(Cardinality(Sub(D, x)))
  BY <1>3, SubIs
<1> QED
  BY <1>5, SubIs DEF Small

\* What is below a node is below all that the node is below.
LEMMA Nested ==
    ASSUME NEW t, NEW D \in Subtrees, Shape(t, D)
    PROVE  \A a, x, y : x \in Sub(D, a) /\ y \in Sub(D, x) => y \in Sub(D, a)
<1> DEFINE S == {a \in Node : \A x, y : x \in Sub(D, a) /\ y \in Sub(D, x) => y \in Sub(D, a)}
<1>1. ASSUME NEW a \in Node, \A s \in Side : Child(t, s, a) \in Node => Child(t, s, a) \in S
      PROVE  a \in S
  <2> SUFFICES ASSUME NEW x, NEW y, x \in Sub(D, a), y \in Sub(D, x) PROVE y \in Sub(D, a)
    OBVIOUS
  <2>1. CASE x = a
    BY <2>1
  <2>2. ASSUME NEW s \in Side, x \in Sub(D, Child(t, s, a)) PROVE y \in Sub(D, a)
    <3>1. Child(t, s, a) \in Node
      BY <2>2, SubIs
    <3>2. y \in Sub(D, Child(t, s, a))
      BY <1>1, <2>2, <3>1
    <3> QED
      BY <3>2, ShapeFacts
  <2> QED
    BY <2>1, <2>2, ShapeFacts, Sides
<1> HIDE DEF S
<1>2. Node \subseteq S
  BY <1>1, SubtreeInduction
<1> QED
  BY <1>2, SubIs DEF S

\* The nodes below a have their parents below a, but for a itself.
LEMMA ParentBelow ==
    ASSUME NEW t, NEW D \in Subtrees, Shape(t, D)
    PROVE  \A a, x : x \in Sub(D, a) /\ x # a =>
              /\ Parent(t, x) \in Sub(D, a)
              /\ \E s \in Side : Child(t, s, Parent(t, x)) = x
<1> DEFINE Good(a, x) == /\ Parent(t, x) \in Sub(D, a)
                         /\ \E s \in Side : Child(t, s, Parent(t, x)) = x
           S == {a \in Node : \A x : x \in Sub(D, a) /\ x # a => Good(a, x)}
<1>1. ASSUME NEW a \in Node, \A s \in Side : Child(t, s, a) \in Node => Child(t, s, a) \in S
      PROVE  a \in S
  <2> SUFFICES ASSUME NEW x, x \in Sub(D, a), x # a PROVE Good(a, x)
    OBVIOUS
  <2>1. PICK s \in Side : x \in Sub(D, Child(t, s, a))
    BY ShapeFacts, Sides
  <2>2. Child(t, s, a) \in Node
    BY <2>1, SubIs
  <2>3. CASE x = Child(t, s, a)
    BY <2>2, <2>3, ShapeFacts
  <2>4. CASE x # Child(t, s, a)
    <3>1. Good(Child(t, s, a), x)
      BY <1>1, <2>1, <2>2, <2>4
    <3> QED
      BY <3>1, ShapeFacts
  <2> QED
    BY <2>3, <2>4
<1> HIDE DEF S
<1>2. Node \subseteq S
  BY <1>1, SubtreeInduction
<1> QED
  BY <1>2, SubIs DEF S

-----------------------------------------------------------------------------
(***************************************************************************)
(* A rotation keeps the shape.                                             *)
(***************************************************************************)

\* Where a node hangs, in terms of Child.
LEMMA HangsIs ==
    \A t, n : Hangs(t, n) = IF n = Child(t, "left", Parent(t, n)) THEN "left" ELSE "right"
BY DEF Hangs, Left, Child, Parent

\* A node of the tree hangs where Hangs says, and nowhere else.
LEMMA HangsFacts ==
    ASSUME NEW t \in Trees, NEW D \in Subtrees, Shape(t, D),
           NEW n, n \in In(t, D), n # Root(t)
    PROVE  /\ n \in Node /\ Parent(t, n) \in In(t, D) /\ Parent(t, n) \in Node
           /\ Hangs(t, n) \in Side
           /\ Child(t, Hangs(t, n), Parent(t, n)) = n
           /\ Child(t, Other(Hangs(t, n)), Parent(t, n)) # n
           /\ n \notin Sub(D, Child(t, Other(Hangs(t, n)), Parent(t, n)))
<1>1. n \in Node /\ Parent(t, n) \in In(t, D) /\ Parent(t, n) \in Node
  BY ParentBelow, SubIs DEF In
<1>2. \E s \in Side : Child(t, s, Parent(t, n)) = n
  BY ParentBelow DEF In
<1>3. Hangs(t, n) \in Side /\ Child(t, Hangs(t, n), Parent(t, n)) = n
  BY <1>2, HangsIs, Sides DEF Side
<1>4. n \in Sub(D, n)
  BY <1>1, ShapeFacts
<1>5. n \notin Sub(D, Child(t, Other(Hangs(t, n)), Parent(t, n)))
  BY <1>1, <1>3, <1>4, ShapeFacts
<1> QED
  BY <1>1, <1>3, <1>4, <1>5

\* No node is below another that is below it.
LEMMA Antisymmetric ==
    ASSUME NEW t, NEW D \in Subtrees, Shape(t, D)
    PROVE  \A a, x : x \in Sub(D, a) /\ a \in Sub(D, x) => a = x
BY Nested, ShapeFacts, SubIs, Sides

\* How a rotation changes what is below the nodes.
Swung(t, D, n, s) ==
    LET m == Child(t, Other(s), n)
    IN  [a \in Node |->
            IF a = m THEN Sub(D, n)
            ELSE IF a = n THEN {n} \cup Sub(D, Child(t, s, n)) \cup Sub(D, Child(t, s, m))
            ELSE Sub(D, a)]

\* The sets that a rotation makes: those of n and m, and no others.
LEMMA SwungIs ==
    ASSUME NEW t, NEW D \in Subtrees, NEW n \in Node, NEW s, NEW m, m = Child(t,
        Other(s), n),
           m \in Node
    PROVE  /\ Swung(t, D, n, s) \in Subtrees
           /\ m # n => Sub(Swung(t, D, n, s), n) =
                           {n} \cup Sub(D, Child(t, s, n)) \cup Sub(D, Child(t, s, m))
           /\ Sub(Swung(t, D, n, s), m) = Sub(D, n)
           /\ \A a : a # n /\ a # m => Sub(Swung(t, D, n, s), a) = Sub(D, a)
<1>1. \A a : Sub(D, a) \subseteq Node
  BY SubIs
<1>2. Swung(t, D, n, s) = [a \in Node |->
            IF a = m THEN Sub(D, n)
            ELSE IF a = n THEN {n} \cup Sub(D, Child(t, s, n)) \cup Sub(D, Child(t, s, m))
            ELSE Sub(D, a)]
  BY DEF Swung
<1>3. Swung(t, D, n, s) \in Subtrees
  BY <1>1, <1>2 DEF Subtrees
<1>4. \A a : a \in Node => Sub(Swung(t, D, n, s), a) =
            IF a = m THEN Sub(D, n)
            ELSE IF a = n THEN {n} \cup Sub(D, Child(t, s, n)) \cup Sub(D, Child(t, s, m))
            ELSE Sub(D, a)
  BY <1>2, <1>3, SubIs
<1> QED
  BY <1>3, <1>4, SubIs

\* The links of the rotated tree r, and what is below its nodes.
Rotation(t, D, n, m, s, r, E) ==
    LET i == Child(t, s, m)
        p == Parent(t, n)
        h == Hangs(t, n)
        o == Other(s)
    IN  /\ r \in Trees /\ E \in Subtrees
        /\ m # n /\ m \in In(t, D) /\ i \in Cell /\ i # n /\ i # m
        /\ Root(r) = IF n = Root(t) THEN m ELSE Root(t)
        /\ m # Root(t)
        /\ n # Root(t) => /\ p \in Node /\ p \in In(t, D) /\ p # n /\ p # m
                          /\ Child(t, h, p) = n /\ Child(t, Other(h), p) # n
                          /\ Child(r, h, p) = m
                          /\ Child(r, Other(h), p) = Child(t, Other(h), p)
        /\ Child(r, s, m) = n /\ Child(r, o, m) = Child(t, o, m)
        /\ Child(r, o, n) = i /\ Child(r, s, n) = Child(t, s, n)
        /\ \A x, q : /\ x \in Node /\ q \in Side /\ x # n /\ x # m
                     /\ n # Root(t) => x # p
                     => Child(r, q, x) = Child(t, q, x)
        /\ \A x : x \in Cell => Parent(r, x) =
                     IF x = n THEN m ELSE IF x = m THEN p
                     ELSE IF x = i /\ i # Sentinel THEN n ELSE Parent(t, x)
        /\ \A x : x \in Cell => Red(r, x) = Red(t, x)
        /\ \A x : x \in Node => Key(r, x) = Key(t, x)
        /\ Sub(E, n) = {n} \cup Sub(D, Child(t, s, n)) \cup Sub(D, i)
        /\ Sub(E, m) = Sub(D, n)
        /\ \A a : a # n /\ a # m => Sub(E, a) = Sub(D, a)

\* Rotate is what Rotation says of the nodes of the tree.
LEMMA RotateIs ==
    ASSUME NEW t \in Trees, NEW D \in Subtrees, Shape(t, D), NEW s \in Side,
           NEW n \in Node, n \in In(t, D), NEW m \in Node, m = Child(t, Other(s), n),
           NEW r, r = Rotate(t, n, s), NEW E, E = Swung(t, D, n, s)
    PROVE  Rotation(t, D, n, m, s, r, E) /\ In(r, E) = In(t, D)
<1> DEFINE i == Child(t, s, m)
           p == Parent(t, n)
           h == Hangs(t, n)
           o == Other(s)
<1>1. /\ o \in Side /\ o # s /\ s = Other(o) /\ h \in Side /\ s \in Side
      /\ \A q \in Side : q = s \/ q = o
      /\ Other(h) \in Side /\ Other(h) # h /\ Other(Other(h)) = h
  BY Sides, HangsSide
<1>2. n # m /\ m \in In(t, D) /\ i \in Cell /\ i # n /\ i # m /\ n \notin Sub(D, m)
  BY Nested, ShapeFacts, SubIs, Sides DEF In
<1>3. n # Root(t) => /\ p \in Node /\ p \in In(t, D) /\ p \in Cell /\ p # n /\ p # m
                     /\ Child(t, h, p) = n /\ Child(t, Other(h), p) # n
  <2>1. SUFFICES ASSUME n # Root(t) PROVE p # n /\ p # m
    BY HangsFacts, Cells
  <2>2. p \in Node /\ Child(t, h, p) = n
    BY <2>1, HangsFacts
  <2> QED
    BY <1>1, <1>2, <2>2, ShapeFacts
<1>4. m # Root(t)
  BY <1>2 DEF In
<1>5. /\ r \in Trees
      /\ Root(r) = IF n = Root(t) THEN m ELSE Root(t)
      /\ \A x \in Cell : Parent(r, x) =
             IF x = n THEN m ELSE IF x = m THEN p
             ELSE IF x = i /\ i # Sentinel THEN n ELSE Parent(t, x)
      /\ \A x \in Cell, q \in Side : Child(r, q, x) =
             IF n # Root(t) /\ q = h /\ x = p THEN m
             ELSE IF x = m /\ q = s THEN n
             ELSE IF x = n /\ q = o THEN i
             ELSE Child(t, q, x)
      /\ \A x \in Cell : Red(r, x) = Red(t, x)
      /\ \A x \in Node : Key(r, x) = Key(t, x)
  BY <1>2, <1>3, RotateFields
<1>6. /\ Child(r, s, m) = n /\ Child(r, o, m) = Child(t, o, m)
      /\ Child(r, o, n) = i /\ Child(r, s, n) = Child(t, s, n)
      /\ n # Root(t) => Child(r, h, p) = m /\ Child(r, Other(h), p) = Child(t, Other(h), p)
  BY <1>1, <1>2, <1>3, <1>5, Cells
<1>7. \A x, q : /\ x \in Node /\ q \in Side /\ x # n /\ x # m
                /\ n # Root(t) => x # p
                => Child(r, q, x) = Child(t, q, x)
  BY <1>5, Cells
<1>8. /\ Sub(E, n) = {n} \cup Sub(D, Child(t, s, n)) \cup Sub(D, i)
      /\ Sub(E, m) = Sub(D, n)
      /\ \A a : a # n /\ a # m => Sub(E, a) = Sub(D, a)
  BY <1>2, SwungIs
<1>9. In(r, E) = In(t, D)
  BY <1>4, <1>5, <1>8 DEF In
<1>10. E \in Subtrees
  BY SwungIs
<1> QED
  BY <1>2, <1>3, <1>4, <1>5, <1>6, <1>7, <1>8, <1>9, <1>10 DEF Rotation

\* A rotation leaves a tree.
LEMMA RotateShape ==
    ASSUME NEW t \in Trees, NEW D \in Subtrees, Shape(t, D), NEW s \in Side,
           NEW n \in Node, n \in In(t, D), NEW m \in Node, m = Child(t, Other(s), n),
           NEW r, NEW E, Rotation(t, D, n, m, s, r, E), In(r, E) = In(t, D)
    PROVE  Shape(r, E)
<1> DEFINE i == Child(t, s, m)
           p == Parent(t, n)
           h == Hangs(t, n)
           o == Other(s)
<1>1. /\ o \in Side /\ o # s /\ s = Other(o) /\ h \in Side /\ s \in Side
      /\ \A q \in Side : q = s \/ q = o
      /\ Other(h) \in Side /\ Other(h) # h /\ Other(Other(h)) = h
  BY Sides, HangsSide
<1>2. n # m /\ m \in In(t, D) /\ i \in Cell /\ i # n /\ i # m /\ n \notin Sub(D, m)
  BY <1>1, ShapeFacts DEF Rotation
<1>3. n # Root(t) => /\ p \in Node /\ p \in In(t, D) /\ p \in Cell /\ p # n /\ p # m
                     /\ Child(t, h, p) = n /\ Child(t, Other(h), p) # n
  BY Cells DEF Rotation
<1>5. \A x \in Cell : Parent(r, x) =
             IF x = n THEN m ELSE IF x = m THEN p
             ELSE IF x = i /\ i # Sentinel THEN n ELSE Parent(t, x)
  BY DEF Rotation
<1>6. /\ Child(r, s, m) = n /\ Child(r, o, m) = Child(t, o, m)
      /\ Child(r, o, n) = i /\ Child(r, s, n) = Child(t, s, n)
      /\ n # Root(t) => Child(r, h, p) = m /\ Child(r, Other(h), p) = Child(t, Other(h), p)
  BY DEF Rotation
<1>7. \A x, q : /\ x \in Node /\ q \in Side /\ x # n /\ x # m
                /\ n # Root(t) => x # p
                => Child(r, q, x) = Child(t, q, x)
  BY DEF Rotation
<1>8. /\ Sub(E, n) = {n} \cup Sub(D, Child(t, s, n)) \cup Sub(D, i)
      /\ Sub(E, m) = Sub(D, n)
      /\ \A a : a # n /\ a # m => Sub(E, a) = Sub(D, a)
  BY DEF Rotation
<1>9. In(r, E) = In(t, D)
  OBVIOUS
<1> HIDE DEF i, p, h, o
<1>10. ASSUME NEW a \in Node, NEW q \in Side
       PROVE  LET l == Child(r, q, a)
                  k == Child(r, Other(q), a)
              IN  /\ Sub(E, a) = {a} \cup Sub(E, l) \cup Sub(E, k)
                  /\ a \notin Sub(E, l)
                  /\ Sub(E, l) \cap Sub(E, k) = {}
                  /\ l \in Node => Parent(r, l) = a /\ a \in In(r, E)
                  /\ a \in In(r, E) => l \in Cell
  <2> DEFINE c == Child(t, s, n)
             k == Child(t, o, m)
             w == Child(t, Other(h), p)
             l == Child(r, q, a)
             g == Child(r, Other(q), a)
  <2>1. /\ c # n /\ c # m /\ c \in Cell /\ (c \in Node => Parent(t, c) = n /\ c # i)
        /\ n \notin Sub(D, c) /\ n \notin Sub(D, i)
        /\ Sub(D, c) \cap Sub(D, m) = {} /\ Sub(D, i) \subseteq Sub(D, m)
        /\ i \in Node => i \in Sub(D, m)
    BY <1>1, <1>2, ShapeFacts, SubIs DEF i, o
  <2>2. CASE a = n
    <3>1. Sub(E, c) = Sub(D, c) /\ Sub(E, i) = Sub(D, i)
      BY <1>2, <1>8, <2>1
    <3>2. Parent(r, i) = n \/ i \notin Node
      BY <1>2, <1>5, Cells
    <3>3. Parent(r, c) = n \/ c \notin Node
      BY <1>2, <1>5, <2>1, Cells
    <3> QED
      BY <1>1, <1>2, <1>6, <1>8, <1>9, <2>1, <2>2, <3>1, <3>2, <3>3
  <2>3. CASE a = m
    <3>1. /\ k # n /\ k # m /\ k \in Cell /\ (k \in Node => Parent(t, k) = m /\ k # i)
          /\ m \notin Sub(D, k) /\ m \notin Sub(D, i) /\ Sub(D, i) \cap Sub(D, k) = {}
          /\ Sub(D, m) = {m} \cup Sub(D, i) \cup Sub(D, k)
          /\ Sub(D, n) = {n} \cup Sub(D, c) \cup Sub(D, m)
          /\ m \in Sub(D, m)
      BY <1>1, <1>2, ShapeFacts, SubIs DEF i, o
    <3>2. Sub(E, k) = Sub(D, k)
      BY <1>8, <3>1
    <3>3. Parent(r, n) = m /\ (Parent(r, k) = m \/ k \notin Node)
      BY <1>2, <1>5, <3>1, Cells
    <3>4. CASE q = s
      BY <1>1, <1>2, <1>6, <1>8, <1>9, <2>1, <2>3, <3>1, <3>2, <3>3, <3>4, Cells
    <3>5. CASE q = o
      BY <1>1, <1>2, <1>6, <1>8, <1>9, <2>1, <2>3, <3>1, <3>2, <3>3, <3>5, Cells
    <3> QED
      BY <1>1, <3>4, <3>5
  <2>4. CASE n # Root(t) /\ a = p
    <3>1. /\ w # n /\ w # m /\ w \in Cell /\ (w \in Node => Parent(t, w) = p /\ w # i)
          /\ p \notin Sub(D, w) /\ p \notin Sub(D, n) /\ Sub(D, n) \cap Sub(D, w) = {}
          /\ Sub(D, p) = {p} \cup Sub(D, n) \cup Sub(D, w)
      <4>1. /\ Sub(D, n) \cap Sub(D, w) = {} /\ p \notin Sub(D, w) /\ p \notin Sub(D, n)
            /\ Sub(D, p) = {p} \cup Sub(D, n) \cup Sub(D, w)
            /\ w \in Cell /\ (w \in Node => Parent(t, w) = p)
        BY <1>1, <1>3, <2>4, ShapeFacts
      <4>2. m \in Sub(D, n) /\ n \in Sub(D, n) /\ (i \in Node => i \in Sub(D, n))
        BY <1>1, <1>2, <2>1, ShapeFacts
      <4>3. w \in Node => w \in Sub(D, w)
        BY ShapeFacts
      <4> QED
        BY <4>1, <4>2, <4>3
    <3>2. Sub(E, w) = Sub(D, w) /\ Sub(E, p) = Sub(D, p)
      BY <1>3, <1>8, <2>4, <3>1
    <3>3. Parent(r, m) = p /\ (Parent(r, w) = p \/ w \notin Node)
      BY <1>2, <1>5, <3>1, Cells
    <3>4. CASE q = h
      BY <1>1, <1>3, <1>6, <1>8, <1>9, <2>4, <3>1, <3>2, <3>3, <3>4, Cells
    <3>5. CASE q = Other(h)
      BY <1>1, <1>3, <1>6, <1>8, <1>9, <2>4, <3>1, <3>2, <3>3, <3>5, Cells
    <3> QED
      BY <1>1, <3>4, <3>5, Sides
  <2>5. CASE a # n /\ a # m /\ (n # Root(t) => a # p)
    <3>1. l = Child(t, q, a) /\ g = Child(t, Other(q), a)
      BY <1>7, <2>5, Sides
    <3>2. ASSUME NEW v \in Side PROVE Child(t, v, a) # n /\ Child(t, v, a) # m
                                      /\ (Child(t, v, a) \in Node => Child(t, v, a) # i)
      <4>1. Child(t, v, a) # m
        BY <1>1, <2>5, ShapeFacts DEF o
      <4>2. Child(t, v, a) \in Node => Child(t, v, a) # i
        BY <1>1, <2>5, ShapeFacts DEF i
      <4>3. ASSUME Child(t, v, a) = n PROVE FALSE
        <5>1. a \in In(t, D) /\ Parent(t, n) = a
          BY <4>3, ShapeFacts
        <5>2. n = Root(t)
          BY <2>5, <5>1 DEF p
        <5>3. n \in Sub(D, a) /\ a \in Sub(D, n)
          BY <4>3, <5>1, <5>2, ShapeFacts DEF In
        <5> QED
          BY <2>5, <5>3, Antisymmetric
      <4> QED
        BY <4>1, <4>2, <4>3
    <3>3. Sub(E, l) = Sub(D, l) /\ Sub(E, g) = Sub(D, g) /\ Sub(E, a) = Sub(D, a)
      BY <1>8, <2>5, <3>1, <3>2, Sides
    <3>4. l \in Node => Parent(r, l) = Parent(t, l)
      BY <1>5, <3>1, <3>2, Cells
    <3> QED
      BY <1>9, <3>1, <3>3, <3>4 DEF Shape
  <2> QED
    BY <2>2, <2>3, <2>4, <2>5
<1> QED
  BY <1>10 DEF Shape

-----------------------------------------------------------------------------
(***************************************************************************)
(* Below and Min, which count generations, say what the shape says.        *)
(***************************************************************************)

\* The generations that Below counts.
Generation(t, g, i) ==
    [x \in Node \cup {Sentinel, Null} |->
        IF i = 0 \/ x \notin Node THEN {}
        ELSE {x} \cup g[i - 1][Left(t, x)] \cup g[i - 1][Right(t, x)]]

\* The function that Below recurs by exists.
LEMMA BelowRecursion ==
    ASSUME NEW t, NEW N \in Nat
    PROVE  \E g : g = [i \in 0..N |-> Generation(t, g, i)]
<1> DEFINE Some(k) == \E g : g = [i \in 0..k |-> Generation(t, g, i)]
           S == {k \in Nat : Some(k)}
<1>1. Some(0)
  <2> DEFINE g == [i \in 0..0 |-> [x \in Node \cup {Sentinel, Null} |-> {}]]
  <2>1. \A i \in 0..0 : Generation(t, g, i) = [x \in Node \cup {Sentinel, Null} |-> {}]
    BY DEF Generation
  <2> QED
    BY <2>1
<1>2. ASSUME NEW k \in Nat, Some(k) PROVE Some(k + 1)
  <2>1. PICK f : f = [i \in 0..k |-> Generation(t, f, i)]
    BY <1>2
  <2> DEFINE g == [i \in 0..(k + 1) |-> IF i \in 0..k THEN f[i] ELSE Generation(t, f, i)]
  <2>2. \A i \in 0..k : g[i] = f[i]
    OBVIOUS
  <2>3. ASSUME NEW i \in 0..(k + 1) PROVE Generation(t, g, i) = Generation(t, f, i)
    <3>1. i = 0 \/ i - 1 \in 0..k
      OBVIOUS
    <3> HIDE DEF g
    <3> QED
      BY <2>2, <3>1 DEF Generation
  <2>4. \A i \in 0..k : f[i] = Generation(t, f, i)
    BY <2>1
  <2>5. g = [i \in 0..(k + 1) |-> Generation(t, g, i)]
    <3>1. \A i \in 0..(k + 1) : g[i] = Generation(t, g, i)
      BY <2>3, <2>4
    <3> HIDE DEF Generation
    <3> QED
      BY <3>1, Zenon
  <2> HIDE DEF g
  <2> QED
    BY <2>5
<1> HIDE DEF Some
<1>3. Nat \subseteq S
  <2>1. 0 \in S
    BY <1>1
  <2>2. \A k \in Nat : k \in S => k + 1 \in S
    BY <1>2
  <2> HIDE DEF S
  <2> QED
    BY <2>1, <2>2, Induction
<1> QED
  BY <1>3 DEF Some

\* Below is the value of that function after as many generations as nodes.
LEMMA BelowIs ==
    ASSUME NEW t
    PROVE  \E g : /\ g = [i \in 0..Cardinality(Node) |-> Generation(t, g, i)]
                  /\ \A n : Below(t, n) = g[Cardinality(Node)][n]
<1>1. \E g : g = [i \in 0..Cardinality(Node) |-> Generation(t, g, i)]
  BY BelowRecursion, NodeAssumption, FS_CardinalityType
<1> QED
  BY <1>1 DEF Below, Generation

\* Left and Right, in terms of Child.
LEMMA LeftIs == \A t, n : Left(t, n) = Child(t, "left", n) /\ Right(t, n) = Child(t, "right", n)
BY DEF Left, Right, Child

\* The nodes of g's generation i under x.
Kin(g, i, x) == g[i][x]

\* In a tree, Below is what the shape says is below.
LEMMA BelowIsSub ==
    ASSUME NEW t \in Trees, NEW D \in Subtrees, Shape(t, D)
    PROVE  \A x \in Place : Below(t, x) = Sub(D, x)
<1> DEFINE N == Cardinality(Node)
<1>1. N \in Nat
  BY NodeAssumption, FS_CardinalityType
<1>2. PICK g : /\ g = [i \in 0..N |-> Generation(t, g, i)]
               /\ \A n : Below(t, n) = g[N][n]
  BY BelowIs
<1> HIDE DEF N
<1>3. \A i, x : i \in 0..N /\ x \in Place => Kin(g, i, x) =
              IF i = 0 \/ x \notin Node THEN {}
              ELSE {x} \cup Kin(g, i - 1, Child(t, "left", x))
                       \cup Kin(g, i - 1, Child(t, "right", x))
  <2>1. \A i \in 0..N : g[i] = Generation(t, g, i)
    BY <1>2, Zenon
  <2>2. ASSUME NEW i \in 0..N, NEW x \in Place
        PROVE  g[i][x] = IF i = 0 \/ x \notin Node THEN {}
                         ELSE {x} \cup g[i - 1][Left(t, x)] \cup g[i - 1][Right(t, x)]
    <3>1. g[i] = Generation(t, g, i)
      BY <2>1
    <3>2. Generation(t, g, i)[x] = IF i = 0 \/ x \notin Node THEN {}
                         ELSE {x} \cup g[i - 1][Left(t, x)] \cup g[i - 1][Right(t, x)]
      BY Zenon DEF Generation, Place, Cell
    <3> QED
      BY <3>1, <3>2, Zenon
  <2> QED
    BY <2>2, LeftIs, Zenon DEF Kin
<1> DEFINE Same(k) == \A x : /\ k \in 0..N /\ x \in Place /\ Cardinality(Sub(D, x)) <= k
                             => Kin(g, k, x) = Sub(D, x)
           S == {k \in Nat : Same(k)}
<1>4. ASSUME NEW x, x \in Node, NEW s \in Side
      PROVE  /\ Child(t, s, x) \in Place
             /\ Cardinality(Sub(D, Child(t, s, x))) + 1 <= Cardinality(Sub(D, x))
  <2> DEFINE y == Child(t, s, x)
  <2>1. Sub(D, y) \subseteq Sub(D, x) /\ x \in Sub(D, x) /\ x \notin Sub(D, y)
    BY <1>4, ShapeFacts
  <2>2. y \in Place
    BY <1>4, TreeFields, Cells
  <2> HIDE DEF y
  <2>3. /\ Cardinality(Sub(D, y)) <= Cardinality(Sub(D, x))
        /\ Cardinality(Sub(D, y)) # Cardinality(Sub(D, x))
    BY <2>1, FS_Subset, SubIs
  <2> QED
    BY <2>2, <2>3, SubIs DEF y
<1>5. ASSUME NEW k \in Nat, k = 0 \/ Same(k - 1) PROVE Same(k)
  <2> SUFFICES ASSUME NEW x, k \in 0..N, x \in Place, Cardinality(Sub(D, x)) <= k
               PROVE  Kin(g, k, x) = Sub(D, x)
    OBVIOUS
  <2>1. CASE x \notin Node
    BY <1>3, <2>1, SubIs
  <2>2. CASE x \in Node
    <3>1. /\ Child(t, "left", x) \in Place /\ Child(t, "right", x) \in Place
          /\ Cardinality(Sub(D, Child(t, "left", x))) + 1 <= Cardinality(Sub(D, x))
          /\ Cardinality(Sub(D, Child(t, "right", x))) + 1 <= Cardinality(Sub(D, x))
      BY <1>4, <2>2, Sides
    <3>2. /\ Cardinality(Sub(D, x)) \in Nat /\ Cardinality(Sub(D, Child(t, "left", x))) \in Nat
          /\ Cardinality(Sub(D, Child(t, "right", x))) \in Nat
      BY SubIs
    <3>3. k # 0 /\ k - 1 \in 0..N
      BY <1>1, <3>1, <3>2
    <3>4. /\ Kin(g, k - 1, Child(t, "left", x)) = Sub(D, Child(t, "left", x))
          /\ Kin(g, k - 1, Child(t, "right", x)) = Sub(D, Child(t, "right", x))
      BY <1>5, <3>1, <3>2, <3>3
    <3>5. Sub(D, x) = {x} \cup Sub(D, Child(t, "left", x)) \cup Sub(D, Child(t, "right", x))
      BY <2>2, Sides DEF Shape
    <3> QED
      BY <1>3, <2>2, <3>3, <3>4, <3>5
  <2> QED
    BY <2>1, <2>2
<1> HIDE DEF Same
<1>6. Nat \subseteq S
  <2>1. 0 \in S
    BY <1>5
  <2>2. \A k \in Nat : k \in S => k + 1 \in S
    <3> SUFFICES ASSUME NEW k \in Nat, Same(k) PROVE Same(k + 1)
      OBVIOUS
    <3>1. k + 1 \in Nat /\ (k + 1) - 1 = k
      OBVIOUS
    <3> QED
      BY <1>5, <3>1
  <2> HIDE DEF S
  <2> QED
    BY <2>1, <2>2, Induction
<1>7. Same(N)
  BY <1>1, <1>6
<1> SUFFICES ASSUME NEW x \in Place PROVE Below(t, x) = Sub(D, x)
  OBVIOUS
<1>8. Cardinality(Sub(D, x)) <= N
  BY SubIs, FS_Subset, NodeAssumption DEF N
<1>9. Below(t, x) = Kin(g, N, x)
  BY <1>2, Zenon DEF Kin
<1> QED
  BY <1>1, <1>7, <1>8, <1>9 DEF Same

\* z is the leftmost node below x.
IsFirst(t, D, x, z) ==
    /\ z \in Sub(D, x)
    /\ Child(t, "left", z) \notin Node
    /\ \A a : a \in Sub(D, x) => z \notin Sub(D, Child(t, "right", a))

\* The leftmost node below x is found one level down, or it is x.
LEMMA FirstStep ==
    ASSUME NEW t, NEW D \in Subtrees, Shape(t, D), NEW x, x \in Node, NEW z
    PROVE  IsFirst(t, D, x, z) <=>
              IF Child(t, "left", x) \in Node THEN IsFirst(t, D, Child(t, "left", x), z)
              ELSE z = x
<1> DEFINE l == Child(t, "left", x)
           r == Child(t, "right", x)
<1>1. /\ \A y : y \in Sub(D, x) <=> y = x \/ y \in Sub(D, l) \/ y \in Sub(D, r)
      /\ \A y : y \in Sub(D, l) => y \notin Sub(D, r)
      /\ x \notin Sub(D, l) /\ x \notin Sub(D, r)
  BY ShapeFacts, Sides
<1> HIDE DEF l, r
<1>2. ASSUME l \in Node, IsFirst(t, D, x, z) PROVE IsFirst(t, D, l, z)
  BY <1>1, <1>2 DEF IsFirst, l, r
<1>3. ASSUME l \in Node, IsFirst(t, D, l, z) PROVE IsFirst(t, D, x, z)
  <2> SUFFICES ASSUME NEW a, a \in Sub(D, x), z \in Sub(D, Child(t, "right", a)) PROVE FALSE
    BY <1>1, <1>3 DEF IsFirst
  <2>1. z \in Sub(D, l) /\ a \notin Sub(D, l)
    BY <1>3 DEF IsFirst
  <2>2. CASE a = x
    BY <1>1, <2>1, <2>2 DEF r
  <2>3. CASE a \in Sub(D, r)
    <3>1. z \in Sub(D, a)
      BY <2>3, ShapeFacts, SubIs, Sides
    <3>2. z \in Sub(D, r)
      BY <2>3, <3>1, Nested
    <3> QED
      BY <1>1, <2>1, <3>2
  <2> QED
    BY <1>1, <2>1, <2>2, <2>3
<1>4. ASSUME l \notin Node, IsFirst(t, D, x, z) PROVE z = x
  <2>1. Sub(D, l) = {}
    BY <1>4, SubIs
  <2> QED
    BY <1>1, <1>4, <2>1, ShapeFacts DEF IsFirst, r
<1>5. ASSUME l \notin Node PROVE IsFirst(t, D, x, x)
  <2> SUFFICES ASSUME NEW a, a \in Sub(D, x), x \in Sub(D, Child(t, "right", a)) PROVE FALSE
    BY <1>1, <1>5 DEF IsFirst, l
  <2>1. a \in Node /\ x \in Sub(D, a)
    BY ShapeFacts, SubIs, Sides
  <2>2. a = x
    BY <2>1, Antisymmetric
  <2> QED
    BY <1>1, <2>2 DEF r
<1> QED
  BY <1>2, <1>3, <1>4, <1>5 DEF l

\* Below each node there is one leftmost node.
LEMMA OneFirst ==
    ASSUME NEW t, NEW D \in Subtrees, Shape(t, D)
    PROVE  \A x \in Node : \E z : \A y : IsFirst(t, D, x, y) <=> y = z
<1> DEFINE S == {x \in Node : \E z : \A y : IsFirst(t, D, x, y) <=> y = z}
<1>1. ASSUME NEW x \in Node, \A s \in Side : Child(t, s, x) \in Node => Child(t, s, x) \in S
      PROVE  x \in S
  <2>1. CASE Child(t, "left", x) \in Node
    <3>1. PICK z : \A y : IsFirst(t, D, Child(t, "left", x), y) <=> y = z
      BY <1>1, <2>1, Sides
    <3> QED
      BY <2>1, <3>1, FirstStep
  <2>2. CASE Child(t, "left", x) \notin Node
    <3>1. \A y : IsFirst(t, D, x, y) <=> y = x
      BY <2>2, FirstStep
    <3> QED
      BY <3>1
  <2> QED
    BY <2>1, <2>2
<1> HIDE DEF S
<1>2. Node \subseteq S
  BY <1>1, SubtreeInduction
<1> QED
  BY <1>2 DEF S

\* The loop of Min ends at the leftmost node.
LEMMA MinIs ==
    ASSUME NEW t \in Trees, NEW D \in Subtrees, Shape(t, D)
    PROVE  \A x \in Node : IsFirst(t, D, x, Min(t, x))
<1> DEFINE f == [x \in Node |-> CHOOSE z : IsFirst(t, D, x, z)]
<1>1. ASSUME NEW x \in Node PROVE IsFirst(t, D, x, f[x]) /\ \A y : IsFirst(t, D, x, y) => y = f[x]
  BY OneFirst
<1>2. ASSUME NEW x \in Node
      PROVE  f[x] = IF Left(t, x) \in Node THEN f[Left(t, x)] ELSE x
  <2> HIDE DEF f
  <2> QED
    BY <1>1, FirstStep, LeftIs
<1>3. f = [x \in Node |-> IF Left(t, x) \in Node THEN f[Left(t, x)] ELSE x]
  <2>1. f = [x \in Node |-> f[x]]
    OBVIOUS
  <2> HIDE DEF f
  <2> QED
    BY <1>2, <2>1
<1> HIDE DEF f
<1>4. \E m : m = [x \in Node |-> IF Left(t, x) \in Node THEN m[Left(t, x)] ELSE x]
  BY <1>3
<1>5. PICK m : /\ m = [x \in Node |-> IF Left(t, x) \in Node THEN m[Left(t, x)] ELSE x]
               /\ \A x : Min(t, x) = m[x]
  BY <1>4 DEF Min
<1>6. \A x \in Node : m[x] = IF Left(t, x) \in Node THEN m[Left(t, x)] ELSE x
  BY <1>5, Zenon
<1> DEFINE S == {x \in Node : IsFirst(t, D, x, m[x])}
<1>7. ASSUME NEW x \in Node, \A s \in Side : Child(t, s, x) \in Node => Child(t, s, x) \in S
      PROVE  x \in S
  <2>1. CASE Child(t, "left", x) \in Node
    BY <1>6, <1>7, <2>1, FirstStep, LeftIs, Sides
  <2>2. CASE Child(t, "left", x) \notin Node
    BY <1>6, <1>7, <2>2, FirstStep, LeftIs
  <2> QED
    BY <2>1, <2>2
<1> HIDE DEF S
<1>8. Node \subseteq S
  BY <1>7, SubtreeInduction
<1> QED
  BY <1>5, <1>8 DEF S

-----------------------------------------------------------------------------
(***************************************************************************)
(* Order: keys that can be compared, and a rotation of them.               *)
(***************************************************************************)

\* The keys: millisecond times, as wide as a word.
Keys == 0..(Msecs - 1)

\* The remainder of a difference of two keys.
LEMMA Modulus ==
    ASSUME NEW M, M \in Nat \ {0}, NEW x, x \in Int, -M <= x, x < M
    PROVE  x % M = IF x < 0 THEN x + M ELSE x
<1>1. CASE x < 0
  <2>1. x + M \in Nat /\ x + M < M
    BY <1>1
  <2> QED
    BY <1>1, <2>1
<1>2. CASE 0 <= x
  BY <1>2
<1> QED
  BY <1>1, <1>2

\* j is not after k.
Upto(j, k) == ~Before(k, j)

\* How far a key is after b.
After(b, k) == (k - b) % Msecs

\* Before, without a remainder: the difference is in the upper half of a word.
LEMMA BeforeIs ==
    ASSUME NEW j \in Keys, NEW k \in Keys
    PROVE  Before(j, k) <=> 2 * (IF j < k THEN j - k + Msecs ELSE j - k) >= Msecs
<1>1. Msecs \in Nat \ {0} /\ j \in Int /\ k \in Int /\ -Msecs <= j - k /\ j - k < Msecs
  BY KeysAssumption DEF Keys
<1>2. (j - k) % Msecs = IF j - k < 0 THEN j - k + Msecs ELSE j - k
  <2> DEFINE x == j - k
  <2>1. x \in Int
    BY <1>1
  <2> HIDE DEF x
  <2> QED
    BY <1>1, <2>1, Modulus DEF x
<1> QED
  BY <1>1, <1>2 DEF Before

\* After, without a remainder.
LEMMA AfterIs ==
    ASSUME NEW b \in Keys, NEW k \in Keys
    PROVE  After(b, k) = IF k < b THEN k - b + Msecs ELSE k - b
<1>1. Msecs \in Nat \ {0} /\ k \in Int /\ b \in Int /\ -Msecs <= k - b /\ k - b < Msecs
  BY KeysAssumption DEF Keys
<1> DEFINE x == k - b
<1>2. x \in Int
  BY <1>1
<1>3. x % Msecs = IF x < 0 THEN x + Msecs ELSE x
  <2> HIDE DEF x
  <2> QED
    BY <1>1, <1>2, Modulus DEF x
<1> QED
  BY <1>1, <1>3 DEF After

\* Of keys within half of the word after b, the nearer to b comes before.
LEMMA BeforeAfter ==
    ASSUME NEW b \in Keys, NEW j \in Keys, NEW k \in Keys,
           2 * After(b, j) < Msecs, 2 * After(b, k) < Msecs
    PROVE  Before(j, k) <=> After(b, j) < After(b, k)
<1>1. /\ Msecs \in Nat \ {0} /\ b \in Int /\ j \in Int /\ k \in Int
      /\ 0 <= b /\ b < Msecs /\ 0 <= j /\ j < Msecs /\ 0 <= k /\ k < Msecs
  BY KeysAssumption DEF Keys
<1>2. /\ After(b, j) = IF j < b THEN j - b + Msecs ELSE j - b
      /\ After(b, k) = IF k < b THEN k - b + Msecs ELSE k - b
  BY AfterIs
<1>3. Before(j, k) <=> 2 * (IF j < k THEN j - k + Msecs ELSE j - k) >= Msecs
  BY BeforeIs
<1> QED
  BY <1>1, <1>2, <1>3

\* Together, keys are in order.
LEMMA TogetherOrder ==
    ASSUME NEW K, K \subseteq Keys, Together(K)
    PROVE  /\ \A j, k : j \in K /\ k \in K => Upto(j, k) \/ Upto(k, j)
           /\ \A j, k : j \in K /\ k \in K /\ Before(j, k) => Upto(j, k)
           /\ \A j : j \in K => Upto(j, j)
           /\ \A i, j, k : i \in K /\ j \in K /\ k \in K /\ Upto(i, j) /\ Upto(j, k) => Upto(i, k)
<1>1. PICK b \in Keys : \A k \in K : 2 * After(b, k) < Msecs
  BY DEF Together, After, Keys
<1>2. \A k \in K : After(b, k) \in Int
  BY <1>1, AfterIs, KeysAssumption DEF Keys
<1>3. \A j, k : j \in K /\ k \in K => (Before(j, k) <=> After(b, j) < After(b, k))
  BY <1>1, BeforeAfter
<1> QED
  BY <1>2, <1>3 DEF Upto

\* A node on side s with key j of a node with key k is in order.
Sorted(s, j, k) == IF s = "left" THEN Upto(j, k) ELSE Upto(k, j)

\* The keys of the nodes S.
KeysIn(t, S) == {Key(t, n) : n \in S}

\* What is on each side of a node belongs on that side.
Order(t, D) ==
    \A n, s, m : n \in In(t, D) /\ s \in Side /\ m \in Sub(D, Child(t, s, n))
        => Sorted(s, Key(t, m), Key(t, n))

\* On keys that are together, each side orders by a total preorder.
LEMMA SortedOrder ==
    ASSUME NEW K, K \subseteq Keys, Together(K)
    PROVE  /\ \A s, j, k : s \in Side => (Sorted(Other(s), j, k) <=> Sorted(s, k, j))
           /\ \A s, i, j, k : /\ s \in Side /\ i \in K /\ j \in K /\ k \in K
                              /\ Sorted(s, i, j) /\ Sorted(s, j, k)
                              => Sorted(s, i, k)
           /\ \A s, j : s \in Side /\ j \in K => Sorted(s, j, j)
<1>1. "left" # "right" /\ \A s \in Side : s = "left" \/ s = "right"
  BY DEF Side
<1>2. \A i, j, k : i \in K /\ j \in K /\ k \in K /\ Upto(i, j) /\ Upto(j, k) => Upto(i, k)
  BY TogetherOrder
<1>3. \A j : j \in K => Upto(j, j)
  BY TogetherOrder
<1> QED
  BY <1>1, <1>2, <1>3, Sides DEF Sorted

\* Some of the keys that are together are together.
LEMMA TogetherSubset ==
    ASSUME NEW K, Together(K), NEW L, L \subseteq K
    PROVE  Together(L)
BY DEF Together

\* What is below the three subtrees that a rotation moves, and below all others.
LEMMA RotateSubs ==
    ASSUME NEW t, NEW D \in Subtrees, Shape(t, D), NEW s \in Side,
           NEW n \in Node, n \in In(t, D), NEW m \in Node, m = Child(t, Other(s), n),
           NEW r, NEW E, Rotation(t, D, n, m, s, r, E)
    PROVE  /\ Sub(E, Child(t, s, n)) = Sub(D, Child(t, s, n))
           /\ Sub(E, Child(t, s, m)) = Sub(D, Child(t, s, m))
           /\ Sub(E, Child(t, Other(s), m)) = Sub(D, Child(t, Other(s), m))
           /\ \A a, q : a \in Node /\ q \in Side /\ a # n /\ a # m
                 => Sub(E, Child(r, q, a)) = Sub(D, Child(t, q, a))
<1>1. \A a : a # n /\ a # m => Sub(E, a) = Sub(D, a)
  BY DEF Rotation
<1>2. \A a, q : a \in Node /\ q \in Side /\ Child(t, q, a) = m => a = n
  BY ShapeFacts, Sides
<1>3. \A a, q : a \in Node /\ q \in Side /\ Child(t, q, a) = n => a = Parent(t, n) /\ a \in In(t, D)
  BY ShapeFacts
<1>4. Child(t, s, n) # n /\ Child(t, s, m) # n /\ Child(t, Other(s), m) # n
  BY ShapeFacts, Sides
<1>5. Child(t, s, n) # m
  BY ShapeFacts, Sides
<1>6. Child(t, s, m) # m /\ Child(t, Other(s), m) # m
  BY ShapeFacts, Sides
<1>7. ASSUME NEW a, NEW q, a \in Node, q \in Side, a # n, a # m
      PROVE  Sub(E, Child(r, q, a)) = Sub(D, Child(t, q, a))
  <2>1. CASE n # Root(t) /\ a = Parent(t, n)
    <3>1. CASE q = Hangs(t, n)
      BY <2>1, <3>1 DEF Rotation
    <3>2. CASE q = Other(Hangs(t, n))
      BY <1>1, <1>2, <1>7, <2>1, <3>2 DEF Rotation
    <3> QED
      BY <1>7, <3>1, <3>2, Sides, HangsSide
  <2>2. CASE n # Root(t) => a # Parent(t, n)
    <3>1. Child(r, q, a) = Child(t, q, a)
      BY <1>7, <2>2 DEF Rotation
    <3>2. Child(t, q, a) # m
      BY <1>2, <1>7
    <3>3. ASSUME Child(t, q, a) = n PROVE FALSE
      <4>1. a \in In(t, D) /\ a = Parent(t, n) /\ n = Root(t)
        BY <1>3, <1>7, <2>2, <3>3
      <4>2. n \in Sub(D, a) /\ a \in Sub(D, n)
        BY <1>7, <3>3, <4>1, ShapeFacts DEF In
      <4> QED
        BY <1>7, <4>2, Antisymmetric
    <3> QED
      BY <1>1, <3>1, <3>2, <3>3
  <2> QED
    BY <2>1, <2>2
<1> QED
  BY <1>1, <1>4, <1>5, <1>6, <1>7

\* A set of nodes' keys are keys.
LEMMA KeysAre ==
    ASSUME NEW t \in Trees, NEW S, S \subseteq Node
    PROVE  KeysIn(t, S) \subseteq Keys /\ \A x : x \in S => Key(t, x) \in KeysIn(t, S)
BY TreeFields DEF KeysIn, Keys

\* A rotation leaves the keys in order.
LEMMA RotateOrder ==
    ASSUME NEW t \in Trees, NEW D \in Subtrees, Shape(t, D), NEW s \in Side,
           NEW n \in Node, n \in In(t, D), NEW m \in Node, m = Child(t, Other(s), n),
           NEW r, NEW E, Rotation(t, D, n, m, s, r, E), In(r, E) = In(t, D),
           Order(t, D), Together(KeysIn(t, In(t, D)))
    PROVE  Order(r, E)
<1> DEFINE I == In(t, D)
           K == KeysIn(t, I)
           i == Child(t, s, m)
           c == Child(t, s, n)
           o == Other(s)
<1>1. /\ o \in Side /\ s = Other(o) /\ s \in Side /\ \A q \in Side : q = s \/ q = o
  BY Sides
<1>2. I \subseteq Node /\ K \subseteq Keys /\ \A x \in I : Key(t, x) \in K
  BY SubIs, KeysAre DEF In
<1>3. m \in I /\ \A x : x \in Sub(D, n) => x \in I
  BY Nested DEF Rotation, In
<1>4. \A x \in I : Key(r, x) = Key(t, x)
  BY <1>2 DEF Rotation
<1>5. /\ m \in Sub(D, Child(t, o, n)) /\ m \in Sub(D, m) /\ n \in Sub(D, n)
      /\ Sub(D, c) \subseteq Sub(D, n) /\ Sub(D, m) \subseteq Sub(D, n)
      /\ Sub(D, i) \subseteq Sub(D, m)
  BY <1>1, ShapeFacts
<1>6. /\ Sub(E, c) = Sub(D, c) /\ Sub(E, i) = Sub(D, i)
      /\ Sub(E, Child(t, o, m)) = Sub(D, Child(t, o, m))
      /\ Sub(E, n) = {n} \cup Sub(D, c) \cup Sub(D, i)
      /\ Child(r, s, m) = n /\ Child(r, o, m) = Child(t, o, m)
      /\ Child(r, o, n) = i /\ Child(r, s, n) = c
      /\ \A a, q : a \in Node /\ q \in Side /\ a # n /\ a # m
            => Sub(E, Child(r, q, a)) = Sub(D, Child(t, q, a))
  BY RotateSubs DEF Rotation
<1>7. /\ \A x : x \in Sub(D, c) => Sorted(s, Key(t, x), Key(t, n))
      /\ \A x : x \in Sub(D, m) => Sorted(o, Key(t, x), Key(t, n))
      /\ \A x : x \in Sub(D, i) => Sorted(s, Key(t, x), Key(t, m))
  BY <1>1, <1>3, <1>5 DEF Order
<1>8. /\ Sorted(s, Key(t, n), Key(t, m))
      /\ \A x : x \in Sub(D, c) => Sorted(s, Key(t, x), Key(t, m))
  <2>1. Sorted(s, Key(t, n), Key(t, m))
    BY <1>1, <1>2, <1>5, <1>7, SortedOrder
  <2>2. \A x : x \in Sub(D, c) => Key(t, x) \in K /\ Key(t, n) \in K /\ Key(t, m) \in K
    BY <1>2, <1>3, <1>5
  <2> HIDE DEF K, I, c
  <2> QED
    BY <1>1, <1>2, <1>7, <2>1, <2>2, SortedOrder DEF K, I
<1> SUFFICES ASSUME NEW a, NEW q, NEW x, a \in In(r, E), q \in Side, x \in Sub(E, Child(r, q, a))
             PROVE  Sorted(q, Key(r, x), Key(r, a))
  BY DEF Order
<1>9. a \in I /\ a \in Node
  BY <1>2
<1>10. Sorted(q, Key(t, x), Key(t, a)) /\ x \in I
  <2>1. CASE a = n /\ q = s
    BY <1>3, <1>5, <1>6, <1>7, <2>1
  <2>2. CASE a = n /\ q = o
    BY <1>3, <1>5, <1>6, <1>7, <2>2
  <2>3. CASE a = m /\ q = s
    BY <1>3, <1>5, <1>6, <1>7, <1>8, <2>3
  <2>4. CASE a = m /\ q = o
    <3>1. x \in Sub(D, Child(t, o, m)) /\ x \in Sub(D, m)
      BY <1>1, <1>6, <2>4, ShapeFacts
    <3> QED
      BY <1>1, <1>3, <1>5, <2>4, <3>1 DEF Order
  <2>5. CASE a # n /\ a # m
    <3>1. x \in Sub(D, Child(t, q, a)) /\ x \in Sub(D, a)
      BY <1>6, <1>9, <2>5, ShapeFacts
    <3>2. x \in I
      BY <1>9, <3>1, Nested DEF In
    <3> QED
      BY <1>9, <3>1, <3>2 DEF Order
  <2> QED
    BY <1>1, <2>1, <2>2, <2>3, <2>4, <2>5
<1> QED
  BY <1>4, <1>9, <1>10

\* A rotation leaves the leftmost node leftmost.
LEMMA RotateFirst ==
    ASSUME NEW t \in Trees, NEW D \in Subtrees, Shape(t, D), NEW s \in Side,
           NEW n \in Node, n \in In(t, D), NEW m \in Node, m = Child(t, Other(s), n),
           NEW r, NEW E, Rotation(t, D, n, m, s, r, E), In(r, E) = In(t, D),
           NEW z, IsFirst(t, D, Root(t), z)
    PROVE  IsFirst(r, E, Root(r), z)
<1> DEFINE I == In(t, D)
           o == Other(s)
           c == Child(t, s, n)
           i == Child(t, s, m)
           k == Child(t, o, m)
<1>1. /\ z \in I /\ Child(t, "left", z) \notin Node
      /\ \A a : a \in I => z \notin Sub(D, Child(t, "right", a))
  BY DEF IsFirst, In
<1>2. /\ "left" \in Side /\ "right" \in Side /\ o \in Side
      /\ ((s = "left" /\ o = "right") \/ (s = "right" /\ o = "left"))
  <2>1. s = "left" \/ s = "right"
    BY DEF Side
  <2> QED
    BY <2>1, Sides
<1>3. I \subseteq Node /\ z \in Node /\ m \in I
  BY <1>1, SubIs DEF In, Rotation
<1>4. /\ Sub(E, c) = Sub(D, c) /\ Sub(E, i) = Sub(D, i) /\ Sub(E, k) = Sub(D, k)
      /\ Sub(E, n) = {n} \cup Sub(D, c) \cup Sub(D, i)
      /\ Child(r, s, m) = n /\ Child(r, o, m) = k
      /\ Child(r, o, n) = i /\ Child(r, s, n) = c
      /\ \A a, q : a \in Node /\ q \in Side /\ a # n /\ a # m
            => Sub(E, Child(r, q, a)) = Sub(D, Child(t, q, a))
  BY RotateSubs DEF Rotation
<1>5. /\ Sub(D, m) = {m} \cup Sub(D, i) \cup Sub(D, k)
      /\ Child(t, o, n) = m
  BY <1>2, Sides DEF Shape
<1> HIDE DEF c, i, k, o
<1>6. Child(r, "left", z) \notin Node
  <2> SUFFICES ASSUME Child(r, "left", z) \in Node PROVE FALSE
    OBVIOUS
  <2>1. CASE z = n
    <3>1. s = "left" => Child(t, "left", n) \in Node
      BY <1>4, <2>1 DEF c
    <3>2. s = "right" => Child(t, "left", n) \in Node
      BY <1>2, <1>5
    <3> QED
      BY <1>1, <1>2, <2>1, <3>1, <3>2
  <2>2. CASE z = m
    <3>1. s = "right" => Child(t, "left", m) \in Node
      BY <1>2, <1>4, <2>2 DEF k
    <3>2. s = "left" => m \in Sub(D, Child(t, "right", n))
      BY <1>2, <1>5
    <3> QED
      BY <1>1, <1>2, <2>2, <3>1, <3>2
  <2>3. CASE z # n /\ z # m
    <3>1. Sub(E, Child(r, "left", z)) = Sub(D, Child(t, "left", z))
      BY <1>2, <1>3, <1>4, <2>3
    <3>2. Sub(D, Child(t, "left", z)) = {}
      BY <1>1, SubIs
    <3>3. Child(r, "left", z) \in {n, m} \/ Child(r, "left", z) = Child(t, "left", z)
      <4>1. CASE n # Root(t) /\ z = Parent(t, n)
        <5>1. "left" = Hangs(t, n) \/ "left" = Other(Hangs(t, n))
          BY HangsSide, Sides
        <5> QED
          BY <4>1, <5>1 DEF Rotation
      <4>2. CASE n # Root(t) => z # Parent(t, n)
        BY <1>2, <1>3, <2>3, <4>2 DEF Rotation
      <4> QED
        BY <4>1, <4>2
    <3>4. Sub(E, n) # {} /\ Sub(E, m) # {}
      BY ShapeFacts DEF Rotation
    <3> QED
      BY <1>1, <3>1, <3>2, <3>3, <3>4
  <2> QED
    BY <2>1, <2>2, <2>3
<1>7. ASSUME NEW a, a \in I, z \in Sub(E, Child(r, "right", a)) PROVE FALSE
  <2>1. CASE a = n
    <3>1. s = "right" => z \in Sub(D, Child(t, "right", n))
      BY <1>4, <1>7, <2>1 DEF c
    <3>2. s = "left" => z \in Sub(D, Child(t, "right", n))
      BY <1>2, <1>4, <1>5, <1>7, <2>1
    <3> QED
      BY <1>1, <1>2, <1>7, <2>1, <3>1, <3>2
  <2>2. CASE a = m
    <3>1. s = "left" => z \in Sub(D, Child(t, "right", m))
      BY <1>2, <1>4, <1>7, <2>2 DEF k
    <3>2. s = "right" => \/ z = n \/ z \in Sub(D, Child(t, "right", n))
                         \/ z \in Sub(D, Child(t, "right", m))
      BY <1>4, <1>7, <2>2 DEF c, i
    <3>3. s = "right" => Child(t, "left", n) \in Node
      BY <1>2, <1>5
    <3> QED
      BY <1>1, <1>2, <1>3, <3>1, <3>2, <3>3
  <2>3. CASE a # n /\ a # m
    BY <1>1, <1>2, <1>3, <1>4, <1>7, <2>3
  <2> QED
    BY <2>1, <2>2, <2>3
<1> QED
  BY <1>1, <1>6, <1>7 DEF IsFirst, In

-----------------------------------------------------------------------------
(***************************************************************************)
(* The fields after a node is hung, forgotten or becomes the root.         *)
(***************************************************************************)

\* A leaf has no children, the parent and the colour given.
LEMMA LeafFields ==
    ASSUME NEW t \in Trees, NEW n \in Node, NEW p \in Place, NEW c \in BOOLEAN,
           NEW u, u = Leaf(t, n, p, c)
    PROVE  /\ u \in Trees /\ Root(u) = Root(t)
           /\ \A q, x : q \in Side /\ x \in Cell
                 => Child(u, q, x) = IF x = n THEN Sentinel ELSE Child(t, q, x)
           /\ \A x : x \in Cell
                 => /\ Parent(u, x) = IF x = n THEN p ELSE Parent(t, x)
                    /\ Red(u, x) = IF x = n THEN c ELSE Red(t, x)
           /\ \A x : x \in Node => Key(u, x) = Key(t, x)
<1>1. u.root = t.root /\ u.key = t.key
  BY DEF Trees, Leaf
<1>2. u.parent = [t.parent EXCEPT ![n] = p] /\ u.red = [t.red EXCEPT ![n] = c]
  BY DEF Trees, Leaf
<1>3. u.child = [t.child EXCEPT !.left[n] = Sentinel, !.right[n] = Sentinel]
  BY DEF Trees, Leaf
<1>4. u = [root |-> u.root, child |-> u.child, parent |-> u.parent, red |-> u.red, key |-> u.key]
  BY DEF Trees, Leaf
<1>5. PICK ch \in Children, pa \in Parents : ch = t.child /\ pa = t.parent
  BY LinkFields
<1>6. PICK re \in [Cell -> BOOLEAN] : re = t.red
  BY DEF Trees
<1>7. /\ [pa EXCEPT ![n] = p] \in Parents
      /\ \A x \in Cell : [pa EXCEPT ![n] = p][x] = IF x = n THEN p ELSE pa[x]
  BY DEF Parents, Cell
<1>8. /\ [re EXCEPT ![n] = c] \in [Cell -> BOOLEAN]
      /\ \A x \in Cell : [re EXCEPT ![n] = c][x] = IF x = n THEN c ELSE re[x]
  BY DEF Cell
<1>9. ASSUME NEW g, g = [ch EXCEPT !.left[n] = Sentinel, !.right[n] = Sentinel]
      PROVE  /\ g \in Children
             /\ \A q \in Side, x \in Cell :
                   Down(g, q, x) = IF x = n THEN Sentinel ELSE Down(ch, q, x)
  BY <1>9, Cells DEF Children, Side, Cell, Down
<1>10. u.child \in Children /\ u.parent \in Parents /\ u.red \in [Cell -> BOOLEAN]
  BY <1>2, <1>3, <1>5, <1>6, <1>7, <1>8, <1>9
<1>11. u \in Trees
  BY <1>1, <1>4, <1>10 DEF Trees
<1>12. ASSUME NEW q \in Side, NEW x \in Cell
       PROVE  Child(u, q, x) = IF x = n THEN Sentinel ELSE Child(t, q, x)
  <2>1. Child(u, q, x) = Down(u.child, q, x) /\ Child(t, q, x) = Down(ch, q, x)
    BY <1>5 DEF Child, Down
  <2> QED
    BY <1>3, <1>5, <1>9, <2>1
<1>13. ASSUME NEW x \in Cell
       PROVE  /\ u.parent[x] = IF x = n THEN p ELSE t.parent[x]
              /\ u.red[x] = IF x = n THEN c ELSE t.red[x]
  BY <1>2, <1>5, <1>6, <1>7, <1>8
<1> QED
  BY <1>1, <1>11, <1>12, <1>13 DEF Parent, Red, Key, Root

\* n gets key k, and the root becomes z, if it is not z already.
Keyed(t, n, k, z, u) ==
    \/ u = [t EXCEPT !.root = z, !.key[n] = k]
    \/ z = Root(t) /\ u = [t EXCEPT !.key[n] = k]

\* A node keyed has the key and the tree has the root given.
LEMMA KeyedFields ==
    ASSUME NEW t \in Trees, NEW n \in Node, NEW k \in Keys, NEW z \in Cell,
           NEW u, Keyed(t, n, k, z, u)
    PROVE  /\ u \in Trees /\ Root(u) = z
           /\ \A q, x : q \in Side /\ x \in Cell => Child(u, q, x) = Child(t, q, x)
           /\ \A x : x \in Cell => Parent(u, x) = Parent(t, x) /\ Red(u, x) = Red(t, x)
           /\ \A x : x \in Node => Key(u, x) = IF x = n THEN k ELSE Key(t, x)
<1>1. /\ u.root = z /\ u.child = t.child /\ u.parent = t.parent /\ u.red = t.red
      /\ u.key = [t.key EXCEPT ![n] = k]
  BY DEF Trees, Root, Keyed
<1>2. u = [root |-> u.root, child |-> u.child, parent |-> u.parent, red |-> u.red, key |-> u.key]
  BY DEF Trees, Keyed
<1>3. PICK ke \in [Node -> Keys] : ke = t.key
  BY DEF Trees, Keys
<1>4. /\ [ke EXCEPT ![n] = k] \in [Node -> Keys]
      /\ \A x \in Node : [ke EXCEPT ![n] = k][x] = IF x = n THEN k ELSE ke[x]
  OBVIOUS
<1>5. u.key \in [Node -> Keys] /\ \A x \in Node : u.key[x] = IF x = n THEN k ELSE t.key[x]
  BY <1>1, <1>3, <1>4
<1>6. u \in Trees
  BY <1>1, <1>2, <1>5 DEF Trees, Keys
<1> QED
  BY <1>1, <1>5, <1>6 DEF Child, Parent, Red, Key, Root

\* n hangs on side s of p.
Hanged(t, s, p, n, u) == u = [t EXCEPT !.child[s][p] = n]

\* Hanging n on side s of p changes that child alone.
LEMMA HungTree ==
    ASSUME NEW t \in Trees, NEW s \in Side, NEW p \in Node, NEW n \in Node,
           NEW u, Hanged(t, s, p, n, u)
    PROVE  /\ u \in Trees /\ Root(u) = Root(t)
           /\ \A q, x : q \in Side /\ x \in Cell => Child(u, q, x) =
                           IF q = s /\ x = p THEN n ELSE Child(t, q, x)
           /\ \A x : x \in Cell => Parent(u, x) = Parent(t, x) /\ Red(u, x) = Red(t, x)
           /\ \A x : x \in Node => Key(u, x) = Key(t, x)
<1>1. /\ u.root = t.root /\ u.parent = t.parent /\ u.red = t.red /\ u.key = t.key
      /\ u.child = Hung(t.child, s, p, n)
  BY DEF Trees, Hung, Hanged
<1>2. u = [root |-> u.root, child |-> u.child, parent |-> u.parent, red |-> u.red, key |-> u.key]
  BY DEF Trees, Hanged
<1>3. PICK ch \in Children, pa \in Parents :
              /\ ch = t.child /\ pa = t.parent
              /\ \A q \in Side, x \in Cell : Child(t, q, x) = Down(ch, q, x)
              /\ \A x \in Cell : Parent(t, x) = Up(pa, x)
  BY LinkFields
<1>4. p \in Cell /\ n \in Place
  BY Cells
<1>5. /\ Hung(ch, s, p, n) \in Children
      /\ \A q \in Side, x \in Cell : Down(Hung(ch, s, p, n), q, x) =
            IF q = s /\ x = p THEN n ELSE Down(ch, q, x)
  BY <1>4, HungIs, HungFields
<1>6. ASSUME NEW q \in Side, NEW x \in Cell
      PROVE  Child(u, q, x) = IF q = s /\ x = p THEN n ELSE Child(t, q, x)
  <2>1. Child(u, q, x) = Down(u.child, q, x)
    BY DEF Child, Down
  <2> QED
    BY <1>1, <1>3, <1>5, <2>1
<1>7. u \in Trees
  BY <1>1, <1>2, <1>3, <1>5 DEF Trees
<1> QED
  BY <1>1, <1>6, <1>7 DEF Parent, Red, Key, Root

\* A node forgotten has null links and the key 0.
LEMMA ForgottenFields ==
    ASSUME NEW t \in Trees, NEW n \in Node, NEW u, u = Forgotten(t, n)
    PROVE  /\ u \in Trees /\ Root(u) = Root(t)
           /\ \A q, x : q \in Side /\ x \in Cell
                 => Child(u, q, x) = IF x = n THEN Null ELSE Child(t, q, x)
           /\ \A x : x \in Cell
                 => /\ Parent(u, x) = IF x = n THEN Null ELSE Parent(t, x)
                    /\ Red(u, x) = Red(t, x)
           /\ \A x : x \in Node => Key(u, x) = IF x = n THEN 0 ELSE Key(t, x)
<1>1. u.root = t.root /\ u.red = t.red
  BY DEF Trees, Forgotten
<1>2. u.parent = [t.parent EXCEPT ![n] = Null] /\ u.key = [t.key EXCEPT ![n] = 0]
  BY DEF Trees, Forgotten
<1>3. u.child = [t.child EXCEPT !.left[n] = Null, !.right[n] = Null]
  BY DEF Trees, Forgotten
<1>4. u = [root |-> u.root, child |-> u.child, parent |-> u.parent, red |-> u.red, key |-> u.key]
  BY DEF Trees, Forgotten
<1>5. PICK ch \in Children, pa \in Parents : ch = t.child /\ pa = t.parent
  BY LinkFields
<1>6. PICK ke \in [Node -> Keys] : ke = t.key
  BY DEF Trees, Keys
<1>7. /\ [pa EXCEPT ![n] = Null] \in Parents
      /\ \A x \in Cell : [pa EXCEPT ![n] = Null][x] = IF x = n THEN Null ELSE pa[x]
  BY DEF Parents, Cell, Place
<1>8. 0 \in Keys
  BY KeysAssumption DEF Keys
<1>9. /\ [ke EXCEPT ![n] = 0] \in [Node -> Keys]
      /\ \A x \in Node : [ke EXCEPT ![n] = 0][x] = IF x = n THEN 0 ELSE ke[x]
  BY <1>8
<1>10. ASSUME NEW g, g = [ch EXCEPT !.left[n] = Null, !.right[n] = Null]
       PROVE  /\ g \in Children
              /\ \A q \in Side, x \in Cell :
                    Down(g, q, x) = IF x = n THEN Null ELSE Down(ch, q, x)
  BY <1>10, Cells DEF Children, Side, Cell, Down, Place
<1>11. u.child \in Children /\ u.parent \in Parents /\ u.key \in [Node -> Keys]
  BY <1>2, <1>3, <1>5, <1>6, <1>7, <1>9, <1>10
<1>12. u \in Trees
  BY <1>1, <1>4, <1>11 DEF Trees, Keys
<1>13. ASSUME NEW q \in Side, NEW x \in Cell
       PROVE  Child(u, q, x) = IF x = n THEN Null ELSE Child(t, q, x)
  <2>1. Child(u, q, x) = Down(u.child, q, x) /\ Child(t, q, x) = Down(ch, q, x)
    BY <1>5 DEF Child, Down
  <2> QED
    BY <1>3, <1>5, <1>10, <2>1
<1>14. \A x \in Cell : u.parent[x] = IF x = n THEN Null ELSE t.parent[x]
  BY <1>2, <1>5, <1>7
<1>15. \A x \in Node : u.key[x] = IF x = n THEN 0 ELSE t.key[x]
  BY <1>2, <1>6, <1>9
<1> QED
  BY <1>1, <1>12, <1>13, <1>14, <1>15 DEF Parent, Red, Key, Root

\* The root becomes z, and black.
Rooted(t, z, u) == u = [t EXCEPT !.root = z, !.red[z] = FALSE]

\* A new root is black.
LEMMA RootedFields ==
    ASSUME NEW t \in Trees, NEW z \in Cell, NEW u, Rooted(t, z, u)
    PROVE  /\ u \in Trees /\ Root(u) = z
           /\ \A q, x : q \in Side /\ x \in Cell => Child(u, q, x) = Child(t, q, x)
           /\ \A x : x \in Cell => /\ Parent(u, x) = Parent(t, x)
                                   /\ Red(u, x) <=> (x # z /\ Red(t, x))
           /\ \A x : x \in Node => Key(u, x) = Key(t, x)
<1>1. /\ u.root = z /\ u.child = t.child /\ u.parent = t.parent /\ u.key = t.key
      /\ u.red = [t.red EXCEPT ![z] = FALSE]
  BY DEF Rooted, Trees, Root
<1>2. u = [root |-> u.root, child |-> u.child, parent |-> u.parent, red |-> u.red, key |-> u.key]
  BY DEF Rooted, Trees
<1>3. PICK re \in [Cell -> BOOLEAN] : re = t.red
  BY DEF Trees
<1>4. /\ [re EXCEPT ![z] = FALSE] \in [Cell -> BOOLEAN]
      /\ \A x \in Cell : [re EXCEPT ![z] = FALSE][x] = IF x = z THEN FALSE ELSE re[x]
  OBVIOUS
<1>5. u.red \in [Cell -> BOOLEAN] /\ \A x \in Cell : u.red[x] = IF x = z THEN FALSE ELSE t.red[x]
  BY <1>1, <1>3, <1>4
<1>6. u \in Trees
  BY <1>1, <1>2, <1>5 DEF Trees
<1>7. \A x : x \in Cell => (Red(u, x) <=> (x # z /\ Red(t, x)))
  BY <1>5 DEF Red
<1> QED
  BY <1>1, <1>6, <1>7 DEF Child, Parent, Key, Root

-----------------------------------------------------------------------------
(***************************************************************************)
(* The shape after a node is spliced out, grafted or replaced.             *)
(***************************************************************************)

\* Nodes that are not in the tree hang nowhere.
LEMMA Outside ==
    ASSUME NEW t, NEW D \in Subtrees, Shape(t, D), NEW n \in Node, n \notin In(t, D)
    PROVE  /\ \A q : q \in Side => Child(t, q, n) \notin Node
           /\ Sub(D, n) = {n}
           /\ \A a : a # n => n \notin Sub(D, a)
           /\ \A a, q : a \in Node /\ q \in Side => Child(t, q, a) # n
<1>1. \A q : q \in Side => Child(t, q, n) \notin Node
  BY ShapeFacts
<1>2. Sub(D, n) = {n}
  BY <1>1, ShapeFacts, SubIs, Sides
<1>3. ASSUME NEW a, NEW q, a \in Node, q \in Side, Child(t, q, a) = n PROVE FALSE
  <2>1. a \in In(t, D) /\ n \in Sub(D, n) /\ n \in Sub(D, a)
    BY <1>3, ShapeFacts
  <2> QED
    BY <2>1, Nested DEF In
<1>4. ASSUME NEW a, a # n, n \in Sub(D, a) PROVE FALSE
  <2>1. Parent(t, n) \in Node /\ \E s \in Side : Child(t, s, Parent(t, n)) = n
    BY <1>4, ParentBelow, SubIs
  <2> QED
    BY <1>3, <2>1
<1> QED
  BY <1>1, <1>2, <1>3, <1>4

\* A node hangs on one side of one node, and the root on none.
LEMMA OnePlace ==
    ASSUME NEW t \in Trees, NEW D \in Subtrees, Shape(t, D),
           NEW n, n \in Node, NEW a \in Node, NEW q \in Side, Child(t, q, a) = n
    PROVE  /\ n # Root(t) /\ n \in In(t, D) /\ a = Parent(t, n) /\ q = Hangs(t, n)
           /\ a \in In(t, D) /\ Child(t, Other(q), a) # n
<1>1. a \in In(t, D) /\ a = Parent(t, n) /\ n \in Sub(D, n) /\ n \in Sub(D, a) /\ a # n
  BY ShapeFacts
<1>2. n # Root(t)
  BY <1>1, Antisymmetric DEF In
<1>3. n \in In(t, D)
  BY <1>1, Nested DEF In
<1>4. Child(t, Other(Hangs(t, n)), a) # n /\ Hangs(t, n) \in Side
  BY <1>1, <1>2, <1>3, HangsFacts
<1>5. q = Hangs(t, n)
  BY <1>4, Sides
<1> QED
  BY <1>1, <1>2, <1>3, <1>4, <1>5

\* u is t with z out of its place and x there; E is what is below its nodes.
Splice(t, D, z, x, u, E) ==
    LET p == Parent(t, z)
        h == Hangs(t, z)
    IN  /\ u \in Trees /\ E \in Subtrees
        /\ Root(u) = Root(t)
        /\ Child(u, h, p) = x
        /\ \A q : q \in Side => Child(u, q, z) \notin Node
        /\ \A a, q : a \in Node /\ q \in Side /\ a # z /\ (a # p \/ q # h)
                        => Child(u, q, a) = Child(t, q, a)
        /\ \A a : a \in Node /\ a # z => Parent(u, a) = IF a = x THEN p ELSE Parent(t, a)
        /\ \A a : a \in Node /\ a # z => Key(u, a) = Key(t, a)
        /\ \A a : a \in Cell => Red(u, a) = Red(t, a)
        /\ Sub(E, z) = {z}
        /\ \A a : a # z => Sub(E, a) = Sub(D, a) \ {z}

\* A tree without a node that had at most one child is a tree.
LEMMA SpliceShape ==
    ASSUME NEW t \in Trees, NEW D \in Subtrees, Shape(t, D),
           NEW z, z \in In(t, D), z # Root(t), NEW c \in Side, NEW x \in Cell,
           x = Child(t, c, z), Child(t, Other(c), z) \notin Node,
           NEW u, NEW E, Splice(t, D, z, x, u, E)
    PROVE  Shape(u, E) /\ In(u, E) = In(t, D) \ {z}
<1> DEFINE p == Parent(t, z)
           h == Hangs(t, z)
           w == Child(t, Other(h), p)
<1>1. /\ z \in Node /\ p \in In(t, D) /\ p \in Node /\ h \in Side
      /\ Child(t, h, p) = z /\ w # z /\ z \notin Sub(D, w)
  BY HangsFacts
<1>2. /\ Other(c) \in Side /\ Other(h) \in Side /\ Other(h) # h
      /\ Other(Other(h)) = h /\ \A q \in Side : q = h \/ q = Other(h)
  BY <1>1, Sides
<1>3. /\ Sub(D, z) = {z} \cup Sub(D, x) /\ z \notin Sub(D, x)
  BY <1>1, <1>2, ShapeFacts, SubIs
<1>4. /\ Sub(D, p) = {p} \cup Sub(D, z) \cup Sub(D, w)
      /\ p \notin Sub(D, z) /\ p \notin Sub(D, w) /\ Sub(D, z) \cap Sub(D, w) = {}
      /\ p # z /\ (w \in Node => Parent(t, w) = p) /\ w \in Cell
  BY <1>1, <1>2, ShapeFacts
<1>5. /\ x # z
      /\ x \in Node => Parent(t, x) = z /\ x \in Sub(D, z)
  BY <1>1, <1>2, <1>3, ShapeFacts, Cells
<1>6. /\ Root(u) = Root(t)
      /\ Child(u, h, p) = x
      /\ \A q : q \in Side => Child(u, q, z) \notin Node
      /\ \A a, q : a \in Node /\ q \in Side /\ a # z /\ (a # p \/ q # h)
                        => Child(u, q, a) = Child(t, q, a)
      /\ \A a : a \in Node /\ a # z => Parent(u, a) = IF a = x THEN p ELSE Parent(t, a)
      /\ E \in Subtrees
      /\ Sub(E, z) = {z}
      /\ \A a : a # z => Sub(E, a) = Sub(D, a) \ {z}
  BY DEF Splice
<1>7. In(u, E) = In(t, D) \ {z}
  BY <1>6 DEF In
<1> HIDE DEF p, h, w
<1>8. ASSUME NEW a \in Node, NEW q \in Side
      PROVE  LET l == Child(u, q, a)
                 k == Child(u, Other(q), a)
             IN  /\ Sub(E, a) = {a} \cup Sub(E, l) \cup Sub(E, k)
                 /\ a \notin Sub(E, l)
                 /\ Sub(E, l) \cap Sub(E, k) = {}
                 /\ l \in Node => Parent(u, l) = a /\ a \in In(u, E)
                 /\ a \in In(u, E) => l \in Cell
  <2> DEFINE l == Child(u, q, a)
             k == Child(u, Other(q), a)
  <2>1. CASE a = z
    <3>1. Sub(E, l) = {} /\ Sub(E, k) = {} /\ l \notin Node
      BY <1>6, <2>1, SubIs, Sides
    <3> QED
      BY <1>6, <1>7, <2>1, <3>1
  <2>2. CASE a = p
    <3>1. Child(u, Other(h), p) = w
      BY <1>1, <1>2, <1>4, <1>6 DEF w
    <3>2. Sub(E, x) = Sub(D, x) /\ Sub(E, w) = Sub(D, w) /\ Sub(E, p) = Sub(D, p) \ {z}
      BY <1>1, <1>3, <1>4, <1>5, <1>6
    <3>3. /\ x \in Node => Parent(u, x) = p
          /\ w \in Node => Parent(u, w) = p
      BY <1>1, <1>4, <1>5, <1>6
    <3>4. p \in In(u, E)
      BY <1>1, <1>4, <1>7
    <3>5. CASE q = h
      BY <1>1, <1>2, <1>3, <1>4, <1>6, <2>2, <3>1, <3>2, <3>3, <3>4, <3>5
    <3>6. CASE q = Other(h)
      BY <1>1, <1>2, <1>3, <1>4, <1>6, <2>2, <3>1, <3>2, <3>3, <3>4, <3>6
    <3> QED
      BY <1>2, <3>5, <3>6
  <2>3. CASE a # z /\ a # p
    <3>1. l = Child(t, q, a) /\ k = Child(t, Other(q), a)
      BY <1>6, <2>3, Sides
    <3>2. l # z /\ k # z
      BY <1>1, <2>3, <3>1, OnePlace, Sides DEF p
    <3>3. /\ Sub(D, a) = {a} \cup Sub(D, l) \cup Sub(D, k)
          /\ a \notin Sub(D, l) /\ Sub(D, l) \cap Sub(D, k) = {}
          /\ l \in Node => Parent(t, l) = a /\ a \in In(t, D)
          /\ a \in In(t, D) => l \in Cell
      BY <3>1 DEF Shape
    <3>4. l \in Node => l # x
      BY <1>5, <2>3, <3>3
    <3> HIDE DEF l, k
    <3>5. l \in Node => Parent(u, l) = a
      BY <1>6, <3>2, <3>3, <3>4
    <3>6. Sub(E, a) = Sub(D, a) \ {z} /\ Sub(E, l) = Sub(D, l) \ {z} /\ Sub(E, k) = Sub(D, k) \ {z}
      BY <1>6, <2>3, <3>2
    <3>7. /\ Sub(E, a) = {a} \cup Sub(E, l) \cup Sub(E, k)
          /\ a \notin Sub(E, l) /\ Sub(E, l) \cap Sub(E, k) = {}
          /\ l \in Node => Parent(u, l) = a /\ a \in In(u, E)
          /\ a \in In(u, E) => l \in Cell
      BY <1>7, <2>3, <3>3, <3>5, <3>6
    <3> QED
      BY <3>7 DEF l, k
  <2> QED
    BY <2>1, <2>2, <2>3
<1> QED
  BY <1>7, <1>8 DEF Shape

\* u is t with the leaf n on side s of p.
Graft(t, D, n, p, s, u, E) ==
    /\ u \in Trees /\ E \in Subtrees
    /\ Root(u) = Root(t)
    /\ Child(u, s, p) = n
    /\ \A q : q \in Side => Child(u, q, n) = Sentinel
    /\ \A a, q : a \in Node /\ q \in Side /\ a # n /\ (a # p \/ q # s)
                    => Child(u, q, a) = Child(t, q, a)
    /\ \A a : a \in Node => Parent(u, a) = IF a = n THEN p ELSE Parent(t, a)
    /\ \A a : a \in Node => Key(u, a) = Key(t, a)
    /\ \A a : a \in Cell => Red(u, a) = IF a = n THEN TRUE ELSE Red(t, a)
    /\ Sub(E, n) = {n}
    /\ \A a : a # n => Sub(E, a) = IF p \in Sub(D, a) THEN Sub(D, a) \cup {n} ELSE Sub(D, a)

\* A tree with a new leaf is a tree.
LEMMA GraftShape ==
    ASSUME NEW t \in Trees, NEW D \in Subtrees, Shape(t, D),
           NEW n \in Node, n \notin In(t, D), NEW p, p \in In(t, D), NEW s \in Side,
           Child(t, s, p) = Sentinel, NEW u, NEW E, Graft(t, D, n, p, s, u, E)
    PROVE  Shape(u, E) /\ In(u, E) = In(t, D) \cup {n}
<1> DEFINE w == Child(t, Other(s), p)
<1>1. /\ \A a : a # n => n \notin Sub(D, a)
      /\ \A a, q : a \in Node /\ q \in Side => Child(t, q, a) # n
  BY Outside
<1>2. /\ Other(s) \in Side /\ Other(s) # s
      /\ Other(Other(s)) = s /\ \A q \in Side : q = s \/ q = Other(s)
  BY Sides
<1>3. p \in Node /\ p # n /\ Sub(D, Sentinel) = {} /\ p \in Sub(D, p)
  BY SubIs, ShapeFacts, Cells DEF In
<1>4. /\ Sub(D, p) = {p} \cup Sub(D, w) /\ p \notin Sub(D, w)
      /\ (w \in Node => Parent(t, w) = p) /\ w \in Cell /\ w # n
  BY <1>1, <1>2, <1>3, ShapeFacts
<1>5. /\ Root(u) = Root(t)
      /\ Child(u, s, p) = n
      /\ \A q : q \in Side => Child(u, q, n) = Sentinel
      /\ \A a, q : a \in Node /\ q \in Side /\ a # n /\ (a # p \/ q # s)
                        => Child(u, q, a) = Child(t, q, a)
      /\ \A a : a \in Node => Parent(u, a) = IF a = n THEN p ELSE Parent(t, a)
      /\ E \in Subtrees
      /\ Sub(E, n) = {n}
      /\ \A a : a # n => Sub(E, a) = IF p \in Sub(D, a) THEN Sub(D, a) \cup {n} ELSE Sub(D, a)
  BY DEF Graft
<1>6. Root(t) # n
  BY ShapeFacts DEF In
<1>7. In(u, E) = In(t, D) \cup {n}
  BY <1>5, <1>6 DEF In
<1> HIDE DEF w
<1>8. ASSUME NEW a \in Node, NEW q \in Side
      PROVE  LET l == Child(u, q, a)
                 k == Child(u, Other(q), a)
             IN  /\ Sub(E, a) = {a} \cup Sub(E, l) \cup Sub(E, k)
                 /\ a \notin Sub(E, l)
                 /\ Sub(E, l) \cap Sub(E, k) = {}
                 /\ l \in Node => Parent(u, l) = a /\ a \in In(u, E)
                 /\ a \in In(u, E) => l \in Cell
  <2> DEFINE l == Child(u, q, a)
             k == Child(u, Other(q), a)
  <2>1. CASE a = n
    <3>1. l = Sentinel /\ k = Sentinel /\ Sub(E, Sentinel) = {}
      BY <1>5, <2>1, SubIs, Sides, Cells
    <3> QED
      BY <1>5, <1>7, <2>1, <3>1, Cells
  <2>2. CASE a = p
    <3>1. Child(u, Other(s), p) = w
      BY <1>2, <1>3, <1>5 DEF w
    <3>2. Sub(E, w) = Sub(D, w) /\ Sub(E, p) = Sub(D, p) \cup {n} /\ n \notin Sub(D, w)
      BY <1>1, <1>3, <1>4, <1>5
    <3>3. Parent(u, n) = p /\ (w \in Node => Parent(u, w) = p) /\ n \in Cell
      BY <1>4, <1>5, Cells
    <3>4. p \in In(u, E)
      BY <1>7
    <3>5. CASE q = s
      BY <1>2, <1>3, <1>4, <1>5, <2>2, <3>1, <3>2, <3>3, <3>4, <3>5
    <3>6. CASE q = Other(s)
      BY <1>2, <1>3, <1>4, <1>5, <2>2, <3>1, <3>2, <3>3, <3>4, <3>6
    <3> QED
      BY <1>2, <3>5, <3>6
  <2>3. CASE a # n /\ a # p
    <3>1. l = Child(t, q, a) /\ k = Child(t, Other(q), a)
      BY <1>5, <2>3, Sides
    <3>2. l # n /\ k # n
      BY <1>1, <3>1, Sides
    <3>3. /\ Sub(D, a) = {a} \cup Sub(D, l) \cup Sub(D, k)
          /\ a \notin Sub(D, l) /\ Sub(D, l) \cap Sub(D, k) = {}
          /\ l \in Node => Parent(t, l) = a /\ a \in In(t, D)
          /\ a \in In(t, D) => l \in Cell
      BY <3>1 DEF Shape
    <3> HIDE DEF l, k
    <3>4. l \in Node => Parent(u, l) = a
      BY <1>5, <3>2, <3>3
    <3>5. n \notin Sub(D, a) /\ n \notin Sub(D, l) /\ n \notin Sub(D, k)
      BY <1>1, <2>3, <3>2
    <3>6. /\ Sub(E, a) = IF p \in Sub(D, a) THEN Sub(D, a) \cup {n} ELSE Sub(D, a)
          /\ Sub(E, l) = IF p \in Sub(D, l) THEN Sub(D, l) \cup {n} ELSE Sub(D, l)
          /\ Sub(E, k) = IF p \in Sub(D, k) THEN Sub(D, k) \cup {n} ELSE Sub(D, k)
      BY <1>5, <2>3, <3>2
    <3>7. /\ Sub(E, a) = {a} \cup Sub(E, l) \cup Sub(E, k)
          /\ a \notin Sub(E, l) /\ Sub(E, l) \cap Sub(E, k) = {}
      BY <2>3, <3>3, <3>5, <3>6
    <3> QED
      BY <1>7, <2>3, <3>3, <3>4, <3>7 DEF l, k
  <2> QED
    BY <2>1, <2>2, <2>3
<1> QED
  BY <1>7, <1>8 DEF Shape

\* u is t with z, a node from outside, in the place of n.
Replace(t, D, n, z, u, E) ==
    LET p == Parent(t, n)
        h == Hangs(t, n)
    IN  /\ u \in Trees /\ E \in Subtrees
        /\ Root(u) = IF n = Root(t) THEN z ELSE Root(t)
        /\ n # Root(t) => Child(u, h, p) = z
        /\ \A q : q \in Side => Child(u, q, n) \notin Node /\ Child(u, q, z) = Child(t, q, n)
        /\ \A a, q : /\ a \in Node /\ q \in Side /\ a # z /\ a # n
                     /\ n = Root(t) \/ a # p \/ q # h
                     => Child(u, q, a) = Child(t, q, a)
        /\ \A a, q : a \in Node /\ q \in Side /\ a = Child(t, q, n) => Parent(u, a) = z
        /\ \A a : a \in Node /\ a # n /\ a # z /\ (\A q : q \in Side => a # Child(t, q, n))
                     => Parent(u, a) = Parent(t, a)
        /\ Parent(u, z) = p
        /\ \A a : a \in Node /\ a # n /\ a # z => Key(u, a) = Key(t, a)
        /\ \A a : a \in Cell => Red(u, a) = IF a = z THEN Red(t, n) ELSE Red(t, a)
        /\ Sub(E, n) = {n}
        /\ Sub(E, z) = (Sub(D, n) \ {n}) \cup {z}
        /\ \A a : a # n /\ a # z => Sub(E, a) =
              IF n \in Sub(D, a) THEN (Sub(D, a) \ {n}) \cup {z} ELSE Sub(D, a)

\* A tree with a node from outside in the place of one of its own is a tree.
LEMMA ReplaceShape ==
    ASSUME NEW t \in Trees, NEW D \in Subtrees, Shape(t, D),
           NEW n, n \in In(t, D), NEW z \in Node, z \notin In(t, D),
           NEW u, NEW E, Replace(t, D, n, z, u, E)
    PROVE  Shape(u, E) /\ In(u, E) = (In(t, D) \ {n}) \cup {z}
<1> DEFINE p == Parent(t, n)
           h == Hangs(t, n)
           w == Child(t, Other(h), p)
<1>1. n \in Node /\ n # z /\ n \in Sub(D, n) /\ h \in Side
  BY SubIs, ShapeFacts, HangsSide DEF In
<1>2. n # Root(t) => /\ p \in In(t, D) /\ p \in Node /\ p # z /\ p # n
                     /\ Child(t, h, p) = n /\ w # n /\ n \notin Sub(D, w)
  <2> SUFFICES ASSUME n # Root(t) PROVE p # n /\ p # z
    BY HangsFacts
  <2>1. p \in In(t, D) /\ p \in Node /\ Child(t, h, p) = n
    BY HangsFacts
  <2> QED
    BY <1>1, <2>1, ShapeFacts
<1>3. /\ \A a : a # z => z \notin Sub(D, a)
      /\ \A a, q : a \in Node /\ q \in Side => Child(t, q, a) # z
  BY Outside
<1>4. /\ Root(u) = IF n = Root(t) THEN z ELSE Root(t)
      /\ n # Root(t) => Child(u, h, p) = z
      /\ \A q : q \in Side => Child(u, q, n) \notin Node /\ Child(u, q, z) = Child(t, q, n)
      /\ \A a, q : /\ a \in Node /\ q \in Side /\ a # z /\ a # n
                   /\ n = Root(t) \/ a # p \/ q # h
                   => Child(u, q, a) = Child(t, q, a)
      /\ \A a, q : a \in Node /\ q \in Side /\ a = Child(t, q, n) => Parent(u, a) = z
      /\ \A a : a \in Node /\ a # n /\ a # z /\ (\A q : q \in Side => a # Child(t, q, n))
                   => Parent(u, a) = Parent(t, a)
      /\ Parent(u, z) = p
      /\ E \in Subtrees
      /\ Sub(E, n) = {n}
      /\ Sub(E, z) = (Sub(D, n) \ {n}) \cup {z}
      /\ \A a : a # n /\ a # z => Sub(E, a) =
              IF n \in Sub(D, a) THEN (Sub(D, a) \ {n}) \cup {z} ELSE Sub(D, a)
  BY DEF Replace
<1>5. z # Root(t)
  BY ShapeFacts DEF In
<1>6. In(u, E) = (In(t, D) \ {n}) \cup {z}
  BY <1>4, <1>5 DEF In
<1> HIDE DEF p, h, w
<1>7. ASSUME NEW a \in Node, NEW q \in Side
      PROVE  LET l == Child(u, q, a)
                 k == Child(u, Other(q), a)
             IN  /\ Sub(E, a) = {a} \cup Sub(E, l) \cup Sub(E, k)
                 /\ a \notin Sub(E, l)
                 /\ Sub(E, l) \cap Sub(E, k) = {}
                 /\ l \in Node => Parent(u, l) = a /\ a \in In(u, E)
                 /\ a \in In(u, E) => l \in Cell
  <2> DEFINE l == Child(u, q, a)
             k == Child(u, Other(q), a)
  <2>1. CASE a = n
    <3>1. Sub(E, l) = {} /\ Sub(E, k) = {} /\ l \notin Node
      BY <1>4, <2>1, SubIs, Sides
    <3> QED
      BY <1>1, <1>4, <1>6, <2>1, <3>1
  <2>2. CASE a = z
    <3>1. l = Child(t, q, n) /\ k = Child(t, Other(q), n)
      BY <1>4, <2>2, Sides
    <3>2. /\ Sub(D, n) = {n} \cup Sub(D, l) \cup Sub(D, k)
          /\ n \notin Sub(D, l) /\ n \notin Sub(D, k) /\ Sub(D, l) \cap Sub(D, k) = {}
          /\ l \in Cell /\ l # n /\ l # z /\ k # n /\ k # z
      BY <1>1, <1>3, <3>1, ShapeFacts, SubIs, Sides
    <3>3. l \in Node => Parent(u, l) = z
      BY <1>4, <3>1
    <3> HIDE DEF l, k
    <3>4. Sub(E, l) = Sub(D, l) /\ Sub(E, k) = Sub(D, k) /\ z \notin Sub(D, l)
      BY <1>3, <1>4, <3>2
    <3>5. /\ Sub(E, z) = {z} \cup Sub(E, l) \cup Sub(E, k)
          /\ z \notin Sub(E, l) /\ Sub(E, l) \cap Sub(E, k) = {}
          /\ l \in Node => Parent(u, l) = z /\ z \in In(u, E)
      BY <1>4, <1>6, <3>2, <3>3, <3>4
    <3> QED
      BY <2>2, <3>2, <3>5 DEF l, k
  <2>3. CASE n # Root(t) /\ a = p
    <3>1. Child(u, Other(h), p) = w
      BY <1>1, <1>2, <1>4, <2>3, Sides DEF w
    <3>2. /\ Sub(D, p) = {p} \cup Sub(D, n) \cup Sub(D, w)
          /\ p \notin Sub(D, n) /\ p \notin Sub(D, w) /\ Sub(D, n) \cap Sub(D, w) = {}
          /\ (w \in Node => Parent(t, w) = p) /\ w \in Cell /\ w # z
      BY <1>1, <1>2, <1>3, <2>3, ShapeFacts, Sides DEF w
    <3>3. ASSUME NEW v \in Side PROVE w \in Node => w # Child(t, v, n)
      BY <1>1, <1>2, <2>3, <3>2, ShapeFacts
    <3>4. w \in Node => Parent(u, w) = p
      BY <1>2, <1>4, <2>3, <3>2, <3>3
    <3>5. /\ Sub(E, w) = Sub(D, w) /\ Sub(E, p) = (Sub(D, p) \ {n}) \cup {z}
          /\ z \notin Sub(D, w) /\ z \notin Sub(D, n) /\ n \in Sub(D, n)
      BY <1>1, <1>2, <1>3, <1>4, <2>3, <3>2
    <3>6. p \in In(u, E) /\ z \in Cell
      BY <1>2, <1>6, <2>3, Cells
    <3>7. /\ Sub(E, p) = {p} \cup Sub(E, z) \cup Sub(E, w)
          /\ p \notin Sub(E, w) /\ p \notin Sub(E, z) /\ Sub(E, w) \cap Sub(E, z) = {}
      BY <1>2, <1>4, <2>3, <3>2, <3>5
    <3>8. CASE q = h
      BY <1>4, <2>3, <3>1, <3>6, <3>7, <3>8
    <3>9. CASE q = Other(h)
      BY <1>1, <1>4, <2>3, <3>1, <3>2, <3>4, <3>6, <3>7, <3>9, Sides
    <3> QED
      BY <1>1, <3>8, <3>9, Sides
  <2>4. CASE a # n /\ a # z /\ (n = Root(t) \/ a # p)
    <3>1. l = Child(t, q, a) /\ k = Child(t, Other(q), a)
      BY <1>4, <2>4, Sides
    <3>2. l # n /\ k # n
      BY <1>1, <2>4, <3>1, OnePlace, Sides DEF p
    <3>3. l # z /\ k # z
      BY <1>3, <3>1, Sides
    <3>4. /\ Sub(D, a) = {a} \cup Sub(D, l) \cup Sub(D, k)
          /\ a \notin Sub(D, l) /\ Sub(D, l) \cap Sub(D, k) = {}
          /\ l \in Node => Parent(t, l) = a /\ a \in In(t, D)
          /\ a \in In(t, D) => l \in Cell
      BY <3>1 DEF Shape
    <3>5. ASSUME NEW v \in Side PROVE l \in Node => l # Child(t, v, n)
      BY <1>1, <2>4, <3>4, ShapeFacts
    <3> HIDE DEF l, k
    <3>6. l \in Node => Parent(u, l) = a
      BY <1>4, <3>2, <3>3, <3>4, <3>5
    <3>7. z \notin Sub(D, a) /\ z \notin Sub(D, l) /\ z \notin Sub(D, k)
      BY <1>3, <2>4, <3>3
    <3>8. /\ Sub(E, a) = IF n \in Sub(D, a) THEN (Sub(D, a) \ {n}) \cup {z} ELSE Sub(D, a)
          /\ Sub(E, l) = IF n \in Sub(D, l) THEN (Sub(D, l) \ {n}) \cup {z} ELSE Sub(D, l)
          /\ Sub(E, k) = IF n \in Sub(D, k) THEN (Sub(D, k) \ {n}) \cup {z} ELSE Sub(D, k)
      BY <1>4, <2>4, <3>2, <3>3
    <3>9. /\ Sub(E, a) = {a} \cup Sub(E, l) \cup Sub(E, k)
          /\ a \notin Sub(E, l) /\ Sub(E, l) \cap Sub(E, k) = {}
      BY <2>4, <3>4, <3>7, <3>8
    <3> QED
      BY <1>6, <2>4, <3>4, <3>6, <3>9 DEF l, k
  <2> QED
    BY <2>1, <2>2, <2>3, <2>4
<1> QED
  BY <1>6, <1>7 DEF Shape

-----------------------------------------------------------------------------
(***************************************************************************)
(* The order after a node is spliced out, grafted or replaced.             *)
(***************************************************************************)

\* A node spliced out leaves the others in order.
LEMMA SpliceOrder ==
    ASSUME NEW t \in Trees, NEW D \in Subtrees, Shape(t, D),
           NEW z, z \in In(t, D), z # Root(t), NEW c \in Side, NEW x \in Cell,
           x = Child(t, c, z), Child(t, Other(c), z) \notin Node,
           NEW u, NEW E, Splice(t, D, z, x, u, E), Order(t, D)
    PROVE  Order(u, E)
<1> SUFFICES ASSUME NEW a, NEW q, NEW y, a \in In(u, E), q \in Side, y \in Sub(E, Child(u, q, a))
             PROVE  Sorted(q, Key(u, y), Key(u, a))
  BY DEF Order
<1>1. /\ \A a2, q2 : /\ a2 \in Node /\ q2 \in Side /\ a2 # z
                     /\ a2 # Parent(t, z) \/ q2 # Hangs(t, z)
                     => Child(u, q2, a2) = Child(t, q2, a2)
      /\ Child(u, Hangs(t, z), Parent(t, z)) = x
      /\ \A a2 : a2 # z => Sub(E, a2) = Sub(D, a2) \ {z}
      /\ \A a2 : a2 \in Node /\ a2 # z => Key(u, a2) = Key(t, a2)
  BY DEF Splice
<1>2. a \in In(t, D) /\ a # z /\ a \in Node
  BY SpliceShape, SubIs DEF In
<1>3. z \in Node /\ Child(t, Hangs(t, z), Parent(t, z)) = z
  BY HangsFacts
<1>4. x # z /\ Sub(D, x) \subseteq Sub(D, z)
  BY <1>3, ShapeFacts, Cells
<1>5. y # z /\ y \in Sub(D, Child(t, q, a))
  <2>1. CASE a = Parent(t, z) /\ q = Hangs(t, z)
    BY <1>1, <1>3, <1>4, <2>1
  <2>2. CASE a # Parent(t, z) \/ q # Hangs(t, z)
    <3>1. Child(u, q, a) = Child(t, q, a)
      BY <1>1, <1>2, <2>2
    <3>2. Child(t, q, a) # z
      BY <1>2, <1>3, <2>2, OnePlace
    <3> QED
      BY <1>1, <3>1, <3>2
  <2> QED
    BY <2>1, <2>2
<1>6. y \in Node
  BY <1>5, SubIs
<1> QED
  BY <1>1, <1>2, <1>5, <1>6 DEF Order

\* What is below a child of a node of the tree is in the tree.
LEMMA BelowIn ==
    ASSUME NEW t, NEW D \in Subtrees, Shape(t, D)
    PROVE  \A a, q, y : a \in In(t, D) /\ q \in Side /\ y \in Sub(D, Child(t, q, a))
              => y \in In(t, D) /\ y \in Node /\ y \in Sub(D, a)
<1> SUFFICES ASSUME NEW a, NEW q, NEW y, a \in In(t, D), q \in Side, y \in Sub(D, Child(t, q, a))
             PROVE  y \in In(t, D) /\ y \in Node /\ y \in Sub(D, a)
  OBVIOUS
<1>1. a \in Node /\ y \in Node
  BY SubIs DEF In
<1>2. y \in Sub(D, a)
  BY <1>1, ShapeFacts
<1> QED
  BY <1>1, <1>2, Nested DEF In

\* A leaf that is on the side its key belongs on, of every node above, is in order.
LEMMA GraftOrder ==
    ASSUME NEW t \in Trees, NEW D \in Subtrees, Shape(t, D),
           NEW n \in Node, n \notin In(t, D), NEW p, p \in In(t, D), NEW s \in Side,
           Child(t, s, p) = Sentinel, NEW u, NEW E, Graft(t, D, n, p, s, u, E),
           Order(t, D), Sorted(s, Key(t, n), Key(t, p)),
           \A a, q : a \in In(t, D) /\ q \in Side /\ p \in Sub(D, Child(t, q, a))
                        => Sorted(q, Key(t, n), Key(t, a))
    PROVE  Order(u, E)
<1> SUFFICES ASSUME NEW a, NEW q, NEW y, a \in In(u, E), q \in Side, y \in Sub(E, Child(u, q, a))
             PROVE  Sorted(q, Key(u, y), Key(u, a))
  BY DEF Order
<1>1. /\ \A a2, q2 : a2 \in Node /\ q2 \in Side /\ a2 # n /\ (a2 # p \/ q2 # s)
                        => Child(u, q2, a2) = Child(t, q2, a2)
      /\ Child(u, s, p) = n
      /\ \A q2 : q2 \in Side => Child(u, q2, n) = Sentinel
      /\ Sub(E, n) = {n}
      /\ \A a2 : a2 # n => Sub(E, a2) = IF p \in Sub(D, a2) THEN Sub(D, a2) \cup {n} ELSE Sub(D, a2)
      /\ \A a2 : a2 \in Node => Key(u, a2) = Key(t, a2)
      /\ E \in Subtrees
  BY DEF Graft
<1>2. a # n /\ a \in In(t, D) /\ a \in Node
  <2>1. Sub(E, Sentinel) = {}
    BY <1>1, SubIs, Cells
  <2> QED
    BY <1>1, <2>1, GraftShape, SubIs DEF In
<1>3. Key(u, a) = Key(t, a) /\ y \in Node /\ Key(u, y) = Key(t, y)
  BY <1>1, <1>2, SubIs
<1>4. CASE a = p /\ q = s
  BY <1>1, <1>3, <1>4
<1>5. CASE a # p \/ q # s
  <2>1. Child(u, q, a) = Child(t, q, a) /\ Child(t, q, a) # n
    BY <1>1, <1>2, <1>5, Outside
  <2>2. y \in Sub(D, Child(t, q, a)) \/ (y = n /\ p \in Sub(D, Child(t, q, a)))
    BY <1>1, <2>1
  <2> QED
    BY <1>2, <1>3, <2>2 DEF Order
<1> QED
  BY <1>4, <1>5

\* A node that goes between all below its place and all above it is in order.
LEMMA ReplaceOrder ==
    ASSUME NEW t \in Trees, NEW D \in Subtrees, Shape(t, D),
           NEW n, n \in In(t, D), NEW z \in Node, z \notin In(t, D),
           NEW u, NEW E, Replace(t, D, n, z, u, E), Order(t, D),
           \A q, y : q \in Side /\ y \in Sub(D, Child(t, q, n))
                        => Sorted(q, Key(t, y), Key(u, z)),
           \A a, q : a \in In(t, D) /\ q \in Side /\ n \in Sub(D, Child(t, q, a))
                        => Sorted(q, Key(u, z), Key(t, a))
    PROVE  Order(u, E)
<1> SUFFICES ASSUME NEW a, NEW q, NEW y, a \in In(u, E), q \in Side, y \in Sub(E, Child(u, q, a))
             PROVE  Sorted(q, Key(u, y), Key(u, a))
  BY DEF Order
<1> DEFINE p == Parent(t, n)
           h == Hangs(t, n)
<1>1. n \in Node /\ n # z /\ h \in Side /\ n \in Sub(D, n)
  BY SubIs, HangsSide, ShapeFacts DEF In
<1>2. /\ n # Root(t) => Child(u, h, p) = z
      /\ \A q2 : q2 \in Side => Child(u, q2, z) = Child(t, q2, n)
      /\ \A a2, q2 : /\ a2 \in Node /\ q2 \in Side /\ a2 # z /\ a2 # n
                     /\ n = Root(t) \/ a2 # p \/ q2 # h
                     => Child(u, q2, a2) = Child(t, q2, a2)
      /\ E \in Subtrees
      /\ Sub(E, z) = (Sub(D, n) \ {n}) \cup {z}
      /\ \A a2 : a2 # n /\ a2 # z => Sub(E, a2) =
              IF n \in Sub(D, a2) THEN (Sub(D, a2) \ {n}) \cup {z} ELSE Sub(D, a2)
      /\ \A a2 : a2 \in Node /\ a2 # n /\ a2 # z => Key(u, a2) = Key(t, a2)
  BY DEF Replace
<1>3. a # n /\ a \in Node /\ (a = z \/ a \in In(t, D))
  BY <1>1, ReplaceShape, SubIs DEF In
<1>4. \A b, r : b \in Node /\ r \in Side => Child(t, r, b) # z
  BY Outside
<1>5. CASE a = z
  <2>1. Child(u, q, a) = Child(t, q, n) /\ Child(t, q, n) # n /\ Child(t, q, n) # z
    BY <1>1, <1>2, <1>4, <1>5, ShapeFacts
  <2>2. n \notin Sub(D, Child(t, q, n))
    BY <1>1, ShapeFacts
  <2>3. y \in Sub(D, Child(t, q, n))
    BY <1>2, <2>1, <2>2
  <2>4. y \in In(t, D) /\ y \in Node
    BY <2>3, BelowIn
  <2>5. Key(u, y) = Key(t, y)
    BY <1>2, <2>2, <2>3, <2>4
  <2> QED
    BY <1>5, <2>3, <2>5
<1>6. CASE a # z
  <2>1. (y = z /\ n \in Sub(D, Child(t, q, a))) \/ (y # n /\ y \in Sub(D, Child(t, q, a)))
    <3>1. CASE n # Root(t) /\ a = p /\ q = h
      <4>1. Child(u, q, a) = z /\ Child(t, q, a) = n
        BY <1>2, <3>1, HangsFacts
      <4> QED
        BY <1>1, <1>2, <4>1
    <3>2. CASE n = Root(t) \/ a # p \/ q # h
      <4>1. Child(u, q, a) = Child(t, q, a) /\ Child(t, q, a) # z
        BY <1>2, <1>3, <1>4, <1>6, <3>2
      <4>2. Child(t, q, a) # n
        BY <1>1, <1>3, <3>2, OnePlace
      <4> QED
        BY <1>2, <4>1, <4>2
    <3> QED
      BY <3>1, <3>2
  <2>2. a \in In(t, D) /\ Key(u, a) = Key(t, a)
    BY <1>2, <1>3, <1>6
  <2>3. CASE y = z /\ n \in Sub(D, Child(t, q, a))
    BY <2>2, <2>3
  <2>4. CASE y # n /\ y \in Sub(D, Child(t, q, a))
    <3>1. y \in In(t, D) /\ y \in Node
      BY <2>2, <2>4, BelowIn
    <3>2. Key(u, y) = Key(t, y)
      BY <1>2, <2>4, <3>1
    <3> QED
      BY <2>2, <2>4, <3>2 DEF Order
  <2> QED
    BY <2>1, <2>3, <2>4
<1> QED
  BY <1>5, <1>6

\* The leftmost node has the earliest key.
LEMMA FirstIsEarliest ==
    ASSUME NEW t \in Trees, NEW D \in Subtrees, Shape(t, D), Order(t, D),
           Together(KeysIn(t, In(t, D)))
    PROVE  \A x, z, y : x \in In(t, D) /\ IsFirst(t, D, x, z) /\ y \in Sub(D, x)
              => Upto(Key(t, z), Key(t, y))
<1> DEFINE I == In(t, D)
           K == KeysIn(t, I)
           S == {x \in Node : x \in I => \A z, y : IsFirst(t, D, x, z) /\ y \in Sub(D, x)
                                           => Upto(Key(t, z), Key(t, y))}
<1>1. K \subseteq Keys /\ \A x : x \in I => Key(t, x) \in K
  BY KeysAre, SubIs DEF In
<1>2. /\ \A j : j \in K => Upto(j, j)
      /\ \A i, j, k : i \in K /\ j \in K /\ k \in K /\ Upto(i, j) /\ Upto(j, k) => Upto(i, k)
  BY <1>1, TogetherOrder
<1> HIDE DEF K
<1>3. ASSUME NEW x \in Node, \A s \in Side : Child(t, s, x) \in Node => Child(t, s, x) \in S
      PROVE  x \in S
  <2> SUFFICES ASSUME x \in I, NEW z, NEW y, IsFirst(t, D, x, z), y \in Sub(D, x)
               PROVE  Upto(Key(t, z), Key(t, y))
    OBVIOUS
  <2> DEFINE l == Child(t, "left", x)
             r == Child(t, "right", x)
  <2>1. z \in Sub(D, x) /\ z \in I /\ y \in I
    BY Nested DEF IsFirst, In
  <2>2. Key(t, x) \in K /\ Key(t, y) \in K /\ Key(t, z) \in K
    BY <1>1, <2>1
  <2>3. /\ y = x \/ y \in Sub(D, l) \/ y \in Sub(D, r)
        /\ \A v : v \in Sub(D, l) => Upto(Key(t, v), Key(t, x))
        /\ \A v : v \in Sub(D, r) => Upto(Key(t, x), Key(t, v))
    <3>1. y = x \/ y \in Sub(D, l) \/ y \in Sub(D, r)
      BY ShapeFacts, Sides
    <3>2. "left" # "right"
      OBVIOUS
    <3> QED
      BY <3>1, <3>2, Sides DEF Order, Sorted
  <2>4. CASE l \in Node
    <3>1. IsFirst(t, D, l, z) /\ l \in S
      BY <1>3, <2>4, FirstStep, Sides
    <3>2. l \in I /\ z \in Sub(D, l)
      BY <2>4, <3>1, BelowIn, ShapeFacts, Sides DEF IsFirst
    <3>3. Upto(Key(t, z), Key(t, x))
      BY <2>3, <3>2
    <3>4. \A v : v \in Sub(D, l) => Upto(Key(t, z), Key(t, v))
      BY <3>1, <3>2
    <3> QED
      BY <1>2, <2>2, <2>3, <3>3, <3>4
  <2>5. CASE l \notin Node
    <3>1. z = x /\ Sub(D, l) = {}
      BY <2>5, FirstStep, SubIs
    <3> QED
      BY <1>2, <2>2, <2>3, <3>1
  <2> QED
    BY <2>4, <2>5
<1> HIDE DEF S
<1>4. Node \subseteq S
  BY <1>3, SubtreeInduction
<1> SUFFICES ASSUME NEW x, NEW z, NEW y, x \in In(t, D), IsFirst(t, D, x, z), y \in Sub(D, x)
             PROVE  Upto(Key(t, z), Key(t, y))
  OBVIOUS
<1>5. x \in S
  BY <1>4, SubIs DEF In
<1> QED
  BY <1>5 DEF S

-----------------------------------------------------------------------------
(***************************************************************************)
(* Level: the black heights, and what may be missing of them.              *)
(***************************************************************************)

\* No child changes but those of n, of m and of what n hung on.
LEMMA RotateKids ==
    ASSUME NEW t \in Trees, NEW D \in Subtrees, Shape(t, D), NEW s \in Side,
           NEW n \in Node, n \in In(t, D), NEW m \in Node, m = Child(t, Other(s), n),
           NEW r, NEW E, Rotation(t, D, n, m, s, r, E)
    PROVE  \A a, q : a \in Node /\ q \in Side /\ a # n /\ a # m =>
              \/ Child(t, q, a) = n /\ Child(r, q, a) = m
              \/ /\ Child(r, q, a) = Child(t, q, a)
                 /\ Child(t, q, a) # n /\ Child(t, q, a) # m
<1> SUFFICES ASSUME NEW a, NEW q, a \in Node, q \in Side, a # n, a # m, Child(t, q, a) # n
             PROVE  Child(r, q, a) = Child(t, q, a) /\ Child(t, q, a) # m
  <2>1. ASSUME NEW a, NEW q, a \in Node, q \in Side, Child(t, q, a) = n PROVE Child(r, q, a) = m
    BY <2>1, OnePlace DEF Rotation
  <2> QED
    BY <2>1
<1>1. Child(t, q, a) # m
  BY ShapeFacts, Sides
<1>2. n = Root(t) \/ a # Parent(t, n) \/ q = Other(Hangs(t, n))
  BY HangsFacts, Sides
<1> QED
  BY <1>1, <1>2 DEF Rotation

\* No child changes but that of what z hung on.
LEMMA SpliceKids ==
    ASSUME NEW t \in Trees, NEW D \in Subtrees, Shape(t, D),
           NEW z, z \in In(t, D), z # Root(t), NEW x, NEW u, NEW E, Splice(t, D, z, x, u, E)
    PROVE  \A a, q : a \in Node /\ q \in Side /\ a # z =>
              \/ a = Parent(t, z) /\ q = Hangs(t, z) /\ Child(t, q, a) = z /\ Child(u, q, a) = x
              \/ /\ a # Parent(t, z) \/ q # Hangs(t, z)
                 /\ Child(u, q, a) = Child(t, q, a) /\ Child(t, q, a) # z
<1>1. z \in Node /\ Child(t, Hangs(t, z), Parent(t, z)) = z
  BY HangsFacts
<1>2. \A a, q : a \in Node /\ q \in Side /\ Child(t, q, a) = z
                   => a = Parent(t, z) /\ q = Hangs(t, z)
  BY <1>1, OnePlace
<1> QED
  BY <1>1, <1>2 DEF Splice

\* No child changes but that of what n hung on.
LEMMA ReplaceKids ==
    ASSUME NEW t \in Trees, NEW D \in Subtrees, Shape(t, D),
           NEW n, n \in In(t, D), NEW z \in Node, z \notin In(t, D),
           NEW u, NEW E, Replace(t, D, n, z, u, E)
    PROVE  \A a, q : a \in Node /\ q \in Side /\ a # n /\ a # z =>
              \/ Child(t, q, a) = n /\ Child(u, q, a) = z
              \/ /\ Child(u, q, a) = Child(t, q, a)
                 /\ Child(t, q, a) # n /\ Child(t, q, a) # z
<1>1. n \in Node
  BY SubIs DEF In
<1>2. \A a, q : a \in Node /\ q \in Side /\ Child(t, q, a) = n
                   => n # Root(t) /\ a = Parent(t, n) /\ q = Hangs(t, n)
  BY <1>1, OnePlace
<1>3. n # Root(t) => Child(t, Hangs(t, n), Parent(t, n)) = n
  BY HangsFacts
<1>4. \A a, q : a \in Node /\ q \in Side => Child(t, q, a) # z
  BY Outside
<1> QED
  BY <1>2, <1>3, <1>4 DEF Replace

\* A black height for each node.
Heights == [Node -> Nat]

\* The black height of what is at x, by the function H.
BH(H, x) == IF x \in Node THEN H[x] ELSE 0

\* A node's part of the height.
Weight(t, n) == IF Red(t, n) THEN 0 ELSE 1

\* The side of a debt that nobody has.
NoSide == "left"

\* The black that is missing on side d of q.
Debt(q, d, n, s) == IF n = q /\ s = d THEN 1 ELSE 0

\* The two sides of n are as high, but for the debt.
LevelAt(t, H, q, d, n) ==
    \A s : s \in Side =>
        BH(H, n) = BH(H, Child(t, s, n)) + Weight(t, n) + Debt(q, d, n, s)

\* H is the black height of each node of I, but for that debt.
Level(t, I, H, q, d) == \A n : n \in I => LevelAt(t, H, q, d, n)

\* A red node with a red parent.
Clash(t, n) == n # Root(t) /\ Red(t, n) /\ Red(t, Parent(t, n))

\* A black height is a natural number, that of the sentinel is 0.
LEMMA HeightsIs ==
    ASSUME NEW H \in Heights
    PROVE  \A x : BH(H, x) \in Nat /\ (x \notin Node => BH(H, x) = 0)
BY DEF Heights, BH

\* The height of one node set anew.
LEMMA HeightSet ==
    ASSUME NEW H \in Heights, NEW x \in Node, NEW h \in Nat
    PROVE  \E G \in Heights : \A y : BH(G, y) = IF y = x THEN h ELSE BH(H, y)
<1> DEFINE G == [H EXCEPT ![x] = h]
<1>1. G \in Heights /\ \A y : BH(G, y) = IF y = x THEN h ELSE BH(H, y)
  BY DEF Heights, BH
<1> QED
  BY <1>1

\* A red node weighs nothing, a black one 1.
LEMMA WeightIs ==
    \A t, n : Weight(t, n) \in {0, 1} /\ (Red(t, n) <=> Weight(t, n) = 0)
BY DEF Weight

\* G is H after a rotation of t at n, whose child m comes up on side s.
Balanced(t, I, H, G, n, m, s, q, d) ==
    /\ \A a : a # n /\ a # m => BH(G, a) = BH(H, a)
    /\ \A a : a \in I /\ a # n /\ a # m => LevelAt(t, H, q, d, a)
    /\ BH(G, m) = BH(H, n)
    /\ BH(G, n) = BH(H, Child(t, s, n)) + Weight(t, n) + Debt(q, d, n, s)
    /\ BH(G, n) = BH(H, Child(t, s, m)) + Weight(t, n) + Debt(q, d, n, Other(s))
    /\ BH(G, m) = BH(G, n) + Weight(t, m) + Debt(q, d, m, s)
    /\ BH(G, m) = BH(H, Child(t, Other(s), m)) + Weight(t, m) + Debt(q, d, m, Other(s))

\* A rotation leaves a level tree, if n and m are balanced after it.
LEMMA RotateLevel ==
    ASSUME NEW t \in Trees, NEW D \in Subtrees, Shape(t, D), NEW s \in Side,
           NEW n \in Node, n \in In(t, D), NEW m \in Node, m = Child(t, Other(s), n),
           NEW r, NEW E, Rotation(t, D, n, m, s, r, E),
           NEW I, I \subseteq Node, NEW H \in Heights, NEW G \in Heights, NEW q,
               NEW d,
           Balanced(t, I, H, G, n, m, s, q, d)
    PROVE  Level(r, I, G, q, d)
<1>1. /\ Child(r, s, m) = n /\ Child(r, Other(s), m) = Child(t, Other(s), m)
      /\ Child(r, Other(s), n) = Child(t, s, m) /\ Child(r, s, n) = Child(t, s, n)
      /\ \A x : x \in Cell => Red(r, x) = Red(t, x)
      /\ m # n
  BY DEF Rotation
<1>b. /\ \A a : a # n /\ a # m => BH(G, a) = BH(H, a)
      /\ \A a : a \in I /\ a # n /\ a # m => LevelAt(t, H, q, d, a)
      /\ BH(G, m) = BH(H, n)
      /\ BH(G, n) = BH(H, Child(t, s, n)) + Weight(t, n) + Debt(q, d, n, s)
      /\ BH(G, n) = BH(H, Child(t, s, m)) + Weight(t, n) + Debt(q, d, n, Other(s))
      /\ BH(G, m) = BH(G, n) + Weight(t, m) + Debt(q, d, m, s)
      /\ BH(G, m) = BH(H, Child(t, Other(s), m)) + Weight(t, m) + Debt(q, d, m, Other(s))
  BY DEF Balanced
<1>2. /\ Child(t, s, n) # n /\ Child(t, s, n) # m
      /\ Child(t, s, m) # n /\ Child(t, s, m) # m
      /\ Child(t, Other(s), m) # n /\ Child(t, Other(s), m) # m
  BY ShapeFacts, Sides, SubIs DEF Rotation
<1>3. \A x : x \in Node => Weight(r, x) = Weight(t, x)
  BY <1>1, Cells DEF Weight
<1>4. \A v : v \in Side => v = s \/ v = Other(s)
  BY Sides
<1>5. LevelAt(r, G, q, d, n)
  BY <1>1, <1>2, <1>3, <1>4, <1>b DEF LevelAt
<1>6. LevelAt(r, G, q, d, m)
  BY <1>1, <1>2, <1>3, <1>4, <1>b DEF LevelAt
<1>7. ASSUME NEW a, a \in I, a # n, a # m PROVE LevelAt(r, G, q, d, a)
  <2> SUFFICES ASSUME NEW v, v \in Side
               PROVE  BH(G, a) = BH(G, Child(r, v, a)) + Weight(r, a) + Debt(q, d, a, v)
    BY DEF LevelAt
  <2>1. BH(H, a) = BH(H, Child(t, v, a)) + Weight(t, a) + Debt(q, d, a, v)
    BY <1>7, <1>b DEF LevelAt
  <2>2. BH(G, Child(r, v, a)) = BH(H, Child(t, v, a))
    <3>1. \/ Child(t, v, a) = n /\ Child(r, v, a) = m
          \/ /\ Child(r, v, a) = Child(t, v, a)
             /\ Child(t, v, a) # n /\ Child(t, v, a) # m
      BY <1>7, RotateKids
    <3> QED
      BY <3>1, <1>b
  <2> QED
    BY <1>3, <1>7, <1>b, <2>1, <2>2
<1> QED
  BY <1>5, <1>6, <1>7 DEF Level

\* Without z the tree is level, but for z's black on the side where it hung.
LEMMA SpliceLevel ==
    ASSUME NEW t \in Trees, NEW D \in Subtrees, Shape(t, D),
           NEW z, z \in In(t, D), z # Root(t), NEW c \in Side, NEW x \in Cell,
           x = Child(t, c, z), Child(t, Other(c), z) \notin Node,
           NEW u, NEW E, Splice(t, D, z, x, u, E), NEW H \in Heights,
           Level(t, In(t, D), H, Null, NoSide),
           NEW q, q = IF Red(t, z) THEN Null ELSE Parent(t, z)
    PROVE  Level(u, In(u, E), H, q, Hangs(t, z))
<1> SUFFICES ASSUME NEW a, a \in In(u, E), NEW v, v \in Side
             PROVE  BH(H, a) = BH(H, Child(u, v, a)) + Weight(u, a) + Debt(q, Hangs(t, z), a, v)
  BY DEF Level, LevelAt
<1>1. a \in In(t, D) /\ a # z /\ a \in Node /\ a # Null
  BY SpliceShape, SubIs, Cells DEF In
<1>2. Weight(u, a) = Weight(t, a)
  BY <1>1, Cells DEF Weight, Splice
<1>3. BH(H, a) = BH(H, Child(t, v, a)) + Weight(t, a)
  BY <1>1, HeightsIs, WeightIs DEF Level, LevelAt, Debt
<1>4. BH(H, z) = BH(H, x) + Weight(t, z)
  BY HeightsIs, WeightIs, SubIs, Cells DEF Level, LevelAt, Debt, In
<1>5. \/ a = Parent(t, z) /\ v = Hangs(t, z) /\ Child(t, v, a) = z /\ Child(u, v, a) = x
      \/ (a # Parent(t, z) \/ v # Hangs(t, z)) /\ Child(u, v, a) = Child(t, v, a)
  BY <1>1, SpliceKids
<1>6. BH(H, x) \in Nat /\ BH(H, z) \in Nat /\ BH(H, a) \in Nat
  BY HeightsIs
<1>7. CASE a = Parent(t, z) /\ v = Hangs(t, z) /\ Child(t, v, a) = z /\ Child(u, v, a) = x
  <2>1. Debt(q, Hangs(t, z), a, v) = Weight(t, z)
    BY <1>1, <1>7 DEF Debt, Weight
  <2> QED
    BY <1>2, <1>3, <1>4, <1>6, <1>7, <2>1, WeightIs
<1>8. CASE (a # Parent(t, z) \/ v # Hangs(t, z)) /\ Child(u, v, a) = Child(t, v, a)
  <2>1. Debt(q, Hangs(t, z), a, v) = 0
    BY <1>1, <1>8 DEF Debt
  <2> QED
    BY <1>2, <1>3, <1>8, <2>1, HeightsIs, WeightIs
<1> QED
  BY <1>5, <1>7, <1>8

\* A replacement has the height of what it replaces.
LEMMA ReplaceLevel ==
    ASSUME NEW t \in Trees, NEW D \in Subtrees, Shape(t, D),
           NEW n, n \in In(t, D), NEW z \in Node, z \notin In(t, D),
           NEW u, NEW E, Replace(t, D, n, z, u, E), NEW H \in Heights, NEW q, NEW d,
           Level(t, In(t, D), H, q, d), q # z,
           NEW o, o = IF q = n THEN z ELSE q
    PROVE  \E G \in Heights : Level(u, In(u, E), G, o, d)
<1>1. PICK G \in Heights : \A y : BH(G, y) = IF y = z THEN BH(H, n) ELSE BH(H, y)
  <2>1. BH(H, n) \in Nat
    BY HeightsIs
  <2> QED
    BY <2>1, HeightSet
<1> SUFFICES ASSUME NEW a, a \in In(u, E), NEW v, v \in Side
             PROVE  BH(G, a) = BH(G, Child(u, v, a)) + Weight(u, a) + Debt(o, d, a, v)
  BY DEF Level, LevelAt
<1>2. n \in Node /\ n # z /\ a # n /\ a \in Node /\ (a = z \/ a \in In(t, D))
  BY ReplaceShape, SubIs, ShapeFacts DEF In
<1>3. \A b, r : b \in Node /\ r \in Side => Child(t, r, b) # z
  BY Outside
<1>4. CASE a = z
  <2>1. Child(u, v, z) = Child(t, v, n)
    BY DEF Replace
  <2>2. Weight(u, z) = Weight(t, n)
    BY Cells DEF Weight, Replace
  <2>3. Debt(o, d, z, v) = Debt(q, d, n, v)
    BY <1>2 DEF Debt
  <2>4. BH(H, n) = BH(H, Child(t, v, n)) + Weight(t, n) + Debt(q, d, n, v)
    BY DEF Level, LevelAt
  <2> QED
    BY <1>1, <1>2, <1>3, <1>4, <2>1, <2>2, <2>3, <2>4
<1>5. CASE a # z
  <2>1. BH(H, a) = BH(H, Child(t, v, a)) + Weight(t, a) + Debt(q, d, a, v)
    BY <1>2, <1>5 DEF Level, LevelAt
  <2>2. Weight(u, a) = Weight(t, a)
    BY <1>2, <1>5, Cells DEF Weight, Replace
  <2>3. Debt(o, d, a, v) = Debt(q, d, a, v)
    BY <1>2, <1>5 DEF Debt
  <2>4. BH(G, Child(u, v, a)) = BH(H, Child(t, v, a))
    BY <1>1, <1>2, <1>5, ReplaceKids
  <2> QED
    BY <1>1, <1>5, <2>1, <2>2, <2>3, <2>4
<1> QED
  BY <1>4, <1>5

-----------------------------------------------------------------------------
(***************************************************************************)
(* A rebalancing step: what it keeps, and the red uncle of an insertion.   *)
(***************************************************************************)

\* What holds of the tree at every moment, colours apart.
Sound(t, D) ==
    /\ t \in Trees /\ D \in Subtrees
    /\ Shape(t, D) /\ Order(t, D)
    /\ Together(KeysIn(t, In(t, D)))
    /\ ~Red(t, Sentinel)

\* u has the nodes of t, with their keys, and the same one first.
Kept(t, D, u, E) ==
    /\ In(u, E) = In(t, D)
    /\ \A x : x \in Node => Key(u, x) = Key(t, x)
    /\ \A z : IsFirst(t, D, Root(t), z) => IsFirst(u, E, Root(u), z)

\* What two steps keep, both keep.
LEMMA KeptTwice ==
    \A t, D, u, E, v, F : Kept(t, D, u, E) /\ Kept(u, E, v, F) => Kept(t, D, v, F)
BY DEF Kept

\* What is said of the links holds of any fields with the same links.
LEMMA SameLinks ==
    ASSUME NEW t, NEW D \in Subtrees, Shape(t, D), NEW u, Root(u) = Root(t),
           \A q, x : q \in Side /\ x \in Node => Child(u, q, x) = Child(t, q, x),
           \A x : x \in Node => Parent(u, x) = Parent(t, x)
    PROVE  /\ Shape(u, D) /\ In(u, D) = In(t, D)
           /\ \A z : IsFirst(t, D, Root(t), z) => IsFirst(u, D, Root(u), z)
           /\ (Order(t, D) /\ \A x : x \in In(t, D) => Key(u, x) = Key(t, x)) => Order(u, D)
<1>1. In(u, D) = In(t, D) /\ In(t, D) \subseteq Node
  BY SubIs DEF In
<1>2. Shape(u, D)
  <2> SUFFICES ASSUME NEW n \in Node, NEW s \in Side
               PROVE  LET l == Child(u, s, n)
                          r == Child(u, Other(s), n)
                      IN  /\ Sub(D, n) = {n} \cup Sub(D, l) \cup Sub(D, r)
                          /\ n \notin Sub(D, l)
                          /\ Sub(D, l) \cap Sub(D, r) = {}
                          /\ l \in Node => Parent(u, l) = n /\ n \in In(u, D)
                          /\ n \in In(u, D) => l \in Cell
    BY DEF Shape
  <2>1. Child(u, s, n) = Child(t, s, n) /\ Child(u, Other(s), n) = Child(t, Other(s), n)
    BY Sides
  <2> QED
    BY <1>1, <2>1 DEF Shape
<1>3. ASSUME NEW z, IsFirst(t, D, Root(t), z) PROVE IsFirst(u, D, Root(u), z)
  <2>1. z \in Node /\ \A a : a \in Sub(D, Root(t)) => a \in Node
    BY <1>3, SubIs DEF IsFirst
  <2> QED
    BY <1>3, <2>1, Sides DEF IsFirst
<1>4. ASSUME Order(t, D), \A x : x \in In(t, D) => Key(u, x) = Key(t, x) PROVE Order(u, D)
  <2> SUFFICES ASSUME NEW n, NEW s, NEW m, n \in In(u, D), s \in Side, m \in Sub(D, Child(u, s, n))
               PROVE  Sorted(s, Key(u, m), Key(u, n))
    BY DEF Order
  <2>1. n \in In(t, D) /\ m \in Sub(D, Child(t, s, n))
    BY <1>1
  <2>2. m \in In(t, D)
    BY <2>1, BelowIn
  <2> QED
    BY <1>4, <2>1, <2>2 DEF Order
<1> QED
  BY <1>1, <1>2, <1>3, <1>4

\* Painting keeps shape and order.
LEMMA RepaintedSound ==
    ASSUME NEW t, NEW D, Sound(t, D), NEW u, u \in Trees, Root(u) = Root(t),
           \A q, x : q \in Side /\ x \in Cell => Child(u, q, x) = Child(t, q, x),
           \A x : x \in Cell => Parent(u, x) = Parent(t, x),
           \A x : x \in Node => Key(u, x) = Key(t, x),
           ~Red(u, Sentinel)
    PROVE  Sound(u, D) /\ Kept(t, D, u, D)
<1>1. /\ t \in Trees /\ D \in Subtrees /\ Shape(t, D) /\ Order(t, D)
      /\ Together(KeysIn(t, In(t, D)))
  BY DEF Sound
<1>2. \A x : x \in Node => x \in Cell
  BY Cells
<1>3. /\ Shape(u, D) /\ In(u, D) = In(t, D)
      /\ \A z : IsFirst(t, D, Root(t), z) => IsFirst(u, D, Root(u), z)
      /\ (\A x : x \in In(t, D) => Key(u, x) = Key(t, x)) => Order(u, D)
  BY <1>1, <1>2, SameLinks
<1>4. In(t, D) \subseteq Node
  BY <1>1, SubIs DEF In
<1>5. KeysIn(u, In(u, D)) = KeysIn(t, In(t, D))
  BY <1>3, <1>4 DEF KeysIn
<1> QED
  BY <1>1, <1>3, <1>4, <1>5 DEF Sound, Kept

\* The two paints.
Blackened(t, n, u) == u = Painted(t, n, FALSE)
Reddened(t, n, u) == u = Painted(t, n, TRUE)

\* A node painted black.
LEMMA BlackSound ==
    ASSUME NEW t, NEW D, Sound(t, D), NEW n \in Node, NEW u, Blackened(t, n, u)
    PROVE  /\ Sound(u, D) /\ Kept(t, D, u, D)
           /\ Root(u) = Root(t)
           /\ \A q, x : q \in Side /\ x \in Cell => Child(u, q, x) = Child(t, q, x)
           /\ \A x : x \in Cell => Parent(u, x) = Parent(t, x)
           /\ \A x : x \in Cell => (Red(u, x) <=> (x # n /\ Red(t, x)))
<1>1. t \in Trees /\ ~Red(t, Sentinel) /\ n \in Cell /\ n # Sentinel /\ Sentinel \in Cell
  BY Cells DEF Sound
<1>2. /\ u \in Trees /\ u.root = t.root
      /\ u.child = t.child /\ u.parent = t.parent /\ u.key = t.key
  BY <1>1 DEF Trees, Painted, Blackened
<1>3. \A x \in Cell : u.red[x] <=> IF x = n THEN FALSE ELSE t.red[x]
  BY <1>1 DEF Trees, Painted, Blackened
<1>4. /\ Root(u) = Root(t)
      /\ \A q, x : q \in Side /\ x \in Cell => Child(u, q, x) = Child(t, q, x)
      /\ \A x : x \in Cell => Parent(u, x) = Parent(t, x)
      /\ \A x : x \in Node => Key(u, x) = Key(t, x)
  BY <1>2 DEF Root, Child, Parent, Key
<1>5. \A x : x \in Cell => (Red(u, x) <=> (x # n /\ Red(t, x)))
  BY <1>3 DEF Red
<1>6. Sound(u, D) /\ Kept(t, D, u, D)
  BY <1>1, <1>2, <1>4, <1>5, RepaintedSound
<1> QED
  BY <1>4, <1>5, <1>6

\* A node painted red.
LEMMA RedSound ==
    ASSUME NEW t, NEW D, Sound(t, D), NEW n \in Node, NEW u, Reddened(t, n, u)
    PROVE  /\ Sound(u, D) /\ Kept(t, D, u, D)
           /\ Root(u) = Root(t)
           /\ \A q, x : q \in Side /\ x \in Cell => Child(u, q, x) = Child(t, q, x)
           /\ \A x : x \in Cell => Parent(u, x) = Parent(t, x)
           /\ \A x : x \in Cell => (Red(u, x) <=> (x = n \/ Red(t, x)))
<1>1. t \in Trees /\ ~Red(t, Sentinel) /\ n \in Cell /\ n # Sentinel /\ Sentinel \in Cell
  BY Cells DEF Sound
<1>2. /\ u \in Trees /\ u.root = t.root
      /\ u.child = t.child /\ u.parent = t.parent /\ u.key = t.key
  BY <1>1 DEF Trees, Painted, Reddened
<1>3. \A x \in Cell : u.red[x] <=> IF x = n THEN TRUE ELSE t.red[x]
  BY <1>1 DEF Trees, Painted, Reddened
<1>4. /\ Root(u) = Root(t)
      /\ \A q, x : q \in Side /\ x \in Cell => Child(u, q, x) = Child(t, q, x)
      /\ \A x : x \in Cell => Parent(u, x) = Parent(t, x)
      /\ \A x : x \in Node => Key(u, x) = Key(t, x)
  BY <1>2 DEF Root, Child, Parent, Key
<1>5. \A x : x \in Cell => (Red(u, x) <=> (x = n \/ Red(t, x)))
  BY <1>3 DEF Red
<1>6. Sound(u, D) /\ Kept(t, D, u, D)
  BY <1>1, <1>2, <1>4, <1>5, RepaintedSound
<1> QED
  BY <1>4, <1>5, <1>6

\* The tree after a rotation.
Rotated(t, n, s, r) == r = Rotate(t, n, s)

\* A rotation keeps shape and order, its nodes and its leftmost node.
LEMMA RotateSound ==
    ASSUME NEW t, NEW D, Sound(t, D), NEW s \in Side,
           NEW n \in Node, n \in In(t, D), NEW m \in Node, m = Child(t, Other(s), n),
           NEW r, Rotated(t, n, s, r)
    PROVE  \E E : Sound(r, E) /\ Kept(t, D, r, E) /\ Rotation(t, D, n, m, s, r, E)
<1>1. /\ t \in Trees /\ D \in Subtrees /\ Shape(t, D) /\ Order(t, D)
      /\ Together(KeysIn(t, In(t, D))) /\ ~Red(t, Sentinel)
  BY DEF Sound
<1>2. PICK E : E = Swung(t, D, n, s)
  OBVIOUS
<1>3. Rotation(t, D, n, m, s, r, E) /\ In(r, E) = In(t, D)
  BY <1>1, <1>2, RotateIs DEF Rotated
<1>4. Shape(r, E) /\ Order(r, E)
  BY <1>1, <1>3, RotateShape, RotateOrder
<1>5. \A z : IsFirst(t, D, Root(t), z) => IsFirst(r, E, Root(r), z)
  BY <1>1, <1>3, RotateFirst
<1>6. /\ r \in Trees /\ E \in Subtrees
      /\ \A x : x \in Cell => Red(r, x) = Red(t, x)
      /\ \A x : x \in Node => Key(r, x) = Key(t, x)
  BY <1>3 DEF Rotation
<1>7. In(t, D) \subseteq Node
  BY <1>1, SubIs DEF In
<1>8. KeysIn(r, In(r, E)) = KeysIn(t, In(t, D))
  BY <1>3, <1>6, <1>7 DEF KeysIn
<1> QED
  BY <1>1, <1>3, <1>4, <1>5, <1>6, <1>8, Cells DEF Sound, Kept

\* A red node n of the tree with a red parent, and no other such node.
Conflict(t, D, H, n) ==
    /\ Sound(t, D) /\ H \in Heights /\ Level(t, In(t, D), H, Null, NoSide)
    /\ n \in In(t, D) /\ Red(t, n)
    /\ \A y : y \in In(t, D) /\ Clash(t, y) => y = n

\* What is around it.
LEMMA Family ==
    ASSUME NEW t, NEW D, NEW H, NEW n, Conflict(t, D, H, n), n # Root(t),
           ~Red(t, Root(t)), NEW p, p = Parent(t, n), Red(t, p), NEW g, g = Parent(t, p)
    PROVE  /\ n \in Node /\ p \in Node /\ g \in Node
           /\ p \in In(t, D) /\ g \in In(t, D) /\ p # Root(t)
           /\ n # p /\ p # g /\ n # g
           /\ Child(t, Hangs(t, n), p) = n /\ Child(t, Other(Hangs(t, n)), p) # n
           /\ Child(t, Hangs(t, p), g) = p /\ Child(t, Other(Hangs(t, p)), g) # p
           /\ Child(t, Other(Hangs(t, p)), g) \in Cell
           /\ Child(t, Other(Hangs(t, p)), g) # g /\ Child(t, Other(Hangs(t, p)), g) # n
           /\ ~Red(t, g)
           /\ \A q : q \in Side => Child(t, q, p) # p /\ Child(t, q, p) # g
                                   /\ Child(t, q, g) # n
<1>1. t \in Trees /\ D \in Subtrees /\ Shape(t, D) /\ n \in In(t, D) /\ Red(t, n)
  BY DEF Conflict, Sound
<1>2. /\ n \in Node /\ p \in Node /\ p \in In(t, D)
      /\ Child(t, Hangs(t, n), p) = n /\ Child(t, Other(Hangs(t, n)), p) # n
  BY <1>1, HangsFacts
<1>3. p # Root(t)
  OBVIOUS
<1>4. /\ g \in Node /\ g \in In(t, D)
      /\ Child(t, Hangs(t, p), g) = p /\ Child(t, Other(Hangs(t, p)), g) # p
  BY <1>1, <1>2, <1>3, HangsFacts
<1>5. Hangs(t, p) \in Side /\ Hangs(t, n) \in Side /\ Other(Hangs(t, p)) \in Side
  BY HangsSide, Sides
<1>6. \A q, a : q \in Side /\ a \in Node => Child(t, q, a) # a
  BY <1>1, ShapeFacts
<1>7. n # p /\ p # g
  BY <1>2, <1>4, <1>5, <1>6
<1>8. n # g
  <2> SUFFICES ASSUME n = g PROVE FALSE
    OBVIOUS
  <2>1. n \in Sub(D, p) /\ p \in Sub(D, n)
    BY <1>1, <1>2, <1>4, <1>5, ShapeFacts, Sides
  <2> QED
    BY <1>1, <1>7, <2>1, Antisymmetric
<1>9. Child(t, Other(Hangs(t, p)), g) \in Cell
  BY <1>1, <1>4, <1>5, ShapeFacts
<1>10. ~Red(t, g)
  <2> SUFFICES ASSUME Red(t, g) PROVE FALSE
    OBVIOUS
  <2>1. Clash(t, p)
    BY <1>3 DEF Clash
  <2> QED
    BY <1>2, <1>7, <2>1 DEF Conflict
<1>11. \A q : q \in Side => Child(t, q, p) # g /\ Child(t, q, g) # n
  <2>1. \A q : q \in Side => Child(t, q, g) # n
    BY <1>1, <1>2, <1>4, <1>7, ShapeFacts
  <2>2. ASSUME NEW q, q \in Side, Child(t, q, p) = g PROVE FALSE
    <3>1. g \in Sub(D, p) /\ p \in Sub(D, g)
      BY <1>1, <1>2, <1>4, <1>5, <2>2, ShapeFacts, Sides
    <3> QED
      BY <1>1, <1>7, <3>1, Antisymmetric
  <2> QED
    BY <2>1, <2>2
<1> QED
  BY <1>2, <1>3, <1>4, <1>5, <1>6, <1>7, <1>8, <1>9, <1>10, <1>11

\* A red uncle: the conflict moves up to the grandparent.
LEMMA LiftedConflict ==
    ASSUME NEW t, NEW D, NEW H, NEW n, Conflict(t, D, H, n), n # Root(t),
           ~Red(t, Root(t)), NEW p, p = Parent(t, n), Red(t, p), NEW g, g =
               Parent(t, p),
           NEW w, w = Child(t, Other(Hangs(t, p)), g), Red(t, w),
           NEW u, u = Lifted(t, p, w, g)
    PROVE  /\ Kept(t, D, u, D)
           /\ \E G : Conflict(u, D, G, g)
           /\ Red(u, Root(u)) => g = Root(u)
<1> DEFINE I == In(t, D)
           s == Hangs(t, p)
           o == Other(s)
<1>1. /\ t \in Trees /\ D \in Subtrees /\ Shape(t, D) /\ ~Red(t, Sentinel)
      /\ Sound(t, D) /\ H \in Heights /\ Level(t, I, H, Null, NoSide)
      /\ \A y : y \in I /\ Clash(t, y) => y = n
  BY DEF Conflict, Sound
<1>2. /\ n \in Node /\ p \in Node /\ g \in Node /\ p \in I /\ g \in I /\ p # Root(t)
      /\ n # p /\ p # g /\ n # g /\ w # p /\ w # g /\ w # n /\ w \in Cell /\ ~Red(t, g)
      /\ Child(t, s, g) = p
      /\ \A q : q \in Side => Child(t, q, p) # p /\ Child(t, q, p) # g
  BY Family
<1>3. w \in Node /\ s \in Side /\ o \in Side /\ s # o /\ \A q \in Side : q = s \/ q = o
  BY <1>1, <1>2, Cells, HangsSide, Sides
<1>4. /\ \A q, a : q \in Side /\ a \in Node /\ Child(t, q, a) = p => a = g
      /\ \A q, a : q \in Side /\ a \in Node /\ Child(t, q, a) = w => a = g
      /\ \A q : q \in Side => Child(t, q, g) # g
      /\ I \subseteq Node /\ w \in I
  BY <1>1, <1>2, <1>3, OnePlace, ShapeFacts, SubIs DEF In
<1>a. PICK a : Blackened(t, p, a)
  BY DEF Blackened
<1>b. PICK b : Blackened(a, w, b)
  BY DEF Blackened
<1>5. Reddened(b, g, u)
  BY <1>a, <1>b DEF Lifted, Blackened, Reddened
<1>6. /\ Sound(a, D) /\ Kept(t, D, a, D) /\ Root(a) = Root(t)
      /\ \A q, x : q \in Side /\ x \in Cell => Child(a, q, x) = Child(t, q, x)
      /\ \A x : x \in Cell => Parent(a, x) = Parent(t, x)
      /\ \A x : x \in Cell => (Red(a, x) <=> (x # p /\ Red(t, x)))
  BY <1>1, <1>2, <1>a, BlackSound
<1>7. /\ Sound(b, D) /\ Kept(a, D, b, D) /\ Root(b) = Root(a)
      /\ \A q, x : q \in Side /\ x \in Cell => Child(b, q, x) = Child(a, q, x)
      /\ \A x : x \in Cell => Parent(b, x) = Parent(a, x)
      /\ \A x : x \in Cell => (Red(b, x) <=> (x # w /\ Red(a, x)))
  BY <1>3, <1>6, <1>b, BlackSound
<1>8. /\ Sound(u, D) /\ Kept(b, D, u, D) /\ Root(u) = Root(b)
      /\ \A q, x : q \in Side /\ x \in Cell => Child(u, q, x) = Child(b, q, x)
      /\ \A x : x \in Cell => Parent(u, x) = Parent(b, x)
      /\ \A x : x \in Cell => (Red(u, x) <=> (x = g \/ Red(b, x)))
  BY <1>2, <1>5, <1>7, RedSound
<1>9. /\ Root(u) = Root(t)
      /\ \A q, x : q \in Side /\ x \in Node => Child(u, q, x) = Child(t, q, x)
      /\ \A x : x \in Node =>
            /\ Parent(u, x) = Parent(t, x)
            /\ Red(u, x) <=> (x = g \/ (x # p /\ x # w /\ Red(t, x)))
  BY <1>2, <1>6, <1>7, <1>8, Cells
<1>10. Kept(t, D, u, D) /\ In(u, D) = I
  BY <1>6, <1>7, <1>8, KeptTwice DEF Kept
<1>11. \E G \in Heights : \A y : BH(G, y) = IF y = w \/ y = p THEN BH(H, y) + 1 ELSE BH(H, y)
  <2>1. BH(H, p) + 1 \in Nat /\ BH(H, w) + 1 \in Nat
    BY <1>1, HeightsIs
  <2>2. PICK G1 \in Heights : \A y : BH(G1, y) = IF y = p THEN BH(H, p) + 1 ELSE BH(H, y)
    BY <1>1, <1>2, <2>1, HeightSet
  <2>3. PICK G \in Heights : \A y : BH(G, y) = IF y = w THEN BH(H, w) + 1 ELSE BH(G1, y)
    BY <1>3, <2>1, HeightSet
  <2> QED
    BY <1>2, <2>2, <2>3
<1>g. PICK G \in Heights : \A y : BH(G, y) = IF y = w \/ y = p THEN BH(H, y) + 1 ELSE BH(H, y)
  BY <1>11
<1> HIDE DEF I, s, o
<1>12. ASSUME NEW x, x \in I, NEW q, q \in Side
       PROVE  BH(G, x) = BH(G, Child(u, q, x)) + Weight(u, x) + Debt(Null, NoSide, x, q)
  <2>1. x \in Node /\ Child(u, q, x) = Child(t, q, x)
    BY <1>4, <1>9, <1>12
  <2>2. BH(H, x) = BH(H, Child(t, q, x)) + Weight(t, x)
    BY <1>1, <1>12, <2>1, HeightsIs, WeightIs, Cells DEF Level, LevelAt, Debt
  <2>3. BH(H, x) \in Nat /\ BH(H, Child(t, q, x)) \in Nat
    BY <1>1, HeightsIs
  <2>4. Debt(Null, NoSide, x, q) = 0
    BY <2>1, Cells DEF Debt
  <2>5. CASE x = g
    <3>1. Weight(u, x) = 0 /\ Weight(t, x) = 1
      BY <1>2, <1>9, <2>1, <2>5 DEF Weight
    <3>2. Child(t, q, x) = p \/ Child(t, q, x) = w
      BY <1>2, <1>3, <1>12, <2>5 DEF o, s
    <3> QED
      BY <1>2, <1>4, <1>g, <2>1, <2>2, <2>3, <2>4, <2>5, <3>1, <3>2
  <2>6. CASE x = p \/ x = w
    <3>1. Weight(u, x) = 1 /\ Weight(t, x) = 0
      BY <1>2, <1>3, <1>9, <2>1, <2>6 DEF Weight
    <3>2. Child(t, q, x) # p /\ Child(t, q, x) # w
      BY <1>2, <1>4, <1>12, <2>1, <2>6
    <3> QED
      BY <1>g, <2>1, <2>2, <2>3, <2>4, <2>6, <3>1, <3>2
  <2>7. CASE x # g /\ x # p /\ x # w
    <3>1. Weight(u, x) = Weight(t, x)
      BY <1>9, <2>1, <2>7 DEF Weight
    <3>2. Child(t, q, x) # p /\ Child(t, q, x) # w
      BY <1>4, <1>12, <2>1, <2>7
    <3> QED
      BY <1>g, <2>1, <2>2, <2>3, <2>4, <2>7, <3>1, <3>2
  <2> QED
    BY <2>5, <2>6, <2>7
<1>13. ASSUME NEW y, y \in I, Clash(u, y) PROVE y = g
  <2> SUFFICES ASSUME y # g PROVE FALSE
    OBVIOUS
  <2>1. y \in Node /\ y # p /\ y # w /\ Red(t, y) /\ y # Root(t)
    BY <1>4, <1>9, <1>13 DEF Clash
  <2>2. Parent(t, y) \in Node /\ Parent(u, y) = Parent(t, y)
    BY <1>1, <1>9, <1>13, <2>1, HangsFacts DEF I
  <2>3. Parent(t, y) # p /\ Parent(t, y) # w
    BY <1>9, <1>13, <2>2, <1>2 DEF Clash
  <2>4. Parent(t, y) # g
    <3> SUFFICES ASSUME Parent(t, y) = g PROVE FALSE
      OBVIOUS
    <3>1. Hangs(t, y) \in Side /\ Child(t, Hangs(t, y), g) = y
      BY <1>1, <1>13, <2>1, HangsFacts DEF I
    <3> QED
      BY <1>2, <1>3, <2>1, <3>1 DEF s, o
  <2>5. Clash(t, y)
    BY <1>9, <1>13, <2>1, <2>2, <2>3, <2>4 DEF Clash
  <2>6. y = n
    BY <1>1, <1>13, <2>5
  <2> QED
    BY <2>3, <2>6
<1>14. Red(u, Root(u)) => g = Root(u)
  <2> SUFFICES ASSUME g # Root(t), Red(u, Root(t)) PROVE FALSE
    BY <1>9
  <2>1. Root(t) \in Node
    BY <1>2, SubIs, <1>1 DEF In, I
  <2> QED
    BY <1>9, <2>1
<1>15. Conflict(u, D, G, g)
  BY <1>2, <1>8, <1>9, <1>10, <1>g, <1>12, <1>13 DEF Conflict, Level, LevelAt
<1> QED
  BY <1>10, <1>14, <1>15

-----------------------------------------------------------------------------
(***************************************************************************)
(* The other cases of an insertion.                                        *)
(***************************************************************************)

\* Nothing is owed anywhere if nothing is owed.
LEMMA NoDebt == \A n, s : n \in Node => Debt(Null, NoSide, n, s) = 0
BY Cells DEF Debt

\* Level without a debt, a fact at a time.
LEMMA LevelFacts ==
    ASSUME NEW t, NEW I, I \subseteq Node, NEW H \in Heights, Level(t, I, H, Null, NoSide)
    PROVE  \A a, q : a \in I /\ q \in Side =>
              /\ Red(t, a) => BH(H, a) = BH(H, Child(t, q, a))
              /\ ~Red(t, a) => BH(H, a) = BH(H, Child(t, q, a)) + 1
<1> SUFFICES ASSUME NEW a, NEW q, a \in I, q \in Side
             PROVE  /\ Red(t, a) => BH(H, a) = BH(H, Child(t, q, a))
                    /\ ~Red(t, a) => BH(H, a) = BH(H, Child(t, q, a)) + 1
  OBVIOUS
<1>1. BH(H, a) = BH(H, Child(t, q, a)) + Weight(t, a) + Debt(Null, NoSide, a, q)
  BY DEF Level, LevelAt
<1>2. Debt(Null, NoSide, a, q) = 0 /\ BH(H, a) \in Nat /\ BH(H, Child(t, q, a)) \in Nat
  BY NoDebt, HeightsIs
<1> QED
  BY <1>1, <1>2 DEF Weight

\* A rotation of a tree without debts.
LEMMA BalancedFree ==
    ASSUME NEW t, NEW I, NEW H \in Heights, NEW G \in Heights, NEW s,
           NEW n \in Node, NEW m \in Node,
           \A a : a # n /\ a # m => BH(G, a) = BH(H, a),
           \A a : a \in I /\ a # n /\ a # m => LevelAt(t, H, Null, NoSide, a),
           BH(G, m) = BH(H, n),
           BH(G, n) = BH(H, Child(t, s, n)) + Weight(t, n),
           BH(G, n) = BH(H, Child(t, s, m)) + Weight(t, n),
           BH(G, m) = BH(G, n) + Weight(t, m),
           BH(G, m) = BH(H, Child(t, Other(s), m)) + Weight(t, m)
    PROVE  Balanced(t, I, H, G, n, m, s, Null, NoSide)
<1>1. \A q : Debt(Null, NoSide, n, q) = 0 /\ Debt(Null, NoSide, m, q) = 0
  BY NoDebt
<1>2. /\ Weight(t, n) \in Nat /\ Weight(t, m) \in Nat
      /\ BH(H, Child(t, s, n)) \in Nat /\ BH(H, Child(t, s, m)) \in Nat
      /\ BH(G, n) \in Nat /\ BH(H, Child(t, Other(s), m)) \in Nat
  BY HeightsIs, WeightIs
<1>3. /\ BH(G, n) = BH(H, Child(t, s, n)) + Weight(t, n) + Debt(Null, NoSide, n, s)
      /\ BH(G, n) = BH(H, Child(t, s, m)) + Weight(t, n) + Debt(Null, NoSide, n, Other(s))
  BY <1>1, <1>2
<1>4. /\ BH(G, m) = BH(G, n) + Weight(t, m) + Debt(Null, NoSide, m, s)
      /\ BH(G, m) = BH(H, Child(t, Other(s), m)) + Weight(t, m)
                      + Debt(Null, NoSide, m, Other(s))
  BY <1>1, <1>2
<1> QED
  BY <1>3, <1>4 DEF Balanced

\* Two nodes painted.
LEMMA TwoPaints ==
    ASSUME NEW t, NEW D, Sound(t, D), NEW p \in Node, NEW g \in Node,
           NEW a, Blackened(t, p, a), NEW b, Reddened(a, g, b)
    PROVE  /\ Sound(b, D) /\ Kept(t, D, b, D) /\ Root(b) = Root(t)
           /\ b \in Trees /\ Shape(b, D) /\ In(b, D) = In(t, D)
           /\ \A q, x : q \in Side /\ x \in Cell => Child(b, q, x) = Child(t, q, x)
           /\ \A x : x \in Cell => Parent(b, x) = Parent(t, x)
           /\ \A x : x \in Cell => (Red(b, x) <=> (x = g \/ (x # p /\ Red(t, x))))
<1>3. /\ Sound(a, D) /\ Kept(t, D, a, D) /\ Root(a) = Root(t)
      /\ \A q, x : q \in Side /\ x \in Cell => Child(a, q, x) = Child(t, q, x)
      /\ \A x : x \in Cell => Parent(a, x) = Parent(t, x)
      /\ \A x : x \in Cell => (Red(a, x) <=> (x # p /\ Red(t, x)))
  BY BlackSound
<1>4. /\ Sound(b, D) /\ Kept(a, D, b, D) /\ Root(b) = Root(a)
      /\ \A q, x : q \in Side /\ x \in Cell => Child(b, q, x) = Child(a, q, x)
      /\ \A x : x \in Cell => Parent(b, x) = Parent(a, x)
      /\ \A x : x \in Cell => (Red(b, x) <=> (x = g \/ Red(a, x)))
  BY <1>3, RedSound
<1> QED
  BY <1>3, <1>4, KeptTwice DEF Sound, Kept

\* An inner node is rotated to the outer side.
LEMMA SwappedConflict ==
    ASSUME NEW t, NEW D, NEW H, NEW n, Conflict(t, D, H, n), n # Root(t),
           ~Red(t, Root(t)), NEW p, p = Parent(t, n), Red(t, p), NEW g, g =
               Parent(t, p),
           NEW s, s = Hangs(t, p), n = Child(t, Other(s), p),
           NEW r, Rotated(t, p, s, r)
    PROVE  \E E : /\ Conflict(r, E, H, p) /\ Kept(t, D, r, E)
                  /\ Root(r) = Root(t) /\ p # Root(r)
                  /\ Parent(r, p) = n /\ Parent(r, n) = g /\ Hangs(r, n) = s
                  /\ Child(r, s, n) = p /\ Child(r, Other(s), g) = Child(t, Other(s), g)
                  /\ \A x : x \in Cell => Red(r, x) = Red(t, x)
<1> DEFINE I == In(t, D)
           o == Other(s)
           c == Child(t, s, p)
           i == Child(t, s, n)
           k == Child(t, o, n)
<1>1. /\ t \in Trees /\ D \in Subtrees /\ Shape(t, D) /\ Sound(t, D)
      /\ H \in Heights /\ Level(t, I, H, Null, NoSide) /\ Red(t, n) /\ n \in I
      /\ \A y : y \in I /\ Clash(t, y) => y = n
  BY DEF Conflict, Sound
<1>2. /\ n \in Node /\ p \in Node /\ g \in Node /\ p \in I /\ g \in I /\ p # Root(t)
      /\ n # p /\ p # g /\ n # g /\ ~Red(t, g)
      /\ Child(t, s, g) = p
      /\ \A q : q \in Side => Child(t, q, p) # p /\ Child(t, q, p) # g
  BY Family
<1>3. s \in Side /\ o \in Side /\ s # o /\ Other(o) = s /\ I \subseteq Node
  BY <1>1, HangsSide, Sides, SubIs DEF In
<1>4. PICK E : Sound(r, E) /\ Kept(t, D, r, E) /\ Rotation(t, D, p, n, s, r, E)
  BY <1>1, <1>2, <1>3, RotateSound
<1>5. /\ i \in Cell /\ i # p /\ i # n
      /\ Root(r) = Root(t)
      /\ Child(r, s, n) = p /\ Child(r, s, g) = n /\ Child(r, o, g) = Child(t, o, g)
      /\ \A x : x \in Cell => Parent(r, x) =
             IF x = p THEN n ELSE IF x = n THEN g
             ELSE IF x = i /\ i # Sentinel THEN p ELSE Parent(t, x)
      /\ \A x : x \in Cell => Red(r, x) = Red(t, x)
  <2>1. p # Root(t)
    BY <1>2
  <2>2. /\ i \in Cell /\ i # p /\ i # n
        /\ Root(r) = IF p = Root(t) THEN n ELSE Root(t)
        /\ Child(r, s, n) = p
    BY <1>4 DEF Rotation
  <2>3. Child(r, s, g) = n /\ Child(r, o, g) = Child(t, o, g)
    BY <1>4, <2>1 DEF Rotation
  <2>4. /\ \A x : x \in Cell => Parent(r, x) =
             IF x = p THEN n ELSE IF x = n THEN g
             ELSE IF x = i /\ i # Sentinel THEN p ELSE Parent(t, x)
        /\ \A x : x \in Cell => Red(r, x) = Red(t, x)
    BY <1>4 DEF Rotation
  <2> QED
    BY <2>1, <2>2, <2>3, <2>4
<1> HIDE DEF i, c, k, o, I
<1>6. /\ BH(H, p) = BH(H, n) /\ BH(H, p) = BH(H, c)
      /\ BH(H, n) = BH(H, i) /\ BH(H, n) = BH(H, k)
  <2>1. \A a, q : a \in I /\ q \in Side => (Red(t, a) => BH(H, a) = BH(H, Child(t, q, a)))
    BY <1>1, <1>3, LevelFacts
  <2> QED
    BY <1>1, <1>2, <1>3, <2>1 DEF c, i, k, o
<1>7. Level(r, I, H, Null, NoSide)
  <2>1. Weight(t, p) = 0 /\ Weight(t, n) = 0
    BY <1>1 DEF Weight
  <2>2. /\ BH(H, p) \in Nat /\ BH(H, n) \in Nat
        /\ BH(H, Child(t, s, p)) = BH(H, p) /\ BH(H, Child(t, s, n)) = BH(H, p)
        /\ BH(H, Child(t, Other(s), n)) = BH(H, n)
    BY <1>1, <1>6, HeightsIs DEF c, i, k, o
  <2>3. /\ BH(H, p) = BH(H, Child(t, s, p)) + Weight(t, p)
        /\ BH(H, p) = BH(H, Child(t, s, n)) + Weight(t, p)
        /\ BH(H, n) = BH(H, p) + Weight(t, n)
        /\ BH(H, n) = BH(H, Child(t, Other(s), n)) + Weight(t, n)
    BY <1>6, <2>1, <2>2
  <2>4. \A a : a \in I /\ a # p /\ a # n => LevelAt(t, H, Null, NoSide, a)
    BY <1>1 DEF Level
  <2>5. BH(H, n) = BH(H, p) /\ p \in In(t, D)
    BY <1>2, <1>6 DEF I
  <2>6. Balanced(t, I, H, H, p, n, s, Null, NoSide)
    BY <1>1, <1>2, <2>3, <2>4, <2>5, BalancedFree
  <2> QED
    BY <1>1, <1>2, <1>3, <1>4, <2>5, <2>6, RotateLevel
<1>8. In(r, E) = I
  BY <1>4 DEF Kept, I
<1>9. ASSUME NEW y, y \in I, Clash(r, y) PROVE y = p
  <2> SUFFICES ASSUME y # p PROVE FALSE
    OBVIOUS
  <2>1. y \in Node /\ y \in Cell /\ Red(t, y) /\ y # Root(t) /\ Red(r, Parent(r, y))
    BY <1>3, <1>5, <1>9, Cells DEF Clash
  <2>2. g \in Cell /\ n \in Cell /\ p \in Cell
    BY <1>2, Cells
  <2>3. y # n
    BY <1>2, <1>5, <2>1, <2>2
  <2>4. CASE y = i
    <3>0. Parent(t, i) = n
      <4>1. Child(t, s, n) \in Node
        BY <2>1, <2>4 DEF i
      <4> QED
        BY <1>1, <1>2, <1>3, <4>1, ShapeFacts DEF i
    <3>1. Clash(t, i)
      BY <1>1, <2>1, <2>4, <3>0 DEF Clash
    <3> QED
      BY <1>1, <1>9, <2>3, <2>4, <3>1
  <2>5. CASE y # i
    <3>1. Parent(t, y) \in Cell /\ Parent(r, y) = Parent(t, y)
      BY <1>1, <1>5, <1>9, <2>1, <2>3, <2>5, HangsFacts, Cells DEF I
    <3>2. Clash(t, y)
      BY <1>5, <2>1, <3>1 DEF Clash
    <3> QED
      BY <1>1, <1>9, <2>3, <3>2
  <2> QED
    BY <2>4, <2>5
<1>10. Conflict(r, E, H, p)
  BY <1>1, <1>2, <1>4, <1>5, <1>7, <1>8, <1>9, Cells DEF Conflict
<1>11. Parent(r, p) = n /\ Parent(r, n) = g
  BY <1>2, <1>5, Cells
<1>12. Hangs(r, n) = s
  <2>1. r \in Trees /\ E \in Subtrees /\ Shape(r, E)
    BY <1>4 DEF Sound
  <2> QED
    BY <1>2, <1>3, <1>5, <2>1, OnePlace
<1> QED
  BY <1>2, <1>4, <1>5, <1>10, <1>11, <1>12 DEF o

\* The parent takes the grandparent's place, and with it its black.
LEMMA SettledConflict ==
    ASSUME NEW t, NEW D, NEW H, NEW n, Conflict(t, D, H, n), n # Root(t),
           ~Red(t, Root(t)), NEW p, p = Parent(t, n), Red(t, p), NEW g, g =
               Parent(t, p),
           NEW s, s = Hangs(t, p), n = Child(t, s, p),
           ~Red(t, Child(t, Other(s), g)),
           NEW a, Blackened(t, p, a), NEW b, Reddened(a, g, b),
           NEW r, Rotated(b, g, Other(s), r)
    PROVE  \E E, G : Conflict(r, E, G, n) /\ Kept(t, D, r, E) /\ ~Red(r, Root(r))
<1> DEFINE I == In(t, D)
           o == Other(s)
           c == Child(t, o, g)
           i == Child(t, o, p)
<1>1. /\ t \in Trees /\ D \in Subtrees /\ Shape(t, D) /\ Sound(t, D)
      /\ H \in Heights /\ Level(t, I, H, Null, NoSide) /\ Red(t, n) /\ n \in I
      /\ \A y : y \in I /\ Clash(t, y) => y = n
  BY DEF Conflict, Sound
<1>2. /\ n \in Node /\ p \in Node /\ g \in Node /\ p \in I /\ g \in I /\ p # Root(t)
      /\ n # p /\ p # g /\ n # g /\ ~Red(t, g)
      /\ Child(t, s, g) = p
      /\ \A q : q \in Side => Child(t, q, p) # p /\ Child(t, q, p) # g
  BY Family
<1>3. s \in Side /\ o \in Side /\ s # o /\ Other(o) = s /\ I \subseteq Node
  BY <1>1, HangsSide, Sides, SubIs DEF In
<1>6. Sound(t, D) /\ p \in Node /\ g \in Node
  BY <1>1, <1>2
<1>7. /\ Sound(b, D) /\ Kept(t, D, b, D) /\ Root(b) = Root(t)
      /\ b \in Trees /\ Shape(b, D) /\ In(b, D) = I
      /\ \A q, x : q \in Side /\ x \in Cell => Child(b, q, x) = Child(t, q, x)
      /\ \A x : x \in Cell => Parent(b, x) = Parent(t, x)
      /\ \A x : x \in Cell => (Red(b, x) <=> (x = g \/ (x # p /\ Red(t, x))))
  BY <1>6, TwoPaints
<1>8. n \in Cell /\ p \in Cell /\ g \in Cell /\ \A x : x \in I => x \in Cell /\ x \in Node
  BY <1>2, <1>3, Cells
<1>9. p = Child(b, Other(o), g)
  BY <1>2, <1>3, <1>7, <1>8
<1>10. PICK E : Sound(r, E) /\ Kept(b, D, r, E) /\ Rotation(b, D, g, p, o, r, E)
  BY <1>2, <1>3, <1>7, <1>9, RotateSound
<1>11. /\ i \in Cell /\ i # p /\ i # g
       /\ Root(r) = IF g = Root(t) THEN p ELSE Root(t)
       /\ \A x : x \in Cell => Parent(r, x) =
             IF x = g THEN p ELSE IF x = p THEN Parent(t, g)
             ELSE IF x = i /\ i # Sentinel THEN g ELSE Parent(t, x)
       /\ \A x : x \in Cell => (Red(r, x) <=> (x = g \/ (x # p /\ Red(t, x))))
  <2>1. /\ Child(b, o, p) \in Cell /\ Child(b, o, p) # p /\ Child(b, o, p) # g
        /\ Root(r) = IF g = Root(b) THEN p ELSE Root(b)
        /\ \A x : x \in Cell => Parent(r, x) =
             IF x = g THEN p ELSE IF x = p THEN Parent(b, g)
             ELSE IF x = Child(b, o, p) /\ Child(b, o, p) # Sentinel THEN g ELSE Parent(b, x)
        /\ \A x : x \in Cell => Red(r, x) = Red(b, x)
    BY <1>10 DEF Rotation
  <2>2. Child(b, o, p) = i
    BY <1>3, <1>7, <1>8
  <2>3. Root(b) = Root(t) /\ Parent(b, g) = Parent(t, g) /\ p \in Cell
    BY <1>7, <1>8
  <2>4. \A x : x \in Cell => Parent(r, x) =
             IF x = g THEN p ELSE IF x = p THEN Parent(t, g)
             ELSE IF x = i /\ i # Sentinel THEN g ELSE Parent(t, x)
    <3> HIDE DEF i, c, o
    <3> QED
      BY <1>7, <2>1, <2>2, <2>3
  <2>5. \A x : x \in Cell => (Red(r, x) <=> (x = g \/ (x # p /\ Red(t, x))))
    BY <1>7, <2>1
  <2> HIDE DEF i
  <2> QED
    BY <2>1, <2>2, <2>3, <2>4, <2>5
<1> HIDE DEF i, c, o, I
<1>12. /\ BH(H, p) = BH(H, n) /\ BH(H, p) = BH(H, i)
       /\ BH(H, g) = BH(H, p) + 1 /\ BH(H, g) = BH(H, c) + 1
       /\ BH(H, p) \in Nat /\ BH(H, g) \in Nat /\ BH(H, c) \in Nat
  <2>1. \A x, q : x \in I /\ q \in Side =>
              /\ Red(t, x) => BH(H, x) = BH(H, Child(t, q, x))
              /\ ~Red(t, x) => BH(H, x) = BH(H, Child(t, q, x)) + 1
    BY <1>1, <1>3, LevelFacts
  <2>2. BH(H, p) = BH(H, Child(t, s, p)) /\ BH(H, p) = BH(H, Child(t, o, p))
    BY <1>2, <1>3, <2>1
  <2>3. BH(H, g) = BH(H, Child(t, s, g)) + 1 /\ BH(H, g) = BH(H, Child(t, o, g)) + 1
    BY <1>2, <1>3, <2>1
  <2> QED
    BY <1>1, <1>2, <2>2, <2>3, HeightsIs DEF c, i
<1>13. \E G \in Heights : \A y : BH(G, y) =
              IF y = p THEN BH(H, g) ELSE IF y = g THEN BH(H, p) ELSE BH(H, y)
  <2>1. PICK G1 \in Heights : \A y : BH(G1, y) = IF y = g THEN BH(H, p) ELSE BH(H, y)
    BY <1>1, <1>2, <1>12, HeightSet
  <2>2. PICK G \in Heights : \A y : BH(G, y) = IF y = p THEN BH(H, g) ELSE BH(G1, y)
    BY <1>2, <1>12, HeightSet
  <2> QED
    BY <2>1, <2>2
<1>14. PICK G \in Heights : \A y : BH(G, y) =
              IF y = p THEN BH(H, g) ELSE IF y = g THEN BH(H, p) ELSE BH(H, y)
  BY <1>13
<1>15. Level(r, I, G, Null, NoSide)
  <2>1. Weight(b, g) = 0 /\ Weight(b, p) = 1
    BY <1>2, <1>7, <1>8 DEF Weight
  <2>2. /\ Child(b, o, g) = c /\ Child(b, o, p) = i /\ Child(b, Other(o), p) = n
    <3>1. Child(b, o, g) = Child(t, o, g) /\ Child(b, o, p) = Child(t, o, p)
      BY <1>3, <1>7, <1>8
    <3>2. Child(b, Other(o), p) = Child(t, s, p)
      BY <1>3, <1>7, <1>8
    <3> QED
      BY <3>1, <3>2 DEF c, i
  <2>3. /\ BH(G, g) = BH(H, p) /\ BH(G, p) = BH(H, g) /\ BH(H, c) = BH(H, p)
    BY <1>2, <1>12, <1>14
  <2>4. /\ BH(G, g) = BH(H, Child(b, o, g)) + Weight(b, g)
        /\ BH(G, g) = BH(H, Child(b, o, p)) + Weight(b, g)
        /\ BH(G, p) = BH(G, g) + Weight(b, p)
        /\ BH(G, p) = BH(H, Child(b, Other(o), p)) + Weight(b, p)
    <3>1. /\ BH(H, Child(b, o, g)) = BH(H, p) /\ BH(H, Child(b, o, p)) = BH(H, p)
          /\ BH(H, Child(b, Other(o), p)) = BH(H, p)
      BY <1>12, <2>2, <2>3
    <3> QED
      BY <1>12, <2>1, <2>3, <3>1
  <2>5. ASSUME NEW x, x \in I, x # g, x # p PROVE LevelAt(b, H, Null, NoSide, x)
    <3>1. LevelAt(t, H, Null, NoSide, x)
      BY <1>1, <2>5 DEF Level
    <3>2. Weight(b, x) = Weight(t, x) /\ \A q : q \in Side => Child(b, q, x) = Child(t, q, x)
      BY <1>7, <1>8, <2>5 DEF Weight
    <3> QED
      BY <3>1, <3>2 DEF LevelAt
  <2>6. \A x : x # g /\ x # p => BH(G, x) = BH(H, x)
    BY <1>14
  <2>7. /\ b \in Trees /\ D \in Subtrees /\ Shape(b, D) /\ g \in In(b, D)
        /\ g \in Node /\ p \in Node /\ o \in Side /\ H \in Heights /\ I \subseteq Node
    BY <1>1, <1>2, <1>3, <1>7
  <2>8. Balanced(b, I, H, G, g, p, o, Null, NoSide)
    BY <2>3, <2>4, <2>5, <2>6, <2>7, BalancedFree
  <2> QED
    BY <1>9, <1>10, <2>7, <2>8, RotateLevel
<1>16. In(r, E) = I
  BY <1>7, <1>10 DEF Kept
<1>17. ASSUME NEW y, y \in I, Clash(r, y) PROVE y = n
  <2> SUFFICES ASSUME y # n PROVE FALSE
    OBVIOUS
  <2>1. y \in Node /\ y \in Cell /\ y # Root(r) /\ Red(r, y) /\ Red(r, Parent(r, y)) /\ y # p
    <3>1. y # Root(r) /\ Red(r, y) /\ Red(r, Parent(r, y))
      BY <1>17 DEF Clash
    <3>2. y \in Node /\ y \in Cell
      BY <1>8, <1>17
    <3>3. y # p
      <4> SUFFICES ASSUME y = p PROVE FALSE
        OBVIOUS
      <4>1. p # g /\ p \in Cell /\ Red(r, p)
        BY <1>2, <1>8, <3>1
      <4> QED
        BY <1>11, <4>1
    <3> QED
      BY <3>1, <3>2, <3>3
  <2>2. y # g
    BY <1>2, <1>8, <1>11, <2>1
  <2>3. Red(t, y) /\ y # Root(t)
    <3>1. Red(t, y)
      BY <1>11, <2>1, <2>2
    <3> QED
      BY <3>1
  <2>4. Parent(t, y) \in Node /\ Hangs(t, y) \in Side /\ Child(t, Hangs(t, y), Parent(t, y)) = y
    BY <1>1, <1>17, <2>3, HangsFacts DEF I
  <2>5. CASE y = i
    <3>1. Parent(t, i) = p
      <4>1. Child(t, o, p) \in Node
        BY <2>1, <2>5 DEF i
      <4> QED
        BY <1>1, <1>2, <1>3, <4>1, ShapeFacts DEF i
    <3>2. Clash(t, y)
      BY <2>3, <2>5, <3>1 DEF Clash
    <3> QED
      BY <1>1, <1>17, <3>2
  <2>6. CASE y # i
    <3>1. Parent(r, y) = Parent(t, y)
      BY <1>11, <2>1, <2>2, <2>6
    <3>2. CASE Parent(t, y) = g
      <4>1. y = Child(t, s, g) \/ y = Child(t, o, g)
        BY <1>3, <2>4, <3>2, Sides DEF o
      <4> QED
        BY <1>2, <2>1, <2>3, <4>1 DEF o
    <3>3. CASE Parent(t, y) # g
      <4>1. Clash(t, y)
        BY <1>8, <1>11, <2>1, <2>3, <2>4, <3>1, <3>3, Cells DEF Clash
      <4> QED
        BY <1>1, <1>17, <4>1
    <3> QED
      BY <3>2, <3>3
  <2> QED
    BY <2>5, <2>6
<1>18. Conflict(r, E, G, n)
  BY <1>1, <1>2, <1>8, <1>10, <1>11, <1>15, <1>16, <1>17 DEF Conflict
<1>19. Kept(t, D, r, E)
  BY <1>7, <1>10, KeptTwice
<1>20. ~Red(r, Root(r))
  <2>1. Root(t) \in Node
    BY <1>1, SubIs DEF In, I
  <2> QED
    BY <1>8, <1>11, <2>1, Cells
<1> QED
  BY <1>18, <1>19, <1>20

-----------------------------------------------------------------------------
(***************************************************************************)
(* A deletion that owes a black: the family of the place, a red sibling.   *)
(***************************************************************************)

\* The black that is missing at x, on side s of p; nothing else is wrong.
Owing(t, D, H, p, s, x) ==
    /\ Sound(t, D) /\ H \in Heights
    /\ p \in In(t, D) /\ s \in Side /\ x = Child(t, s, p)
    /\ Level(t, In(t, D), H, p, s)
    /\ \A y : y \in In(t, D) => ~Clash(t, y)
    /\ ~Red(t, x) /\ ~Red(t, Root(t))

\* What is owed at one place is owed nowhere else.
LEMMA NotOwed == \A q, d, n, s : n # q \/ s # d => Debt(q, d, n, s) = 0
BY DEF Debt

\* Level with a debt, a fact at a time.
LEMMA OwedFacts ==
    ASSUME NEW t, NEW I, I \subseteq Node, NEW H \in Heights, NEW p, NEW s,
           Level(t, I, H, p, s)
    PROVE  /\ \A a, q : a \in I /\ q \in Side /\ (a # p \/ q # s) =>
                 /\ Red(t, a) => BH(H, a) = BH(H, Child(t, q, a))
                 /\ ~Red(t, a) => BH(H, a) = BH(H, Child(t, q, a)) + 1
           /\ p \in I /\ s \in Side => BH(H, p) = BH(H, Child(t, s, p)) + Weight(t, p) + 1
<1>1. ASSUME NEW a, NEW q, a \in I, q \in Side, a # p \/ q # s
      PROVE  /\ Red(t, a) => BH(H, a) = BH(H, Child(t, q, a))
             /\ ~Red(t, a) => BH(H, a) = BH(H, Child(t, q, a)) + 1
  <2>1. BH(H, a) = BH(H, Child(t, q, a)) + Weight(t, a) + Debt(p, s, a, q)
    BY <1>1 DEF Level, LevelAt
  <2>2. Debt(p, s, a, q) = 0 /\ BH(H, a) \in Nat /\ BH(H, Child(t, q, a)) \in Nat
    BY <1>1, NotOwed, HeightsIs
  <2> QED
    BY <2>1, <2>2 DEF Weight
<1>2. ASSUME p \in I, s \in Side PROVE BH(H, p) = BH(H, Child(t, s, p)) + Weight(t, p) + 1
  <2>1. BH(H, p) = BH(H, Child(t, s, p)) + Weight(t, p) + Debt(p, s, p, s)
    BY <1>2 DEF Level, LevelAt
  <2>2. Debt(p, s, p, s) = 1
    BY DEF Debt
  <2> QED
    BY <2>1, <2>2
<1> QED
  BY <1>1, <1>2

\* The sibling of what owes a black is a node, with a black more below it.
LEMMA Sibling ==
    ASSUME NEW t, NEW D, NEW H, NEW p, NEW s, NEW x, Owing(t, D, H, p, s, x),
           NEW v, v = Child(t, Other(s), p)
    PROVE  /\ p \in Node /\ x \in Cell /\ x # p /\ s \in Side
           /\ v \in Node /\ v \in In(t, D) /\ v # p /\ v # x /\ v # Root(t)
           /\ Parent(t, v) = p
           /\ BH(H, x) \in Nat
           /\ BH(H, v) = BH(H, x) + 1
           /\ BH(H, p) = IF Red(t, p) THEN BH(H, x) + 1 ELSE BH(H, x) + 2
           /\ Red(t, v) => ~Red(t, p)
           /\ \A q : q \in Side =>
                 /\ Red(t, v) => BH(H, Child(t, q, v)) = BH(H, x) + 1
                 /\ ~Red(t, v) => BH(H, Child(t, q, v)) = BH(H, x)
                 /\ Child(t, q, v) # v /\ Child(t, q, v) # p /\ Child(t, q, v) \in Cell
                 /\ Child(t, q, v) \in Node => Child(t, q, v) # x
                 /\ Child(t, q, v) \in Node => Parent(t, Child(t, q, v)) = v
                 /\ Red(t, v) => Child(t, q, v) \in Node /\ ~Red(t, Child(t, q, v))
<1>1. /\ t \in Trees /\ D \in Subtrees /\ Shape(t, D) /\ Sound(t, D)
      /\ H \in Heights /\ Level(t, In(t, D), H, p, s)
      /\ p \in In(t, D) /\ s \in Side /\ x = Child(t, s, p)
      /\ \A y : y \in In(t, D) => ~Clash(t, y)
  BY DEF Owing, Sound
<1>2. In(t, D) \subseteq Node /\ p \in Node /\ Other(s) \in Side /\ Other(s) # s
  BY <1>1, SubIs, Sides DEF In
<1>3. x \in Cell /\ x # p /\ v \in Cell /\ v # p
  BY <1>1, <1>2, ShapeFacts
<1>4. /\ BH(H, x) \in Nat /\ BH(H, p) \in Nat /\ BH(H, v) \in Nat
      /\ v \notin Node => BH(H, v) = 0
  BY <1>1, HeightsIs
<1>5. BH(H, p) = BH(H, x) + Weight(t, p) + 1
  BY <1>1, <1>2, OwedFacts
<1>6. /\ Red(t, p) => BH(H, p) = BH(H, v)
      /\ ~Red(t, p) => BH(H, p) = BH(H, v) + 1
  BY <1>1, <1>2, OwedFacts
<1>7. /\ BH(H, v) = BH(H, x) + 1
      /\ BH(H, p) = IF Red(t, p) THEN BH(H, x) + 1 ELSE BH(H, x) + 2
  BY <1>4, <1>5, <1>6 DEF Weight
<1>8. v \in Node
  BY <1>4, <1>7
<1>9. v \in In(t, D) /\ v # Root(t) /\ Parent(t, v) = p /\ v # x
  BY <1>1, <1>2, <1>8, OnePlace, Sides
<1>10. Red(t, v) => ~Red(t, p)
  BY <1>1, <1>9 DEF Clash
<1>11. ASSUME NEW q, q \in Side
       PROVE  /\ Red(t, v) => BH(H, Child(t, q, v)) = BH(H, x) + 1
              /\ ~Red(t, v) => BH(H, Child(t, q, v)) = BH(H, x)
  <2>1. /\ Red(t, v) => BH(H, v) = BH(H, Child(t, q, v))
        /\ ~Red(t, v) => BH(H, v) = BH(H, Child(t, q, v)) + 1
    BY <1>1, <1>2, <1>3, <1>9, <1>11, OwedFacts
  <2>2. BH(H, Child(t, q, v)) \in Nat
    BY <1>1, HeightsIs
  <2> QED
    BY <1>4, <1>7, <2>1, <2>2
<1>12. ASSUME NEW q, q \in Side
       PROVE  /\ Child(t, q, v) # v /\ Child(t, q, v) # p /\ Child(t, q, v) \in Cell
              /\ Child(t, q, v) \in Node =>
                    Parent(t, Child(t, q, v)) = v /\ Child(t, q, v) # x
                    /\ Child(t, q, v) # Root(t) /\ Child(t, q, v) \in In(t, D)
  <2>1. Child(t, q, v) # v /\ Child(t, q, v) \in Cell
    BY <1>1, <1>8, <1>9, <1>12, ShapeFacts
  <2>2. Child(t, q, v) # p
    <3> SUFFICES ASSUME Child(t, q, v) = p PROVE FALSE
      OBVIOUS
    <3>1. p \in Sub(D, v) /\ v \in Sub(D, p)
      BY <1>1, <1>2, <1>8, <1>12, ShapeFacts
    <3> QED
      BY <1>1, <1>3, <3>1, Antisymmetric
  <2>3. ASSUME Child(t, q, v) \in Node
        PROVE  /\ Parent(t, Child(t, q, v)) = v /\ Child(t, q, v) # x
               /\ Child(t, q, v) # Root(t) /\ Child(t, q, v) \in In(t, D)
    <3>1. /\ Parent(t, Child(t, q, v)) = v
          /\ Child(t, q, v) # Root(t) /\ Child(t, q, v) \in In(t, D)
      BY <1>1, <1>8, <1>12, <2>3, OnePlace
    <3>2. x \in Node => Parent(t, x) = p
      BY <1>1, <1>2, ShapeFacts
    <3> QED
      BY <1>3, <2>3, <3>1, <3>2
  <2> QED
    BY <2>1, <2>2, <2>3
<1>13. ASSUME NEW q, q \in Side, Red(t, v)
       PROVE  Child(t, q, v) \in Node /\ ~Red(t, Child(t, q, v))
  <2>1. Child(t, q, v) \in Node
    <3>1. BH(H, Child(t, q, v)) # 0
      BY <1>4, <1>11, <1>13
    <3> QED
      BY <1>1, <3>1, HeightsIs
  <2> QED
    BY <1>1, <1>12, <1>13, <2>1 DEF Clash
<1> QED
  BY <1>1, <1>2, <1>3, <1>4, <1>7, <1>8, <1>9, <1>10, <1>11, <1>12, <1>13

\* A red sibling changes places with the parent.
LEMMA RedSibling ==
    ASSUME NEW t, NEW D, NEW H, NEW p, NEW s, NEW x, Owing(t, D, H, p, s, x),
           NEW v, v = Child(t, Other(s), p), Red(t, v),
           NEW a, Blackened(t, v, a), NEW b, Reddened(a, p, b), NEW r, Rotated(b, p, s, r)
    PROVE  \E E, G : /\ Kept(t, D, r, E) /\ Owing(r, E, G, p, s, x)
                     /\ ~Red(r, Child(r, Other(s), p))
<1> DEFINE I == In(t, D)
           o == Other(s)
           i == Child(t, s, v)
           k == Child(t, o, v)
<1>1. /\ t \in Trees /\ D \in Subtrees /\ Shape(t, D) /\ Sound(t, D)
      /\ H \in Heights /\ Level(t, I, H, p, s)
      /\ p \in I /\ s \in Side /\ x = Child(t, s, p) /\ ~Red(t, x) /\ ~Red(t, Root(t))
      /\ \A y : y \in I => ~Clash(t, y)
  BY DEF Owing, Sound
<1>2. /\ p \in Node /\ x \in Cell /\ x # p
      /\ v \in Node /\ v \in I /\ v # p /\ v # x /\ v # Root(t)
      /\ Parent(t, v) = p /\ BH(H, x) \in Nat
      /\ BH(H, p) = BH(H, x) + 2 /\ ~Red(t, p)
  BY Sibling
<1>3. /\ s \in Side /\ o \in Side /\ s # o /\ Other(o) = s /\ I \subseteq Node
      /\ \A q \in Side : q = s \/ q = o
  BY <1>1, Sides, SubIs DEF In
<1>4. /\ BH(H, i) = BH(H, x) + 1 /\ BH(H, k) = BH(H, x) + 1
      /\ i \in Node /\ ~Red(t, i) /\ i # v /\ i # p /\ i # x
  BY <1>3, Sibling
<1>5. /\ Sound(b, D) /\ Kept(t, D, b, D) /\ Root(b) = Root(t)
      /\ b \in Trees /\ Shape(b, D) /\ In(b, D) = In(t, D)
      /\ \A q, y : q \in Side /\ y \in Cell => Child(b, q, y) = Child(t, q, y)
      /\ \A y : y \in Cell => Parent(b, y) = Parent(t, y)
      /\ \A y : y \in Cell => (Red(b, y) <=> (y = p \/ (y # v /\ Red(t, y))))
  <2>1. Sound(t, D) /\ p \in Node /\ v \in Node
    BY <1>1, <1>2
  <2> QED
    BY <2>1, TwoPaints
<1> HIDE DEF i, k, o, I
<1>6. /\ x \in Cell /\ v \in Cell /\ p \in Cell /\ i \in Cell
      /\ \A y : y \in I => y \in Cell /\ y \in Node
  BY <1>2, <1>3, <1>4, Cells
<1>7. /\ Child(b, o, p) = v /\ Child(b, s, p) = x
      /\ Child(b, s, v) = i /\ Child(b, o, v) = k
  <2>1. Child(b, o, p) = Child(t, o, p) /\ Child(b, s, p) = Child(t, s, p)
    BY <1>3, <1>5, <1>6
  <2>2. Child(b, s, v) = Child(t, s, v) /\ Child(b, o, v) = Child(t, o, v)
    BY <1>3, <1>5, <1>6
  <2> QED
    BY <1>1, <2>1, <2>2 DEF o, i, k
<1>8. PICK E : Sound(r, E) /\ Kept(b, D, r, E) /\ Rotation(b, D, p, v, s, r, E)
  <2>1. p \in In(b, D) /\ v = Child(b, Other(s), p)
    BY <1>1, <1>5, <1>7 DEF I, o
  <2> QED
    BY <1>2, <1>3, <1>5, <2>1, RotateSound
<1>9. /\ Root(r) = IF p = Root(t) THEN v ELSE Root(t)
      /\ Child(r, s, p) = x /\ Child(r, o, p) = i
      /\ \A y : y \in Cell => Parent(r, y) =
             IF y = p THEN v ELSE IF y = v THEN Parent(t, p)
             ELSE IF y = i THEN p ELSE Parent(t, y)
      /\ \A y : y \in Cell => (Red(r, y) <=> (y = p \/ (y # v /\ Red(t, y))))
  <2>1. /\ Root(r) = IF p = Root(b) THEN v ELSE Root(b)
        /\ Child(r, s, p) = Child(b, s, p) /\ Child(r, Other(s), p) = Child(b, s, v)
    BY <1>8 DEF Rotation
  <2>2. \A y : y \in Cell => Parent(r, y) =
             IF y = p THEN v ELSE IF y = v THEN Parent(b, p)
             ELSE IF y = Child(b, s, v) /\ Child(b, s, v) # Sentinel THEN p ELSE Parent(b, y)
    BY <1>8 DEF Rotation
  <2>3. \A y : y \in Cell => Red(r, y) = Red(b, y)
    BY <1>8 DEF Rotation
  <2>4. i # Sentinel
    BY <1>4, Cells
  <2>5. \A y : y \in Cell => Parent(r, y) =
             IF y = p THEN v ELSE IF y = v THEN Parent(t, p)
             ELSE IF y = i THEN p ELSE Parent(t, y)
    BY <1>5, <1>6, <1>7, <2>2, <2>4
  <2>6. \A y : y \in Cell => (Red(r, y) <=> (y = p \/ (y # v /\ Red(t, y))))
    BY <1>5, <2>3
  <2> QED
    BY <1>5, <1>7, <2>1, <2>5, <2>6 DEF o
<1>10. In(r, E) = I
  BY <1>5, <1>8 DEF Kept, I
<1>11. \E G \in Heights : \A y : BH(G, y) =
          IF y = v THEN BH(H, x) + 2 ELSE IF y = p THEN BH(H, x) + 1 ELSE BH(H, y)
  <2>1. BH(H, x) + 1 \in Nat /\ BH(H, x) + 2 \in Nat
    BY <1>2
  <2>2. PICK G1 \in Heights : \A y : BH(G1, y) = IF y = p THEN BH(H, x) + 1 ELSE BH(H, y)
    BY <1>1, <1>2, <2>1, HeightSet
  <2>3. PICK G \in Heights : \A y : BH(G, y) = IF y = v THEN BH(H, x) + 2 ELSE BH(G1, y)
    BY <1>2, <2>1, HeightSet
  <2> QED
    BY <2>2, <2>3
<1>12. PICK G \in Heights : \A y : BH(G, y) =
          IF y = v THEN BH(H, x) + 2 ELSE IF y = p THEN BH(H, x) + 1 ELSE BH(H, y)
  BY <1>11
<1>13. Level(r, I, G, p, s)
  <2>1. Weight(b, p) = 0 /\ Weight(b, v) = 1
    BY <1>2, <1>5, <1>6 DEF Weight
  <2>2. /\ Debt(p, s, p, s) = 1 /\ Debt(p, s, p, o) = 0
        /\ Debt(p, s, v, s) = 0 /\ Debt(p, s, v, o) = 0
    BY <1>2, <1>3 DEF Debt
  <2>3. BH(G, v) = BH(H, x) + 2 /\ BH(G, p) = BH(H, x) + 1
    BY <1>2, <1>12
  <2>4. /\ BH(G, p) = BH(H, x) + Weight(b, p) + Debt(p, s, p, s)
        /\ BH(G, p) = BH(H, i) + Weight(b, p) + Debt(p, s, p, o)
        /\ BH(G, v) = BH(G, p) + Weight(b, v) + Debt(p, s, v, s)
        /\ BH(G, v) = BH(H, k) + Weight(b, v) + Debt(p, s, v, o)
        /\ BH(G, v) = BH(H, p)
    BY <1>2, <1>4, <2>1, <2>2, <2>3
  <2>5. ASSUME NEW y, y \in I, y # p, y # v PROVE LevelAt(b, H, p, s, y)
    <3>1. LevelAt(t, H, p, s, y)
      BY <1>1, <2>5 DEF Level
    <3>2. Weight(b, y) = Weight(t, y) /\ \A q : q \in Side => Child(b, q, y) = Child(t, q, y)
      BY <1>5, <1>6, <2>5 DEF Weight
    <3> QED
      BY <3>1, <3>2 DEF LevelAt
  <2>6. \A y : y # p /\ y # v => BH(G, y) = BH(H, y)
    BY <1>12
  <2>7. Balanced(b, I, H, G, p, v, s, p, s)
    BY <1>7, <2>4, <2>5, <2>6 DEF Balanced, o
  <2>8. b \in Trees /\ D \in Subtrees /\ Shape(b, D) /\ p \in In(b, D) /\ v = Child(b, Other(s), p)
    BY <1>1, <1>5, <1>7 DEF I, o
  <2> QED
    BY <1>1, <1>2, <1>3, <1>8, <2>7, <2>8, RotateLevel
<1>14. ASSUME NEW y, y \in I PROVE ~Clash(r, y)
  <2> SUFFICES ASSUME Clash(r, y) PROVE FALSE
    OBVIOUS
  <2>1. y \in Node /\ y \in Cell /\ Red(r, y) /\ Red(r, Parent(r, y)) /\ y # Root(r)
    BY <1>6, <1>14 DEF Clash
  <2>2. y # v
    <3>1. ~Red(r, v)
      BY <1>2, <1>6, <1>9
    <3> QED
      BY <2>1, <3>1
  <2>3. y # p
    <3>1. Parent(r, p) = v /\ ~Red(r, v)
      BY <1>2, <1>6, <1>9
    <3> QED
      BY <2>1, <3>1
  <2>4. Red(t, y) /\ y # Root(t) /\ y # i
    <3>1. Red(t, y)
      BY <1>9, <2>1, <2>2, <2>3
    <3> QED
      BY <1>1, <1>4, <3>1
  <2>5. Parent(r, y) = Parent(t, y)
    BY <1>9, <2>1, <2>2, <2>3, <2>4
  <2>6. /\ Parent(t, y) \in Node /\ Hangs(t, y) \in Side
        /\ Child(t, Hangs(t, y), Parent(t, y)) = y
    BY <1>1, <1>14, <2>4, HangsFacts DEF I
  <2>7. CASE Parent(t, y) = p
    <3>1. y = Child(t, s, p) \/ y = Child(t, o, p)
      BY <1>3, <2>6, <2>7
    <3> QED
      BY <1>1, <2>2, <2>4, <3>1 DEF o
  <2>8. CASE Parent(t, y) # p
    <3>1. Clash(t, y)
      BY <1>9, <2>1, <2>4, <2>5, <2>6, <2>8, Cells DEF Clash
    <3> QED
      BY <1>1, <1>14, <3>1
  <2> QED
    BY <2>7, <2>8
<1>15. ~Red(r, x) /\ ~Red(r, i)
  BY <1>1, <1>2, <1>4, <1>6, <1>9
<1>16. ~Red(r, Root(r))
  <2>1. Root(t) \in Cell
    BY <1>1, TreeFields
  <2> QED
    BY <1>1, <1>2, <1>6, <1>9, <2>1
<1>17. Owing(r, E, G, p, s, x)
  BY <1>1, <1>8, <1>9, <1>10, <1>12, <1>13, <1>14, <1>15, <1>16 DEF Owing
<1>18. Kept(t, D, r, E)
  BY <1>5, <1>8, KeptTwice
<1> QED
  BY <1>9, <1>15, <1>17, <1>18 DEF o

-----------------------------------------------------------------------------
(***************************************************************************)
(* A black sibling with black children.                                    *)
(***************************************************************************)

\* The red nodes with red parents after a rotation: what was one before it, or
\* one at the places that it changes.
LEMMA RotatedClash ==
    ASSUME NEW t \in Trees, NEW D \in Subtrees, Shape(t, D), NEW s \in Side,
           NEW n \in Node, n \in In(t, D), NEW m \in Node, m = Child(t, Other(s), n),
           NEW r, NEW E, Rotation(t, D, n, m, s, r, E), In(r, E) = In(t, D)
    PROVE  \A y : y \in In(t, D) /\ Clash(r, y) =>
              \/ y = n /\ Red(t, n) /\ Red(t, m)
              \/ y = m /\ Red(t, m) /\ n # Root(t) /\ Red(t, Parent(t, n))
              \/ y = Child(t, s, m) /\ Red(t, y) /\ Red(t, n)
              \/ y # n /\ y # m /\ y # Child(t, s, m) /\ Clash(t, y)
<1> DEFINE i == Child(t, s, m)
<1> SUFFICES ASSUME NEW y, y \in In(t, D), Clash(r, y)
             PROVE  \/ y = n /\ Red(t, n) /\ Red(t, m)
                    \/ y = m /\ Red(t, m) /\ n # Root(t) /\ Red(t, Parent(t, n))
                    \/ y = i /\ Red(t, y) /\ Red(t, n)
                    \/ y # n /\ y # m /\ y # i /\ Clash(t, y)
  OBVIOUS
<1>1. y # Root(r) /\ Red(r, y) /\ Red(r, Parent(r, y))
  BY DEF Clash
<1>2. /\ y \in Node /\ y \in Cell /\ n \in Cell /\ m \in Cell /\ y # Sentinel
  BY SubIs, Cells DEF In
<1>3. /\ m # n /\ i \in Cell /\ i # n /\ i # m
      /\ Root(r) = IF n = Root(t) THEN m ELSE Root(t)
      /\ n # Root(t) => Parent(t, n) \in Node /\ Parent(t, n) # n /\ Parent(t, n) # m
      /\ \A x : x \in Cell => Red(r, x) = Red(t, x)
  BY DEF Rotation
<1>4. \A x : x \in Cell => Parent(r, x) =
             IF x = n THEN m ELSE IF x = m THEN Parent(t, n)
             ELSE IF x = i /\ i # Sentinel THEN n ELSE Parent(t, x)
  BY DEF Rotation
<1> HIDE DEF i
<1>5. CASE y = n
  BY <1>1, <1>2, <1>3, <1>4, <1>5
<1>6. CASE y = m
  <2>1. n # Root(t) /\ Parent(r, y) = Parent(t, n)
    BY <1>1, <1>2, <1>3, <1>4, <1>6
  <2>2. Parent(t, n) \in Cell
    BY <1>3, <2>1, Cells
  <2> QED
    BY <1>1, <1>2, <1>3, <1>6, <2>1, <2>2
<1>7. CASE y = i
  BY <1>1, <1>2, <1>3, <1>4, <1>7
<1>8. CASE y # n /\ y # m /\ y # i
  <2>1. Parent(r, y) = Parent(t, y) /\ y # Root(t)
    BY <1>1, <1>2, <1>3, <1>4, <1>8
  <2>2. Parent(t, y) \in Cell
    BY <2>1, HangsFacts, Cells
  <2> QED
    BY <1>1, <1>2, <1>3, <1>8, <2>1, <2>2 DEF Clash
<1> QED
  BY <1>5, <1>6, <1>7, <1>8

\* The tree after n is painted in m's colour.
Copied(t, n, m, u) == u = Painted(t, n, t.red[m])

\* A node painted in another's colour.
LEMMA CopySound ==
    ASSUME NEW t, NEW D, Sound(t, D), NEW n \in Node, NEW m \in Node, NEW u, Copied(t, n, m, u)
    PROVE  /\ Sound(u, D) /\ Kept(t, D, u, D)
           /\ Root(u) = Root(t)
           /\ \A q, x : q \in Side /\ x \in Cell => Child(u, q, x) = Child(t, q, x)
           /\ \A x : x \in Cell => Parent(u, x) = Parent(t, x)
           /\ \A x : x \in Cell => (Red(u, x) <=> IF x = n THEN Red(t, m) ELSE Red(t, x))
<1>1. t.red[m] \in BOOLEAN /\ (Red(t, m) <=> t.red[m] = TRUE)
  BY Cells DEF Sound, Trees, Red
<1>2. CASE t.red[m] = TRUE
  <2>1. Reddened(t, n, u)
    BY <1>2 DEF Copied, Reddened
  <2> QED
    BY <1>1, <1>2, <2>1, RedSound
<1>3. CASE t.red[m] = FALSE
  <2>1. Blackened(t, n, u)
    BY <1>3 DEF Copied, Blackened
  <2> QED
    BY <1>1, <1>3, <2>1, BlackSound
<1> QED
  BY <1>1, <1>2, <1>3

\* A black sibling with black children turns red, and the parent owes the black.
LEMMA BlackNephews ==
    ASSUME NEW t, NEW D, NEW H, NEW p, NEW s, NEW x, Owing(t, D, H, p, s, x),
           NEW w, w = Child(t, Other(s), p), ~Red(t, w),
           \A q : q \in Side => ~Red(t, Child(t, q, w)),
           NEW u, Reddened(t, w, u)
    PROVE  /\ Sound(u, D) /\ Kept(t, D, u, D) /\ In(u, D) = In(t, D)
           /\ p \in In(u, D) /\ ~Red(u, Root(u))
           /\ \A y : y \in In(u, D) /\ Clash(u, y) => Red(u, p) /\ p = Parent(u, y)
           /\ \E G \in Heights :
                 IF p = Root(u) THEN Level(u, In(u, D), G, Null, NoSide)
                 ELSE Level(u, In(u, D), G, Parent(u, p), Hangs(u, p))
<1> DEFINE I == In(t, D)
           o == Other(s)
<1>1. /\ t \in Trees /\ D \in Subtrees /\ Shape(t, D) /\ Sound(t, D)
      /\ H \in Heights /\ Level(t, I, H, p, s)
      /\ p \in I /\ s \in Side /\ x = Child(t, s, p) /\ ~Red(t, x) /\ ~Red(t, Root(t))
      /\ \A y : y \in I => ~Clash(t, y)
  BY DEF Owing, Sound
<1>2. /\ p \in Node /\ x \in Cell /\ x # p
      /\ w \in Node /\ w \in I /\ w # p /\ w # x /\ w # Root(t)
      /\ Parent(t, w) = p /\ BH(H, x) \in Nat
      /\ BH(H, w) = BH(H, x) + 1
      /\ BH(H, p) = IF Red(t, p) THEN BH(H, x) + 1 ELSE BH(H, x) + 2
      /\ \A q : q \in Side => /\ BH(H, Child(t, q, w)) = BH(H, x)
                             /\ Child(t, q, w) # w /\ Child(t, q, w) # p
  BY Sibling
<1>3. /\ s \in Side /\ o \in Side /\ s # o /\ Other(o) = s /\ I \subseteq Node
      /\ \A q \in Side : q = s \/ q = o
      /\ w \in Cell /\ p \in Cell /\ \A y : y \in I => y \in Cell /\ y \in Node
  BY <1>1, <1>2, Sides, SubIs, Cells DEF In
<1>4. /\ Sound(u, D) /\ Kept(t, D, u, D) /\ Root(u) = Root(t)
      /\ \A q, y : q \in Side /\ y \in Cell => Child(u, q, y) = Child(t, q, y)
      /\ \A y : y \in Cell => Parent(u, y) = Parent(t, y)
      /\ \A y : y \in Cell => (Red(u, y) <=> (y = w \/ Red(t, y)))
  BY <1>1, <1>2, RedSound
<1>5. In(u, D) = I
  BY <1>4 DEF Kept
<1>6. ~Red(u, Root(u))
  BY <1>1, <1>2, <1>4, TreeFields
<1>7. ASSUME NEW y, y \in I, Clash(u, y) PROVE Red(u, p) /\ p = Parent(u, y)
  <2>1. y \in Node /\ y \in Cell /\ y # Root(t) /\ Red(u, y) /\ Red(u, Parent(u, y))
    BY <1>3, <1>4, <1>7 DEF Clash
  <2>2. CASE y = w
    BY <1>2, <1>4, <2>1, <2>2
  <2>3. CASE y # w
    <3>1. Red(t, y)
      BY <1>4, <2>1, <2>3
    <3>2. /\ Parent(t, y) \in Node /\ Hangs(t, y) \in Side /\ Parent(u, y) = Parent(t, y)
          /\ Child(t, Hangs(t, y), Parent(t, y)) = y
      BY <1>1, <1>4, <1>7, <2>1, HangsFacts
    <3>3. Parent(t, y) # w
      BY <3>1, <3>2
    <3>4. Clash(t, y)
      BY <1>4, <2>1, <3>1, <3>2, <3>3, Cells DEF Clash
    <3> QED
      BY <1>1, <1>7, <3>4
  <2> QED
    BY <2>2, <2>3
<1>8. PICK G \in Heights : \A y : BH(G, y) =
          IF y = w THEN BH(H, x) ELSE IF y = p THEN BH(H, p) - 1 ELSE BH(H, y)
  <2>1. BH(H, p) - 1 \in Nat
    BY <1>2
  <2>2. PICK G1 \in Heights : \A y : BH(G1, y) = IF y = p THEN BH(H, p) - 1 ELSE BH(H, y)
    BY <1>1, <1>2, <2>1, HeightSet
  <2>3. PICK G \in Heights : \A y : BH(G, y) = IF y = w THEN BH(H, x) ELSE BH(G1, y)
    BY <1>2, HeightSet
  <2> QED
    BY <2>2, <2>3
<1>9. \A y, q : y \in I /\ q \in Side =>
          /\ BH(H, y) = BH(H, Child(t, q, y)) + Weight(t, y) + Debt(p, s, y, q)
          /\ Child(u, q, y) = Child(t, q, y)
          /\ BH(H, y) \in Nat /\ BH(H, Child(t, q, y)) \in Nat
          /\ Weight(t, y) \in Nat
  <2>1. \A y : BH(H, y) \in Nat
    BY <1>1, HeightsIs
  <2> QED
    BY <1>1, <1>3, <1>4, <2>1, WeightIs DEF Level, LevelAt
<1>10. \A y : y \in I => Weight(u, y) = IF y = w THEN 0 ELSE Weight(t, y)
  BY <1>3, <1>4 DEF Weight
<1>11. ASSUME NEW y, y \in I, NEW q, q \in Side, y = p \/ y = w
       PROVE  BH(G, y) = BH(G, Child(u, q, y)) + Weight(u, y)
  <2>1. CASE y = w
    BY <1>2, <1>8, <1>9, <1>10, <1>11, <2>1
  <2>2. CASE y = p
    <3>1. BH(G, p) = BH(H, p) - 1 /\ Weight(u, p) = Weight(t, p)
      BY <1>2, <1>8, <1>10, <1>11, <2>2
    <3>2. Weight(t, p) = IF Red(t, p) THEN 0 ELSE 1
      BY DEF Weight
    <3>3. Child(u, q, p) = x \/ Child(u, q, p) = w
      BY <1>1, <1>3, <1>9, <1>11, <2>2 DEF o
    <3>4. BH(G, x) = BH(H, x) /\ BH(G, w) = BH(H, x)
      BY <1>2, <1>8
    <3> QED
      BY <1>2, <2>2, <3>1, <3>2, <3>3, <3>4
  <2> QED
    BY <1>11, <2>1, <2>2
<1>12. ASSUME NEW y, y \in I, NEW q, q \in Side, y # p, y # w
       PROVE  /\ BH(G, y) = BH(H, Child(u, q, y)) + Weight(u, y)
              /\ Child(u, q, y) # p => BH(G, Child(u, q, y)) = BH(H, Child(u, q, y))
              /\ BH(H, Child(u, q, y)) \in Nat
  <2>1. Debt(p, s, y, q) = 0
    BY <1>12, NotOwed
  <2>2. BH(G, y) = BH(H, y) /\ Weight(u, y) = Weight(t, y)
    BY <1>8, <1>10, <1>12
  <2>3. BH(H, y) = BH(H, Child(t, q, y)) + Weight(t, y) /\ Child(u, q, y) = Child(t, q, y)
    BY <1>9, <1>12, <2>1
  <2>4. Child(t, q, y) # w
    <3> SUFFICES ASSUME Child(t, q, y) = w PROVE FALSE
      OBVIOUS
    <3>1. y = Parent(t, w)
      BY <1>1, <1>2, <1>3, <1>12, OnePlace
    <3> QED
      BY <1>2, <1>12, <3>1
  <2> QED
    BY <1>8, <1>9, <1>12, <2>2, <2>3, <2>4
<1>13. CASE p = Root(u)
  <2>1. ASSUME NEW y, y \in I, NEW q, q \in Side
        PROVE  BH(G, y) = BH(G, Child(u, q, y)) + Weight(u, y) + Debt(Null, NoSide, y, q)
    <3>1. Debt(Null, NoSide, y, q) = 0
      BY <1>3, <2>1, NoDebt
    <3>2. BH(G, y) = BH(G, Child(u, q, y)) + Weight(u, y)
      <4>1. y # p /\ y # w => Child(u, q, y) # p
        <5> SUFFICES ASSUME Child(t, q, y) = p PROVE FALSE
          BY <1>9, <2>1
        <5> QED
          BY <1>1, <1>2, <1>3, <1>4, <1>13, <2>1, OnePlace
      <4> QED
        BY <1>11, <1>12, <2>1, <4>1
    <3>3. BH(G, y) \in Nat /\ BH(G, Child(u, q, y)) \in Nat
      BY HeightsIs
    <3> QED
      BY <3>1, <3>2, <3>3, WeightIs
  <2> QED
    BY <1>2, <1>4, <1>5, <1>6, <1>7, <1>13, <2>1, <1>1 DEF Level, LevelAt
<1>14. CASE p # Root(u)
  <2> DEFINE g == Parent(u, p)
             h == Hangs(u, p)
  <2>1. /\ u \in Trees /\ Shape(u, D) /\ p \in In(u, D)
        /\ g \in Node /\ h \in Side /\ Child(u, h, g) = p
    BY <1>1, <1>4, <1>5, <1>14, HangsFacts DEF Sound
  <2>2. g # p /\ g # w
    <3>1. Child(u, h, g) = Child(t, h, g)
      BY <1>4, <2>1, Cells
    <3>2. Child(t, h, g) = p
      BY <2>1, <3>1
    <3> HIDE DEF g, h
    <3>3. g # p
      BY <1>1, <1>2, <2>1, <3>2, ShapeFacts
    <3> QED
      BY <1>2, <2>1, <3>2, <3>3
  <2>3. ASSUME NEW y, y \in I, NEW q, q \in Side
        PROVE  BH(G, y) = BH(G, Child(u, q, y)) + Weight(u, y) + Debt(g, h, y, q)
    <3>0. BH(G, y) \in Nat /\ BH(G, Child(u, q, y)) \in Nat /\ BH(H, p) \in Nat
          /\ Weight(u, y) \in Nat
      BY <1>1, HeightsIs, WeightIs
    <3>1. CASE y = g /\ q = h
      <4>1. Debt(g, h, y, q) = 1
        BY <3>1 DEF Debt
      <4>2. BH(G, y) = BH(H, p) + Weight(u, y)
        BY <1>12, <2>1, <2>2, <2>3, <3>1
      <4>3. BH(G, Child(u, q, y)) = BH(H, p) - 1
        BY <1>2, <1>8, <2>1, <3>1
      <4> QED
        BY <3>0, <4>1, <4>2, <4>3
    <3>2. CASE y # g \/ q # h
      <4>1. Debt(g, h, y, q) = 0
        BY <3>2, NotOwed
      <4>2. Child(u, q, y) # p
        <5> SUFFICES ASSUME Child(u, q, y) = p PROVE FALSE
          OBVIOUS
        <5> QED
          BY <1>1, <1>2, <1>3, <2>1, <2>3, <3>2, OnePlace
      <4>3. BH(G, y) = BH(G, Child(u, q, y)) + Weight(u, y)
        BY <1>11, <1>12, <2>3, <4>2
      <4> QED
        BY <3>0, <4>1, <4>3
    <3> QED
      BY <3>1, <3>2
  <2> QED
    BY <1>1, <1>4, <1>5, <1>6, <1>7, <1>14, <2>3 DEF Level, LevelAt
<1> QED
  BY <1>13, <1>14

-----------------------------------------------------------------------------
(***************************************************************************)
(* A black sibling whose near child alone is red.                          *)
(***************************************************************************)

\* The near child of the sibling is red and the far one black: the near child
\* takes the sibling's place.
LEMMA NearNephew ==
    ASSUME NEW t, NEW D, NEW H, NEW p, NEW s, NEW x, Owing(t, D, H, p, s, x),
           NEW w, w = Child(t, Other(s), p), ~Red(t, w),
           NEW near, near = Child(t, s, w), Red(t, near), ~Red(t, Child(t, Other(s),
               w)),
           NEW a, Blackened(t, near, a), NEW b, Reddened(a, w, b),
           NEW r, Rotated(b, w, Other(s), r)
    PROVE  \E E, G : /\ Kept(t, D, r, E) /\ Owing(r, E, G, p, s, x)
                     /\ Child(r, Other(s), p) = near /\ ~Red(r, near)
                     /\ Child(r, Other(s), near) = w /\ Red(r, w)
<1> DEFINE I == In(t, D)
           o == Other(s)
           far == Child(t, o, w)
           i == Child(t, o, near)
           k == Child(t, s, near)
<1>1. /\ t \in Trees /\ D \in Subtrees /\ Shape(t, D) /\ Sound(t, D)
      /\ H \in Heights /\ Level(t, I, H, p, s)
      /\ p \in I /\ s \in Side /\ x = Child(t, s, p) /\ ~Red(t, x) /\ ~Red(t, Root(t))
      /\ \A y : y \in I => ~Clash(t, y)
      /\ ~Red(t, Sentinel)
  BY DEF Owing, Sound
<1>2. /\ p \in Node /\ x \in Cell /\ x # p
      /\ w \in Node /\ w \in I /\ w # p /\ w # x /\ w # Root(t)
      /\ Parent(t, w) = p /\ BH(H, x) \in Nat
      /\ BH(H, w) = BH(H, x) + 1
  BY Sibling
<1>3. /\ s \in Side /\ o \in Side /\ s # o /\ Other(o) = s /\ I \subseteq Node
      /\ \A q \in Side : q = s \/ q = o
      /\ w \in Cell /\ p \in Cell /\ \A y : y \in I => y \in Cell /\ y \in Node
  BY <1>1, <1>2, Sides, SubIs, Cells DEF In
<1>4. /\ near \in Cell /\ near # w /\ near # p /\ BH(H, near) = BH(H, x)
      /\ far \in Cell /\ far # w /\ far # p /\ BH(H, far) = BH(H, x)
  BY <1>3, Sibling
<1>5. near \in Node /\ near \in I /\ near # x /\ near # Root(t) /\ Parent(t, near) = w
  <2>1. near \in Node
    BY <1>1, <1>4, Cells
  <2>2. near \in I /\ near # Root(t) /\ Parent(t, near) = w
    BY <1>1, <1>2, <1>3, <2>1, OnePlace
  <2>3. near # x
    BY <1>1
  <2> QED
    BY <2>1, <2>2, <2>3
<1>6. /\ BH(H, i) = BH(H, x) /\ BH(H, k) = BH(H, x)
  <2>1. near # p
    BY <1>4
  <2>2. BH(H, near) = BH(H, i) /\ BH(H, near) = BH(H, k)
    BY <1>1, <1>3, <1>5, <2>1, OwedFacts
  <2> QED
    BY <1>4, <2>2
<1>7. /\ Sound(b, D) /\ Kept(t, D, b, D) /\ Root(b) = Root(t)
      /\ b \in Trees /\ Shape(b, D) /\ In(b, D) = In(t, D)
      /\ \A q, y : q \in Side /\ y \in Cell => Child(b, q, y) = Child(t, q, y)
      /\ \A y : y \in Cell => Parent(b, y) = Parent(t, y)
      /\ \A y : y \in Cell => (Red(b, y) <=> (y = w \/ (y # near /\ Red(t, y))))
  BY <1>1, <1>2, <1>5, TwoPaints
<1> HIDE DEF i, k, o, far, I
<1>8. /\ Child(b, s, w) = near /\ Child(b, o, w) = far
      /\ Child(b, o, near) = i /\ Child(b, s, near) = k
      /\ Child(b, o, p) = w /\ Child(b, s, p) = x
  <2>1. /\ Child(b, s, w) = Child(t, s, w) /\ Child(b, o, w) = Child(t, o, w)
        /\ Child(b, o, p) = Child(t, o, p) /\ Child(b, s, p) = Child(t, s, p)
    BY <1>3, <1>7
  <2>2. Child(b, o, near) = Child(t, o, near) /\ Child(b, s, near) = Child(t, s, near)
    BY <1>3, <1>4, <1>7
  <2> QED
    BY <1>1, <2>1, <2>2 DEF i, k, far, o
<1>9. PICK E : Sound(r, E) /\ Kept(b, D, r, E) /\ Rotation(b, D, w, near, o, r, E)
  <2>1. w \in In(b, D) /\ near = Child(b, Other(o), w)
    BY <1>2, <1>3, <1>7, <1>8 DEF I
  <2> QED
    BY <1>2, <1>3, <1>5, <1>7, <2>1, RotateSound DEF o
<1>10. In(r, E) = I /\ In(r, E) = In(b, D) /\ Kept(t, D, r, E)
  BY <1>7, <1>9, KeptTwice DEF Kept, I
<1>11. /\ Root(r) = Root(t) /\ Child(r, o, near) = w
       /\ \A y : y \in Cell => (Red(r, y) <=> (y = w \/ (y # near /\ Red(t, y))))
  BY <1>2, <1>7, <1>9 DEF Rotation
<1>12. Child(r, s, p) = x /\ Child(r, o, p) = near
  <2>1. \A q : q \in Side =>
              \/ Child(b, q, p) = w /\ Child(r, q, p) = near
              \/ Child(r, q, p) = Child(b, q, p) /\ Child(b, q, p) # w /\ Child(b, q, p) # near
    <3>1. w \in In(b, D) /\ near = Child(b, Other(o), w)
      BY <1>2, <1>3, <1>7, <1>8 DEF I
    <3> QED
      BY <1>1, <1>2, <1>3, <1>4, <1>5, <1>7, <1>9, <3>1, RotateKids
  <2> QED
    BY <1>2, <1>3, <1>8, <2>1
<1>13. PICK G \in Heights : \A y : BH(G, y) =
          IF y = w THEN BH(H, x) ELSE IF y = near THEN BH(H, x) + 1 ELSE BH(H, y)
  <2>1. BH(H, x) + 1 \in Nat
    BY <1>2
  <2>2. PICK G1 \in Heights : \A y : BH(G1, y) = IF y = near THEN BH(H, x) + 1 ELSE BH(H, y)
    BY <1>1, <1>5, <2>1, HeightSet
  <2>3. PICK G \in Heights : \A y : BH(G, y) = IF y = w THEN BH(H, x) ELSE BH(G1, y)
    BY <1>2, HeightSet
  <2> QED
    BY <2>2, <2>3
<1>14. Level(r, I, G, p, s)
  <2>1. Weight(b, w) = 0 /\ Weight(b, near) = 1
    BY <1>4, <1>3, <1>7 DEF Weight
  <2>2. /\ Debt(p, s, w, o) = 0 /\ Debt(p, s, w, s) = 0
        /\ Debt(p, s, near, o) = 0 /\ Debt(p, s, near, s) = 0
    BY <1>2, <1>4, NotOwed
  <2>3. BH(G, w) = BH(H, x) /\ BH(G, near) = BH(H, x) + 1
    BY <1>4, <1>13
  <2>4. /\ BH(G, near) = BH(H, w)
        /\ BH(G, w) = BH(H, far) + Weight(b, w) + Debt(p, s, w, o)
        /\ BH(G, w) = BH(H, i) + Weight(b, w) + Debt(p, s, w, s)
        /\ BH(G, near) = BH(G, w) + Weight(b, near) + Debt(p, s, near, o)
        /\ BH(G, near) = BH(H, k) + Weight(b, near) + Debt(p, s, near, s)
    BY <1>2, <1>4, <1>6, <2>1, <2>2, <2>3
  <2>5. ASSUME NEW y, y \in I, y # w, y # near PROVE LevelAt(b, H, p, s, y)
    <3>1. LevelAt(t, H, p, s, y)
      BY <1>1, <2>5 DEF Level
    <3>2. Weight(b, y) = Weight(t, y) /\ \A q : q \in Side => Child(b, q, y) = Child(t, q, y)
      BY <1>7, <1>3, <2>5 DEF Weight
    <3> QED
      BY <3>1, <3>2 DEF LevelAt
  <2>6. \A y : y # w /\ y # near => BH(G, y) = BH(H, y)
    BY <1>13
  <2>7. Balanced(b, I, H, G, w, near, o, p, s)
    BY <1>3, <1>8, <2>4, <2>5, <2>6 DEF Balanced
  <2>8. w \in In(b, D) /\ near = Child(b, Other(o), w)
    BY <1>2, <1>3, <1>7, <1>8 DEF I
  <2> QED
    BY <1>1, <1>2, <1>3, <1>5, <1>7, <1>9, <2>7, <2>8, RotateLevel
<1>15. ASSUME NEW y, y \in I PROVE ~Clash(r, y)
  <2> SUFFICES ASSUME Clash(r, y) PROVE FALSE
    OBVIOUS
  <2>1. y \in Node /\ y \in Cell
    BY <1>3, <1>15
  <2>2. ~Red(b, near)
    BY <1>4, <1>7
  <2>3. \/ y = w /\ Red(b, w) /\ Red(b, near)
        \/ y = near /\ Red(b, near)
        \/ y = Child(b, o, near) /\ Red(b, y)
        \/ y # w /\ y # near /\ Clash(b, y)
    <3>1. w \in In(b, D) /\ near = Child(b, Other(o), w) /\ y \in In(b, D)
      BY <1>2, <1>3, <1>7, <1>8, <1>15 DEF I
    <3> QED
      BY <1>1, <1>2, <1>3, <1>5, <1>7, <1>9, <1>10, <3>1, RotatedClash
  <2>4. CASE y = i /\ Red(b, y)
    <3>1. y # w /\ y # Root(t) /\ Parent(t, y) = near
      <4>1. Child(t, o, near) = y
        BY <2>4 DEF i
      <4> QED
        BY <1>1, <1>3, <1>5, <2>1, <4>1, <1>2, <1>4, OnePlace
    <3>2. Red(t, y)
      BY <1>7, <2>1, <2>4, <3>1
    <3>3. Clash(t, y)
      BY <3>1, <3>2 DEF Clash
    <3> QED
      BY <1>1, <1>15, <3>3
  <2>5. CASE y # w /\ y # near /\ Clash(b, y)
    <3>1. y # Root(t) /\ Red(t, y) /\ Red(b, Parent(t, y))
      BY <1>7, <2>1, <2>5 DEF Clash
    <3>2. /\ Parent(t, y) \in Node /\ Hangs(t, y) \in Side
          /\ Child(t, Hangs(t, y), Parent(t, y)) = y
      BY <1>1, <1>15, <3>1, HangsFacts DEF I
    <3>3. Parent(t, y) # w
      <4> SUFFICES ASSUME Parent(t, y) = w PROVE FALSE
        OBVIOUS
      <4>1. y = far
        BY <1>3, <2>5, <3>2 DEF far
      <4> QED
        BY <3>1, <4>1 DEF far, o
    <3>4. Red(t, Parent(t, y))
      BY <1>7, <3>1, <3>2, <3>3, Cells
    <3>5. Clash(t, y)
      BY <3>1, <3>4 DEF Clash
    <3> QED
      BY <1>1, <1>15, <3>5
  <2> QED
    BY <1>8, <2>2, <2>3, <2>4, <2>5
<1>16. ~Red(r, x) /\ ~Red(r, Root(r)) /\ ~Red(r, near) /\ Red(r, w)
  <2>1. Root(t) \in Cell
    BY <1>1, TreeFields
  <2> QED
    BY <1>1, <1>2, <1>3, <1>4, <1>11, <2>1
<1>17. Owing(r, E, G, p, s, x)
  BY <1>1, <1>9, <1>10, <1>12, <1>13, <1>14, <1>15, <1>16 DEF Owing
<1> QED
  BY <1>10, <1>11, <1>12, <1>16, <1>17 DEF o

-----------------------------------------------------------------------------
(***************************************************************************)
(* A black sibling whose far child is red.                                 *)
(***************************************************************************)

\* A level tree whose root is black, with no red child of a red node.
Fine(t, D) ==
    /\ Sound(t, D) /\ ~Red(t, Root(t))
    /\ \A y : y \in In(t, D) => ~Clash(t, y)
    /\ \E H \in Heights : Level(t, In(t, D), H, Null, NoSide)

\* The far child of the sibling is red: the sibling takes the parent's place
\* and its colour, and the debt is paid.
LEMMA FarNephew ==
    ASSUME NEW t, NEW D, NEW H, NEW p, NEW s, NEW x, Owing(t, D, H, p, s, x),
           NEW w, w = Child(t, Other(s), p), ~Red(t, w),
           NEW far, far = Child(t, Other(s), w), Red(t, far),
           NEW c, Copied(t, w, p, c), NEW a, Blackened(c, p, a), NEW b, Blackened(a,
               far, b),
           NEW r, Rotated(b, p, s, r)
    PROVE  Root(r) \in Node /\ \E E : Kept(t, D, r, E) /\ Fine(r, E)
<1> DEFINE I == In(t, D)
           o == Other(s)
           near == Child(t, s, w)
<1>1. /\ t \in Trees /\ D \in Subtrees /\ Shape(t, D) /\ Sound(t, D)
      /\ H \in Heights /\ Level(t, I, H, p, s)
      /\ p \in I /\ s \in Side /\ x = Child(t, s, p) /\ ~Red(t, x) /\ ~Red(t, Root(t))
      /\ \A y : y \in I => ~Clash(t, y)
      /\ ~Red(t, Sentinel)
  BY DEF Owing, Sound
<1>2. /\ p \in Node /\ x \in Cell /\ x # p
      /\ w \in Node /\ w \in I /\ w # p /\ w # x /\ w # Root(t)
      /\ Parent(t, w) = p /\ BH(H, x) \in Nat
      /\ BH(H, w) = BH(H, x) + 1
      /\ BH(H, p) = IF Red(t, p) THEN BH(H, x) + 1 ELSE BH(H, x) + 2
      /\ \A q : q \in Side => Child(t, q, w) # p
  BY Sibling
<1>3. /\ s \in Side /\ o \in Side /\ s # o /\ Other(o) = s /\ I \subseteq Node
      /\ \A q \in Side : q = s \/ q = o
      /\ w \in Cell /\ p \in Cell /\ \A y : y \in I => y \in Cell /\ y \in Node
      /\ Root(t) \in Cell
  BY <1>1, <1>2, Sides, SubIs, Cells, TreeFields DEF In
<1>4. /\ near \in Cell /\ near # w /\ near # p /\ BH(H, near) = BH(H, x)
      /\ far \in Cell /\ far # w /\ far # p /\ BH(H, far) = BH(H, x)
  BY <1>3, Sibling
<1>5. far \in Node /\ far \in I /\ far # x /\ far # Root(t) /\ Parent(t, far) = w /\ near # far
  <2>1. far \in Node
    BY <1>1, <1>4, Cells
  <2>2. far \in I /\ far # Root(t) /\ Parent(t, far) = w /\ near # far
    BY <1>1, <1>2, <1>3, <2>1, OnePlace
  <2>3. far # x
    BY <1>1
  <2> QED
    BY <2>1, <2>2, <2>3
<1>6. p # Root(t) => Parent(t, p) \in Node /\ Parent(t, p) # w /\ Parent(t, p) # far
  <2>1. ASSUME p # Root(t) PROVE Parent(t, p) \in Node /\ Parent(t, p) # w /\ Parent(t, p) # far
    <3>1. /\ Parent(t, p) \in Node /\ Hangs(t, p) \in Side
          /\ Child(t, Hangs(t, p), Parent(t, p)) = p
      BY <1>1, <2>1, HangsFacts
    <3>2. Parent(t, p) # w
      BY <1>2, <3>1
    <3>3. Parent(t, p) # far
      <4> SUFFICES ASSUME Parent(t, p) = far PROVE FALSE
        OBVIOUS
      <4>1. p \in Sub(D, far)
        BY <1>1, <1>2, <1>5, <3>1, ShapeFacts, Sides
      <4>2. far \in Sub(D, w)
        BY <1>1, <1>2, <1>3, <1>5, ShapeFacts
      <4>3. w \in Sub(D, p)
        BY <1>1, <1>2, <1>3, ShapeFacts
      <4>4. far \in Sub(D, p)
        BY <1>1, <4>2, <4>3, Nested
      <4> QED
        BY <1>1, <1>4, <4>1, <4>4, Antisymmetric
    <3> QED
      BY <3>1, <3>2, <3>3
  <2> QED
    BY <2>1
<1>7. /\ Sound(c, D) /\ Kept(t, D, c, D) /\ Root(c) = Root(t)
      /\ \A q, y : q \in Side /\ y \in Cell => Child(c, q, y) = Child(t, q, y)
      /\ \A y : y \in Cell => Parent(c, y) = Parent(t, y)
      /\ \A y : y \in Cell => (Red(c, y) <=> IF y = w THEN Red(t, p) ELSE Red(t, y))
  BY <1>1, <1>2, CopySound
<1>8. /\ Sound(a, D) /\ Kept(c, D, a, D) /\ Root(a) = Root(c)
      /\ \A q, y : q \in Side /\ y \in Cell => Child(a, q, y) = Child(c, q, y)
      /\ \A y : y \in Cell => Parent(a, y) = Parent(c, y)
      /\ \A y : y \in Cell => (Red(a, y) <=> (y # p /\ Red(c, y)))
  BY <1>2, <1>7, BlackSound
<1>9. /\ Sound(b, D) /\ Kept(a, D, b, D) /\ Root(b) = Root(a)
      /\ \A q, y : q \in Side /\ y \in Cell => Child(b, q, y) = Child(a, q, y)
      /\ \A y : y \in Cell => Parent(b, y) = Parent(a, y)
      /\ \A y : y \in Cell => (Red(b, y) <=> (y # far /\ Red(a, y)))
  BY <1>5, <1>8, BlackSound
<1>10. /\ Kept(t, D, b, D) /\ Root(b) = Root(t) /\ In(b, D) = In(t, D)
       /\ b \in Trees /\ Shape(b, D)
       /\ \A q, y : q \in Side /\ y \in Cell => Child(b, q, y) = Child(t, q, y)
       /\ \A y : y \in Cell => Parent(b, y) = Parent(t, y)
       /\ \A y : y \in Cell => (Red(b, y) <=> IF y = w THEN Red(t, p)
                                              ELSE y # far /\ y # p /\ Red(t, y))
  <2>1. Kept(t, D, b, D)
    BY <1>7, <1>8, <1>9, KeptTwice
  <2>2. \A y : y \in Cell => (Red(b, y) <=> IF y = w THEN Red(t, p)
                                              ELSE y # far /\ y # p /\ Red(t, y))
    BY <1>2, <1>4, <1>7, <1>8, <1>9
  <2> QED
    BY <1>7, <1>8, <1>9, <2>1, <2>2 DEF Kept, Sound
<1> HIDE DEF o, near, I
<1>11. /\ Child(b, s, p) = x /\ Child(b, o, p) = w
       /\ Child(b, s, w) = near /\ Child(b, o, w) = far
  <2>1. /\ Child(b, s, w) = Child(t, s, w) /\ Child(b, o, w) = Child(t, o, w)
        /\ Child(b, o, p) = Child(t, o, p) /\ Child(b, s, p) = Child(t, s, p)
    BY <1>3, <1>10
  <2> QED
    BY <1>1, <2>1 DEF near, o
<1>12. p \in In(b, D) /\ w = Child(b, Other(s), p)
  BY <1>1, <1>10, <1>11 DEF o, I
<1>13. PICK E : Sound(r, E) /\ Kept(b, D, r, E) /\ Rotation(b, D, p, w, s, r, E)
  BY <1>2, <1>3, <1>9, <1>12, RotateSound
<1>14. In(r, E) = I /\ In(r, E) = In(b, D) /\ Kept(t, D, r, E)
  BY <1>10, <1>13, KeptTwice DEF Kept, I
<1>15. /\ Root(r) = IF p = Root(t) THEN w ELSE Root(t)
       /\ \A y : y \in Cell => (Red(r, y) <=> IF y = w THEN Red(t, p)
                                              ELSE y # far /\ y # p /\ Red(t, y))
  BY <1>10, <1>13 DEF Rotation
<1>16. PICK K \in Heights : \A y : BH(K, y) = IF y = far THEN BH(H, x) + 1 ELSE BH(H, y)
  <2>1. BH(H, x) + 1 \in Nat
    BY <1>2
  <2> QED
    BY <1>1, <1>5, <2>1, HeightSet
<1>17. PICK G \in Heights : \A y : BH(G, y) =
          IF y = w THEN BH(H, p) ELSE IF y = p THEN BH(H, x) + 1 ELSE BH(K, y)
  <2>1. BH(H, x) + 1 \in Nat /\ BH(H, p) \in Nat
    BY <1>1, HeightsIs
  <2>2. PICK G1 \in Heights : \A y : BH(G1, y) = IF y = p THEN BH(H, x) + 1 ELSE BH(K, y)
    BY <1>2, <1>16, <2>1, HeightSet
  <2>3. PICK G \in Heights : \A y : BH(G, y) = IF y = w THEN BH(H, p) ELSE BH(G1, y)
    <3>1. w \in Node /\ BH(H, p) \in Nat /\ G1 \in Heights
      BY <1>2, <2>1
    <3> QED
      BY <3>1, HeightSet
  <2> QED
    BY <2>2, <2>3
<1>18. ASSUME NEW y, y \in I, y # p, y # w PROVE LevelAt(b, K, Null, NoSide, y)
  <2> SUFFICES ASSUME NEW q, q \in Side
               PROVE  BH(K, y) = BH(K, Child(b, q, y)) + Weight(b, y) + Debt(Null, NoSide, y, q)
    BY DEF LevelAt
  <2>1. Debt(Null, NoSide, y, q) = 0 /\ y \in Cell /\ y \in Node
    BY <1>3, <1>18, NoDebt
  <2>2. Child(b, q, y) = Child(t, q, y)
    BY <1>10, <2>1
  <2>3. Child(t, q, y) # far
    <3> SUFFICES ASSUME Child(t, q, y) = far PROVE FALSE
      OBVIOUS
    <3>1. y = Parent(t, far)
      BY <1>1, <1>5, <2>1, OnePlace
    <3> QED
      BY <1>5, <1>18, <3>1
  <2>4. /\ Red(t, y) => BH(H, y) = BH(H, Child(t, q, y))
        /\ ~Red(t, y) => BH(H, y) = BH(H, Child(t, q, y)) + 1
    BY <1>1, <1>3, <1>18, OwedFacts
  <2>5. BH(H, y) \in Nat /\ BH(H, Child(t, q, y)) \in Nat
    BY <1>1, HeightsIs
  <2>6. BH(K, Child(b, q, y)) = BH(H, Child(t, q, y))
    BY <1>16, <2>2, <2>3
  <2>7. CASE y = far
    <3>1. Weight(b, y) = 1
      BY <1>4, <1>10, <2>1, <2>7 DEF Weight
    <3>2. BH(H, Child(t, q, y)) = BH(H, x)
      BY <1>4, <2>4, <2>7
    <3> QED
      BY <1>2, <1>16, <2>1, <2>6, <2>7, <3>1, <3>2
  <2>8. CASE y # far
    <3>1. Weight(b, y) = IF Red(t, y) THEN 0 ELSE 1
      BY <1>10, <1>18, <2>1, <2>8 DEF Weight
    <3>2. BH(K, y) = BH(H, y)
      BY <1>16, <2>8
    <3> QED
      BY <2>1, <2>4, <2>5, <2>6, <3>1, <3>2
  <2> QED
    BY <2>7, <2>8
<1>19. Level(r, I, G, Null, NoSide)
  <2>1. Weight(b, p) = 1 /\ Weight(b, w) = IF Red(t, p) THEN 0 ELSE 1
    BY <1>2, <1>3, <1>10 DEF Weight
  <2>2. /\ BH(G, p) = BH(H, x) + 1 /\ BH(G, w) = BH(H, p)
        /\ BH(K, x) = BH(H, x) /\ BH(K, near) = BH(H, x) /\ BH(K, far) = BH(H, x) + 1
        /\ BH(K, p) = BH(H, p)
    BY <1>2, <1>4, <1>5, <1>16, <1>17
  <2>3. /\ BH(G, w) = BH(K, p)
        /\ BH(G, p) = BH(K, Child(b, s, p)) + Weight(b, p)
        /\ BH(G, p) = BH(K, Child(b, s, w)) + Weight(b, p)
        /\ BH(G, w) = BH(G, p) + Weight(b, w)
        /\ BH(G, w) = BH(K, Child(b, Other(s), w)) + Weight(b, w)
    <3>1. BH(K, Child(b, Other(s), w)) = BH(H, x) + 1
      BY <1>11, <2>2 DEF o
    <3>2. BH(K, Child(b, s, p)) = BH(H, x) /\ BH(K, Child(b, s, w)) = BH(H, x)
      BY <1>11, <2>2
    <3> QED
      BY <1>2, <2>1, <2>2, <3>1, <3>2
  <2>4. \A y : y # p /\ y # w => BH(G, y) = BH(K, y)
    BY <1>17
  <2>5. Balanced(b, I, K, G, p, w, s, Null, NoSide)
    BY <1>2, <1>18, <2>3, <2>4, BalancedFree
  <2> QED
    BY <1>1, <1>2, <1>3, <1>10, <1>12, <1>13, <2>5, RotateLevel
<1>20. ASSUME NEW y, y \in I PROVE ~Clash(r, y)
  <2> SUFFICES ASSUME Clash(r, y) PROVE FALSE
    OBVIOUS
  <2>1. y \in Node /\ y \in Cell
    BY <1>3, <1>20
  <2>2. ~Red(b, p)
    BY <1>2, <1>3, <1>10
  <2>3. \/ y = w /\ Red(b, w) /\ p # Root(b) /\ Red(b, Parent(b, p))
        \/ y # p /\ y # w /\ y # Child(b, s, w) /\ Clash(b, y)
    <3>1. y \in In(b, D)
      BY <1>10, <1>20 DEF I
    <3> QED
      BY <1>1, <1>2, <1>3, <1>10, <1>12, <1>13, <1>14, <2>2, <3>1, RotatedClash
  <2>4. CASE y = w /\ Red(b, w) /\ p # Root(b) /\ Red(b, Parent(b, p))
    <3>1. Red(t, p) /\ p # Root(t) /\ Parent(b, p) = Parent(t, p)
      BY <1>3, <1>10, <2>4
    <3>2. Red(t, Parent(t, p))
      BY <1>6, <1>10, <2>4, <3>1, Cells
    <3>3. Clash(t, p)
      BY <3>1, <3>2 DEF Clash
    <3> QED
      BY <1>1, <3>3
  <2>5. CASE y # p /\ y # w /\ y # near /\ Clash(b, y)
    <3>1. y # Root(t) /\ Red(t, y) /\ y # far /\ Red(b, Parent(t, y))
      BY <1>10, <2>1, <2>5 DEF Clash
    <3>2. /\ Parent(t, y) \in Node /\ Hangs(t, y) \in Side
          /\ Child(t, Hangs(t, y), Parent(t, y)) = y
      BY <1>1, <1>20, <3>1, HangsFacts DEF I
    <3>3. Parent(t, y) # w
      <4> SUFFICES ASSUME Parent(t, y) = w PROVE FALSE
        OBVIOUS
      <4>1. y = Child(t, s, w) \/ y = Child(t, o, w)
        BY <1>3, <3>2
      <4> QED
        BY <2>5, <3>1, <4>1 DEF near, o
    <3>4. Red(t, Parent(t, y))
      BY <1>10, <3>1, <3>2, <3>3, Cells
    <3>5. Clash(t, y)
      BY <3>1, <3>4 DEF Clash
    <3> QED
      BY <1>1, <1>20, <3>5
  <2> QED
    BY <1>11, <2>3, <2>4, <2>5
<1>21. ~Red(r, Root(r)) /\ Root(r) \in Node
  <2>1. Root(t) # Sentinel
    <3>1. p \in Sub(D, Root(t))
      BY <1>1 DEF In, I
    <3> QED
      BY <1>1, <3>1, SubIs, Cells
  <2> QED
    BY <1>1, <1>2, <1>3, <1>15, <2>1, Cells
<1>22. Fine(r, E)
  BY <1>13, <1>14, <1>17, <1>19, <1>20, <1>21 DEF Fine
<1> QED
  BY <1>14, <1>21, <1>22

-----------------------------------------------------------------------------
(***************************************************************************)
(* The body of the loop of a deletion.                                     *)
(***************************************************************************)

\* The black that a running deletion carries is missing at x, or x is the root
\* or red; in that last case x may be one of two red nodes in a row.
Pending(t, D, x) ==
    /\ Sound(t, D) /\ ~Red(t, Root(t)) /\ x \in Cell
    /\ \A y : y \in In(t, D) /\ Clash(t, y) => Red(t, x) /\ (x = y \/ x = Parent(t, y))
    /\ \E H \in Heights :
          \/ x = Root(t) /\ x \in Node /\ Level(t, In(t, D), H, Null, NoSide)
          \/ /\ x # Root(t)
             /\ \E p, s : /\ p \in In(t, D) /\ s \in Side
                          /\ x = Child(t, s, p) /\ Parent(t, x) = p
                          /\ Level(t, In(t, D), H, p, s)

\* A deletion that is not done owes a black.
LEMMA PendingOwing ==
    ASSUME NEW t, NEW D, NEW x, Pending(t, D, x), x # Root(t), ~Red(t, x)
    PROVE  \E H : Owing(t, D, H, Parent(t, x), Hangs(t, x), x)
<1>1. PICK H, p, s : /\ H \in Heights /\ p \in In(t, D) /\ s \in Side
                     /\ x = Child(t, s, p) /\ Parent(t, x) = p
                     /\ Level(t, In(t, D), H, p, s)
  BY DEF Pending
<1>2. Owing(t, D, H, p, s, x)
  BY <1>1 DEF Pending, Owing
<1>3. Child(t, Other(s), p) # x
  BY <1>2, Sibling
<1>4. Hangs(t, x) = s
  BY <1>1, <1>3, HangsIs DEF Side, Other
<1> QED
  BY <1>1, <1>2, <1>4

\* m turns black and n red, and n goes down on side s.
Exchanged(t, m, n, s, u) == u = Rotate(Painted(Painted(t, m, FALSE), n, TRUE), n, s)

\* The assignments of an exchange of colours with a rotation, one at a time.
LEMMA ExchangedIs ==
    ASSUME NEW t, NEW m, NEW n, NEW s, NEW u, Exchanged(t, m, n, s, u)
    PROVE  \E a, b : Blackened(t, m, a) /\ Reddened(a, n, b) /\ Rotated(b, n, s, u)
BY DEF Exchanged, Blackened, Reddened, Rotated

\* w takes the colour of p, p and z turn black, and p goes down on side s.
Settled(t, w, p, z, s, u) ==
    u = Rotate(Painted(Painted(Painted(t, w, t.red[p]), p, FALSE), z, FALSE), p, s)

\* The assignments of the last rotation of a deletion, one at a time.
LEMMA SettledIs ==
    ASSUME NEW t, NEW w, NEW p, NEW z, NEW s, NEW u, Settled(t, w, p, z, s, u)
    PROVE  \E c, a, b : /\ Copied(t, w, p, c) /\ Blackened(c, p, a)
                        /\ Blackened(a, z, b) /\ Rotated(b, p, s, u)
BY DEF Settled, Copied, Blackened, Rotated

\* The first part of the loop's body.
LEMMA BlackSibling ==
    ASSUME NEW t, NEW D, NEW H, NEW p, NEW s, NEW x, Owing(t, D, H, p, s, x),
           NEW v, v = Child(t, Other(s), p), NEW u,
           Red(t, v) => Exchanged(t, v, p, s, u),
           ~Red(t, v) => u = t
    PROVE  \E E, G : /\ Kept(t, D, u, E) /\ Owing(u, E, G, p, s, x)
                     /\ ~Red(u, Child(u, Other(s), p))
<1>1. CASE Red(t, v)
  <2>1. PICK a, b : Blackened(t, v, a) /\ Reddened(a, p, b) /\ Rotated(b, p, s, u)
    BY <1>1, ExchangedIs
  <2> QED
    BY <1>1, <2>1, RedSibling
<1>2. CASE ~Red(t, v)
  BY <1>2 DEF Kept
<1> QED
  BY <1>1, <1>2

\* What the last part finds.
Ready(t, D, H, p, s, x, y, z) ==
    /\ Owing(t, D, H, p, s, x)
    /\ y = Child(t, Other(s), p) /\ ~Red(t, y)
    /\ z = Child(t, Other(s), y) /\ Red(t, z)

\* The second part, unless both children of the sibling are black.
LEMMA RedFarNephew ==
    ASSUME NEW t, NEW D, NEW H, NEW p, NEW s, NEW x, Owing(t, D, H, p, s, x),
           NEW w, w = Child(t, Other(s), p), ~Red(t, w),
           NEW near, near = Child(t, s, w), NEW far, far = Child(t, Other(s), w),
           Red(t, near) \/ Red(t, far), NEW u,
           Red(t, far) => u = t,
           ~Red(t, far) => Exchanged(t, near, w, Other(s), u),
           NEW y, y = Child(u, Other(s), p), NEW z, z = Child(u, Other(s), y)
    PROVE  \E E, G : Kept(t, D, u, E) /\ Ready(u, E, G, p, s, x, y, z)
<1>1. CASE ~Red(t, far)
  <2>1. PICK a, b : Blackened(t, near, a) /\ Reddened(a, w, b) /\ Rotated(b, w, Other(s), u)
    BY <1>1, ExchangedIs
  <2>2. Red(t, near) /\ ~Red(t, Child(t, Other(s), w))
    BY <1>1
  <2>3. PICK E, G : /\ Kept(t, D, u, E) /\ Owing(u, E, G, p, s, x)
                    /\ Child(u, Other(s), p) = near /\ ~Red(u, near)
                    /\ Child(u, Other(s), near) = w /\ Red(u, w)
    BY <2>1, <2>2, NearNephew
  <2> QED
    BY <2>3 DEF Ready
<1>2. CASE Red(t, far)
  BY <1>2 DEF Kept, Ready
<1> QED
  BY <1>1, <1>2

\* The last part.
LEMMA DebtPaid ==
    ASSUME NEW t, NEW D, NEW H, NEW p, NEW s, NEW x, NEW w, NEW far,
           Ready(t, D, H, p, s, x, w, far),
           NEW r, Settled(t, w, p, far, s, r)
    PROVE  Root(r) \in Node /\ \E E : Kept(t, D, r, E) /\ Fine(r, E)
<1>1. PICK c, a, b : /\ Copied(t, w, p, c) /\ Blackened(c, p, a)
                     /\ Blackened(a, far, b) /\ Rotated(b, p, s, r)
  BY SettledIs
<1>2. /\ Owing(t, D, H, p, s, x)
      /\ w = Child(t, Other(s), p) /\ ~Red(t, w)
      /\ far = Child(t, Other(s), w) /\ Red(t, far)
  BY DEF Ready
<1> QED
  BY <1>1, <1>2, FarNephew

\* Nothing is owed at the root.
LEMMA FinePending ==
    ASSUME NEW t, NEW D, Fine(t, D), Root(t) \in Node
    PROVE  Pending(t, D, Root(t))
BY Cells DEF Fine, Pending

\* The black that was owed at x is owed at its parent, or paid if that is red.
LEMMA BlackNephewsPending ==
    ASSUME NEW t, NEW D, NEW H, NEW p, NEW s, NEW x, Owing(t, D, H, p, s, x),
           NEW w, w = Child(t, Other(s), p), ~Red(t, w),
           \A q : q \in Side => ~Red(t, Child(t, q, w)),
           NEW u, Reddened(t, w, u)
    PROVE  Kept(t, D, u, D) /\ Pending(u, D, p)
<1>1. /\ Sound(u, D) /\ Kept(t, D, u, D) /\ In(u, D) = In(t, D)
      /\ p \in In(u, D) /\ ~Red(u, Root(u))
      /\ \A y : y \in In(u, D) /\ Clash(u, y) => Red(u, p) /\ p = Parent(u, y)
      /\ \E G \in Heights :
            IF p = Root(u) THEN Level(u, In(u, D), G, Null, NoSide)
            ELSE Level(u, In(u, D), G, Parent(u, p), Hangs(u, p))
  BY BlackNephews
<1>2. u \in Trees /\ D \in Subtrees /\ Shape(u, D)
  BY <1>1 DEF Sound
<1>3. p \in Node /\ p \in Cell
  BY <1>1, <1>2, SubIs, Cells DEF In
<1>4. CASE p = Root(u)
  BY <1>1, <1>3, <1>4 DEF Pending
<1>5. CASE p # Root(u)
  <2>1. /\ Parent(u, p) \in In(u, D) /\ Hangs(u, p) \in Side
        /\ p = Child(u, Hangs(u, p), Parent(u, p))
    BY <1>1, <1>2, <1>5, HangsFacts
  <2>2. \E G \in Heights : Level(u, In(u, D), G, Parent(u, p), Hangs(u, p))
    BY <1>1, <1>5
  <2> QED
    BY <1>1, <1>3, <1>5, <2>1, <2>2 DEF Pending
<1> QED
  BY <1>4, <1>5

\* The body of the loop.
LEMMA FixupPending ==
    ASSUME NEW t, NEW D, NEW x, Pending(t, D, x), x # Root(t), ~Red(t, x),
           NEW p, p = Parent(t, x), NEW s, s = Hangs(t, x),
           NEW v, v = Child(t, Other(s), p), NEW a,
           Red(t, v) => Exchanged(t, v, p, s, a),
           ~Red(t, v) => a = t,
           NEW w, w = Child(a, Other(s), p),
           NEW near, near = Child(a, s, w), NEW far, far = Child(a, Other(s), w),
               NEW b,
           Red(a, far) => b = a,
           ~Red(a, far) => Exchanged(a, near, w, Other(s), b),
           NEW y, y = Child(b, Other(s), p), NEW z, z = Child(b, Other(s), y),
           NEW r, NEW k,
           ~Red(a, near) /\ ~Red(a, far) => Reddened(a, w, r) /\ k = p,
           Red(a, near) \/ Red(a, far) => Settled(b, y, p, z, s, r) /\ k = Root(r)
    PROVE  \E E : Kept(t, D, r, E) /\ Pending(r, E, k)
<1>1. PICK H : Owing(t, D, H, p, s, x)
  BY PendingOwing
<1>2. PICK D1, H1 : Kept(t, D, a, D1) /\ Owing(a, D1, H1, p, s, x) /\ ~Red(a, w)
  BY <1>1, BlackSibling
<1>3. s \in Side
  BY <1>1 DEF Owing
<1>4. CASE ~Red(a, near) /\ ~Red(a, far)
  <2>1. \A q : q \in Side => ~Red(a, Child(a, q, w))
    BY <1>3, <1>4, Sides
  <2>2. Kept(a, D1, r, D1) /\ Pending(r, D1, p)
    BY <1>2, <1>4, <2>1, BlackNephewsPending
  <2> QED
    BY <1>2, <1>4, <2>2, KeptTwice
<1>5. CASE Red(a, near) \/ Red(a, far)
  <2>1. PICK D2, H2 : Kept(a, D1, b, D2) /\ Ready(b, D2, H2, p, s, x, y, z)
    BY <1>2, <1>5, RedFarNephew
  <2>2. Root(r) \in Node /\ \E E : Kept(b, D2, r, E) /\ Fine(r, E)
    BY <1>5, <2>1, DebtPaid
  <2>3. PICK E : Kept(b, D2, r, E) /\ Fine(r, E)
    BY <2>2
  <2>4. Pending(r, E, k)
    BY <1>5, <2>2, <2>3, FinePending
  <2>5. Kept(t, D, r, E)
    BY <1>2, <2>1, <2>3, KeptTwice
  <2> QED
    BY <2>4, <2>5
<1> QED
  BY <1>4, <1>5

-----------------------------------------------------------------------------
(***************************************************************************)
(* The root is painted black at the end of an operation.                   *)
(***************************************************************************)

\* The root may always be painted black.
LEMMA BlackRoot ==
    ASSUME NEW t, NEW D, Sound(t, D), Root(t) \in Node,
           NEW H \in Heights, Level(t, In(t, D), H, Null, NoSide),
           \A y : y \in In(t, D) => ~Clash(t, y),
           NEW r, Blackened(t, Root(t), r)
    PROVE  Kept(t, D, r, D) /\ Fine(r, D)
<1> DEFINE I == In(t, D)
           x == Root(t)
<1>1. t \in Trees /\ D \in Subtrees /\ Shape(t, D) /\ I \subseteq Node
  BY SubIs DEF Sound, In
<1>2. /\ Sound(r, D) /\ Kept(t, D, r, D) /\ Root(r) = Root(t)
      /\ \A q, y : q \in Side /\ y \in Cell => Child(r, q, y) = Child(t, q, y)
      /\ \A y : y \in Cell => Parent(r, y) = Parent(t, y)
      /\ \A y : y \in Cell => (Red(r, y) <=> (y # Root(t) /\ Red(t, y)))
  BY BlackSound
<1>3. In(r, D) = I /\ ~Red(r, Root(r)) /\ x \in Cell
  BY <1>2, Cells DEF Kept
<1>4. ASSUME NEW y, y \in I PROVE ~Clash(r, y)
  <2> SUFFICES ASSUME Clash(r, y) PROVE FALSE
    OBVIOUS
  <2>1. y \in Cell /\ y # Root(t) /\ Red(t, y) /\ Red(r, Parent(t, y))
    BY <1>1, <1>2, <1>4, Cells DEF Clash
  <2>2. Parent(t, y) \in Cell
    BY <1>1, <1>4, <2>1, HangsFacts, Cells
  <2>3. Clash(t, y)
    BY <1>2, <2>1, <2>2 DEF Clash
  <2> QED
    BY <1>4, <2>3
<1>5. PICK G \in Heights :
         \A y : BH(G, y) = IF y = x THEN IF Red(t, x) THEN BH(H, x) + 1 ELSE BH(H, x)
                           ELSE BH(H, y)
  <2>1. (IF Red(t, x) THEN BH(H, x) + 1 ELSE BH(H, x)) \in Nat
    BY HeightsIs
  <2> HIDE DEF x
  <2>2. x \in Node
    BY DEF x
  <2> QED
    BY <2>1, <2>2, HeightSet
<1>6. ASSUME NEW y, y \in I, NEW q, q \in Side
      PROVE  BH(G, y) = BH(G, Child(r, q, y)) + Weight(r, y) + Debt(Null, NoSide, y, q)
  <2>1. y \in Node /\ y \in Cell /\ Debt(Null, NoSide, y, q) = 0
    BY <1>1, <1>6, NoDebt, Cells
  <2>2. Child(r, q, y) = Child(t, q, y) /\ Child(t, q, y) # x
    <3>1. Child(t, q, y) # Root(t)
      BY <1>1, <1>6, <2>1, OnePlace
    <3> QED
      BY <1>2, <1>6, <2>1, <3>1
  <2>3. /\ Red(t, y) => BH(H, y) = BH(H, Child(t, q, y))
        /\ ~Red(t, y) => BH(H, y) = BH(H, Child(t, q, y)) + 1
    BY <1>1, <1>6, LevelFacts
  <2>4. BH(H, y) \in Nat /\ BH(H, Child(t, q, y)) \in Nat
    BY HeightsIs
  <2>5. BH(G, Child(r, q, y)) = BH(H, Child(t, q, y))
    BY <1>5, <2>2
  <2>6. Weight(r, y) = IF y # x /\ Red(t, y) THEN 0 ELSE 1
    BY <1>2, <2>1 DEF Weight
  <2> HIDE DEF x
  <2> QED
    BY <1>5, <2>1, <2>3, <2>4, <2>5, <2>6
<1> QED
  BY <1>2, <1>3, <1>4, <1>6 DEF Fine, Level, LevelAt

\* When the loop of an insertion ends, the tree is fine.
LEMMA InsertDoneFine ==
    ASSUME NEW t, NEW D, NEW H, NEW n, Conflict(t, D, H, n),
           n = Root(t) \/ ~Red(t, Parent(t, n)),
           NEW r, Blackened(t, Root(t), r)
    PROVE  Kept(t, D, r, D) /\ Fine(r, D)
<1>1. \A y : y \in In(t, D) => ~Clash(t, y)
  BY DEF Conflict, Clash
<1>2. Root(t) \in Node
  <2>1. n \in Sub(D, Root(t)) /\ D \in Subtrees
    BY DEF Conflict, In, Sound
  <2> QED
    BY <2>1, SubIs
<1>3. Sound(t, D) /\ H \in Heights /\ Level(t, In(t, D), H, Null, NoSide)
  BY DEF Conflict
<1> QED
  BY <1>1, <1>2, <1>3, BlackRoot

\* When the loop of a deletion ends, the tree is fine.
LEMMA DeleteDoneFine ==
    ASSUME NEW t, NEW D, NEW x, Pending(t, D, x), x = Root(t) \/ Red(t, x),
           NEW r, Blackened(t, x, r)
    PROVE  Kept(t, D, r, D) /\ Fine(r, D)
<1> DEFINE I == In(t, D)
<1>1. /\ t \in Trees /\ D \in Subtrees /\ Shape(t, D) /\ I \subseteq Node /\ Sound(t, D)
      /\ ~Red(t, Root(t)) /\ ~Red(t, Sentinel) /\ x \in Cell
      /\ \A y : y \in I /\ Clash(t, y) => Red(t, x) /\ (x = y \/ x = Parent(t, y))
  BY SubIs DEF Pending, Sound, In
<1>2. CASE x = Root(t)
  <2>1. PICK H \in Heights : x \in Node /\ Level(t, I, H, Null, NoSide)
    BY <1>2 DEF Pending
  <2>2. \A y : y \in In(t, D) => ~Clash(t, y)
    BY <1>1, <1>2
  <2> QED
    BY <1>1, <1>2, <2>1, <2>2, BlackRoot
<1>3. CASE x # Root(t)
  <2>0. Red(t, x) /\ x \in Node
    BY <1>1, <1>3, Cells
  <2>1. PICK H, p, s : /\ H \in Heights /\ p \in I /\ s \in Side
                       /\ x = Child(t, s, p) /\ Parent(t, x) = p
                       /\ Level(t, I, H, p, s)
    BY <1>3 DEF Pending
  <2>2. /\ Sound(r, D) /\ Kept(t, D, r, D) /\ Root(r) = Root(t)
        /\ \A q, y : q \in Side /\ y \in Cell => Child(r, q, y) = Child(t, q, y)
        /\ \A y : y \in Cell => Parent(r, y) = Parent(t, y)
        /\ \A y : y \in Cell => (Red(r, y) <=> (y # x /\ Red(t, y)))
    BY <1>1, <2>0, BlackSound
  <2>3. In(r, D) = I /\ ~Red(r, Root(r))
    BY <1>1, <2>2, TreeFields DEF Kept
  <2>4. ASSUME NEW y, y \in I PROVE ~Clash(r, y)
    <3> SUFFICES ASSUME Clash(r, y) PROVE FALSE
      OBVIOUS
    <3>1. y \in Cell /\ y # Root(t) /\ y # x /\ Red(t, y) /\ Red(r, Parent(t, y))
      BY <1>1, <2>2, <2>4, Cells DEF Clash
    <3>2. Parent(t, y) \in Cell
      BY <1>1, <2>4, <3>1, HangsFacts, Cells
    <3>3. Clash(t, y) /\ x # Parent(t, y)
      BY <2>2, <3>1, <3>2 DEF Clash
    <3> QED
      BY <1>1, <2>4, <3>1, <3>3
  <2>5. PICK G \in Heights : \A y : BH(G, y) = IF y = x THEN BH(H, x) + 1 ELSE BH(H, y)
    <3>1. BH(H, x) + 1 \in Nat
      BY <2>1, HeightsIs
    <3> QED
      BY <2>0, <2>1, <3>1, HeightSet
  <2>6. ASSUME NEW y, y \in I, NEW q, q \in Side
        PROVE  BH(G, y) = BH(G, Child(r, q, y)) + Weight(r, y) + Debt(Null, NoSide, y, q)
    <3>1. y \in Node /\ y \in Cell /\ Debt(Null, NoSide, y, q) = 0
      BY <1>1, <2>6, NoDebt, Cells
    <3>2. Child(r, q, y) = Child(t, q, y) /\ p \in Node /\ x # p
      BY <1>1, <2>1, <2>2, <2>6, <3>1, ShapeFacts
    <3>3. BH(H, y) \in Nat /\ BH(H, Child(t, q, y)) \in Nat /\ BH(H, x) \in Nat
      BY <2>1, HeightsIs
    <3>4. Weight(r, y) = IF y # x /\ Red(t, y) THEN 0 ELSE 1
      BY <2>2, <3>1 DEF Weight
    <3>5. CASE y = p /\ q = s
      <4>1. BH(H, p) = BH(H, Child(t, s, p)) + Weight(t, p) + 1
        BY <1>1, <2>1, OwedFacts
      <4>2. BH(G, y) = BH(H, p) /\ BH(G, Child(r, q, y)) = BH(H, x) + 1
        BY <2>1, <2>5, <3>2, <3>5
      <4>3. Weight(r, y) = Weight(t, p)
        BY <3>2, <3>4, <3>5 DEF Weight
      <4> QED
        BY <2>1, <3>1, <3>3, <4>1, <4>2, <4>3, WeightIs
    <3>6. CASE y # p \/ q # s
      <4>1. /\ Red(t, y) => BH(H, y) = BH(H, Child(t, q, y))
            /\ ~Red(t, y) => BH(H, y) = BH(H, Child(t, q, y)) + 1
        BY <1>1, <2>1, <2>6, <3>6, OwedFacts
      <4>2. Child(t, q, y) # x
        <5> SUFFICES ASSUME Child(t, q, y) = x PROVE FALSE
          OBVIOUS
        <5> QED
          BY <1>1, <2>0, <2>1, <2>6, <3>1, <3>2, <3>6, OnePlace
      <4>3. BH(G, Child(r, q, y)) = BH(H, Child(t, q, y))
        BY <2>5, <3>2, <4>2
      <4> QED
        BY <2>0, <2>5, <3>1, <3>3, <3>4, <4>1, <4>3
    <3> QED
      BY <3>5, <3>6
  <2> QED
    BY <2>2, <2>3, <2>4, <2>6 DEF Fine, Level, LevelAt
<1> QED
  BY <1>2, <1>3

\* The node with a red parent is an outer one, and its uncle is black.
Outer(t, D, H, n, p, g, s) ==
    /\ Conflict(t, D, H, n) /\ n # Root(t) /\ ~Red(t, Root(t))
    /\ p = Parent(t, n) /\ Red(t, p) /\ g = Parent(t, p)
    /\ s = Hangs(t, p) /\ n = Child(t, s, p)
    /\ ~Red(t, Child(t, Other(s), g))

\* The rotation at the grandparent settles the conflict.
LEMMA ExchangedConflict ==
    ASSUME NEW t, NEW D, NEW H, NEW n, NEW p, NEW g, NEW s, Outer(t, D, H, n, p, g,
        s),
           NEW r, Exchanged(t, p, g, Other(s), r)
    PROVE  \E E, G : Conflict(r, E, G, n) /\ Kept(t, D, r, E) /\ ~Red(r, Root(r))
<1>1. PICK a, b : Blackened(t, p, a) /\ Reddened(a, g, b) /\ Rotated(b, g, Other(s), r)
  BY ExchangedIs
<1> QED
  BY <1>1, SettledConflict DEF Outer

\* The body of the loop that rebalances an insertion.
LEMMA FixupConflict ==
    ASSUME NEW t, NEW D, NEW H, NEW n, Conflict(t, D, H, n), n # Root(t),
           Red(t, Root(t)) => n = Root(t),
           NEW p, p = Parent(t, n), Red(t, p), NEW g, g = Parent(t, p),
           NEW s, s = Hangs(t, p), NEW w, w = Child(t, Other(s), g),
           NEW k, NEW a,
           n = Child(t, Other(s), p) => k = p /\ Rotated(t, p, s, a),
           n # Child(t, Other(s), p) => k = n /\ a = t,
           NEW q, q = Parent(a, k), NEW h, h = Parent(a, q),
           NEW r, NEW m,
           Red(t, w) => r = Lifted(t, p, w, g) /\ m = g,
           ~Red(t, w) => Exchanged(a, q, h, Other(s), r) /\ m = k
    PROVE  \E E, G : /\ Conflict(r, E, G, m) /\ Kept(t, D, r, E)
                     /\ Red(r, Root(r)) => m = Root(r)
<1>1. ~Red(t, Root(t))
  OBVIOUS
<1>2. CASE Red(t, w)
  BY <1>1, <1>2, LiftedConflict
<1>3. CASE ~Red(t, w)
  <2>1. \E E : Kept(t, D, a, E) /\ Outer(a, E, H, k, q, h, s)
    <3>1. CASE n = Child(t, Other(s), p)
      <4>1. PICK E : /\ Conflict(a, E, H, p) /\ Kept(t, D, a, E)
                     /\ Root(a) = Root(t) /\ p # Root(a)
                     /\ Parent(a, p) = n /\ Parent(a, n) = g /\ Hangs(a, n) = s
                     /\ Child(a, s, n) = p /\ Child(a, Other(s), g) = Child(t, Other(s), g)
                     /\ \A x : x \in Cell => Red(a, x) = Red(t, x)
        BY <1>1, <3>1, SwappedConflict
      <4>2. /\ n \in Cell /\ w \in Cell /\ Root(t) \in Cell /\ Red(t, n)
        <5>1. n \in Node /\ w \in Cell
          BY <1>1, Family
        <5>2. Root(t) \in Cell /\ Red(t, n)
          BY TreeFields DEF Conflict, Sound
        <5> QED
          BY <5>1, <5>2, Cells
      <4> QED
        BY <1>1, <1>3, <3>1, <4>1, <4>2 DEF Outer
    <3>2. CASE n # Child(t, Other(s), p)
      <4>1. n = Child(t, s, p)
        <5>1. n = Child(t, Hangs(t, n), p)
          BY <1>1, Family
        <5>2. s \in Side /\ Hangs(t, n) \in Side
          BY HangsSide
        <5> QED
          BY <3>2, <5>1, <5>2, Sides
      <4>2. Kept(t, D, t, D)
        BY DEF Kept
      <4> QED
        BY <1>1, <1>3, <3>2, <4>1, <4>2 DEF Outer
    <3> QED
      BY <3>1, <3>2
  <2>2. PICK E : Kept(t, D, a, E) /\ Outer(a, E, H, k, q, h, s)
    BY <2>1
  <2>3. Exchanged(a, q, h, Other(s), r)
    BY <1>3
  <2>5. PICK F, G : Conflict(r, F, G, k) /\ Kept(a, E, r, F) /\ ~Red(r, Root(r))
    BY <2>2, <2>3, ExchangedConflict
  <2> QED
    BY <1>3, <2>2, <2>5, KeptTwice
<1> QED
  BY <1>2, <1>3

-----------------------------------------------------------------------------
(***************************************************************************)
(* The body of the loop of an insertion, and the descent.                  *)
(***************************************************************************)

\* The side of a that n belongs on.
Toward(t, n, a) == IF Before(Key(t, n), Key(t, a)) THEN "left" ELSE "right"

\* n, which is not in the tree yet, belongs below x.
Descending(t, D, n, x) ==
    /\ Fine(t, D)
    /\ n \in Node /\ n \notin In(t, D) /\ x \in In(t, D)
    /\ Together(KeysIn(t, In(t, D)) \cup {Key(t, n)})
    /\ \A a, s : a \in In(t, D) /\ s \in Side /\ x \in Sub(D, Child(t, s, a))
                    => s = Toward(t, n, a)

\* u is t with n in it.
Grown(t, D, u, E, n) ==
    /\ In(u, E) = In(t, D) \cup {n}
    /\ \A x : x \in Node /\ x # n => Key(u, x) = Key(t, x)

\* n is the root, black, and has key k.
Planted(t, n, k, u) == u = [Leaf(t, n, Null, FALSE) EXCEPT !.root = n, !.key[n] = k]

\* The first node of the tree is its root, and the tree is fine.
LEMMA InsertFirst ==
    ASSUME NEW t, NEW D, Fine(t, D), Root(t) = Sentinel, NEW n \in Node, NEW k \in
        Keys,
           Together(KeysIn(t, In(t, D)) \cup {k}),
           NEW u, Planted(t, n, k, u)
    PROVE  Fine(u, D) /\ Root(u) = n /\ Grown(t, D, u, D, n) /\ Key(u, n) = k
<1>1. t \in Trees /\ D \in Subtrees /\ Shape(t, D) /\ ~Red(t, Sentinel)
  BY DEF Fine, Sound
<1>2. In(t, D) = {}
  BY <1>1, SubIs, Cells DEF In
<1>3. PICK v : v = Leaf(t, n, Null, FALSE)
  OBVIOUS
<1>4. /\ v \in Trees /\ Root(v) = Root(t)
      /\ \A q, x : q \in Side /\ x \in Cell
            => Child(v, q, x) = IF x = n THEN Sentinel ELSE Child(t, q, x)
      /\ \A x : x \in Cell => Red(v, x) = IF x = n THEN FALSE ELSE Red(t, x)
      /\ \A x : x \in Node => Key(v, x) = Key(t, x)
  <2>1. PICK c \in BOOLEAN : c = FALSE
    OBVIOUS
  <2>2. v = Leaf(t, n, Null, c) /\ Null \in Place
    BY <1>3, <2>1 DEF Place
  <2>3. /\ v \in Trees /\ Root(v) = Root(t)
        /\ \A q, x : q \in Side /\ x \in Cell
              => Child(v, q, x) = IF x = n THEN Sentinel ELSE Child(t, q, x)
        /\ \A x : x \in Cell => Red(v, x) = IF x = n THEN c ELSE Red(t, x)
        /\ \A x : x \in Node => Key(v, x) = Key(t, x)
    BY <1>1, <2>2, LeafFields
  <2> QED
    BY <2>1, <2>3
<1>5. /\ u \in Trees /\ Root(u) = n
      /\ \A q, x : q \in Side /\ x \in Cell => Child(u, q, x) = Child(v, q, x)
      /\ \A x : x \in Cell => Red(u, x) = Red(v, x)
      /\ \A x : x \in Node => Key(u, x) = IF x = n THEN k ELSE Key(v, x)
  <2>1. Keyed(v, n, k, n, u) /\ n \in Cell
    BY <1>3, Cells DEF Keyed, Planted
  <2> QED
    BY <1>4, <2>1, KeyedFields
<1>6. /\ \A q : q \in Side => Child(u, q, n) = Sentinel
      /\ \A q, x : q \in Side /\ x \in Node => Child(u, q, x) \notin Node
      /\ ~Red(u, n) /\ ~Red(u, Sentinel)
  <2>1. \A q, x : q \in Side /\ x \in Node => Child(t, q, x) \notin Node
    BY <1>1, <1>2, Outside
  <2>2. \A q, x : q \in Side /\ x \in Node =>
            Child(u, q, x) = IF x = n THEN Sentinel ELSE Child(t, q, x)
    BY <1>4, <1>5, Cells
  <2>3. \A q, x : q \in Side /\ x \in Node => Child(u, q, x) \notin Node
    BY <2>1, <2>2, Cells
  <2>4. ~Red(u, n) /\ ~Red(u, Sentinel)
    BY <1>1, <1>4, <1>5, Cells
  <2> QED
    BY <2>2, <2>3, <2>4
<1>7. \A x : x \in Node => Sub(D, x) = {x}
  BY <1>1, <1>2, Outside
<1>8. In(u, D) = {n}
  BY <1>5, <1>7 DEF In
<1>9. \A x : x \notin Node => Sub(D, x) = {}
  BY <1>1, SubIs
<1>10. Shape(u, D)
  <2> SUFFICES ASSUME NEW x \in Node, NEW s \in Side
               PROVE  LET l == Child(u, s, x)
                          r == Child(u, Other(s), x)
                      IN  /\ Sub(D, x) = {x} \cup Sub(D, l) \cup Sub(D, r)
                          /\ x \notin Sub(D, l)
                          /\ Sub(D, l) \cap Sub(D, r) = {}
                          /\ l \in Node => Parent(u, l) = x /\ x \in In(u, D)
                          /\ x \in In(u, D) => l \in Cell
    BY DEF Shape
  <2>1. /\ Child(u, s, x) \notin Node /\ Child(u, Other(s), x) \notin Node
    BY <1>6, Sides
  <2> QED
    BY <1>6, <1>7, <1>8, <1>9, <2>1, Cells
<1>11. Order(u, D)
  BY <1>6, <1>8, <1>9 DEF Order
<1>12. Together(KeysIn(u, In(u, D)))
  <2>1. KeysIn(u, In(u, D)) = {k}
    BY <1>5, <1>8 DEF KeysIn
  <2> QED
    BY <2>1, TogetherSubset
<1>13. Sound(u, D)
  BY <1>1, <1>5, <1>6, <1>10, <1>11, <1>12 DEF Sound
<1>14. \A y : y \in In(u, D) => ~Clash(u, y)
  BY <1>5, <1>8 DEF Clash
<1>15. \E H \in Heights : Level(u, In(u, D), H, Null, NoSide)
  <2> DEFINE H == [x \in Node |-> 1]
  <2>1. H \in Heights /\ BH(H, n) = 1 /\ BH(H, Sentinel) = 0
    BY Cells DEF Heights, BH
  <2>2. Weight(u, n) = 1
    BY <1>6 DEF Weight
  <2> HIDE DEF H
  <2>3. Level(u, In(u, D), H, Null, NoSide)
    BY <1>6, <1>8, <2>1, <2>2, NoDebt DEF Level, LevelAt
  <2> QED
    BY <2>1, <2>3
<1>16. Grown(t, D, u, D, n) /\ Key(u, n) = k
  BY <1>2, <1>4, <1>5, <1>8 DEF Grown
<1> QED
  BY <1>5, <1>6, <1>13, <1>14, <1>15, <1>16 DEF Fine

\* An insertion begins below the root, with its key set.
LEMMA InsertDescends ==
    ASSUME NEW t, NEW D, Fine(t, D), Root(t) # Sentinel, NEW n \in Node, n \notin
        In(t, D),
           NEW k \in Keys, Together(KeysIn(t, In(t, D)) \cup {k}),
           NEW u, u = [t EXCEPT !.key[n] = k]
    PROVE  /\ Descending(u, D, n, Root(u)) /\ In(u, D) = In(t, D) /\ Key(u, n) = k
           /\ \A x : x \in Node /\ x # n => Key(u, x) = Key(t, x)
           /\ \A z : IsFirst(t, D, Root(t), z) => IsFirst(u, D, Root(u), z)
<1>1. /\ t \in Trees /\ D \in Subtrees /\ Shape(t, D) /\ Order(t, D)
      /\ Together(KeysIn(t, In(t, D))) /\ ~Red(t, Sentinel) /\ ~Red(t, Root(t))
  BY DEF Fine, Sound
<1>2. /\ u \in Trees /\ Root(u) = Root(t)
      /\ \A q, x : q \in Side /\ x \in Cell => Child(u, q, x) = Child(t, q, x)
      /\ \A x : x \in Cell => Parent(u, x) = Parent(t, x) /\ Red(u, x) = Red(t, x)
      /\ \A x : x \in Node => Key(u, x) = IF x = n THEN k ELSE Key(t, x)
  <2>1. Keyed(t, n, k, Root(t), u) /\ Root(t) \in Cell
    BY <1>1, TreeFields DEF Keyed
  <2> QED
    BY <1>1, <2>1, KeyedFields
<1>3. \A x : x \in Node => x \in Cell
  BY Cells
<1>4. /\ Shape(u, D) /\ In(u, D) = In(t, D)
      /\ \A z : IsFirst(t, D, Root(t), z) => IsFirst(u, D, Root(u), z)
      /\ (\A x : x \in In(t, D) => Key(u, x) = Key(t, x)) => Order(u, D)
  BY <1>1, <1>2, <1>3, SameLinks
<1>5. In(t, D) \subseteq Node
  BY <1>1, SubIs DEF In
<1>6. \A x : x \in In(t, D) => Key(u, x) = Key(t, x)
  BY <1>2, <1>5
<1>7. KeysIn(u, In(u, D)) = KeysIn(t, In(t, D))
  BY <1>4, <1>6 DEF KeysIn
<1>8. Sound(u, D)
  BY <1>1, <1>2, <1>4, <1>6, <1>7, Cells DEF Sound
<1>9. \A y : y \in In(u, D) => ~Clash(u, y)
  <2> SUFFICES ASSUME NEW y, y \in In(u, D), Clash(u, y) PROVE FALSE
    OBVIOUS
  <2>1. y \in Cell /\ y # Root(t) /\ Red(t, y)
    BY <1>2, <1>3, <1>4, <1>5 DEF Clash
  <2>2. Parent(u, y) = Parent(t, y) /\ Parent(t, y) \in Cell
    BY <1>1, <1>2, <1>3, <1>4, <2>1, HangsFacts
  <2>3. Clash(t, y)
    BY <1>2, <2>1, <2>2 DEF Clash
  <2> QED
    BY <1>4, <2>3 DEF Fine
<1>10. \E H \in Heights : Level(u, In(u, D), H, Null, NoSide)
  <2>1. PICK H \in Heights : Level(t, In(t, D), H, Null, NoSide)
    BY DEF Fine
  <2>2. \A y : y \in In(t, D) => Weight(u, y) = Weight(t, y)
    BY <1>2, <1>3, <1>5 DEF Weight
  <2>3. Level(u, In(u, D), H, Null, NoSide)
    <3> SUFFICES ASSUME NEW y, NEW q, y \in In(t, D), q \in Side
                 PROVE  BH(H, y) = BH(H, Child(u, q, y)) + Weight(u, y) + Debt(Null, NoSide, y, q)
      BY <1>4 DEF Level, LevelAt
    <3>1. Child(u, q, y) = Child(t, q, y)
      BY <1>2, <1>3, <1>5
    <3> QED
      BY <2>1, <2>2, <3>1 DEF Level, LevelAt
  <2> QED
    BY <2>3
<1>11. Fine(u, D)
  <2>1. ~Red(u, Root(u))
    BY <1>1, <1>2, TreeFields
  <2> QED
    BY <1>8, <1>9, <1>10, <2>1 DEF Fine
<1>12. Root(u) \in In(u, D)
  <2>1. Root(t) \in Node
    BY <1>1, TreeFields, Cells
  <2> QED
    BY <1>2, <1>4, <2>1, <1>1, ShapeFacts DEF In
<1>13. \A a, s : a \in In(u, D) /\ s \in Side => Root(u) \notin Sub(D, Child(u, s, a))
  <2> SUFFICES ASSUME NEW a, NEW s, a \in In(u, D), s \in Side, Root(u) \in Sub(D, Child(u, s, a))
               PROVE  FALSE
    OBVIOUS
  <2>1. Root(u) \in Sub(D, a) /\ a \in Sub(D, Root(u)) /\ a \in Node
    BY <1>2, <1>4, <1>5, <1>11, ShapeFacts DEF In
  <2>2. a = Root(u)
    BY <1>1, <1>4, <2>1, Antisymmetric
  <2> QED
    BY <1>4, <2>1, <2>2, ShapeFacts
<1>14. Together(KeysIn(u, In(u, D)) \cup {Key(u, n)}) /\ Key(u, n) = k
  BY <1>2, <1>7
<1>15. Descending(u, D, n, Root(u))
  BY <1>4, <1>11, <1>12, <1>13, <1>14 DEF Descending
<1> QED
  BY <1>2, <1>4, <1>14, <1>15

\* One level down.
LEMMA DescendDown ==
    ASSUME NEW t, NEW D, NEW n, NEW x, Descending(t, D, n, x),
           NEW y, y = Child(t, Toward(t, n, x), x), y # Sentinel
    PROVE  Descending(t, D, n, y)
<1>1. t \in Trees /\ D \in Subtrees /\ Shape(t, D) /\ x \in In(t, D) /\ x \in Node
  BY SubIs DEF Descending, Fine, Sound, In
<1>2. Toward(t, n, x) \in Side
  BY DEF Toward, Side
<1>3. y \in Node /\ y \in In(t, D) /\ Parent(t, y) = x
  BY <1>1, <1>2, ShapeFacts, Cells, OnePlace
<1>4. ASSUME NEW a, NEW s, a \in In(t, D), s \in Side, y \in Sub(D, Child(t, s, a))
      PROVE  s = Toward(t, n, a)
  <2>1. a \in Node
    BY <1>1, <1>4, SubIs DEF In
  <2>2. CASE y = Child(t, s, a)
    <3>1. a = Parent(t, y) /\ s = Hangs(t, y)
      BY <1>1, <1>3, <1>4, <2>1, <2>2, OnePlace
    <3>2. x = Parent(t, y) /\ Toward(t, n, x) = Hangs(t, y)
      BY <1>1, <1>2, <1>3, OnePlace
    <3> QED
      BY <3>1, <3>2
  <2>3. CASE y # Child(t, s, a)
    <3>1. x \in Sub(D, Child(t, s, a))
      BY <1>1, <1>3, <1>4, <2>3, ParentBelow
    <3> QED
      BY <1>4, <3>1 DEF Descending
  <2> QED
    BY <2>2, <2>3
<1> QED
  BY <1>3, <1>4 DEF Descending

-----------------------------------------------------------------------------
(***************************************************************************)
(* A new leaf hangs.                                                       *)
(***************************************************************************)

\* n is a red leaf on side s of p.
Leafed(t, n, p, s, u) == u = [Leaf(t, n, p, TRUE) EXCEPT !.child[s][p] = n]

\* Hanging a red leaf is a graft.
LEMMA GraftIs ==
    ASSUME NEW t \in Trees, NEW D \in Subtrees, Shape(t, D),
           NEW n \in Node, n \notin In(t, D), NEW p, p \in In(t, D), NEW s \in Side,
           NEW u, Leafed(t, n, p, s, u)
    PROVE  \E E : Graft(t, D, n, p, s, u, E)
<1>1. p \in Node /\ p # n /\ p \in Place /\ In(t, D) \subseteq Node
  BY SubIs, Cells DEF In
<1>2. PICK c \in BOOLEAN : c = TRUE
  OBVIOUS
<1>3. PICK v : v = Leaf(t, n, p, c)
  OBVIOUS
<1>4. /\ v \in Trees /\ Root(v) = Root(t)
      /\ \A q, x : q \in Side /\ x \in Cell
            => Child(v, q, x) = IF x = n THEN Sentinel ELSE Child(t, q, x)
      /\ \A x : x \in Cell
            => /\ Parent(v, x) = IF x = n THEN p ELSE Parent(t, x)
               /\ Red(v, x) = IF x = n THEN c ELSE Red(t, x)
      /\ \A x : x \in Node => Key(v, x) = Key(t, x)
  BY <1>1, <1>3, LeafFields
<1>5. Hanged(v, s, p, n, u)
  BY <1>2, <1>3 DEF Hanged, Leafed
<1>6. /\ u \in Trees /\ Root(u) = Root(v)
      /\ \A q, x : q \in Side /\ x \in Cell => Child(u, q, x) =
                      IF q = s /\ x = p THEN n ELSE Child(v, q, x)
      /\ \A x : x \in Cell => Parent(u, x) = Parent(v, x) /\ Red(u, x) = Red(v, x)
      /\ \A x : x \in Node => Key(u, x) = Key(v, x)
  BY <1>1, <1>4, <1>5, HungTree
<1>7. PICK E : E = [a \in Node |-> IF p \in Sub(D, a) THEN Sub(D, a) \cup {n} ELSE Sub(D, a)]
  OBVIOUS
<1>8. E \in Subtrees /\ \A a : a \in Node => Sub(E, a) =
             IF p \in Sub(D, a) THEN Sub(D, a) \cup {n} ELSE Sub(D, a)
  BY <1>7, SubIs DEF Subtrees, Sub
<1>9. \A a : a \notin Node => Sub(E, a) = {} /\ Sub(D, a) = {}
  BY <1>8, SubIs
<1>10. Sub(D, n) = {n}
  BY Outside
<1>11. Sub(E, n) = {n} /\ \A a : a # n => Sub(E, a) =
             IF p \in Sub(D, a) THEN Sub(D, a) \cup {n} ELSE Sub(D, a)
  BY <1>1, <1>8, <1>9, <1>10
<1>12. \A x : x \in Node => x \in Cell
  BY Cells
<1>13. /\ Root(u) = Root(t)
       /\ Child(u, s, p) = n
       /\ \A q : q \in Side => Child(u, q, n) = Sentinel
       /\ \A a, q : a \in Node /\ q \in Side /\ a # n /\ (a # p \/ q # s)
                       => Child(u, q, a) = Child(t, q, a)
       /\ \A a : a \in Node => Parent(u, a) = IF a = n THEN p ELSE Parent(t, a)
       /\ \A a : a \in Node => Key(u, a) = Key(t, a)
  <2>1. \A a, q : a \in Node /\ q \in Side => Child(u, q, a) =
            IF q = s /\ a = p THEN n ELSE IF a = n THEN Sentinel ELSE Child(t, q, a)
    BY <1>4, <1>6, <1>12
  <2>2. \A a : a \in Node => Parent(u, a) = IF a = n THEN p ELSE Parent(t, a)
    BY <1>4, <1>6, <1>12
  <2> QED
    BY <1>1, <1>4, <1>6, <2>1, <2>2
<1>14. \A a : a \in Cell => Red(u, a) = IF a = n THEN TRUE ELSE Red(t, a)
  BY <1>2, <1>4, <1>6
<1>15. Graft(t, D, n, p, s, u, E)
  BY <1>6, <1>8, <1>11, <1>13, <1>14 DEF Graft
<1> QED
  BY <1>15

\* A red leaf leaves the tree level.
LEMMA GraftLevel ==
    ASSUME NEW t \in Trees, NEW D \in Subtrees, Shape(t, D),
           NEW n \in Node, n \notin In(t, D), NEW p, p \in In(t, D), NEW s \in Side,
           Child(t, s, p) = Sentinel, NEW u, NEW E, Graft(t, D, n, p, s, u, E),
           NEW H \in Heights, Level(t, In(t, D), H, Null, NoSide)
    PROVE  \E G \in Heights : Level(u, In(u, E), G, Null, NoSide)
<1>1. PICK G \in Heights : \A y : BH(G, y) = IF y = n THEN 0 ELSE BH(H, y)
  BY HeightSet
<1>2. /\ In(u, E) = In(t, D) \cup {n} /\ In(t, D) \subseteq Node /\ p \in Node
      /\ BH(G, Sentinel) = 0 /\ BH(H, Sentinel) = 0 /\ BH(G, n) = 0
  BY <1>1, GraftShape, SubIs, HeightsIs, Cells DEF In
<1>3. \A a, q : a \in Node /\ q \in Side => Child(t, q, a) # n
  BY Outside
<1> SUFFICES ASSUME NEW a, a \in In(u, E), NEW q, q \in Side
             PROVE  BH(G, a) = BH(G, Child(u, q, a)) + Weight(u, a) + Debt(Null, NoSide, a, q)
  BY DEF Level, LevelAt
<1>4. a \in Node /\ a \in Cell /\ Debt(Null, NoSide, a, q) = 0
  BY <1>2, NoDebt, Cells
<1>5. CASE a = n
  <2>1. Weight(u, a) = 0 /\ Child(u, q, a) = Sentinel
    BY <1>4, <1>5 DEF Graft, Weight
  <2> QED
    BY <1>2, <1>4, <1>5, <2>1
<1>6. CASE a # n
  <2>1. /\ Red(t, a) => BH(H, a) = BH(H, Child(t, q, a))
        /\ ~Red(t, a) => BH(H, a) = BH(H, Child(t, q, a)) + 1
    BY <1>2, <1>6, LevelFacts
  <2>2. Weight(u, a) = IF Red(t, a) THEN 0 ELSE 1
    BY <1>4, <1>6 DEF Graft, Weight
  <2>3. BH(G, Child(u, q, a)) = BH(H, Child(t, q, a))
    <3>1. CASE a = p /\ q = s
      BY <1>2, <3>1 DEF Graft
    <3>2. CASE a # p \/ q # s
      <4>1. Child(u, q, a) = Child(t, q, a)
        BY <1>4, <1>6, <3>2 DEF Graft
      <4> QED
        BY <1>1, <1>3, <1>4, <4>1
    <3> QED
      BY <3>1, <3>2
  <2>4. BH(H, a) \in Nat /\ BH(H, Child(t, q, a)) \in Nat
    BY HeightsIs
  <2> QED
    BY <1>1, <1>4, <1>6, <2>1, <2>2, <2>3, <2>4
<1> QED
  BY <1>5, <1>6

\* A new leaf hangs below x.
LEMMA DescendLinks ==
    ASSUME NEW t, NEW D, NEW n, NEW x, Descending(t, D, n, x),
           NEW s, s = Toward(t, n, x), Child(t, s, x) = Sentinel,
           NEW u, Leafed(t, n, x, s, u)
    PROVE  \E E, G : /\ Conflict(u, E, G, n) /\ ~Red(u, Root(u)) /\ Grown(t, D, u, E, n)
                     /\ Key(u, n) = Key(t, n)
<1>1. /\ t \in Trees /\ D \in Subtrees /\ Shape(t, D) /\ Order(t, D)
      /\ ~Red(t, Sentinel) /\ ~Red(t, Root(t)) /\ In(t, D) \subseteq Node
      /\ n \in Node /\ n \notin In(t, D) /\ x \in In(t, D) /\ x \in Node
      /\ Together(KeysIn(t, In(t, D)) \cup {Key(t, n)})
      /\ \A y : y \in In(t, D) => ~Clash(t, y)
  BY SubIs DEF Descending, Fine, Sound, In
<1>2. s \in Side
  BY DEF Toward, Side
<1>3. PICK E : Graft(t, D, n, x, s, u, E)
  BY <1>1, <1>2, GraftIs
<1>4. Shape(u, E) /\ In(u, E) = In(t, D) \cup {n}
  BY <1>1, <1>2, <1>3, GraftShape
<1>5. \A a : a \in In(t, D) => Sorted(Toward(t, n, a), Key(t, n), Key(t, a))
  <2> SUFFICES ASSUME NEW a, a \in In(t, D)
               PROVE  Sorted(Toward(t, n, a), Key(t, n), Key(t, a))
    OBVIOUS
  <2>1. KeysIn(t, In(t, D)) \cup {Key(t, n)} \subseteq Keys /\ Key(t, a) \in KeysIn(t, In(t, D))
    BY <1>1, KeysAre, TreeFields DEF Keys
  <2>2. Before(Key(t, n), Key(t, a)) => Upto(Key(t, n), Key(t, a))
    BY <1>1, <2>1, TogetherOrder
  <2> QED
    BY <2>2 DEF Sorted, Toward, Upto
<1>6. Order(u, E)
  <2>1. Sorted(s, Key(t, n), Key(t, x))
    BY <1>1, <1>5
  <2>2. \A a, q : a \in In(t, D) /\ q \in Side /\ x \in Sub(D, Child(t, q, a))
                     => Sorted(q, Key(t, n), Key(t, a))
    BY <1>5 DEF Descending
  <2> QED
    BY <1>1, <1>2, <1>3, <2>1, <2>2, GraftOrder
<1>7. \A a : a \in Node => Key(u, a) = Key(t, a)
  BY <1>3 DEF Graft
<1>8. Together(KeysIn(u, In(u, E)))
  <2>1. KeysIn(u, In(u, E)) = KeysIn(t, In(t, D)) \cup {Key(t, n)}
    <3>1. \A a : a \in In(t, D) \cup {n} => Key(u, a) = Key(t, a)
      BY <1>1, <1>7
    <3> QED
      BY <1>4, <3>1 DEF KeysIn
  <2> QED
    BY <1>1, <2>1
<1>9. /\ u \in Trees /\ E \in Subtrees /\ Root(u) = Root(t)
      /\ \A a : a \in Cell => Red(u, a) = IF a = n THEN TRUE ELSE Red(t, a)
      /\ \A a : a \in Node => Parent(u, a) = IF a = n THEN x ELSE Parent(t, a)
  BY <1>3 DEF Graft
<1>10. Sound(u, E)
  BY <1>1, <1>4, <1>6, <1>8, <1>9, Cells DEF Sound
<1>11. Root(t) \in In(t, D)
  <2>1. Root(t) \in Node
    BY <1>1, SubIs DEF In
  <2> QED
    BY <1>1, <2>1, ShapeFacts DEF In
<1>12. ~Red(u, Root(u)) /\ Red(u, n)
  BY <1>1, <1>9, <1>11, Cells
<1>13. ASSUME NEW y, y \in In(u, E), Clash(u, y) PROVE y = n
  <2> SUFFICES ASSUME y # n PROVE FALSE
    OBVIOUS
  <2>1. y \in In(t, D) /\ y \in Node /\ y # Root(t) /\ Red(t, y) /\ Red(u, Parent(t, y))
    BY <1>1, <1>4, <1>9, <1>13, Cells DEF Clash
  <2>2. Parent(t, y) \in In(t, D) /\ Parent(t, y) \in Node
    BY <1>1, <2>1, HangsFacts
  <2>3. Clash(t, y)
    BY <1>1, <1>9, <2>1, <2>2, Cells DEF Clash
  <2> QED
    BY <1>1, <2>1, <2>3
<1>14. PICK G \in Heights : Level(u, In(u, E), G, Null, NoSide)
  <2>1. PICK H \in Heights : Level(t, In(t, D), H, Null, NoSide)
    BY DEF Descending, Fine
  <2> QED
    BY <1>1, <1>2, <1>3, <2>1, GraftLevel
<1>15. Conflict(u, E, G, n)
  BY <1>4, <1>10, <1>12, <1>13, <1>14 DEF Conflict
<1>16. Grown(t, D, u, E, n) /\ Key(u, n) = Key(t, n)
  BY <1>1, <1>4, <1>7 DEF Grown
<1> QED
  BY <1>12, <1>15, <1>16

-----------------------------------------------------------------------------
(***************************************************************************)
(* The fields after a deletion unlinks its nodes.                          *)
(***************************************************************************)

\* The links after x takes the place of z.
LEMMA SplicedFields ==
    ASSUME NEW t \in Trees, NEW z \in Node, Parent(t, z) \in Cell, NEW x \in Cell,
           NEW p \in Place, NEW w, w = Spliced(t, z, x, p)
    PROVE  /\ w \in Trees /\ Root(w) = Root(t)
           /\ \A q, a : q \in Side /\ a \in Cell => Child(w, q, a) =
                 IF q = Hangs(t, z) /\ a = Parent(t, z) THEN x ELSE Child(t, q, a)
           /\ \A a : a \in Cell => /\ Parent(w, a) = IF a = x THEN p ELSE Parent(t, a)
                                   /\ Red(w, a) = Red(t, a)
           /\ \A a : a \in Node => Key(w, a) = Key(t, a)
<1>1. PICK ch \in Children, pa \in Parents :
              /\ ch = t.child /\ pa = t.parent
              /\ \A q \in Side, a \in Cell : Child(t, q, a) = Down(ch, q, a)
              /\ \A a \in Cell : Parent(t, a) = Up(pa, a)
  BY LinkFields
<1>2. Hangs(t, z) \in Side /\ x \in Place /\ Root(t) \in Cell
  BY HangsSide, Cells, TreeFields
<1>3. PICK c : c = Hung(ch, Hangs(t, z), Parent(t, z), x)
  OBVIOUS
<1>4. /\ c \in Children
      /\ \A q \in Side, a \in Cell : Down(c, q, a) =
            IF q = Hangs(t, z) /\ a = Parent(t, z) THEN x ELSE Down(ch, q, a)
  BY <1>2, <1>3, HungIs, HungFields
<1>5. PICK e : e = [pa EXCEPT ![x] = p]
  OBVIOUS
<1>6. e \in Parents /\ \A a \in Cell : Up(e, a) = IF a = x THEN p ELSE Up(pa, a)
  BY <1>5 DEF Parents, Up
<1>7. w = Linking(t, Root(t), c, e)
  BY <1>1, <1>3, <1>5 DEF Spliced, Parent, Root
<1>8. /\ w \in Trees /\ Root(w) = Root(t)
      /\ \A q \in Side, a \in Cell : Child(w, q, a) = Down(c, q, a)
      /\ \A a \in Cell : Parent(w, a) = Up(e, a) /\ Red(w, a) = Red(t, a)
      /\ \A a \in Node : Key(w, a) = Key(t, a)
  BY <1>2, <1>4, <1>6, <1>7, LinkingFields
<1> QED
  BY <1>1, <1>4, <1>6, <1>8

\* Splicing z out and forgetting it is a splice.
LEMMA SpliceIs ==
    ASSUME NEW t \in Trees, NEW D \in Subtrees, Shape(t, D),
           NEW z, z \in In(t, D), z # Root(t), NEW x \in Cell, x # z,
           NEW w, w = Spliced(t, z, x, Parent(t, z)), NEW u, u = Forgotten(w, z)
    PROVE  \E E : Splice(t, D, z, x, u, E) /\ Parent(u, x) = Parent(t, z)
<1>1. /\ z \in Node /\ Parent(t, z) \in Node /\ Parent(t, z) \in Cell /\ Parent(t, z) \in Place
      /\ Parent(t, z) # z
  <2>1. z \in Node /\ Parent(t, z) \in Node /\ Child(t, Hangs(t, z), Parent(t, z)) = z
    BY HangsFacts
  <2>2. Parent(t, z) # z
    BY <2>1, HangsSide, ShapeFacts
  <2> QED
    BY <2>1, <2>2, Cells
<1>2. /\ w \in Trees /\ Root(w) = Root(t)
      /\ \A q, a : q \in Side /\ a \in Cell => Child(w, q, a) =
            IF q = Hangs(t, z) /\ a = Parent(t, z) THEN x ELSE Child(t, q, a)
      /\ \A a : a \in Cell => /\ Parent(w, a) = IF a = x THEN Parent(t, z) ELSE Parent(t, a)
                              /\ Red(w, a) = Red(t, a)
      /\ \A a : a \in Node => Key(w, a) = Key(t, a)
  BY <1>1, SplicedFields
<1>3. /\ u \in Trees /\ Root(u) = Root(w)
      /\ \A q, a : q \in Side /\ a \in Cell
            => Child(u, q, a) = IF a = z THEN Null ELSE Child(w, q, a)
      /\ \A a : a \in Cell
            => /\ Parent(u, a) = IF a = z THEN Null ELSE Parent(w, a)
               /\ Red(u, a) = Red(w, a)
      /\ \A a : a \in Node => Key(u, a) = IF a = z THEN 0 ELSE Key(w, a)
  BY <1>1, <1>2, ForgottenFields
<1>4. PICK E : E = [a \in Node |-> IF a = z THEN {z} ELSE Sub(D, a) \ {z}]
  OBVIOUS
<1>5. E \in Subtrees /\ \A a : a \in Node => Sub(E, a) = IF a = z THEN {z} ELSE Sub(D, a) \ {z}
  BY <1>1, <1>4, SubIs DEF Subtrees, Sub
<1>6. \A a : a \notin Node => Sub(E, a) = {} /\ Sub(D, a) = {}
  BY <1>5, SubIs
<1>7. Sub(E, z) = {z} /\ \A a : a # z => Sub(E, a) = Sub(D, a) \ {z}
  BY <1>1, <1>5, <1>6
<1>8. \A a : a \in Node => a \in Cell
  BY Cells
<1>9. /\ \A q : q \in Side => Child(u, q, z) \notin Node
      /\ \A q, a : q \in Side /\ a \in Node /\ a # z => Child(u, q, a) =
            IF q = Hangs(t, z) /\ a = Parent(t, z) THEN x ELSE Child(t, q, a)
  BY <1>1, <1>2, <1>3, <1>8, Cells
<1>10. /\ Child(u, Hangs(t, z), Parent(t, z)) = x
       /\ \A a, q : a \in Node /\ q \in Side /\ a # z /\ (a # Parent(t, z) \/ q # Hangs(t, z))
                        => Child(u, q, a) = Child(t, q, a)
  BY <1>1, <1>9, HangsSide
<1>11. /\ \A a : a \in Node /\ a # z
                    => Parent(u, a) = IF a = x THEN Parent(t, z) ELSE Parent(t, a)
       /\ \A a : a \in Node /\ a # z => Key(u, a) = Key(t, a)
       /\ \A a : a \in Cell => Red(u, a) = Red(t, a)
       /\ Parent(u, x) = Parent(t, z)
  BY <1>2, <1>3, <1>8
<1> QED
  BY <1>2, <1>3, <1>5, <1>7, <1>9, <1>10, <1>11 DEF Splice

\* The links after z takes the place of n, with its children and its colour.
LEMMA ReplacedFields ==
    ASSUME NEW t \in Trees, NEW n \in Node, NEW z \in Node,
           n = Root(t) \/ Parent(t, n) \in Cell,
           \A q : q \in Side => Child(t, q, n) \in Cell,
           NEW r, r = Replaced(t, n, z)
    PROVE  /\ r \in Trees /\ Root(r) = IF n = Root(t) THEN z ELSE Root(t)
           /\ \A q, a : q \in Side /\ a \in Cell => Child(r, q, a) =
                 IF n # Root(t) /\ q = Hangs(t, n) /\ a = Parent(t, n) THEN z
                 ELSE IF a = z THEN Child(t, q, n) ELSE Child(t, q, a)
           /\ \A a : a \in Cell => Parent(r, a) =
                 IF a = z THEN Parent(t, n)
                 ELSE IF a # Sentinel /\ (\E q : q \in Side /\ a = Child(t, q, n)) THEN z
                 ELSE Parent(t, a)
           /\ \A a : a \in Cell => Red(r, a) = IF a = z THEN Red(t, n) ELSE Red(t, a)
           /\ \A a : a \in Node => Key(r, a) = Key(t, a)
<1>1. PICK ch \in Children, pa \in Parents :
              /\ ch = t.child /\ pa = t.parent
              /\ \A q \in Side, a \in Cell : Child(t, q, a) = Down(ch, q, a)
              /\ \A a \in Cell : Parent(t, a) = Up(pa, a)
  BY LinkFields
<1>2. PICK l, k : l = Child(t, "left", n) /\ k = Child(t, "right", n)
  OBVIOUS
<1>3. /\ l \in Cell /\ k \in Cell /\ l \in Place /\ k \in Place
      /\ n \in Cell /\ z \in Cell /\ z \in Place /\ z # Sentinel
      /\ Parent(t, n) \in Place /\ Hangs(t, n) \in Side /\ Root(t) \in Cell
      /\ "left" \in Side /\ "right" \in Side /\ \A q \in Side : q = "left" \/ q = "right"
      /\ "left" # "right"
  <2>1. l \in Cell /\ k \in Cell
    BY <1>2, Sides
  <2> QED
    BY <2>1, Cells, TreeFields, HangsSide DEF Side
<1>4. PICK c1 : c1 = Hung(ch, "left", z, l)
  OBVIOUS
<1>5. PICK c2 : c2 = Hung(c1, "right", z, k)
  OBVIOUS
<1>6. PICK c3 : c3 = Hung(c2, Hangs(t, n), Parent(t, n), z)
  OBVIOUS
<1>7. c1 \in Children /\ \A q \in Side, a \in Cell :
         Down(c1, q, a) = IF q = "left" /\ a = z THEN l ELSE Down(ch, q, a)
  BY <1>3, <1>4, HungIs, HungFields
<1>8. c2 \in Children /\ \A q \in Side, a \in Cell :
         Down(c2, q, a) = IF q = "right" /\ a = z THEN k ELSE Down(c1, q, a)
  BY <1>3, <1>5, <1>7, HungIs, HungFields
<1>9. n # Root(t) => c3 \in Children /\ \A q \in Side, a \in Cell :
         Down(c3, q, a) = IF q = Hangs(t, n) /\ a = Parent(t, n) THEN z ELSE Down(c2, q, a)
  BY <1>3, <1>6, <1>8, HungIs, HungFields
<1>10. PICK p1 : p1 = Under(pa, l, z)
  OBVIOUS
<1>11. PICK p2 : p2 = Under(p1, k, z)
  OBVIOUS
<1>12. PICK p3 : p3 = Under(p2, z, Parent(t, n))
  OBVIOUS
<1>13. p1 \in Parents /\ \A a \in Cell :
          Up(p1, a) = IF a = l /\ l # Sentinel THEN z ELSE Up(pa, a)
  BY <1>3, <1>10, UnderIs, UnderFields
<1>14. p2 \in Parents /\ \A a \in Cell :
          Up(p2, a) = IF a = k /\ k # Sentinel THEN z ELSE Up(p1, a)
  BY <1>3, <1>11, <1>13, UnderIs, UnderFields
<1>15. p3 \in Parents /\ \A a \in Cell :
          Up(p3, a) = IF a = z THEN Parent(t, n) ELSE Up(p2, a)
  BY <1>3, <1>12, <1>14, UnderIs, UnderFields
<1>16. PICK c, y : c = (IF n = Root(t) THEN c2 ELSE c3) /\ y = IF n = Root(t) THEN z ELSE Root(t)
  OBVIOUS
<1>17. c \in Children /\ y \in Cell
  BY <1>3, <1>8, <1>9, <1>16
<1>18. PICK w : w = Linking(t, y, c, p3)
  OBVIOUS
<1>19. PICK b \in BOOLEAN : b = t.red[n]
  BY <1>3 DEF Trees
<1>20. r = Painted(w, z, b)
  <2>1. /\ l = Left(t, n) /\ k = Right(t, n)
        /\ Parent(t, n) = t.parent[n] /\ Root(t) = t.root
    BY <1>2, LeftIs DEF Parent, Root
  <2> QED
    BY <1>1, <1>4, <1>5, <1>6, <1>10, <1>11, <1>12, <1>16, <1>18, <1>19, <2>1
       DEF Replaced, SubstColour
<1>21. /\ w \in Trees /\ Root(w) = y
       /\ \A q \in Side, a \in Cell : Child(w, q, a) = Down(c, q, a)
       /\ \A a \in Cell : Parent(w, a) = Up(p3, a) /\ Red(w, a) = Red(t, a)
       /\ \A a \in Node : Key(w, a) = Key(t, a)
  BY <1>15, <1>17, <1>18, LinkingFields
<1>22. /\ r \in Trees /\ Root(r) = Root(w)
       /\ \A q \in Side, a \in Cell : Child(r, q, a) = Child(w, q, a)
       /\ \A a \in Cell : /\ Parent(r, a) = Parent(w, a)
                          /\ Red(r, a) = IF a = z THEN b ELSE Red(w, a)
       /\ \A a \in Node : Key(r, a) = Key(w, a)
  BY <1>3, <1>20, <1>21, PaintedFields
<1>23. \A q, a : q \in Side /\ a \in Cell => Child(r, q, a) =
                 IF n # Root(t) /\ q = Hangs(t, n) /\ a = Parent(t, n) THEN z
                 ELSE IF a = z THEN Child(t, q, n) ELSE Child(t, q, a)
  <2> SUFFICES ASSUME NEW q, NEW a, q \in Side, a \in Cell
               PROVE Child(r, q, a) =
                 IF n # Root(t) /\ q = Hangs(t, n) /\ a = Parent(t, n) THEN z
                 ELSE IF a = z THEN Child(t, q, n) ELSE Child(t, q, a)
    OBVIOUS
  <2>1. Child(r, q, a) = Down(c, q, a)
    BY <1>21, <1>22
  <2>2. Down(c2, q, a) = IF a = z THEN Child(t, q, n) ELSE Child(t, q, a)
    BY <1>1, <1>2, <1>3, <1>7, <1>8
  <2> QED
    BY <1>9, <1>16, <2>1, <2>2
<1>24. \A a : a \in Cell => Parent(r, a) =
                     IF a = z THEN Parent(t, n)
                     ELSE IF a # Sentinel /\ (\E q : q \in Side /\ a = Child(t, q, n)) THEN z
                     ELSE Parent(t, a)
  <2> SUFFICES ASSUME NEW a, a \in Cell
               PROVE Parent(r, a) =
                     IF a = z THEN Parent(t, n)
                     ELSE IF a # Sentinel /\ (\E q : q \in Side /\ a = Child(t, q, n)) THEN z
                     ELSE Parent(t, a)
    OBVIOUS
  <2>1. Parent(r, a) = Up(p3, a)
    BY <1>21, <1>22
  <2>2. (\E q : q \in Side /\ a = Child(t, q, n)) <=> a = l \/ a = k
    BY <1>2, <1>3
  <2>3. Up(p2, a) = IF a # Sentinel /\ (a = l \/ a = k) THEN z ELSE Parent(t, a)
    BY <1>1, <1>13, <1>14
  <2> QED
    BY <1>15, <2>1, <2>2, <2>3
<1>25. \A a : a \in Cell => Red(r, a) = IF a = z THEN Red(t, n) ELSE Red(t, a)
  BY <1>19, <1>21, <1>22 DEF Red
<1> QED
  BY <1>16, <1>21, <1>22, <1>23, <1>24, <1>25

-----------------------------------------------------------------------------
(***************************************************************************)
(* Which node leaves its place.                                            *)
(***************************************************************************)

\* z is the node that leaves its place when n is deleted, and x, on side c of
\* z, the only child it may have.
Leaving(t, D, n, z, c, x) ==
    /\ n \in In(t, D) /\ z \in In(t, D) /\ c \in Side
    /\ x = Child(t, c, z) /\ x \in Cell /\ x # z
    /\ Child(t, Other(c), z) \notin Node
    /\ z # n => /\ z # Root(t) /\ x # n
                /\ \A q : q \in Side => Child(t, q, n) \in Node
                /\ IsFirst(t, D, Child(t, "right", n), z)

\* What leaves its place is n, or the leftmost node of n's right side.
LEMMA SubstIs ==
    ASSUME NEW t \in Trees, NEW D \in Subtrees, Shape(t, D), NEW n, n \in In(t, D),
           NEW z, z = Subst(t, n), NEW x, x = OnlyChild(t, z)
    PROVE  \E c : Leaving(t, D, n, z, c, x)
<1>1. PICK l, r \in Side : l = "left" /\ r = "right" /\ Other(l) = r /\ Other(r) = l
  BY Sides
<1>2. n \in Node /\ \A q \in Side : Child(t, q, n) \in Cell
  BY SubIs, ShapeFacts DEF In
<1>3. z = IF Child(t, l, n) = Sentinel \/ Child(t, r, n) = Sentinel THEN n
          ELSE Min(t, Child(t, r, n))
  BY <1>1, LeftIs DEF Subst
<1>4. z # n => /\ \A q : q \in Side => Child(t, q, n) \in Node
               /\ IsFirst(t, D, Child(t, r, n), z)
  <2> SUFFICES ASSUME z # n
               PROVE  /\ \A q : q \in Side => Child(t, q, n) \in Node
                      /\ IsFirst(t, D, Child(t, r, n), z)
    OBVIOUS
  <2>1. Child(t, l, n) # Sentinel /\ Child(t, r, n) # Sentinel /\ z = Min(t, Child(t, r, n))
    BY <1>3
  <2>2. \A q : q \in Side => q = l \/ q = r
    BY <1>1, Sides
  <2>3. \A q : q \in Side => Child(t, q, n) \in Node
    BY <1>2, <2>1, <2>2, Cells
  <2> QED
    BY <1>1, <2>1, <2>3, MinIs
<1>5. z # n => z \in Sub(D, Child(t, r, n)) /\ z \in Sub(D, n) /\ z \in In(t, D)
  <2>1. z # n => z \in Sub(D, Child(t, r, n))
    BY <1>4 DEF IsFirst
  <2>2. z # n => z \in Sub(D, n)
    BY <1>1, <1>2, <2>1, ShapeFacts
  <2> QED
    BY <2>1, <2>2, Nested DEF In
<1>6. z \in In(t, D) /\ z \in Node
  BY <1>2, <1>5, SubIs DEF In
<1>7. z # n => z # Root(t)
  BY <1>5, Antisymmetric DEF In
<1>8. \A q \in Side : Child(t, q, z) \in Cell /\ Child(t, q, z) # z
  BY <1>6, ShapeFacts
<1>9. x = IF Child(t, l, z) # Sentinel THEN Child(t, l, z) ELSE Child(t, r, z)
  BY <1>1, LeftIs DEF OnlyChild
<1>10. z = n => Child(t, l, z) = Sentinel \/ Child(t, r, z) = Sentinel
  <2>1. CASE Child(t, l, n) = Sentinel \/ Child(t, r, n) = Sentinel
    BY <2>1
  <2>2. CASE Child(t, l, n) # Sentinel /\ Child(t, r, n) # Sentinel
    <3>1. Child(t, r, n) \in Node
      BY <1>1, <1>2, <2>2, Cells
    <3>2. z \in Sub(D, Child(t, r, n))
      BY <1>3, <2>2, <3>1, MinIs DEF IsFirst
    <3> QED
      BY <1>1, <1>2, <3>2, ShapeFacts
  <2> QED
    BY <2>1, <2>2
<1>11. z # n => Child(t, l, z) = Sentinel
  <2>1. z # n => Child(t, l, z) \notin Node
    BY <1>1, <1>4 DEF IsFirst
  <2> QED
    BY <1>1, <1>8, <2>1, Cells
<1>12. \E c : /\ c \in Side /\ x = Child(t, c, z) /\ Child(t, Other(c), z) \notin Node
              /\ x \in Cell /\ x # z
  <2>1. CASE Child(t, l, z) = Sentinel
    BY <1>1, <1>8, <1>9, <2>1, Cells
  <2>2. CASE Child(t, l, z) # Sentinel
    BY <1>1, <1>8, <1>9, <1>10, <1>11, <2>2, Cells
  <2> QED
    BY <2>1, <2>2
<1>13. z # n => x # n
  <2> SUFFICES ASSUME z # n, x = n PROVE FALSE
    OBVIOUS
  <2>1. PICK c \in Side : n = Child(t, c, z)
    BY <1>12
  <2>2. n \in Sub(D, z)
    BY <1>2, <1>6, <2>1, ShapeFacts
  <2> QED
    BY <1>5, <2>2, Antisymmetric
<1> QED
  BY <1>1, <1>4, <1>6, <1>7, <1>12, <1>13 DEF Leaving

\* z takes the place of n, as if from outside.
LEMMA ReplaceIs ==
    ASSUME NEW t \in Trees, NEW D \in Subtrees, Shape(t, D),
           NEW n, NEW z, z # n, NEW c, NEW x, Leaving(t, D, n, z, c, x),
           NEW g, g = Spliced(t, z, x, Parent(t, z)), NEW v, v = Forgotten(g, z),
           NEW E, Splice(t, D, z, x, v, E),
           NEW w, w = Spliced(t, z, x, OrphanParent(t, n, z)),
           NEW r, r = Replaced(w, n, z), NEW u, u = Forgotten(r, n)
    PROVE  \E F : /\ Replace(v, E, n, z, u, F)
                  /\ Key(u, z) = Key(t, z)
                  /\ Parent(u, x) = IF Parent(t, z) = n THEN z ELSE Parent(t, z)
<1>1. /\ n \in Node /\ n \in In(t, D) /\ z \in Node /\ z \in In(t, D) /\ z # Root(t)
      /\ x \in Cell /\ x # z /\ x # n /\ c \in Side /\ x = Child(t, c, z)
      /\ Child(t, Other(c), z) \notin Node
      /\ n \in Cell /\ z \in Cell /\ n \in Place /\ z \in Place
  BY SubIs, Cells DEF Leaving, In
<1>2. /\ Parent(t, z) \in Node /\ Parent(t, z) # z
      /\ Parent(t, z) \in Cell /\ Parent(t, z) \in Place
      /\ Hangs(t, z) \in Side /\ Child(t, Hangs(t, z), Parent(t, z)) = z
  <2>1. /\ Parent(t, z) \in Node
        /\ Hangs(t, z) \in Side /\ Child(t, Hangs(t, z), Parent(t, z)) = z
    BY <1>1, HangsFacts
  <2> QED
    BY <2>1, Cells, ShapeFacts
<1>3. z \in Sub(D, n)
  <2>1. z \in Sub(D, Child(t, "right", n))
    BY DEF Leaving, IsFirst
  <2> QED
    BY <1>1, <2>1, Sides, ShapeFacts
<1>4. n # Root(t) => /\ Parent(t, n) \in Node /\ Parent(t, n) # z /\ Parent(t, n) # n
                     /\ Hangs(t, n) \in Side /\ Child(t, Hangs(t, n), Parent(t, n)) = n
  <2>1. n # Root(t) => /\ Parent(t, n) \in Node /\ Hangs(t, n) \in Side
                       /\ Child(t, Hangs(t, n), Parent(t, n)) = n
    BY <1>1, HangsFacts
  <2>2. n # Root(t) => Parent(t, n) # n
    BY <2>1, ShapeFacts
  <2>3. n # Root(t) => Parent(t, n) # z
    <3> SUFFICES ASSUME n # Root(t), Parent(t, n) = z PROVE FALSE
      OBVIOUS
    <3>1. n \in Sub(D, z)
      BY <1>1, <2>1, ShapeFacts
    <3> QED
      BY <1>1, <1>3, <3>1, Antisymmetric
  <2> QED
    BY <2>1, <2>2, <2>3
<1>5. PICK o : o = OrphanParent(t, n, z)
  OBVIOUS
<1>6. o = (IF Parent(t, z) = n THEN z ELSE Parent(t, z)) /\ o \in Place
  BY <1>1, <1>2, <1>5, Cells DEF OrphanParent, Parent
<1>7. /\ w \in Trees /\ Root(w) = Root(t)
      /\ \A q, a : q \in Side /\ a \in Cell => Child(w, q, a) =
            IF q = Hangs(t, z) /\ a = Parent(t, z) THEN x ELSE Child(t, q, a)
      /\ \A a : a \in Cell => /\ Parent(w, a) = IF a = x THEN o ELSE Parent(t, a)
                              /\ Red(w, a) = Red(t, a)
      /\ \A a : a \in Node => Key(w, a) = Key(t, a)
  <2>1. w = Spliced(t, z, x, o)
    BY <1>5
  <2> QED
    BY <1>1, <1>2, <1>6, <2>1, SplicedFields
<1>8. /\ g \in Trees /\ Root(g) = Root(t)
      /\ \A q, a : q \in Side /\ a \in Cell => Child(g, q, a) =
            IF q = Hangs(t, z) /\ a = Parent(t, z) THEN x ELSE Child(t, q, a)
      /\ \A a : a \in Cell => /\ Parent(g, a) = IF a = x THEN Parent(t, z) ELSE Parent(t, a)
                              /\ Red(g, a) = Red(t, a)
      /\ \A a : a \in Node => Key(g, a) = Key(t, a)
  BY <1>1, <1>2, SplicedFields
<1>9. /\ v \in Trees /\ Root(v) = Root(g)
      /\ \A q, a : q \in Side /\ a \in Cell
            => Child(v, q, a) = IF a = z THEN Null ELSE Child(g, q, a)
      /\ \A a : a \in Cell
            => /\ Parent(v, a) = IF a = z THEN Null ELSE Parent(g, a)
               /\ Red(v, a) = Red(g, a)
      /\ \A a : a \in Node => Key(v, a) = IF a = z THEN 0 ELSE Key(g, a)
  BY <1>1, <1>8, ForgottenFields
<1>10. /\ Root(v) = Root(t)
       /\ \A q, a : q \in Side /\ a \in Cell
             => Child(v, q, a) = IF a = z THEN Null ELSE Child(w, q, a)
       /\ \A a : a \in Cell => Red(v, a) = Red(t, a)
       /\ \A a : a \in Node /\ a # z => Key(v, a) = Key(t, a)
       /\ \A a : a \in Cell /\ a # z
             => Parent(v, a) = IF a = x THEN Parent(t, z) ELSE Parent(t, a)
  BY <1>7, <1>8, <1>9
<1>11. /\ Shape(v, E) /\ In(v, E) = In(t, D) \ {z} /\ E \in Subtrees
  BY <1>1, SpliceShape DEF Splice
<1>12. /\ \A q, a : q \in Side /\ a \in Node => Child(v, q, a) # z /\ Child(v, q, a) # a
       /\ n \in In(v, E)
  BY <1>1, <1>11, Outside, ShapeFacts
<1>13. /\ n = Root(w) \/ Parent(w, n) \in Cell
       /\ \A q : q \in Side => Child(w, q, n) \in Cell
  BY <1>1, <1>4, <1>7, <1>10, <1>11, <1>12, Cells, ShapeFacts
<1>14. /\ Hangs(w, n) = Hangs(t, n) /\ Hangs(v, n) = Hangs(t, n)
       /\ Parent(w, n) = Parent(t, n) /\ Parent(v, n) = Parent(t, n)
       \/ n = Root(t)
  <2> SUFFICES ASSUME n # Root(t)
               PROVE /\ Hangs(w, n) = Hangs(t, n) /\ Hangs(v, n) = Hangs(t, n)
                     /\ Parent(w, n) = Parent(t, n) /\ Parent(v, n) = Parent(t, n)
    OBVIOUS
  <2>1. Parent(w, n) = Parent(t, n) /\ Parent(v, n) = Parent(t, n)
    BY <1>1, <1>7, <1>10
  <2>2. PICK l \in Side : l = "left"
    BY Sides
  <2>3. PICK p : p = Parent(t, n) /\ p \in Node /\ p \in Cell /\ p # z
    BY <1>4, Cells
  <2>4. n = Child(w, l, p) <=> n = Child(t, l, p)
    BY <1>1, <1>2, <1>7, <2>2, <2>3
  <2>5. n = Child(v, l, p) <=> n = Child(t, l, p)
    BY <1>10, <2>2, <2>3, <2>4
  <2> QED
    BY <2>1, <2>2, <2>3, <2>4, <2>5, HangsIs
<1>15. Parent(w, n) = Parent(t, n) /\ Parent(v, n) = Parent(t, n)
  BY <1>1, <1>7, <1>10
<1>16. /\ r \in Trees /\ Root(r) = IF n = Root(w) THEN z ELSE Root(w)
       /\ \A q, a : q \in Side /\ a \in Cell => Child(r, q, a) =
             IF n # Root(w) /\ q = Hangs(w, n) /\ a = Parent(w, n) THEN z
             ELSE IF a = z THEN Child(w, q, n) ELSE Child(w, q, a)
       /\ \A a : a \in Cell => Parent(r, a) =
             IF a = z THEN Parent(w, n)
             ELSE IF a # Sentinel /\ (\E q : q \in Side /\ a = Child(w, q, n)) THEN z
             ELSE Parent(w, a)
       /\ \A a : a \in Cell => Red(r, a) = IF a = z THEN Red(w, n) ELSE Red(w, a)
       /\ \A a : a \in Node => Key(r, a) = Key(w, a)
  BY <1>1, <1>7, <1>13, ReplacedFields
<1>17. /\ u \in Trees /\ Root(u) = Root(r)
       /\ \A q, a : q \in Side /\ a \in Cell
             => Child(u, q, a) = IF a = n THEN Null ELSE Child(r, q, a)
       /\ \A a : a \in Cell
             => /\ Parent(u, a) = IF a = n THEN Null ELSE Parent(r, a)
                /\ Red(u, a) = Red(r, a)
       /\ \A a : a \in Node => Key(u, a) = IF a = n THEN 0 ELSE Key(r, a)
  BY <1>1, <1>16, ForgottenFields
<1>18. Root(u) = IF n = Root(v) THEN z ELSE Root(v)
  BY <1>7, <1>10, <1>16, <1>17
<1>19. /\ n # Root(v) => Child(u, Hangs(v, n), Parent(v, n)) = z
       /\ \A q : q \in Side => Child(u, q, n) \notin Node /\ Child(u, q, z) = Child(v, q, n)
       /\ \A a, q : /\ a \in Node /\ q \in Side /\ a # z /\ a # n
                    /\ n = Root(v) \/ a # Parent(v, n) \/ q # Hangs(v, n)
                    => Child(u, q, a) = Child(v, q, a)
  <2>1. n # Root(v) => Child(u, Hangs(v, n), Parent(v, n)) = z
    BY <1>4, <1>7, <1>10, <1>14, <1>16, <1>17, Cells
  <2>2. \A q : q \in Side => Child(u, q, n) \notin Node
    BY <1>1, <1>17, Cells
  <2>3. \A q : q \in Side => Child(u, q, z) = Child(w, q, n)
    BY <1>1, <1>4, <1>7, <1>15, <1>16, <1>17
  <2>4. \A q : q \in Side => Child(v, q, n) = Child(w, q, n)
    BY <1>1, <1>10
  <2>5. ASSUME NEW a, NEW q, a \in Node /\ q \in Side /\ a # z /\ a # n,
               n = Root(v) \/ a # Parent(v, n) \/ q # Hangs(v, n)
        PROVE  Child(u, q, a) = Child(v, q, a)
    <3>1. a \in Cell
      BY <2>5, Cells
    <3>2. Child(u, q, a) = Child(r, q, a) /\ Child(v, q, a) = Child(w, q, a)
      BY <1>10, <1>17, <2>5, <3>1
    <3>3. Child(r, q, a) = Child(w, q, a)
      BY <1>7, <1>10, <1>14, <1>16, <2>5, <3>1
    <3> QED
      BY <3>2, <3>3
  <2> QED
    BY <2>1, <2>2, <2>3, <2>4, <2>5
<1>20. \A a : a \in Node /\ a # n /\ a # z => Parent(u, a) =
          IF \E q : q \in Side /\ a = Child(w, q, n) THEN z ELSE Parent(w, a)
  BY <1>16, <1>17, Cells
<1>21. /\ \A a, q : a \in Node /\ q \in Side /\ a = Child(v, q, n) => Parent(u, a) = z
       /\ \A a : a \in Node /\ a # n /\ a # z /\ (\A q : q \in Side => a # Child(v, q, n))
                    => Parent(u, a) = Parent(v, a)
       /\ Parent(u, z) = Parent(v, n)
  <2>1. \A q : q \in Side => Child(v, q, n) = Child(w, q, n)
    BY <1>1, <1>10
  <2>2. \A a, q : a \in Node /\ q \in Side /\ a = Child(v, q, n) => a # n /\ a # z
    BY <1>1, <1>12
  <2>3. \A a, q : a \in Node /\ q \in Side /\ a = Child(v, q, n) => Parent(u, a) = z
    BY <1>20, <2>1, <2>2
  <2>4. ASSUME NEW a, a \in Node /\ a # n /\ a # z, \A q : q \in Side => a # Child(v, q, n)
        PROVE  Parent(u, a) = Parent(v, a)
    <3>1. Parent(u, a) = Parent(w, a)
      BY <1>20, <2>1, <2>4
    <3>2. CASE a # x
      BY <1>7, <1>10, <2>4, <3>1, <3>2, Cells
    <3>3. CASE a = x
      <4>1. Parent(t, z) = n => x = Child(w, Hangs(t, z), n)
        BY <1>1, <1>2, <1>7
      <4>2. Parent(t, z) # n
        BY <1>2, <2>1, <2>4, <3>3, <4>1
      <4> QED
        BY <1>6, <1>7, <1>10, <2>4, <3>1, <3>3, <4>2, Cells
    <3> QED
      BY <3>2, <3>3
  <2>5. Parent(u, z) = Parent(v, n)
    BY <1>1, <1>15, <1>16, <1>17
  <2> QED
    BY <2>3, <2>4, <2>5
<1>22. /\ \A a : a \in Node /\ a # n /\ a # z => Key(u, a) = Key(v, a)
       /\ Key(u, z) = Key(t, z)
  BY <1>1, <1>7, <1>10, <1>16, <1>17
<1>23. \A a : a \in Cell => Red(u, a) = IF a = z THEN Red(v, n) ELSE Red(v, a)
  BY <1>1, <1>7, <1>10, <1>16, <1>17
<1>24. Parent(u, x) = IF Parent(t, z) = n THEN z ELSE Parent(t, z)
  <2>1. Parent(w, x) = o
    BY <1>1, <1>7
  <2>2. Parent(u, x) = Parent(r, x)
    BY <1>1, <1>17
  <2>3. CASE Parent(t, z) = n
    BY <1>1, <1>6, <1>16, <2>1, <2>2, <2>3
  <2>4. CASE Parent(t, z) # n
    <3>1. \A q : q \in Side => Child(w, q, n) = Child(t, q, n)
      BY <1>1, <1>7, <2>4
    <3>2. x # Sentinel => \A q : q \in Side => x # Child(t, q, n)
      <4>1. x # Sentinel => x \in Node /\ Parent(t, x) = z
        BY <1>1, Cells, ShapeFacts
      <4> QED
        BY <1>1, <4>1, ShapeFacts
    <3> QED
      BY <1>1, <1>6, <1>16, <2>1, <2>2, <2>4, <3>1, <3>2
  <2> QED
    BY <2>3, <2>4
<1>25. PICK F : F = [a \in Node |->
                       IF a = n THEN {n}
                       ELSE IF a = z THEN (Sub(E, n) \ {n}) \cup {z}
                       ELSE IF n \in Sub(E, a) THEN (Sub(E, a) \ {n}) \cup {z} ELSE Sub(E, a)]
  OBVIOUS
<1>26. F \in Subtrees
  <2>1. \A a : Sub(E, a) \subseteq Node
    BY <1>11, SubIs
  <2> QED
    BY <1>1, <1>25, <2>1 DEF Subtrees
<1>27. /\ Sub(F, n) = {n}
       /\ Sub(F, z) = (Sub(E, n) \ {n}) \cup {z}
       /\ \A a : a # n /\ a # z => Sub(F, a) =
             IF n \in Sub(E, a) THEN (Sub(E, a) \ {n}) \cup {z} ELSE Sub(E, a)
  <2>1. \A a : a \in Node => Sub(F, a) = IF a = n THEN {n}
                       ELSE IF a = z THEN (Sub(E, n) \ {n}) \cup {z}
                       ELSE IF n \in Sub(E, a) THEN (Sub(E, a) \ {n}) \cup {z} ELSE Sub(E, a)
    BY <1>25 DEF Sub
  <2>2. \A a : a \notin Node => Sub(F, a) = {} /\ Sub(E, a) = {}
    BY <1>11, <1>26, SubIs
  <2> QED
    BY <1>1, <2>1, <2>2
<1> QED
  BY <1>17, <1>18, <1>19, <1>21, <1>22, <1>23, <1>24, <1>26, <1>27 DEF Replace

-----------------------------------------------------------------------------
(***************************************************************************)
(* The root is deleted.                                                    *)
(***************************************************************************)

\* u is t without n.
Shrunk(t, D, u, E, n) ==
    /\ In(u, E) = In(t, D) \ {n}
    /\ \A x : x \in Node /\ x # n => Key(u, x) = Key(t, x)

\* The keys of fewer nodes are together.
LEMMA FewerKeys ==
    ASSUME NEW t \in Trees, NEW S, S \subseteq Node, Together(KeysIn(t, S)),
           NEW u \in Trees, NEW L, L \subseteq S,
           \A a : a \in L => Key(u, a) = Key(t, a)
    PROVE  Together(KeysIn(u, L))
<1>1. KeysIn(u, L) \subseteq KeysIn(t, S)
  BY DEF KeysIn
<1> QED
  BY <1>1, TogetherSubset

\* The root has one child at most, and leaves its place to it.
Uprooted(t, n, x, u) == u = Forgotten([t EXCEPT !.root = x, !.red[x] = FALSE], n)

\* The fields after the root leaves its place to x.
LEMMA UprootedFields ==
    ASSUME NEW t \in Trees, NEW n \in Node, NEW x \in Cell, x # n, NEW u, Uprooted(t, n, x, u)
    PROVE  /\ u \in Trees /\ Root(u) = x
           /\ \A q, a : q \in Side /\ a \in Cell
                 => Child(u, q, a) = IF a = n THEN Null ELSE Child(t, q, a)
           /\ \A a : a \in Cell => /\ Parent(u, a) = IF a = n THEN Null ELSE Parent(t, a)
                                   /\ Red(u, a) <=> (a # x /\ Red(t, a))
           /\ \A a : a \in Node => Key(u, a) = IF a = n THEN 0 ELSE Key(t, a)
<1>1. PICK w : Rooted(t, x, w) /\ u = Forgotten(w, n)
  BY DEF Rooted, Uprooted
<1>2. /\ w \in Trees /\ Root(w) = x
      /\ \A q, a : q \in Side /\ a \in Cell => Child(w, q, a) = Child(t, q, a)
      /\ \A a : a \in Cell => /\ Parent(w, a) = Parent(t, a)
                              /\ Red(w, a) <=> (a # x /\ Red(t, a))
      /\ \A a : a \in Node => Key(w, a) = Key(t, a)
  BY <1>1, RootedFields
<1>3. /\ u \in Trees /\ Root(u) = Root(w)
      /\ \A q, a : q \in Side /\ a \in Cell
            => Child(u, q, a) = IF a = n THEN Null ELSE Child(w, q, a)
      /\ \A a : a \in Cell
            => /\ Parent(u, a) = IF a = n THEN Null ELSE Parent(w, a)
               /\ Red(u, a) = Red(w, a)
      /\ \A a : a \in Node => Key(u, a) = IF a = n THEN 0 ELSE Key(w, a)
  BY <1>1, <1>2, ForgottenFields
<1> QED
  BY <1>2, <1>3

\* A root with at most one child leaves a fine tree.
LEMMA DeleteRoot ==
    ASSUME NEW t, NEW D, Fine(t, D), NEW n, n = Root(t), NEW c, NEW x,
           Leaving(t, D, n, n, c, x), NEW u, Uprooted(t, n, x, u)
    PROVE  \E E : Fine(u, E) /\ Shrunk(t, D, u, E, n)
<1>1. /\ t \in Trees /\ D \in Subtrees /\ Shape(t, D) /\ Order(t, D)
      /\ Together(KeysIn(t, In(t, D))) /\ ~Red(t, Sentinel) /\ ~Red(t, n)
  BY DEF Fine, Sound
<1>2. /\ n \in Node /\ n \in Cell /\ n \in In(t, D) /\ c \in Side /\ x \in Cell /\ x # n
      /\ x = Child(t, c, n) /\ Child(t, Other(c), n) \notin Node
  BY <1>1, SubIs, Cells DEF Leaving, In
<1>3. /\ u \in Trees /\ Root(u) = x
      /\ \A q, a : q \in Side /\ a \in Cell
            => Child(u, q, a) = IF a = n THEN Null ELSE Child(t, q, a)
      /\ \A a : a \in Cell => /\ Parent(u, a) = IF a = n THEN Null ELSE Parent(t, a)
                              /\ Red(u, a) <=> (a # x /\ Red(t, a))
      /\ \A a : a \in Node => Key(u, a) = IF a = n THEN 0 ELSE Key(t, a)
  BY <1>1, <1>2, UprootedFields
<1>4. PICK E : E = [a \in Node |-> IF a = n THEN {n} ELSE Sub(D, a)]
  OBVIOUS
<1>5. E \in Subtrees /\ Sub(E, n) = {n} /\ \A a : a # n => Sub(E, a) = Sub(D, a)
  <2>1. \A a : Sub(D, a) \subseteq Node /\ (a \notin Node => Sub(D, a) = {})
    BY <1>1, SubIs
  <2>2. E \in Subtrees
    BY <1>2, <1>4, <2>1 DEF Subtrees
  <2>3. \A a : a \in Node => Sub(E, a) = IF a = n THEN {n} ELSE Sub(D, a)
    BY <1>4 DEF Sub
  <2>4. \A a : a \notin Node => Sub(E, a) = {}
    BY <2>2, SubIs
  <2> QED
    BY <1>2, <2>1, <2>2, <2>3, <2>4
<1>6. In(u, E) = In(t, D) \ {n} /\ In(u, E) = Sub(D, x)
  <2>1. Sub(D, Child(t, Other(c), n)) = {}
    BY <1>1, <1>2, SubIs
  <2>2. \A a : a \in Sub(D, n) <=> a = n \/ a \in Sub(D, x)
    BY <1>1, <1>2, <2>1, ShapeFacts
  <2>3. n \notin Sub(D, x)
    BY <1>1, <1>2, ShapeFacts
  <2> QED
    BY <1>2, <1>3, <1>5, <2>2, <2>3 DEF In
<1>7. /\ \A a, q : a \in Node /\ q \in Side => Child(t, q, a) # n
      /\ \A q : q \in Side => Child(u, q, n) \notin Node
      /\ \A a, q : a \in Node /\ q \in Side /\ a # n => Child(u, q, a) = Child(t, q, a)
      /\ \A a : a \in Node /\ a # n => Parent(u, a) = Parent(t, a) /\ Key(u, a) = Key(t, a)
  <2>1. \A a, q : a \in Node /\ q \in Side => Child(t, q, a) # n
    BY <1>1, <1>2, OnePlace
  <2> QED
    BY <1>2, <1>3, <2>1, Cells
<1>8. Shape(u, E)
  <2> SUFFICES ASSUME NEW a \in Node, NEW s \in Side, NEW l, l = Child(u, s, a),
                      NEW r, r = Child(u, Other(s), a)
               PROVE  /\ Sub(E, a) = {a} \cup Sub(E, l) \cup Sub(E, r)
                      /\ a \notin Sub(E, l)
                      /\ Sub(E, l) \cap Sub(E, r) = {}
                      /\ l \in Node => Parent(u, l) = a /\ a \in In(u, E)
                      /\ a \in In(u, E) => l \in Cell
    BY DEF Shape
  <2>1. Other(s) \in Side
    BY Sides
  <2>2. CASE a = n
    <3>1. l \notin Node /\ r \notin Node /\ n \notin In(u, E)
      BY <1>6, <1>7, <2>1, <2>2
    <3>2. Sub(E, l) = {} /\ Sub(E, r) = {}
      BY <1>5, <3>1, SubIs
    <3> QED
      BY <1>5, <2>2, <3>1, <3>2
  <2>3. CASE a # n
    <3>1. l = Child(t, s, a) /\ r = Child(t, Other(s), a) /\ l # n /\ r # n
      BY <1>7, <2>1, <2>3
    <3>2. Sub(E, l) = Sub(D, l) /\ Sub(E, r) = Sub(D, r) /\ Sub(E, a) = Sub(D, a)
      BY <1>5, <2>3, <3>1
    <3>3. /\ Sub(D, a) = {a} \cup Sub(D, l) \cup Sub(D, r)
          /\ a \notin Sub(D, l)
          /\ Sub(D, l) \cap Sub(D, r) = {}
          /\ l \in Node => Parent(t, l) = a /\ a \in In(t, D)
          /\ a \in In(t, D) => l \in Cell
      BY <1>1, <3>1 DEF Shape
    <3> QED
      BY <1>6, <1>7, <2>3, <3>1, <3>2, <3>3
  <2> QED
    BY <2>2, <2>3
<1>9. \A a : a \in In(u, E) => a \in In(t, D) /\ a \in Node /\ a # n
  BY <1>1, <1>6, SubIs DEF In
<1>10. Order(u, E)
  <2> SUFFICES ASSUME NEW a, NEW s, NEW m,
                      a \in In(u, E) /\ s \in Side /\ m \in Sub(E, Child(u, s, a))
               PROVE  Sorted(s, Key(u, m), Key(u, a))
    BY DEF Order
  <2>1. /\ a \in In(t, D) /\ a \in Node /\ a # n
        /\ Child(u, s, a) = Child(t, s, a) /\ Child(t, s, a) # n
    BY <1>7, <1>9
  <2>2. m \in Sub(D, Child(t, s, a))
    BY <1>5, <2>1
  <2>3. Sorted(s, Key(t, m), Key(t, a))
    BY <1>1, <2>1, <2>2 DEF Order
  <2>4. m \in Node /\ m # n
    <3>1. m \in Node
      BY <1>1, <2>2, SubIs
    <3>2. m \in Sub(D, a)
      BY <1>1, <2>1, <2>2, ShapeFacts
    <3>3. n \notin Sub(D, a)
      BY <1>1, <1>2, <2>1, Antisymmetric DEF In
    <3> QED
      BY <3>1, <3>2, <3>3
  <2> QED
    BY <1>7, <2>1, <2>3, <2>4
<1>11. Together(KeysIn(u, In(u, E)))
  <2>1. In(t, D) \subseteq Node /\ In(u, E) \subseteq In(t, D)
    BY <1>1, <1>6, SubIs DEF In
  <2> QED
    BY <1>1, <1>3, <1>7, <1>9, <2>1, FewerKeys
<1>12. ~Red(u, Sentinel) /\ ~Red(u, x)
  BY <1>1, <1>2, <1>3, Cells
<1>13. \A y : y \in In(u, E) => ~Clash(u, y)
  <2> SUFFICES ASSUME NEW y, y \in In(u, E), Clash(u, y) PROVE FALSE
    OBVIOUS
  <2>1. /\ y \in In(t, D) /\ y \in Node /\ y \in Cell /\ y # n
        /\ Parent(t, y) \in Node /\ Parent(t, y) \in Cell
    <3>1. y \in In(t, D) /\ y \in Node /\ y # n
      BY <1>9
    <3>2. Parent(t, y) \in Node
      BY <1>1, <3>1, HangsFacts
    <3> QED
      BY <3>1, <3>2, Cells
  <2>2. Red(t, y) /\ Red(t, Parent(t, y))
    BY <1>3, <1>7, <2>1 DEF Clash
  <2> QED
    BY <2>1, <2>2 DEF Clash, Fine
<1>14. PICK H \in Heights : Level(t, In(t, D), H, Null, NoSide)
  BY DEF Fine
<1>15. /\ \A a : BH(H, a) \in Nat
       /\ \A a, q : a \in In(t, D) /\ q \in Side =>
              /\ Red(t, a) => BH(H, a) = BH(H, Child(t, q, a))
              /\ ~Red(t, a) => BH(H, a) = BH(H, Child(t, q, a)) + 1
  <2>1. In(t, D) \subseteq Node
    BY <1>1, SubIs DEF In
  <2> QED
    BY <1>14, <2>1, HeightsIs, LevelFacts
<1>16. PICK h \in Nat : h = IF Red(t, x) THEN BH(H, x) + 1 ELSE BH(H, x)
  BY <1>15
<1>17. PICK G \in Heights : \A a : BH(G, a) = IF a = x /\ x \in Node THEN h ELSE BH(H, a)
  <2>1. CASE x \in Node
    BY <1>16, <2>1, HeightSet
  <2>2. CASE x \notin Node
    BY <2>2
  <2> QED
    BY <2>1, <2>2
<1>18. \A a, q : a \in Node /\ a # n /\ q \in Side => BH(G, Child(u, q, a)) = BH(H, Child(t, q, a))
  <2> SUFFICES ASSUME NEW a, NEW q, a \in Node /\ a # n /\ q \in Side
               PROVE  BH(G, Child(u, q, a)) = BH(H, Child(t, q, a))
    OBVIOUS
  <2>1. Child(t, q, a) = x /\ x \in Node => a = n
    BY <1>1, <1>2, ShapeFacts
  <2> QED
    BY <1>7, <1>17, <2>1
<1>19. Level(u, In(u, E), G, Null, NoSide)
  <2> SUFFICES ASSUME NEW a, a \in In(u, E), NEW s \in Side
               PROVE  BH(G, a) = BH(G, Child(u, s, a)) + Weight(u, a) + Debt(Null, NoSide, a, s)
    BY DEF Level, LevelAt
  <2>1. a \in In(t, D) /\ a \in Node /\ a \in Cell /\ a # n
    BY <1>9, Cells
  <2>2. Debt(Null, NoSide, a, s) = 0
    BY <2>1, NoDebt
  <2>3. /\ Red(t, a) => BH(H, a) = BH(H, Child(t, s, a))
        /\ ~Red(t, a) => BH(H, a) = BH(H, Child(t, s, a)) + 1
        /\ BH(H, Child(t, s, a)) \in Nat /\ BH(H, a) \in Nat
    BY <1>15, <2>1
  <2>4. BH(G, Child(u, s, a)) = BH(H, Child(t, s, a))
    BY <1>18, <2>1
  <2>5. CASE a = x
    <3>1. BH(G, a) = BH(H, Child(t, s, a)) + 1
      BY <1>16, <1>17, <2>1, <2>3, <2>5
    <3>2. Weight(u, a) = 1
      BY <1>12, <2>5 DEF Weight
    <3> QED
      BY <2>2, <2>3, <2>4, <3>1, <3>2
  <2>6. CASE a # x
    <3>1. BH(G, a) = BH(H, a)
      BY <1>17, <2>6
    <3>2. Weight(u, a) = IF Red(t, a) THEN 0 ELSE 1
      BY <1>3, <2>1, <2>6 DEF Weight
    <3> QED
      BY <2>2, <2>3, <2>4, <3>1, <3>2
  <2> QED
    BY <2>5, <2>6
<1>20. Sound(u, E)
  BY <1>3, <1>5, <1>8, <1>10, <1>11, <1>12 DEF Sound
<1>21. Fine(u, E)
  BY <1>3, <1>12, <1>13, <1>19, <1>20 DEF Fine
<1>22. Shrunk(t, D, u, E, n)
  BY <1>6, <1>7 DEF Shrunk
<1> QED
  BY <1>21, <1>22

-----------------------------------------------------------------------------
(***************************************************************************)
(* A node that is not the root leaves its place.                           *)
(***************************************************************************)

\* z, not the root, has left its place in t to x, and v is what is left; E is
\* what is below its nodes.
Gone(t, D, z, c, x, v, E) ==
    /\ Fine(t, D) /\ z \in In(t, D) /\ z # Root(t)
    /\ c \in Side /\ x = Child(t, c, z) /\ x \in Cell /\ x # z
    /\ Child(t, Other(c), z) \notin Node
    /\ Splice(t, D, z, x, v, E) /\ Parent(v, x) = Parent(t, z)

\* A node that leaves its place leaves a sound tree of the others.
LEMMA GoneFacts ==
    ASSUME NEW t, NEW D, NEW z, NEW c, NEW x, NEW v, NEW E, Gone(t, D, z, c, x, v, E)
    PROVE  /\ Shape(v, E) /\ In(v, E) = In(t, D) \ {z}
           /\ \A a : a \in In(v, E) => a \in In(t, D) /\ a \in Node /\ a \in Cell /\ a # z
           /\ \A a : a \in Node /\ a # z => Key(v, a) = Key(t, a)
           /\ z \in Node /\ z \notin In(v, E)
           /\ Sound(v, E) /\ Shrunk(t, D, v, E, z)
<1>1. /\ t \in Trees /\ D \in Subtrees /\ Shape(t, D) /\ Order(t, D)
      /\ Together(KeysIn(t, In(t, D))) /\ ~Red(t, Sentinel)
      /\ v \in Trees /\ E \in Subtrees
      /\ \A a : a \in Cell => Red(v, a) = Red(t, a)
      /\ \A a : a \in Node /\ a # z => Key(v, a) = Key(t, a)
  BY DEF Gone, Fine, Sound, Splice
<1>2. /\ z \in In(t, D) /\ z # Root(t) /\ c \in Side /\ x = Child(t, c, z) /\ x \in Cell
      /\ Child(t, Other(c), z) \notin Node /\ Splice(t, D, z, x, v, E)
  BY DEF Gone
<1>3. Shape(v, E) /\ In(v, E) = In(t, D) \ {z}
  BY <1>1, <1>2, SpliceShape
<1>4. Order(v, E)
  BY <1>1, <1>2, SpliceOrder
<1>5. In(t, D) \subseteq Node
  BY <1>1, SubIs DEF In
<1>6. Together(KeysIn(v, In(v, E)))
  BY <1>1, <1>3, <1>5, FewerKeys
<1>7. \A a : a \in In(v, E) => a \in In(t, D) /\ a \in Node /\ a \in Cell /\ a # z
  BY <1>3, <1>5, Cells
<1>8. ~Red(v, Sentinel)
  BY <1>1, Cells
<1>9. Sound(v, E)
  BY <1>1, <1>3, <1>4, <1>6, <1>8 DEF Sound
<1>10. Shrunk(t, D, v, E, z)
  BY <1>1, <1>3 DEF Shrunk
<1> QED
  BY <1>1, <1>2, <1>3, <1>5, <1>7, <1>9, <1>10

\* Its child may now be a red child of a red parent, and nothing else may.
LEMMA GoneClash ==
    ASSUME NEW t, NEW D, NEW z, NEW c, NEW x, NEW v, NEW E, Gone(t, D, z, c, x, v, E)
    PROVE  /\ ~Red(v, Root(v))
           /\ \A y : y \in In(v, E) /\ Clash(v, y) => y = x /\ Red(t, x) /\ Red(v, x)
           /\ Red(t, z) => ~Red(t, x)
           /\ Red(v, x) <=> Red(t, x)
<1>1. /\ t \in Trees /\ D \in Subtrees /\ Shape(t, D)
      /\ ~Red(t, Sentinel) /\ ~Red(t, Root(t)) /\ \A y : y \in In(t, D) => ~Clash(t, y)
      /\ Root(v) = Root(t)
      /\ \A a : a \in Cell => Red(v, a) = Red(t, a)
      /\ \A a : a \in Node /\ a # z => Parent(v, a) = IF a = x THEN Parent(t, z) ELSE Parent(t, a)
  BY DEF Gone, Fine, Sound, Splice
<1>2. /\ z \in In(t, D) /\ z # Root(t) /\ c \in Side /\ x = Child(t, c, z) /\ x \in Cell
  BY DEF Gone
<1>3. \A a : a \in In(v, E) => a \in In(t, D) /\ a \in Node /\ a \in Cell /\ a # z
  BY GoneFacts
<1>4. Root(t) \in Cell
  BY <1>1, TreeFields
<1>5. \A y : y \in In(v, E) /\ Clash(v, y) => y = x /\ Red(t, x)
  <2> SUFFICES ASSUME NEW y, y \in In(v, E), Clash(v, y) PROVE y = x /\ Red(t, x)
    OBVIOUS
  <2>1. y # Root(t) /\ Red(t, y) /\ Red(v, Parent(v, y))
    BY <1>1, <1>3 DEF Clash
  <2>2. y # x => FALSE
    <3> SUFFICES ASSUME y # x PROVE FALSE
      OBVIOUS
    <3>1. Parent(v, y) = Parent(t, y)
      BY <1>1, <1>3
    <3>2. Parent(t, y) \in Node
      BY <1>1, <1>3, <2>1, HangsFacts
    <3>3. Red(t, Parent(t, y))
      BY <1>1, <2>1, <3>1, <3>2, Cells
    <3> QED
      BY <1>1, <1>3, <2>1, <3>3 DEF Clash
  <2> QED
    BY <2>1, <2>2
<1>6. Red(t, z) => ~Red(t, x)
  <2> SUFFICES ASSUME Red(t, z), Red(t, x) PROVE FALSE
    OBVIOUS
  <2>1. x \in Node
    BY <1>1, <1>2, Cells
  <2>2. z \in Node
    BY <1>1, <1>2, SubIs DEF In
  <2>3. Parent(t, x) = z /\ x # Root(t)
    BY <1>1, <1>2, <2>1, <2>2, OnePlace
  <2>4. x \in In(t, D)
    BY <1>1, <1>2, <2>1, <2>2, OnePlace
  <2> QED
    BY <1>1, <2>3, <2>4 DEF Clash
<1> QED
  BY <1>1, <1>2, <1>4, <1>5, <1>6

\* If z was red, nothing else has to be done.
LEMMA GoneFine ==
    ASSUME NEW t, NEW D, NEW z, NEW c, NEW x, NEW v, NEW E, Gone(t, D, z, c, x, v, E), Red(t, z)
    PROVE  Fine(v, E)
<1>1. /\ t \in Trees /\ D \in Subtrees /\ Shape(t, D)
      /\ z \in In(t, D) /\ z # Root(t) /\ c \in Side /\ x = Child(t, c, z) /\ x \in Cell
      /\ Child(t, Other(c), z) \notin Node /\ Splice(t, D, z, x, v, E)
  BY DEF Gone, Fine, Sound
<1>2. PICK H \in Heights : Level(t, In(t, D), H, Null, NoSide)
  BY DEF Gone, Fine
<1>3. PICK q, d : q = (IF Red(t, z) THEN Null ELSE Parent(t, z)) /\ d = Hangs(t, z)
  OBVIOUS
<1>4. Level(v, In(v, E), H, q, Hangs(t, z))
  BY <1>1, <1>2, <1>3, SpliceLevel
<1>5. q = Null /\ Level(v, In(v, E), H, Null, d)
  BY <1>3, <1>4
<1>6. \A a : a \in In(v, E) => a \in Node /\ a # Null
  BY GoneFacts, Cells
<1>7. Level(v, In(v, E), H, Null, NoSide)
  <2> SUFFICES ASSUME NEW a, a \in In(v, E), NEW s \in Side
               PROVE  BH(H, a) = BH(H, Child(v, s, a)) + Weight(v, a) + Debt(Null, NoSide, a, s)
    BY DEF Level, LevelAt
  <2>1. Debt(Null, NoSide, a, s) = 0 /\ Debt(Null, d, a, s) = 0
    BY <1>6 DEF Debt
  <2>2. BH(H, a) = BH(H, Child(v, s, a)) + Weight(v, a) + Debt(Null, d, a, s)
    BY <1>5 DEF Level, LevelAt
  <2> QED
    BY <2>1, <2>2
<1> QED
  BY <1>7, GoneFacts, GoneClash DEF Fine

\* If z was black, its black is missing at x.
LEMMA GoneOwing ==
    ASSUME NEW t, NEW D, NEW z, NEW c, NEW x, NEW v, NEW E, Gone(t, D, z, c, x, v,
        E), ~Red(t, z),
           NEW p, p = Parent(t, z), NEW s, s = Hangs(t, z)
    PROVE  /\ p \in In(v, E) /\ s \in Side /\ x = Child(v, s, p) /\ Parent(v, x) = p
           /\ x # Root(v)
           /\ \E H \in Heights : Level(v, In(v, E), H, p, s)
<1>1. /\ t \in Trees /\ D \in Subtrees /\ Shape(t, D)
      /\ z \in In(t, D) /\ z # Root(t) /\ c \in Side /\ x = Child(t, c, z) /\ x \in Cell
      /\ Child(t, Other(c), z) \notin Node /\ Splice(t, D, z, x, v, E)
      /\ Parent(v, x) = Parent(t, z) /\ Root(v) = Root(t) /\ Child(v, s, p) = x
  BY DEF Gone, Fine, Sound, Splice
<1>2. PICK H \in Heights : Level(t, In(t, D), H, Null, NoSide)
  BY DEF Gone, Fine
<1>3. p = IF Red(t, z) THEN Null ELSE Parent(t, z)
  OBVIOUS
<1>4. Level(v, In(v, E), H, p, Hangs(t, z))
  BY <1>1, <1>2, <1>3, SpliceLevel
<1>5. /\ p \in In(t, D) /\ p \in Node /\ s \in Side /\ Child(t, s, p) = z
  BY <1>1, HangsFacts
<1>6. p # z
  BY <1>1, <1>5, ShapeFacts
<1>7. p \in In(v, E)
  BY <1>5, <1>6, GoneFacts
<1>8. x # Root(t)
  <2>1. z \in Node
    BY <1>1, SubIs DEF In
  <2>2. x \in Node => x # Root(t)
    BY <1>1, <2>1, OnePlace
  <2>3. Root(t) \in Node
    BY <1>1, SubIs DEF In
  <2> QED
    BY <2>2, <2>3
<1> QED
  BY <1>1, <1>2, <1>4, <1>5, <1>7, <1>8

\* If z was black, the loop begins at x.
LEMMA GonePending ==
    ASSUME NEW t, NEW D, NEW z, NEW c, NEW x, NEW v, NEW E, Gone(t, D, z, c, x, v, E), ~Red(t, z)
    PROVE  Pending(v, E, x)
<1>1. PICK p, s : p = Parent(t, z) /\ s = Hangs(t, z)
  OBVIOUS
<1>2. /\ p \in In(v, E) /\ s \in Side /\ x = Child(v, s, p) /\ Parent(v, x) = p
      /\ x # Root(v)
  BY <1>1, GoneOwing
<1>3. PICK H \in Heights : Level(v, In(v, E), H, p, s)
  BY <1>1, GoneOwing
<1>4. x \in Cell
  BY DEF Gone
<1>5. Sound(v, E)
  BY GoneFacts
<1>6. ~Red(v, Root(v)) /\ \A y : y \in In(v, E) /\ Clash(v, y) => y = x /\ Red(v, x)
  BY GoneClash
<1> QED
  BY <1>2, <1>3, <1>4, <1>5, <1>6 DEF Pending

-----------------------------------------------------------------------------
(***************************************************************************)
(* It takes the place of the node that is deleted.                         *)
(***************************************************************************)

\* After that, z has taken the place of n, and u is what is left.
Succeeded(t, D, n, z, c, x, v, E, u, F) ==
    /\ Gone(t, D, z, c, x, v, E) /\ Leaving(t, D, n, z, c, x) /\ z # n
    /\ Replace(v, E, n, z, u, F) /\ Key(u, z) = Key(t, z)
    /\ Parent(u, x) = IF Parent(t, z) = n THEN z ELSE Parent(t, z)

\* The keys around z's new place.
LEMMA SuccessorSorted ==
    ASSUME NEW t, NEW D, NEW n, NEW z, NEW c, NEW x, NEW v, NEW E, NEW u, NEW F,
           Succeeded(t, D, n, z, c, x, v, E, u, F)
    PROVE  /\ \A q, y : q \in Side /\ y \in Sub(E, Child(v, q, n))
                  => Sorted(q, Key(v, y), Key(u, z))
           /\ \A a, q : a \in In(v, E) /\ q \in Side /\ n \in Sub(E, Child(v, q, a))
                  => Sorted(q, Key(u, z), Key(v, a))
<1>1. /\ t \in Trees /\ D \in Subtrees /\ Shape(t, D) /\ Order(t, D)
      /\ Together(KeysIn(t, In(t, D)))
      /\ z \in In(t, D) /\ z # Root(t) /\ c \in Side /\ x = Child(t, c, z) /\ x \in Cell
      /\ Splice(t, D, z, x, v, E) /\ Key(u, z) = Key(t, z)
      /\ E \in Subtrees /\ Sub(E, z) = {z} /\ \A a : a # z => Sub(E, a) = Sub(D, a) \ {z}
  BY DEF Succeeded, Gone, Fine, Sound, Splice
<1>2. /\ z # n /\ n \in In(t, D) /\ n \in Node /\ z \in Node
      /\ IsFirst(t, D, Child(t, "right", n), z)
      /\ \A q : q \in Side => Child(t, q, n) \in Node
  BY <1>1, SubIs DEF Succeeded, Leaving, In
<1>3. PICK l, r \in Side : l = "left" /\ r = "right" /\ Other(l) = r /\ Other(r) = l
  BY Sides
<1>4. /\ Shape(v, E) /\ In(v, E) = In(t, D) \ {z}
      /\ \A a : a \in In(v, E) => a \in In(t, D) /\ a \in Node /\ a # z
      /\ \A a : a \in Node /\ a # z => Key(v, a) = Key(t, a)
  BY GoneFacts DEF Succeeded
<1>5. \A a, q : a \in Node /\ a # z /\ q \in Side => Child(v, q, a) # z
  BY <1>1, <1>2, <1>4, Outside
<1>6. \A a, q, y : a \in Node /\ a # z /\ q \in Side /\ y \in Sub(E, Child(v, q, a))
         => y \in Sub(D, Child(t, q, a)) /\ y \in Node /\ y # z
  <2> SUFFICES ASSUME NEW a, NEW q, NEW y, a \in Node /\ a # z /\ q \in Side,
                      y \in Sub(E, Child(v, q, a))
               PROVE  y \in Sub(D, Child(t, q, a)) /\ y \in Node /\ y # z
    OBVIOUS
  <2>1. y \in Sub(D, Child(v, q, a)) /\ y # z
    BY <1>1, <1>5
  <2>2. y \in Node
    BY <1>1, <2>1, SubIs
  <2>3. \/ Child(t, q, a) = z /\ Child(v, q, a) = x
        \/ Child(v, q, a) = Child(t, q, a)
    BY <1>1, SpliceKids
  <2>4. y \in Sub(D, x) => y \in Sub(D, z)
    BY <1>1, <1>2, ShapeFacts
  <2>5. y \in Sub(D, Child(t, q, a))
    <3>1. CASE Child(t, q, a) = z /\ Child(v, q, a) = x
      BY <2>1, <2>4, <3>1
    <3>2. CASE Child(v, q, a) = Child(t, q, a)
      BY <2>1, <3>2
    <3> QED
      BY <2>3, <3>1, <3>2
  <2> QED
    BY <2>1, <2>2, <2>5
<1>7. z \in Sub(D, Child(t, r, n)) /\ z \in Sub(D, n)
  <2>1. z \in Sub(D, Child(t, r, n))
    BY <1>2, <1>3 DEF IsFirst
  <2> QED
    BY <1>1, <1>2, <1>3, <2>1, ShapeFacts
<1>8. PICK K : K = KeysIn(t, In(t, D))
  OBVIOUS
<1>9. K \subseteq Keys /\ Together(K) /\ \A a : a \in In(t, D) => Key(t, a) \in K
  <2>1. In(t, D) \subseteq Node
    BY <1>1, SubIs DEF In
  <2> QED
    BY <1>1, <1>8, <2>1, KeysAre
<1>10. ASSUME NEW q, NEW y, q \in Side, y \in Sub(E, Child(v, q, n))
       PROVE  Sorted(q, Key(v, y), Key(u, z))
  <2>1. y \in Sub(D, Child(t, q, n)) /\ y \in Node /\ y # z
    BY <1>2, <1>6, <1>10
  <2>2. y \in In(t, D)
    BY <1>1, <1>2, <1>10, <2>1, BelowIn
  <2>3. Key(t, y) \in K /\ Key(t, z) \in K /\ Key(t, n) \in K
    BY <1>1, <1>2, <1>9, <2>2
  <2>4. Sorted(q, Key(t, y), Key(t, z))
    <3>1. CASE q = l
      <4>1. Sorted(l, Key(t, y), Key(t, n)) /\ Sorted(r, Key(t, z), Key(t, n))
        BY <1>1, <1>2, <1>3, <1>7, <2>1, <3>1 DEF Order
      <4>2. Sorted(l, Key(t, n), Key(t, z))
        BY <1>3, <1>9, <4>1, SortedOrder
      <4> QED
        BY <1>9, <2>3, <3>1, <4>1, <4>2, SortedOrder
    <3>2. CASE q = r
      <4>1. Child(t, r, n) \in In(t, D)
        <5>1. Child(t, r, n) \in Sub(D, n)
          BY <1>1, <1>2, <1>3, ShapeFacts
        <5> QED
          BY <1>1, <1>2, <5>1, Nested DEF In
      <4>2. Upto(Key(t, z), Key(t, y))
        BY <1>1, <1>2, <1>3, <2>1, <3>2, <4>1, FirstIsEarliest
      <4> QED
        BY <1>3, <3>2, <4>2 DEF Sorted
    <3> QED
      BY <1>3, <1>10, <3>1, <3>2, Sides
  <2> QED
    BY <1>1, <1>4, <2>1, <2>4
<1>11. ASSUME NEW a, NEW q, a \in In(v, E), q \in Side, n \in Sub(E, Child(v, q, a))
       PROVE  Sorted(q, Key(u, z), Key(v, a))
  <2>1. a \in In(t, D) /\ a \in Node /\ a # z
    BY <1>4, <1>11
  <2>2. n \in Sub(D, Child(t, q, a))
    BY <1>6, <1>11, <2>1
  <2>3. z \in Sub(D, Child(t, q, a))
    BY <1>1, <1>7, <2>2, Nested
  <2>4. Sorted(q, Key(t, z), Key(t, a))
    BY <1>1, <1>11, <2>1, <2>3 DEF Order
  <2> QED
    BY <1>1, <1>4, <2>1, <2>4
<1> QED
  BY <1>10, <1>11

\* The tree without n, and with z in its place, is sound.
LEMMA SucceededSound ==
    ASSUME NEW t, NEW D, NEW n, NEW z, NEW c, NEW x, NEW v, NEW E, NEW u, NEW F,
           Succeeded(t, D, n, z, c, x, v, E, u, F)
    PROVE  /\ Sound(u, F) /\ Shrunk(t, D, u, F, n)
           /\ n \in In(v, E) /\ z \notin In(v, E) /\ z \in Node /\ n # z
           /\ In(u, F) = (In(v, E) \ {n}) \cup {z}
<1>1. /\ v \in Trees /\ E \in Subtrees /\ Shape(v, E) /\ Order(v, E) /\ ~Red(v, Sentinel)
      /\ t \in Trees /\ D \in Subtrees /\ Together(KeysIn(t, In(t, D)))
      /\ In(v, E) = In(t, D) \ {z}
      /\ \A a : a \in Node /\ a # z => Key(v, a) = Key(t, a)
      /\ z \in Node /\ z \notin In(v, E)
  BY GoneFacts DEF Succeeded, Sound, Gone, Fine
<1>2. /\ n \in In(t, D) /\ n # z /\ z \in In(t, D) /\ Replace(v, E, n, z, u, F)
      /\ Key(u, z) = Key(t, z)
  BY DEF Succeeded, Leaving
<1>3. n \in In(v, E) /\ n \in Node
  BY <1>1, <1>2, SubIs DEF In
<1>4. Shape(u, F) /\ In(u, F) = (In(v, E) \ {n}) \cup {z}
  BY <1>1, <1>2, <1>3, ReplaceShape
<1>5. /\ u \in Trees /\ F \in Subtrees
      /\ \A a : a \in Node /\ a # n /\ a # z => Key(u, a) = Key(v, a)
      /\ \A a : a \in Cell => Red(u, a) = IF a = z THEN Red(v, n) ELSE Red(v, a)
  BY <1>2 DEF Replace
<1>6. Order(u, F)
  BY <1>1, <1>2, <1>3, SuccessorSorted, ReplaceOrder
<1>7. \A a : a \in Node /\ a # n => Key(u, a) = Key(t, a)
  BY <1>1, <1>2, <1>5
<1>8. In(t, D) \subseteq Node /\ In(u, F) \subseteq In(t, D) /\ In(u, F) = In(t, D) \ {n}
  <2>1. In(t, D) \subseteq Node
    BY <1>1, SubIs DEF In
  <2> QED
    BY <1>1, <1>2, <1>4, <2>1
<1>9. Together(KeysIn(u, In(u, F)))
  <2>1. \A a : a \in In(u, F) => Key(u, a) = Key(t, a)
    BY <1>7, <1>8
  <2> QED
    BY <1>1, <1>5, <1>8, <2>1, FewerKeys
<1>10. ~Red(u, Sentinel)
  <2>1. Sentinel \in Cell /\ Sentinel # z
    BY <1>1, Cells
  <2> QED
    BY <1>1, <1>5, <2>1
<1>11. Sound(u, F)
  BY <1>4, <1>5, <1>6, <1>9, <1>10 DEF Sound
<1>12. Shrunk(t, D, u, F, n)
  BY <1>7, <1>8 DEF Shrunk
<1> QED
  BY <1>1, <1>2, <1>3, <1>4, <1>11, <1>12

\* Only x may be a red child of a red parent.
LEMMA SucceededClash ==
    ASSUME NEW t, NEW D, NEW n, NEW z, NEW c, NEW x, NEW v, NEW E, NEW u, NEW F,
           Succeeded(t, D, n, z, c, x, v, E, u, F)
    PROVE  /\ ~Red(u, Root(u))
           /\ \A y : y \in In(u, F) /\ Clash(u, y) => y = x /\ Red(u, x) /\ Red(t, x)
<1>1. /\ v \in Trees /\ E \in Subtrees /\ Shape(v, E) /\ ~Red(v, Root(v))
      /\ \A y : y \in In(v, E) /\ Clash(v, y) => y = x /\ Red(t, x) /\ Red(v, x)
      /\ \A a : a \in In(v, E) => a \in Node /\ a \in Cell /\ a # z
  BY GoneFacts, GoneClash DEF Succeeded, Sound
<1>2. /\ n \in In(v, E) /\ z \notin In(v, E) /\ z \in Node /\ n # z
      /\ In(u, F) = (In(v, E) \ {n}) \cup {z}
  BY SucceededSound
<1>3. z \in Cell /\ x \in Cell /\ x # z /\ x # n
  BY <1>2, Cells DEF Succeeded, Leaving
<1>4. /\ Root(u) = IF n = Root(v) THEN z ELSE Root(v)
      /\ \A a, q : a \in Node /\ q \in Side /\ a = Child(v, q, n) => Parent(u, a) = z
      /\ \A a : a \in Node /\ a # n /\ a # z /\ (\A q : q \in Side => a # Child(v, q, n))
                   => Parent(u, a) = Parent(v, a)
      /\ Parent(u, z) = Parent(v, n)
      /\ \A a : a \in Cell => Red(u, a) = IF a = z THEN Red(v, n) ELSE Red(v, a)
  BY DEF Succeeded, Replace
<1>5. Root(v) \in Node /\ Root(v) \in Cell /\ Root(v) # z /\ Root(v) \in In(v, E)
  <2>1. Root(v) \in Node
    BY <1>1, <1>2, SubIs DEF In
  <2>2. Root(v) \in In(v, E)
    BY <1>1, <2>1, ShapeFacts DEF In
  <2> QED
    BY <1>1, <2>1, <2>2
<1>6. ~Red(u, Root(u))
  BY <1>1, <1>3, <1>4, <1>5
<1>7. ASSUME NEW y, y \in In(u, F), Clash(u, y)
      PROVE  y = x /\ Red(u, x) /\ Red(t, x)
  <2>1. y # Root(u) /\ Red(u, y) /\ Red(u, Parent(u, y))
    BY <1>7 DEF Clash
  <2>2. CASE y = z
    <3>1. n # Root(v) /\ Red(v, n)
      BY <1>3, <1>4, <2>1, <2>2
    <3>2. Parent(v, n) \in In(v, E)
      BY <1>1, <1>2, <3>1, HangsFacts
    <3>3. Parent(v, n) \in Cell /\ Parent(v, n) # z
      BY <1>1, <3>2
    <3>4. Red(v, Parent(v, n))
      BY <1>4, <2>1, <2>2, <3>3
    <3>5. Clash(v, n)
      BY <3>1, <3>4 DEF Clash
    <3> QED
      BY <1>1, <1>2, <1>3, <3>5
  <2>3. CASE y # z
    <3>1. y \in In(v, E) /\ y # n /\ y \in Node /\ y \in Cell
      BY <1>1, <1>2, <1>7, <2>3
    <3>2. y # Root(v) /\ Red(v, y)
      BY <1>4, <2>1, <2>3, <3>1
    <3>3. Parent(v, y) \in In(v, E)
      BY <1>1, <3>1, <3>2, HangsFacts
    <3>4. Parent(v, y) \in Cell /\ Parent(v, y) # z
      BY <1>1, <3>3
    <3>5. Red(v, Parent(v, y))
      <4>1. CASE \E q : q \in Side /\ y = Child(v, q, n)
        <5>1. Parent(u, y) = z
          BY <1>4, <3>1, <4>1
        <5>2. Red(v, n)
          BY <1>3, <1>4, <2>1, <5>1
        <5>3. Parent(v, y) = n
          BY <1>1, <1>2, <3>1, <4>1, ShapeFacts
        <5> QED
          BY <5>2, <5>3
      <4>2. CASE ~\E q : q \in Side /\ y = Child(v, q, n)
        <5>1. Parent(u, y) = Parent(v, y)
          BY <1>4, <2>3, <3>1, <4>2
        <5> QED
          BY <1>4, <2>1, <3>4, <5>1
      <4> QED
        BY <4>1, <4>2
    <3>6. Clash(v, y)
      BY <3>2, <3>5 DEF Clash
    <3>7. y = x /\ Red(t, x)
      BY <1>1, <3>1, <3>6
    <3> QED
      BY <2>1, <3>7
  <2> QED
    BY <2>2, <2>3
<1> QED
  BY <1>6, <1>7

\* If z was red, nothing else has to be done.
LEMMA SucceededFine ==
    ASSUME NEW t, NEW D, NEW n, NEW z, NEW c, NEW x, NEW v, NEW E, NEW u, NEW F,
           Succeeded(t, D, n, z, c, x, v, E, u, F), Red(t, z)
    PROVE  Fine(u, F)
<1>1. /\ v \in Trees /\ E \in Subtrees /\ Shape(v, E)
      /\ Replace(v, E, n, z, u, F) /\ Gone(t, D, z, c, x, v, E)
  BY GoneFacts DEF Succeeded, Sound
<1>2. n \in In(v, E) /\ z \notin In(v, E) /\ z \in Node
  BY SucceededSound
<1>3. PICK H \in Heights : Level(v, In(v, E), H, Null, NoSide)
  BY <1>1, GoneFine DEF Fine
<1>4. PICK q, d : q = Null /\ d = NoSide
  OBVIOUS
<1>5. PICK o : o = (IF q = n THEN z ELSE q) /\ o = Null
  BY <1>1, <1>2, <1>4, SubIs, Cells DEF In
<1>6. q # z
  BY <1>2, <1>4, Cells
<1>7. \E G \in Heights : Level(u, In(u, F), G, o, d)
  BY <1>1, <1>2, <1>3, <1>4, <1>5, <1>6, ReplaceLevel
<1>8. ~Red(t, x)
  BY <1>1, GoneClash
<1> QED
  BY <1>4, <1>5, <1>7, <1>8, SucceededSound, SucceededClash DEF Fine

\* If z was black, the loop begins at x.
LEMMA SucceededPending ==
    ASSUME NEW t, NEW D, NEW n, NEW z, NEW c, NEW x, NEW v, NEW E, NEW u, NEW F,
           Succeeded(t, D, n, z, c, x, v, E, u, F), ~Red(t, z)
    PROVE  Pending(u, F, x)
<1>1. /\ v \in Trees /\ E \in Subtrees /\ Shape(v, E)
      /\ Replace(v, E, n, z, u, F) /\ Gone(t, D, z, c, x, v, E)
      /\ Parent(u, x) = IF Parent(t, z) = n THEN z ELSE Parent(t, z)
  BY GoneFacts DEF Succeeded, Sound
<1>2. /\ n \in In(v, E) /\ z \notin In(v, E) /\ z \in Node /\ n \in Node /\ n # z
      /\ In(u, F) = (In(v, E) \ {n}) \cup {z}
  BY <1>1, SucceededSound, SubIs DEF In
<1>3. x \in Cell /\ x # z /\ x # n
  BY DEF Succeeded, Leaving
<1>4. PICK p, s : p = Parent(t, z) /\ s = Hangs(t, z)
  OBVIOUS
<1>5. /\ p \in In(v, E) /\ s \in Side /\ x = Child(v, s, p) /\ Parent(v, x) = p
      /\ x # Root(v)
  BY <1>1, <1>4, GoneOwing
<1>6. PICK H \in Heights : Level(v, In(v, E), H, p, s)
  BY <1>1, <1>4, GoneOwing
<1>7. PICK o : o = (IF p = n THEN z ELSE p)
  OBVIOUS
<1>8. p # z /\ p \in Node
  BY <1>1, <1>2, <1>5, SubIs DEF In
<1>9. \E G \in Heights : Level(u, In(u, F), G, o, s)
  BY <1>1, <1>2, <1>6, <1>7, <1>8, ReplaceLevel
<1>10. o \in In(u, F) /\ Parent(u, x) = o
  BY <1>1, <1>2, <1>4, <1>5, <1>7
<1>11. x = Child(u, s, o)
  <2>1. CASE p = n
    <3>1. Child(u, s, z) = Child(v, s, n)
      BY <1>1, <1>5 DEF Replace
    <3> QED
      BY <1>5, <1>7, <2>1, <3>1
  <2>2. CASE p # n
    <3>1. n = Root(v) \/ p # Parent(v, n) \/ s # Hangs(v, n)
      <4>1. n # Root(v) => Child(v, Hangs(v, n), Parent(v, n)) = n
        BY <1>1, <1>2, HangsFacts
      <4> QED
        BY <1>3, <1>5, <4>1
    <3>2. Child(u, s, p) = Child(v, s, p)
      BY <1>1, <1>5, <1>8, <2>2, <3>1 DEF Replace
    <3> QED
      BY <1>5, <1>7, <2>2, <3>2
  <2> QED
    BY <2>1, <2>2
<1>12. x # Root(u)
  <2>1. Root(u) = IF n = Root(v) THEN z ELSE Root(v)
    BY <1>1 DEF Replace
  <2> QED
    BY <1>3, <1>5, <2>1
<1>13. ~Red(u, Root(u)) /\ \A y : y \in In(u, F) /\ Clash(u, y) => y = x /\ Red(u, x)
  BY SucceededClash
<1>14. Sound(u, F)
  BY SucceededSound
<1>15. PICK G \in Heights : Level(u, In(u, F), G, o, s)
  BY <1>9
<1> QED
  BY <1>3, <1>5, <1>10, <1>11, <1>12, <1>13, <1>14, <1>15 DEF Pending

-----------------------------------------------------------------------------
(***************************************************************************)
(* A deletion up to its loop; the invariant, and the initial state.        *)
(***************************************************************************)

\* What a deletion leaves to its loop.
LEMMA DeletedTree ==
    ASSUME NEW t, NEW D, Fine(t, D), NEW n, n \in In(t, D),
           NEW z, z = Subst(t, n), NEW x, x = OnlyChild(t, z), NEW u,
           z = Root(t) => Uprooted(t, n, x, u),
           z # Root(t) => u = Forgotten(Unlinked(t, n), n)
    PROVE  \E E : /\ Shrunk(t, D, u, E, n)
                  /\ z = Root(t) \/ Red(t, z) => Fine(u, E)
                  /\ z # Root(t) /\ ~Red(t, z) => Pending(u, E, x)
<1>1. t \in Trees /\ D \in Subtrees /\ Shape(t, D)
  BY DEF Fine, Sound
<1>2. PICK c : Leaving(t, D, n, z, c, x)
  BY <1>1, SubstIs
<1>3. CASE z = Root(t)
  <2>1. z = n
    BY <1>2, <1>3 DEF Leaving
  <2>2. \E E : Fine(u, E) /\ Shrunk(t, D, u, E, n)
    BY <1>2, <1>3, <2>1, DeleteRoot
  <2> QED
    BY <1>3, <2>2
<1>4. CASE z # Root(t)
  <2>1. PICK g : g = Spliced(t, z, x, Parent(t, z))
    OBVIOUS
  <2>2. PICK v : v = Forgotten(g, z)
    OBVIOUS
  <2>3. z \in In(t, D) /\ x \in Cell /\ x # z
    BY <1>2 DEF Leaving
  <2>4. PICK E : Splice(t, D, z, x, v, E) /\ Parent(v, x) = Parent(t, z)
    BY <1>1, <1>4, <2>1, <2>2, <2>3, SpliceIs
  <2>5. Gone(t, D, z, c, x, v, E)
    BY <1>2, <1>4, <2>4 DEF Gone, Leaving
  <2>6. CASE z = n
    <3>1. u = v
      <4>1. OrphanParent(t, n, z) = Parent(t, z)
        BY <2>6 DEF OrphanParent, Parent
      <4>2. Unlinked(t, n) = Spliced(t, z, x, OrphanParent(t, n, z))
        BY <2>6 DEF Unlinked
      <4> QED
        BY <1>4, <2>1, <2>2, <2>6, <4>1, <4>2
    <3>2. Red(t, z) => Fine(v, E)
      BY <2>5, GoneFine
    <3>3. ~Red(t, z) => Pending(v, E, x)
      BY <2>5, GonePending
    <3>4. Shrunk(t, D, v, E, n)
      BY <2>5, <2>6, GoneFacts
    <3> QED
      BY <1>4, <3>1, <3>2, <3>3, <3>4
  <2>7. CASE z # n
    <3>1. PICK w : w = Spliced(t, z, x, OrphanParent(t, n, z))
      OBVIOUS
    <3>2. PICK r : r = Replaced(w, n, z)
      OBVIOUS
    <3>3. u = Forgotten(r, n)
      <4>1. Unlinked(t, n) = r
        BY <2>7, <3>1, <3>2 DEF Unlinked
      <4> QED
        BY <1>4, <4>1
    <3>4. \E F : /\ Replace(v, E, n, z, u, F)
                 /\ Key(u, z) = Key(t, z)
                 /\ Parent(u, x) = IF Parent(t, z) = n THEN z ELSE Parent(t, z)
      BY <1>1, <1>2, <2>1, <2>2, <2>4, <2>7, <3>1, <3>2, <3>3, ReplaceIs
    <3>5. PICK F : Succeeded(t, D, n, z, c, x, v, E, u, F)
      BY <1>2, <2>5, <2>7, <3>4 DEF Succeeded
    <3>6. Red(t, z) => Fine(u, F)
      BY <3>5, SucceededFine
    <3>7. ~Red(t, z) => Pending(u, F, x)
      BY <3>5, SucceededPending
    <3>8. Shrunk(t, D, u, F, n)
      BY <3>5, SucceededSound
    <3> QED
      BY <1>4, <3>6, <3>7, <3>8
  <2> QED
    BY <2>6, <2>7
<1> QED
  BY <1>3, <1>4

\* The invariant: D is what is below the nodes of the tree.
Idle(D) == step = "idle" /\ node = Null /\ temp = Null /\ Fine(tree, D)

Descends(D) == step = "descend" /\ Descending(tree, D, node, temp)

Inserts(D) ==
    /\ step = "insert" /\ temp = Null
    /\ \E H : Conflict(tree, D, H, node)
    /\ Red(tree, Root(tree)) => node = Root(tree)

Deletes(D) == step = "delete" /\ node = Null /\ Pending(tree, D, temp)

Holds(D) == Idle(D) \/ Descends(D) \/ Inserts(D) \/ Deletes(D)

RBInv == \E D : Holds(D)

\* u has the nodes of t, their keys, and the same one first.
Stays(t, D, u, E) ==
    /\ In(u, E) = In(t, D)
    /\ \A x : x \in In(t, D) => Key(u, x) = Key(t, x)
    /\ \A z : IsFirst(t, D, Root(t), z) => IsFirst(u, E, Root(u), z)

\* A rebalancing step keeps the nodes, the keys and the leftmost node.
LEMMA KeptStays ==
    ASSUME NEW t, NEW D \in Subtrees, NEW u, NEW E, Kept(t, D, u, E)
    PROVE  Stays(t, D, u, E)
<1>1. In(t, D) \subseteq Node
  BY SubIs DEF In
<1> QED
  BY <1>1 DEF Kept, Stays

\* The invariant, without the colours.
LEMMA HoldsSound ==
    ASSUME NEW D, Holds(D)
    PROVE  /\ Sound(tree, D) /\ tree \in Trees /\ D \in Subtrees /\ Shape(tree, D)
           /\ Order(tree, D) /\ Together(KeysIn(tree, In(tree, D)))
           /\ step \in {"idle", "descend", "insert", "delete"}
<1>1. Idle(D) => Sound(tree, D) /\ step = "idle"
  BY DEF Idle, Fine
<1>2. Descends(D) => Sound(tree, D) /\ step = "descend"
  BY DEF Descends, Descending, Fine
<1>3. Inserts(D) => Sound(tree, D) /\ step = "insert"
  BY DEF Inserts, Conflict
<1>4. Deletes(D) => Sound(tree, D) /\ step = "delete"
  BY DEF Deletes, Pending
<1>5. Sound(tree, D) /\ step \in {"idle", "descend", "insert", "delete"}
  BY <1>1, <1>2, <1>3, <1>4 DEF Holds
<1> QED
  BY <1>5 DEF Sound

\* The nodes that InTree counts are those of the shape.
LEMMA InTreeIs ==
    ASSUME NEW D, Holds(D)
    PROVE  InTree = In(tree, D) /\ InTree \subseteq Node
           /\ (Root(tree) = Sentinel <=> InTree = {})
           /\ (Root(tree) # Sentinel => Root(tree) \in InTree /\ Root(tree) \in Node)
<1>1. tree \in Trees /\ D \in Subtrees /\ Shape(tree, D)
  BY HoldsSound
<1>2. Root(tree) \in Cell /\ Root(tree) \in Place
  BY <1>1, TreeFields, Cells
<1>3. InTree = In(tree, D)
  BY <1>1, <1>2, BelowIsSub DEF InTree, In, Root
<1>4. In(tree, D) \subseteq Node /\ (Root(tree) = Sentinel => In(tree, D) = {})
  BY <1>1, SubIs, Cells DEF In
<1>5. Root(tree) # Sentinel => Root(tree) \in In(tree, D) /\ Root(tree) \in Node
  BY <1>1, <1>2, Cells, ShapeFacts DEF In
<1> QED
  BY <1>3, <1>4, <1>5

\* The empty tree is in order.
LEMMA InitHolds == Init => \E D : Holds(D) /\ In(tree, D) = {}
<1> SUFFICES ASSUME Init PROVE \E D : Holds(D) /\ In(tree, D) = {}
  OBVIOUS
<1>1. /\ tree.root = Sentinel
      /\ tree.child = [s \in Side |-> [n \in Cell |-> Null]]
      /\ tree.parent = [n \in Cell |-> Null]
      /\ tree.red = [n \in Cell |-> FALSE]
      /\ tree.key = [n \in Node |-> 0]
      /\ tree = [root |-> tree.root, child |-> tree.child, parent |-> tree.parent,
                 red |-> tree.red, key |-> tree.key]
      /\ step = "idle" /\ node = Null /\ temp = Null
  BY DEF Init, Cell
<1>2. tree \in Trees
  <2>1. Null \in Place /\ Sentinel \in Cell
    BY Cells DEF Place
  <2>2. tree.child \in Children /\ tree.parent \in Parents
    BY <1>1, <2>1 DEF Children, Parents
  <2>3. tree.red \in [Cell -> BOOLEAN]
    BY <1>1
  <2>4. tree.key \in [Node -> 0..(Msecs - 1)]
    BY <1>1, KeysAssumption
  <2> QED
    BY <1>1, <2>1, <2>2, <2>3, <2>4 DEF Trees
<1>3. PICK D : D = [n \in Node |-> {n}]
  OBVIOUS
<1>4. D \in Subtrees /\ \A x : x \in Node => Sub(D, x) = {x}
  BY <1>3 DEF Subtrees, Sub
<1>5. Root(tree) = Sentinel /\ Sentinel \notin Node /\ Null \notin Node
  BY <1>1, Cells DEF Root
<1>6. In(tree, D) = {}
  BY <1>5 DEF In, Sub
<1>7. \A n, s : n \in Node /\ s \in Side => Child(tree, s, n) = Null
  BY <1>1, Cells DEF Child
<1>8. Shape(tree, D)
  <2> SUFFICES ASSUME NEW n \in Node, NEW s \in Side, NEW l, l = Child(tree, s, n),
                      NEW r, r = Child(tree, Other(s), n)
               PROVE  /\ Sub(D, n) = {n} \cup Sub(D, l) \cup Sub(D, r)
                      /\ n \notin Sub(D, l)
                      /\ Sub(D, l) \cap Sub(D, r) = {}
                      /\ l \in Node => Parent(tree, l) = n /\ n \in In(tree, D)
                      /\ n \in In(tree, D) => l \in Cell
    BY DEF Shape
  <2>1. l = Null /\ r = Null
    BY <1>7, Sides
  <2>2. Sub(D, l) = {} /\ Sub(D, r) = {}
    BY <1>4, <1>5, <2>1, SubIs
  <2> QED
    BY <1>4, <1>5, <1>6, <2>1, <2>2
<1>9. Order(tree, D)
  BY <1>6 DEF Order
<1>10. Together(KeysIn(tree, In(tree, D)))
  BY <1>6, KeysAssumption DEF Together, KeysIn
<1>11. ~Red(tree, Sentinel) /\ ~Red(tree, Root(tree))
  BY <1>1, <1>5, Cells DEF Red
<1>12. Heights # {}
  <2>1. [n \in Node |-> 0] \in Heights
    BY DEF Heights
  <2> QED
    BY <2>1
<1>13. Fine(tree, D)
  BY <1>2, <1>4, <1>6, <1>8, <1>9, <1>10, <1>11, <1>12 DEF Fine, Sound, Level
<1> QED
  BY <1>1, <1>6, <1>13 DEF Holds, Idle

-----------------------------------------------------------------------------
(***************************************************************************)
(* Each action keeps the invariant.                                        *)
(***************************************************************************)

\* The part of the invariant that the step chooses.
LEMMA IdleOnly ==
    ASSUME NEW D, Holds(D)
    PROVE  /\ step = "idle" => Idle(D)
           /\ step = "descend" => Descends(D)
           /\ step = "insert" => Inserts(D)
           /\ step = "delete" => Deletes(D)
  BY DEF Holds, Idle, Descends, Inserts, Deletes

\* ngx_rbtree_insert, up to its loop.
LEMMA InsertHolds ==
    ASSUME NEW D, Holds(D), NEW n \in Node, NEW k \in KeysOf[n], Insert(n, k)
    PROVE  \E E : /\ Holds(E)'
                  /\ Root(tree) = Sentinel =>
                        Grown(tree, D, tree', E, n) /\ Key(tree', n) = k /\ k \in Keys
                  /\ Root(tree) # Sentinel => Stays(tree, D, tree', E)
<1>1. Idle(D) /\ step = "idle" /\ n \notin InTree
  BY IdleOnly DEF Insert
<1>2. Fine(tree, D) /\ InTree = In(tree, D) /\ n \notin In(tree, D)
  BY <1>1, InTreeIs DEF Idle
<1>3. k \in Keys
  BY KeysAssumption DEF Keys
<1>4. Together(KeysIn(tree, In(tree, D)) \cup {k})
  <2>1. Together({tree.key[m] : m \in InTree} \cup {k})
    BY DEF Insert
  <2>2. {tree.key[m] : m \in InTree} = KeysIn(tree, In(tree, D))
    BY <1>2 DEF KeysIn, Key
  <2> QED
    BY <2>1, <2>2
<1>5. CASE Root(tree) = Sentinel
  <2>1. /\ tree' = [Leaf(tree, n, Null, FALSE) EXCEPT !.root = n, !.key[n] = k]
        /\ step' = "idle" /\ node' = Null /\ temp' = Null
    BY <1>1, <1>5 DEF Insert, Root, Idle
  <2>2. Fine(tree', D) /\ Grown(tree, D, tree', D, n) /\ Key(tree', n) = k
    <3>1. Planted(tree, n, k, tree')
      BY <2>1 DEF Planted
    <3> QED
      BY <1>2, <1>3, <1>4, <1>5, <3>1, InsertFirst
  <2>3. Holds(D)'
    BY <2>1, <2>2 DEF Holds, Idle
  <2> QED
    BY <1>3, <1>5, <2>2, <2>3
<1>6. CASE Root(tree) # Sentinel
  <2>1. /\ tree' = [tree EXCEPT !.key[n] = k]
        /\ step' = "descend" /\ node' = n /\ temp' = Root(tree)
    BY <1>1, <1>6 DEF Insert, Root
  <2>2. PICK u : u = [tree EXCEPT !.key[n] = k]
    OBVIOUS
  <2>3. /\ Descending(u, D, n, Root(u)) /\ In(u, D) = In(tree, D)
        /\ \A x : x \in Node /\ x # n => Key(u, x) = Key(tree, x)
        /\ \A z : IsFirst(tree, D, Root(tree), z) => IsFirst(u, D, Root(u), z)
    BY <1>2, <1>3, <1>4, <1>6, <2>2, InsertDescends
  <2>4. Root(u) = Root(tree) /\ u = tree'
    BY <2>1, <2>2 DEF Root
  <2>5. Holds(D)'
    BY <2>1, <2>3, <2>4 DEF Holds, Descends
  <2>6. Stays(tree, D, tree', D)
    <3>1. \A x : x \in In(tree, D) => x \in Node /\ x # n
      BY <1>2, InTreeIs
    <3> QED
      BY <2>3, <2>4, <3>1 DEF Stays
  <2> QED
    BY <1>6, <2>5, <2>6
<1> QED
  BY <1>5, <1>6

\* A turn of the loop that looks for the place.
LEMMA DescendHolds ==
    ASSUME NEW D, Holds(D), Descend
    PROVE  \E E : /\ Holds(E)'
                  /\ \/ tree' = tree /\ E = D
                     \/ /\ Grown(tree, D, tree', E, node) /\ Key(tree', node) = Key(tree, node)
                        /\ node \in Node /\ node \notin In(tree, D)
<1>1. Descends(D) /\ step = "descend" /\ Descending(tree, D, node, temp)
  BY IdleOnly DEF Descend, Descends
<1>2. PICK s : s = Toward(tree, node, temp)
  OBVIOUS
<1>3. Turn = s
  BY <1>2 DEF Turn, Toward, Key
<1>4. CASE Child(tree, s, temp) # Sentinel
  <2>1. tree' = tree /\ step' = "descend" /\ node' = node /\ temp' = Child(tree, s, temp)
    BY <1>1, <1>3, <1>4 DEF Descend, Child
  <2>2. Descending(tree, D, node, temp')
    BY <1>1, <1>2, <1>4, <2>1, DescendDown
  <2>3. Holds(D)'
    BY <2>1, <2>2 DEF Holds, Descends
  <2> QED
    BY <2>1, <2>3
<1>5. CASE Child(tree, s, temp) = Sentinel
  <2>1. /\ tree' = [Leaf(tree, node, temp, TRUE) EXCEPT !.child[s][temp] = node]
        /\ step' = "insert" /\ node' = node /\ temp' = Null
    BY <1>1, <1>3, <1>5 DEF Descend, Child
  <2>2. Leafed(tree, node, temp, s, tree')
    BY <2>1 DEF Leafed
  <2>3. \E E, G : /\ Conflict(tree', E, G, node) /\ ~Red(tree', Root(tree'))
                  /\ Grown(tree, D, tree', E, node) /\ Key(tree', node) = Key(tree, node)
    BY <1>1, <1>2, <1>5, <2>2, DescendLinks
  <2>4. PICK E : /\ \E G : Conflict(tree', E, G, node)
                 /\ ~Red(tree', Root(tree'))
                 /\ Grown(tree, D, tree', E, node) /\ Key(tree', node) = Key(tree, node)
    BY <2>3
  <2>5. Holds(E)'
    BY <2>1, <2>4 DEF Holds, Inserts
  <2>6. node \in Node /\ node \notin In(tree, D)
    BY <1>1 DEF Descending
  <2> QED
    BY <2>4, <2>5, <2>6
<1> QED
  BY <1>4, <1>5

\* A turn of the loop that rebalances an insertion.
LEMMA InsertFixupHolds ==
    ASSUME NEW D, Holds(D), InsertFixup
    PROVE  \E E : Holds(E)' /\ Stays(tree, D, tree', E)
<1>1. Inserts(D) /\ step = "insert" /\ step' = "insert" /\ temp = Null /\ temp' = Null
  BY IdleOnly DEF InsertFixup, Inserts
<1>2. node # Root(tree) /\ Red(tree, Parent(tree, node))
  BY DEF InsertFixup, RedParent, Root, Red, Parent
<1>3. PICK H : Conflict(tree, D, H, node)
  BY <1>1 DEF Inserts
<1>4. PICK p : p = Parent(tree, node)
  OBVIOUS
<1>5. PICK g : g = Parent(tree, p)
  OBVIOUS
<1>6. PICK s : s = Hangs(tree, p)
  OBVIOUS
<1>7. PICK w : w = Child(tree, Other(s), g)
  OBVIOUS
<1>8. PICK k : k = IF node = Child(tree, Other(s), p) THEN p ELSE node
  OBVIOUS
<1>9. PICK a : a = IF node = Child(tree, Other(s), p) THEN Rotate(tree, p, s) ELSE tree
  OBVIOUS
<1>10. PICK q : q = Parent(a, k)
  OBVIOUS
<1>11. PICK h : h = Parent(a, q)
  OBVIOUS
<1>12. IF tree.red[w]
       THEN tree' = Lifted(tree, p, w, g) /\ node' = g
       ELSE /\ tree' = Rotate(Painted(Painted(a, q, FALSE), h, TRUE), h, Other(s))
            /\ node' = k
  BY <1>4, <1>5, <1>6, <1>7, <1>8, <1>9, <1>10, <1>11
     DEF InsertFixup, Parent, Child
<1>13. /\ Red(tree, w) => tree' = Lifted(tree, p, w, g) /\ node' = g
       /\ ~Red(tree, w) => Exchanged(a, q, h, Other(s), tree') /\ node' = k
  BY <1>12 DEF Red, Exchanged
<1>14. /\ node = Child(tree, Other(s), p) => k = p /\ Rotated(tree, p, s, a)
       /\ node # Child(tree, Other(s), p) => k = node /\ a = tree
  BY <1>8, <1>9 DEF Rotated
<1>15. Red(tree, Root(tree)) => node = Root(tree)
  BY <1>1 DEF Inserts
<1>16. PICK r, m : r = tree' /\ m = node'
  OBVIOUS
<1>17. \E E, G : /\ Conflict(r, E, G, m) /\ Kept(tree, D, r, E)
                 /\ Red(r, Root(r)) => m = Root(r)
  BY <1>2, <1>3, <1>4, <1>5, <1>6, <1>7, <1>10, <1>11, <1>13, <1>14, <1>15, <1>16,
     FixupConflict
<1>18. PICK E : /\ \E G : Conflict(r, E, G, m)
                /\ Kept(tree, D, r, E) /\ (Red(r, Root(r)) => m = Root(r))
  BY <1>17
<1>19. Holds(E)'
  BY <1>1, <1>16, <1>18 DEF Holds, Inserts
<1>20. Stays(tree, D, tree', E)
  BY <1>16, <1>18, KeptStays, HoldsSound
<1> QED
  BY <1>19, <1>20

\* The end of an insertion.
LEMMA InsertDoneHolds ==
    ASSUME NEW D, Holds(D), InsertDone
    PROVE  Holds(D)' /\ Stays(tree, D, tree', D)
<1>1. /\ Inserts(D) /\ step = "insert" /\ step' = "idle" /\ temp = Null /\ temp' = Null
      /\ node' = Null
  BY IdleOnly DEF InsertDone, Inserts
<1>2. node = Root(tree) \/ ~Red(tree, Parent(tree, node))
  BY DEF InsertDone, RedParent, Root, Red, Parent
<1>3. PICK H : Conflict(tree, D, H, node)
  BY <1>1 DEF Inserts
<1>4. Blackened(tree, Root(tree), tree')
  BY DEF InsertDone, Blackened, Root
<1>5. Kept(tree, D, tree', D) /\ Fine(tree', D)
  BY <1>2, <1>3, <1>4, InsertDoneFine
<1>6. Holds(D)'
  BY <1>1, <1>5 DEF Holds, Idle
<1> QED
  BY <1>5, <1>6, KeptStays, HoldsSound

\* ngx_rbtree_delete, up to its loop.
LEMMA DeleteHolds ==
    ASSUME NEW D, Holds(D), NEW n, Delete(n)
    PROVE  \E E : Holds(E)' /\ n \in In(tree, D) /\ Shrunk(tree, D, tree', E, n)
<1>1. Idle(D) /\ step = "idle" /\ n \in InTree /\ node = Null /\ temp = Null
  BY IdleOnly DEF Delete, Idle
<1>2. Fine(tree, D) /\ n \in In(tree, D)
  BY <1>1, InTreeIs DEF Idle
<1>3. PICK z : z = Subst(tree, n)
  OBVIOUS
<1>4. PICK x : x = OnlyChild(tree, z)
  OBVIOUS
<1>5. /\ node' = node
      /\ z = Root(tree) =>
             /\ tree' = Forgotten([tree EXCEPT !.root = x, !.red[x] = FALSE], n)
             /\ step' = step /\ temp' = temp
      /\ z # Root(tree) =>
             /\ tree' = Forgotten(Unlinked(tree, n), n)
             /\ Red(tree, z) => step' = step /\ temp' = temp
             /\ ~Red(tree, z) => step' = "delete" /\ temp' = x
  BY <1>3, <1>4 DEF Delete, Root, Red
<1>6. PICK u : u = tree'
  OBVIOUS
<1>7. /\ z = Root(tree) => Uprooted(tree, n, x, u)
      /\ z # Root(tree) => u = Forgotten(Unlinked(tree, n), n)
  BY <1>5, <1>6 DEF Uprooted
<1>8. PICK E : /\ Shrunk(tree, D, u, E, n)
               /\ z = Root(tree) \/ Red(tree, z) => Fine(u, E)
               /\ z # Root(tree) /\ ~Red(tree, z) => Pending(u, E, x)
  BY <1>2, <1>3, <1>4, <1>7, DeletedTree
<1>9. Holds(E)'
  <2>1. CASE z = Root(tree) \/ Red(tree, z)
    BY <1>1, <1>5, <1>6, <1>8, <2>1 DEF Holds, Idle
  <2>2. CASE z # Root(tree) /\ ~Red(tree, z)
    BY <1>1, <1>5, <1>6, <1>8, <2>2 DEF Holds, Deletes
  <2> QED
    BY <2>1, <2>2
<1> QED
  BY <1>2, <1>6, <1>8, <1>9

\* A turn of the loop that rebalances a deletion.
LEMMA DeleteFixupHolds ==
    ASSUME NEW D, Holds(D), DeleteFixup
    PROVE  \E E : Holds(E)' /\ Stays(tree, D, tree', E)
<1>1. Deletes(D) /\ step = "delete" /\ step' = "delete" /\ node = Null /\ node' = Null
  BY IdleOnly DEF DeleteFixup, Deletes
<1>2. Pending(tree, D, temp) /\ temp # Root(tree) /\ ~Red(tree, temp)
  BY <1>1 DEF DeleteFixup, Deletes, Root, Red
<1>3. PICK p : p = Parent(tree, temp)
  OBVIOUS
<1>4. PICK s : s = Hangs(tree, temp)
  OBVIOUS
<1>5. PICK v : v = Child(tree, Other(s), p)
  OBVIOUS
<1>6. PICK a : a = IF tree.red[v]
                   THEN Rotate(Painted(Painted(tree, v, FALSE), p, TRUE), p, s)
                   ELSE tree
  OBVIOUS
<1>7. PICK w : w = Child(a, Other(s), p)
  OBVIOUS
<1>8. PICK near, far : near = Child(a, s, w) /\ far = Child(a, Other(s), w)
  OBVIOUS
<1>9. PICK b : b = IF a.red[far] THEN a
                   ELSE Rotate(Painted(Painted(a, near, FALSE), w, TRUE), w, Other(s))
  OBVIOUS
<1>10. PICK y : y = Child(b, Other(s), p)
  OBVIOUS
<1>11. PICK z : z = Child(b, Other(s), y)
  OBVIOUS
<1>12. Repay(a, p, s)
  BY <1>3, <1>4, <1>5, <1>6 DEF DeleteFixup, Parent, Child
<1>13. IF ~a.red[Left(a, w)] /\ ~a.red[Right(a, w)]
       THEN tree' = Painted(a, w, TRUE) /\ temp' = p
       ELSE tree' = Repaid(b, p, s) /\ temp' = Repaid(b, p, s).root
  BY <1>7, <1>8, <1>9, <1>12 DEF Repay, Child
<1>14. \/ near = Left(a, w) /\ far = Right(a, w)
       \/ near = Right(a, w) /\ far = Left(a, w)
  <2>1. s = "left" \/ s = "right"
    BY <1>4, HangsSide DEF Side
  <2> QED
    BY <1>8, <2>1, Sides, LeftIs
<1>15. PICK r, k : r = tree' /\ k = temp'
  OBVIOUS
<1>16. /\ ~Red(a, near) /\ ~Red(a, far) => Reddened(a, w, r) /\ k = p
       /\ Red(a, near) \/ Red(a, far) => Settled(b, y, p, z, s, r) /\ k = Root(r)
  <2>1. Settled(b, y, p, z, s, Repaid(b, p, s))
    BY <1>10, <1>11 DEF Settled, Repaid, Child
  <2> QED
    BY <1>13, <1>14, <1>15, <2>1 DEF Red, Root, Reddened
<1>17. /\ Red(tree, v) => Exchanged(tree, v, p, s, a)
       /\ ~Red(tree, v) => a = tree
       /\ Red(a, far) => b = a
       /\ ~Red(a, far) => Exchanged(a, near, w, Other(s), b)
  BY <1>6, <1>9 DEF Red, Exchanged
<1>18. PICK E : Kept(tree, D, r, E) /\ Pending(r, E, k)
  BY <1>2, <1>3, <1>4, <1>5, <1>7, <1>8, <1>10, <1>11, <1>16, <1>17, FixupPending
<1>19. Holds(E)'
  BY <1>1, <1>15, <1>18 DEF Holds, Deletes
<1>20. Stays(tree, D, tree', E)
  BY <1>15, <1>18, KeptStays, HoldsSound
<1> QED
  BY <1>19, <1>20

\* The end of a deletion.
LEMMA DeleteDoneHolds ==
    ASSUME NEW D, Holds(D), DeleteDone
    PROVE  Holds(D)' /\ Stays(tree, D, tree', D)
<1>1. /\ Deletes(D) /\ step = "delete" /\ step' = "idle" /\ node = Null /\ node' = Null
      /\ temp' = Null
  BY IdleOnly DEF DeleteDone, Deletes
<1>2. Pending(tree, D, temp) /\ (temp = Root(tree) \/ Red(tree, temp))
  BY <1>1 DEF DeleteDone, Deletes, Root, Red
<1>3. Blackened(tree, temp, tree')
  BY DEF DeleteDone, Blackened
<1>4. Kept(tree, D, tree', D) /\ Fine(tree', D)
  BY <1>2, <1>3, DeleteDoneFine
<1>5. Holds(D)'
  BY <1>1, <1>4 DEF Holds, Idle
<1> QED
  BY <1>4, <1>5, KeptStays, HoldsSound

-----------------------------------------------------------------------------
(***************************************************************************)
(* The invariant holds; the type, the links and the order.                 *)
(***************************************************************************)

\* What a step does to the nodes and their keys.
Stepped(D, E) ==
    \/ \E n \in Node, k \in Keys :
          /\ n \notin In(tree, D)
          /\ Grown(tree, D, tree', E, n) /\ Key(tree', n) = k
    \/ \E n \in Node : n \in In(tree, D) /\ Shrunk(tree, D, tree', E, n)
    \/ Stays(tree, D, tree', E)

\* A tree that is not touched stays.
LEMMA StaysSame ==
    ASSUME NEW t, NEW D
    PROVE  Stays(t, D, t, D)
  BY DEF Stays

\* Every step keeps the invariant, and is a put, a removal or neither.
LEMMA NextHolds ==
    ASSUME NEW D, Holds(D), Next
    PROVE  \E E : Holds(E)' /\ Stepped(D, E)
<1>1. ASSUME NEW n \in Node, Delete(n)
      PROVE  \E E : Holds(E)' /\ Stepped(D, E)
  BY <1>1, DeleteHolds DEF Stepped
<1>2. ASSUME NEW n \in Node, NEW k \in KeysOf[n], Insert(n, k)
      PROVE  \E E : Holds(E)' /\ Stepped(D, E)
  <2>1. PICK E : /\ Holds(E)'
                 /\ Root(tree) = Sentinel =>
                       Grown(tree, D, tree', E, n) /\ Key(tree', n) = k /\ k \in Keys
                 /\ Root(tree) # Sentinel => Stays(tree, D, tree', E)
    BY <1>2, InsertHolds
  <2>2. n \notin In(tree, D)
    BY <1>2, InTreeIs DEF Insert
  <2>3. Stepped(D, E)
    BY <2>1, <2>2 DEF Stepped
  <2> QED
    BY <2>1, <2>3
<1>3. ASSUME Descend PROVE \E E : Holds(E)' /\ Stepped(D, E)
  <2>1. PICK E : /\ Holds(E)'
                 /\ \/ tree' = tree /\ E = D
                    \/ /\ Grown(tree, D, tree', E, node) /\ Key(tree', node) = Key(tree, node)
                       /\ node \in Node /\ node \notin In(tree, D)
    BY <1>3, DescendHolds
  <2>2. CASE tree' = tree /\ E = D
    BY <2>1, <2>2, StaysSame DEF Stepped
  <2>3. CASE /\ Grown(tree, D, tree', E, node) /\ Key(tree', node) = Key(tree, node)
             /\ node \in Node /\ node \notin In(tree, D)
    <3>1. Key(tree, node) \in Keys
      BY <2>3, HoldsSound, TreeFields DEF Keys
    <3>2. Stepped(D, E)
      BY <2>3, <3>1 DEF Stepped
    <3> QED
      BY <2>1, <3>2
  <2> QED
    BY <2>1, <2>2, <2>3
<1>4. ASSUME InsertFixup PROVE \E E : Holds(E)' /\ Stepped(D, E)
  BY <1>4, InsertFixupHolds DEF Stepped
<1>5. ASSUME InsertDone PROVE \E E : Holds(E)' /\ Stepped(D, E)
  BY <1>5, InsertDoneHolds DEF Stepped
<1>6. ASSUME DeleteFixup PROVE \E E : Holds(E)' /\ Stepped(D, E)
  BY <1>6, DeleteFixupHolds DEF Stepped
<1>7. ASSUME DeleteDone PROVE \E E : Holds(E)' /\ Stepped(D, E)
  BY <1>7, DeleteDoneHolds DEF Stepped
<1> QED
  BY <1>1, <1>2, <1>3, <1>4, <1>5, <1>6, <1>7 DEF Next, Loop

\* A stuttering step keeps the invariant.
LEMMA SameHolds ==
    ASSUME NEW D, Holds(D), UNCHANGED rbVars
    PROVE  Holds(D)'
<1>1. tree' = tree /\ step' = step /\ node' = node /\ temp' = temp
  BY DEF rbVars
<1> QED
  BY <1>1 DEF Holds, Idle, Descends, Inserts, Deletes

\* The inductive invariant: in every state of every operation the fields are
\* a search tree of sound colours, but for what that operation has in hand.
THEOREM RBInvHolds == Spec => []RBInv
<1>1. Init => RBInv
  BY InitHolds DEF RBInv
<1>2. RBInv /\ [Next]_rbVars => RBInv'
  <2> SUFFICES ASSUME RBInv, [Next]_rbVars PROVE RBInv'
    OBVIOUS
  <2>1. PICK D : Holds(D)
    BY DEF RBInv
  <2>2. CASE Next
    BY <2>1, <2>2, NextHolds DEF RBInv
  <2>3. CASE UNCHANGED rbVars
    BY <2>1, <2>3, SameHolds DEF RBInv
  <2> QED
    BY <2>2, <2>3
<1> QED
  BY <1>1, <1>2, PTL DEF Spec

\* The invariant implies the type.
LEMMA HoldsTypeOK ==
    ASSUME NEW D, Holds(D)
    PROVE  RBTypeOK
<1>1. tree \in Trees /\ D \in Subtrees /\ Shape(tree, D)
  BY HoldsSound
<1>2. InTree = In(tree, D) /\ InTree \subseteq Node
  BY InTreeIs
<1>3. /\ tree.root \in Node \cup {Sentinel}
      /\ tree.parent \in [Node \cup {Sentinel} -> Node \cup {Sentinel, Null}]
      /\ tree.red \in [Node \cup {Sentinel} -> BOOLEAN]
      /\ tree.key \in [Node -> 0..(Msecs - 1)]
  <2>1. Cell = Node \cup {Sentinel} /\ Place = Node \cup {Sentinel, Null}
    BY DEF Cell, Place
  <2> QED
    BY <1>1, <2>1 DEF Trees, Parents
<1>4. \A n \in InTree, s \in Side : tree.child[s][n] \in Node \cup {Sentinel}
  <2>1. \A n, s : n \in InTree /\ s \in Side => Child(tree, s, n) \in Cell
    BY <1>1, <1>2, ShapeFacts
  <2> QED
    BY <2>1 DEF Child, Cell
<1>5. /\ step \in {"idle", "descend", "insert", "delete"}
      /\ node \in Node \cup {Null} /\ temp \in Node \cup {Sentinel, Null}
  <2>1. Idle(D) => node = Null /\ temp = Null
    BY DEF Idle
  <2>2. Descends(D) => node \in Node /\ temp \in Node
    BY <1>2 DEF Descends, Descending
  <2>3. Inserts(D) => node \in Node /\ temp = Null
    BY <1>2 DEF Inserts, Conflict
  <2>4. Deletes(D) => node = Null /\ temp \in Node \cup {Sentinel}
    BY DEF Deletes, Pending, Cell
  <2> QED
    BY <2>1, <2>2, <2>3, <2>4, HoldsSound DEF Holds
<1> QED
  BY <1>3, <1>4, <1>5 DEF RBTypeOK

\* Every field has its type, and what is in the tree links to nodes or to the
\* sentinel, however often the tree is rotated.
THEOREM RBTypeOKHolds == Spec => []RBTypeOK
<1>1. RBInv => RBTypeOK
  BY HoldsTypeOK DEF RBInv
<1> QED
  BY <1>1, RBInvHolds, PTL

\* The invariant implies that the links agree.
LEMMA HoldsLinked ==
    ASSUME NEW D, Holds(D)
    PROVE  Linked
<1>1. tree \in Trees /\ D \in Subtrees /\ Shape(tree, D)
  BY HoldsSound
<1>2. InTree = In(tree, D) /\ InTree \subseteq Node
  BY InTreeIs
<1>3. ASSUME NEW n \in InTree, NEW s \in Side, tree.child[s][n] # Sentinel
      PROVE  tree.parent[tree.child[s][n]] = n
  <2>1. Child(tree, s, n) # Sentinel
    BY <1>3 DEF Child
  <2>2. Child(tree, s, n) \in Node
    BY <1>1, <1>2, <2>1, ShapeFacts, Cells
  <2>3. Parent(tree, Child(tree, s, n)) = n
    BY <1>1, <1>2, <2>2, ShapeFacts
  <2> QED
    BY <2>3 DEF Parent, Child
<1>4. ASSUME NEW n \in InTree \ {tree.root}
      PROVE  /\ tree.parent[n] \in InTree
             /\ Cardinality({s \in Side : tree.child[s][tree.parent[n]] = n}) = 1
  <2>1. n \in In(tree, D) /\ n # Root(tree)
    BY <1>2 DEF Root
  <2>2. PICK p, h : p = Parent(tree, n) /\ h = Hangs(tree, n)
    OBVIOUS
  <2>3. /\ p \in In(tree, D) /\ h \in Side
        /\ Child(tree, h, p) = n /\ Child(tree, Other(h), p) # n
    BY <1>1, <2>1, <2>2, HangsFacts
  <2>4. \A s : s \in Side => (Child(tree, s, p) = n <=> s = h)
    BY <2>3, Sides
  <2>5. {s \in Side : tree.child[s][tree.parent[n]] = n} = {h}
    <3>1. {s \in Side : Child(tree, s, p) = n} = {h}
      BY <2>3, <2>4
    <3> QED
      BY <2>2, <3>1 DEF Child, Parent
  <2> QED
    BY <1>2, <2>2, <2>3, <2>5, FS_Singleton DEF Parent
<1>5. ASSUME NEW n \in InTree
      PROVE  tree.root \notin {Left(tree, n), Right(tree, n)}
  <2>1. \A s : s \in Side => Child(tree, s, n) # Root(tree)
    <3>1. Root(tree) \in Node
      BY <1>1, <1>2, <1>5, SubIs DEF In
    <3> QED
      BY <1>1, <1>2, <1>5, <3>1, OnePlace
  <2> QED
    BY <2>1, Sides, LeftIs DEF Root
<1> QED
  BY <1>3, <1>4, <1>5 DEF Linked

\* The links down and up agree, in the middle of every operation too, and
\* every node but the root hangs in one place.
THEOREM LinkedHolds == Spec => []Linked
<1>1. RBInv => Linked
  BY HoldsLinked DEF RBInv
<1> QED
  BY <1>1, RBInvHolds, PTL

\* The invariant implies that the keys are in order.
LEMMA HoldsOrdered ==
    ASSUME NEW D, Holds(D)
    PROVE  Ordered
<1>1. tree \in Trees /\ D \in Subtrees /\ Shape(tree, D) /\ Order(tree, D)
  BY HoldsSound
<1>2. InTree = In(tree, D) /\ InTree \subseteq Node
  BY InTreeIs
<1>3. PICK l, r \in Side : l = "left" /\ r = "right" /\ l # r
  BY Sides
<1>4. \A n : n \in InTree => Child(tree, l, n) \in Place /\ Child(tree, r, n) \in Place
  BY <1>1, <1>2, <1>3, ShapeFacts, Cells
<1>5. \A n : n \in InTree => /\ Below(tree, Left(tree, n)) = Sub(D, Child(tree, l, n))
                             /\ Below(tree, Right(tree, n)) = Sub(D, Child(tree, r, n))
  BY <1>1, <1>3, <1>4, BelowIsSub, LeftIs
<1>6. \A n, m : n \in InTree /\ m \in Below(tree, Left(tree, n))
                  => ~Before(Key(tree, n), Key(tree, m))
  <2>1. \A n, m : n \in InTree /\ m \in Below(tree, Left(tree, n))
                     => Sorted(l, Key(tree, m), Key(tree, n))
    BY <1>1, <1>2, <1>3, <1>5 DEF Order
  <2> QED
    BY <1>3, <2>1 DEF Sorted, Upto
<1>7. \A n, m : n \in InTree /\ m \in Below(tree, Right(tree, n))
                  => ~Before(Key(tree, m), Key(tree, n))
  <2>1. \A n, m : n \in InTree /\ m \in Below(tree, Right(tree, n))
                     => Sorted(r, Key(tree, m), Key(tree, n))
    BY <1>1, <1>2, <1>3, <1>5 DEF Order
  <2> QED
    BY <1>3, <2>1 DEF Sorted, Upto
<1> QED
  BY <1>6, <1>7 DEF Ordered, Key, Before, Queue!Before

\* At every moment no node is before one to the left of it, nor one to the
\* right of it before it, whatever the clock, and whatever keys coincide.
THEOREM OrderedHolds == Spec => []Ordered
<1>1. RBInv => Ordered
  BY HoldsOrdered DEF RBInv
<1> QED
  BY <1>1, RBInvHolds, PTL

-----------------------------------------------------------------------------
(***************************************************************************)
(* Every way down from a node passes as many blacks.                       *)
(***************************************************************************)

\* The black that a running deletion owes on side s of x.
Owes(x, s) ==
    IF /\ step = "delete" /\ temp = tree.child[s][x]
       /\ tree.parent[temp] = x /\ Hangs(tree, temp) = s
    THEN 1 ELSE 0

\* What is owed, in terms of Child and Parent.
LEMMA OwesIs ==
    \A x, s : Owes(x, s) =
        IF /\ step = "delete" /\ temp = Child(tree, s, x)
           /\ Parent(tree, temp) = x /\ Hangs(tree, temp) = s
        THEN 1 ELSE 0
  BY DEF Owes, Child, Parent

\* A height for every node, which differs by what Blacks counts.
Leveled(D, H) ==
    \A x, s : x \in In(tree, D) /\ s \in Side =>
        BH(H, x) = BH(H, Child(tree, s, x)) + Weight(tree, x) + Owes(x, s)

\* Where nothing is owed, the heights are those of a level tree.
LEMMA FreeLeveled ==
    ASSUME NEW D, Holds(D), NEW H \in Heights, Level(tree, In(tree, D), H, Null,
        NoSide),
           \A x, s : x \in In(tree, D) /\ s \in Side => Owes(x, s) = 0
    PROVE  Leveled(D, H)
<1>1. In(tree, D) \subseteq Node
  BY InTreeIs
<1> SUFFICES ASSUME NEW x, NEW s, x \in In(tree, D), s \in Side
             PROVE  BH(H, x) = BH(H, Child(tree, s, x)) + Weight(tree, x) + Owes(x, s)
  BY DEF Leveled
<1>2. BH(H, x) = BH(H, Child(tree, s, x)) + Weight(tree, x) + Debt(Null, NoSide, x, s)
  BY DEF Level, LevelAt
<1>3. Debt(Null, NoSide, x, s) = 0 /\ Owes(x, s) = 0
  BY <1>1, NoDebt
<1> QED
  BY <1>2, <1>3

\* Where a deletion owes a black, they are those of a tree that lacks it.
LEMMA OwedLeveled ==
    ASSUME NEW D, Holds(D), step = "delete", NEW H \in Heights, NEW p, NEW d,
           Level(tree, In(tree, D), H, p, d), d \in Side,
           temp = Child(tree, d, p), Parent(tree, temp) = p, Hangs(tree, temp) = d
    PROVE  Leveled(D, H)
<1> SUFFICES ASSUME NEW x, NEW s, x \in In(tree, D), s \in Side
             PROVE  BH(H, x) = BH(H, Child(tree, s, x)) + Weight(tree, x) + Owes(x, s)
  BY DEF Leveled
<1>1. BH(H, x) = BH(H, Child(tree, s, x)) + Weight(tree, x) + Debt(p, d, x, s)
  BY DEF Level, LevelAt
<1>2. Owes(x, s) = IF x = p /\ s = d THEN 1 ELSE 0
  BY OwesIs
<1> QED
  BY <1>1, <1>2 DEF Debt

\* The invariant gives each node a height.
LEMMA HoldsLeveled ==
    ASSUME NEW D, Holds(D)
    PROVE  \E H \in Heights : Leveled(D, H)
<1>1. tree \in Trees /\ D \in Subtrees /\ Shape(tree, D) /\ ~Red(tree, Sentinel)
  BY HoldsSound DEF Sound
<1>2. In(tree, D) \subseteq Node
  BY InTreeIs
<1>3. CASE step # "delete"
  <2>1. \E H \in Heights : Level(tree, In(tree, D), H, Null, NoSide)
    BY <1>3 DEF Holds, Idle, Descends, Inserts, Deletes, Descending, Fine, Conflict
  <2>2. \A x, s : x \in In(tree, D) /\ s \in Side => Owes(x, s) = 0
    BY <1>3, OwesIs
  <2> QED
    BY <2>1, <2>2, FreeLeveled
<1>4. CASE step = "delete"
  <2>1. Pending(tree, D, temp)
    BY <1>4, IdleOnly DEF Deletes
  <2>2. CASE temp = Root(tree)
    <3>1. temp \in Node /\ \E H \in Heights : Level(tree, In(tree, D), H, Null, NoSide)
      BY <2>1, <2>2 DEF Pending
    <3>2. \A x, s : x \in In(tree, D) /\ s \in Side => Child(tree, s, x) # temp
      BY <1>1, <1>2, <2>2, <3>1, OnePlace
    <3>3. \A x, s : x \in In(tree, D) /\ s \in Side => Owes(x, s) = 0
      BY <3>2, OwesIs
    <3> QED
      BY <3>1, <3>3, FreeLeveled
  <2>3. CASE temp # Root(tree) /\ Red(tree, temp)
    <3>1. PICK H, p, d :
              /\ H \in Heights /\ p \in In(tree, D) /\ d \in Side
              /\ temp = Child(tree, d, p) /\ Parent(tree, temp) = p
              /\ Level(tree, In(tree, D), H, p, d)
      BY <2>1, <2>3 DEF Pending
    <3>2. temp \in Node
      BY <1>1, <2>1, <2>3, Cells DEF Pending
    <3>3. Hangs(tree, temp) = d
      BY <1>1, <1>2, <3>1, <3>2, OnePlace
    <3> QED
      BY <1>4, <3>1, <3>3, OwedLeveled
  <2>4. CASE temp # Root(tree) /\ ~Red(tree, temp)
    <3>1. PICK p, d : p = Parent(tree, temp) /\ d = Hangs(tree, temp)
      OBVIOUS
    <3>2. PICK H : Owing(tree, D, H, p, d, temp)
      BY <2>1, <2>4, <3>1, PendingOwing
    <3>3. /\ H \in Heights /\ d \in Side /\ temp = Child(tree, d, p)
          /\ Level(tree, In(tree, D), H, p, d)
      BY <3>2 DEF Owing
    <3> QED
      BY <1>4, <3>1, <3>3, OwedLeveled
  <2> QED
    BY <2>2, <2>3, <2>4
<1> QED
  BY <1>3, <1>4

\* What Blacks counts from x on, if b says it of the nodes below x.
Ways(b, x) ==
    IF x = Sentinel THEN {0}
    ELSE UNION {{(IF tree.red[x] THEN 0 ELSE 1) + Owes(x, s) + w : w \in b[tree.child[s][x]]} :
                   s \in Side}

\* If both ways from a node weigh the same, the node has one height.
LEMMA SameWays ==
    ASSUME NEW b, NEW x, x # Sentinel, NEW h,
           \A s : s \in Side => \E w : /\ b[Child(tree, s, x)] = {w}
                                       /\ h = Weight(tree, x) + Owes(x, s) + w
    PROVE  Ways(b, x) = {h}
<1>1. Ways(b, x) = UNION {{Weight(tree, x) + Owes(x, s) + w : w \in b[Child(tree, s, x)]} :
                             s \in Side}
  BY DEF Ways, Weight, Red, Child
<1>2. ASSUME NEW s \in Side
      PROVE  {Weight(tree, x) + Owes(x, s) + w : w \in b[Child(tree, s, x)]} = {h}
  <2>1. PICK w : b[Child(tree, s, x)] = {w} /\ h = Weight(tree, x) + Owes(x, s) + w
    OBVIOUS
  <2> QED
    BY <2>1
<1>3. Side # {}
  BY DEF Side
<1> QED
  BY <1>1, <1>2, <1>3

\* Blacks counts one height below every node, and it is the one given.
LEMMA BlacksIs ==
    ASSUME NEW D, Holds(D), NEW H \in Heights, Leveled(D, H)
    PROVE  \A n : n \in In(tree, D) \cup {Sentinel} => Blacks(n) = {BH(H, n)}
<1>1. tree \in Trees /\ D \in Subtrees /\ Shape(tree, D)
  BY HoldsSound
<1>2. InTree = In(tree, D) /\ In(tree, D) \subseteq Node
  BY InTreeIs
<1>3. BH(H, Sentinel) = 0 /\ Sentinel \notin Node /\ \A x : BH(H, x) \in Nat
  BY HeightsIs, Cells
<1>4. \A x, s : x \in In(tree, D) /\ s \in Side
         => /\ Child(tree, s, x) \in In(tree, D) \cup {Sentinel}
            /\ BH(H, x) = Weight(tree, x) + Owes(x, s) + BH(H, Child(tree, s, x))
  <2> SUFFICES ASSUME NEW x, NEW s, x \in In(tree, D), s \in Side
               PROVE  /\ Child(tree, s, x) \in In(tree, D) \cup {Sentinel}
                      /\ BH(H, x) = Weight(tree, x) + Owes(x, s) + BH(H, Child(tree, s, x))
    OBVIOUS
  <2>1. Child(tree, s, x) \in Cell
    BY <1>1, <1>2, ShapeFacts
  <2>2. Child(tree, s, x) \in Node => Child(tree, s, x) \in In(tree, D)
    <3>1. Child(tree, s, x) \in Node => Child(tree, s, x) \in Sub(D, Child(tree, s, x))
      BY <1>1, ShapeFacts
    <3> QED
      BY <1>1, <3>1, BelowIn
  <2>3. BH(H, x) = BH(H, Child(tree, s, x)) + Weight(tree, x) + Owes(x, s)
    BY DEF Leveled
  <2>4. Weight(tree, x) \in Nat /\ Owes(x, s) \in Nat /\ BH(H, Child(tree, s, x)) \in Nat
    BY <1>3, WeightIs, OwesIs
  <2> QED
    BY <2>1, <2>2, <2>3, <2>4, Cells
<1> DEFINE dom == In(tree, D) \cup {Sentinel}
           f == [x \in dom |-> {BH(H, x)}]
<1>5. \A x \in dom : f[x] = {BH(H, x)}
  OBVIOUS
<1>6. ASSUME NEW x \in dom PROVE f[x] = Ways(f, x)
  <2>1. CASE x = Sentinel
    BY <1>3, <1>5, <2>1 DEF Ways
  <2>2. CASE x # Sentinel
    <3> HIDE DEF f
    <3>1. x \in In(tree, D)
      BY <2>2
    <3>2. \A s : s \in Side => \E w : /\ f[Child(tree, s, x)] = {w}
                                      /\ BH(H, x) = Weight(tree, x) + Owes(x, s) + w
      BY <1>4, <1>5, <3>1
    <3>3. Ways(f, x) = {BH(H, x)}
      BY <2>2, <3>2, SameWays
    <3> QED
      BY <1>5, <3>3
  <2> QED
    BY <2>1, <2>2
<1>7. f = [x \in dom |-> Ways(f, x)]
  <2>1. f = [x \in dom |-> f[x]]
    OBVIOUS
  <2> HIDE DEF f
  <2> QED
    BY <1>6, <2>1
<1> HIDE DEF f
<1>8. \E b : b = [x \in InTree \cup {Sentinel} |-> Ways(b, x)]
  BY <1>2, <1>7
<1>9. PICK b : /\ b = [x \in InTree \cup {Sentinel} |-> Ways(b, x)]
               /\ \A n : Blacks(n) = b[n]
  BY <1>8 DEF Blacks, Ways, Owes
<1>10. \A x \in dom : b[x] = Ways(b, x)
  BY <1>2, <1>9, Zenon
<1> DEFINE S == {x \in Node : x \in In(tree, D) => b[x] = {BH(H, x)}}
<1>11. b[Sentinel] = {BH(H, Sentinel)}
  BY <1>3, <1>10 DEF Ways
<1>12. ASSUME NEW x \in Node, \A s \in Side : Child(tree, s, x) \in Node => Child(tree, s, x) \in S
       PROVE  x \in S
  <2> SUFFICES ASSUME x \in In(tree, D) PROVE b[x] = {BH(H, x)}
    OBVIOUS
  <2>1. \A s : s \in Side => b[Child(tree, s, x)] = {BH(H, Child(tree, s, x))}
    BY <1>2, <1>4, <1>11, <1>12
  <2> HIDE DEF S
  <2>2. x # Sentinel
    BY <1>3
  <2>3. Ways(b, x) = {BH(H, x)}
    BY <1>4, <2>1, <2>2, SameWays
  <2> QED
    BY <1>10, <2>3
<1> HIDE DEF S
<1>13. Node \subseteq S
  BY <1>1, <1>12, SubtreeInduction
<1> QED
  BY <1>2, <1>9, <1>11, <1>13 DEF S

\* The invariant implies the colours.
LEMMA HoldsColoured ==
    ASSUME NEW D, Holds(D)
    PROVE  Coloured
<1>1. tree \in Trees /\ D \in Subtrees /\ Shape(tree, D) /\ ~Red(tree, Sentinel)
  BY HoldsSound DEF Sound
<1>2. InTree = In(tree, D) /\ InTree \subseteq Node
      /\ (Root(tree) # Sentinel => Root(tree) \in InTree)
  BY InTreeIs
<1>3. Cardinality(Blacks(tree.root)) = 1
  <2>1. PICK H \in Heights : Leveled(D, H)
    BY HoldsLeveled
  <2>2. Blacks(Root(tree)) = {BH(H, Root(tree))}
    BY <1>2, <2>1, BlacksIs
  <2> QED
    BY <2>2, FS_Singleton DEF Root
<1>4. ASSUME NEW n \in InTree \ {tree.root}, tree.red[n], tree.red[tree.parent[n]]
      PROVE  \/ step = "insert" /\ n = node
             \/ step = "delete" /\ tree.red[temp] /\ temp \in {n, tree.parent[n]}
  <2>1. Clash(tree, n) /\ n \in In(tree, D)
    BY <1>2, <1>4 DEF Clash, Red, Parent, Root
  <2>2. ~Idle(D) /\ ~Descends(D)
    BY <2>1 DEF Idle, Descends, Descending, Fine
  <2>3. Inserts(D) => step = "insert" /\ n = node
    BY <2>1 DEF Inserts, Conflict
  <2>4. Deletes(D) => step = "delete" /\ Red(tree, temp) /\ (temp = n \/ temp = Parent(tree, n))
    BY <2>1 DEF Deletes, Pending
  <2> QED
    BY <2>2, <2>3, <2>4 DEF Holds, Red, Parent
<1>5. step \in {"idle", "descend"} => ~Red(tree, Root(tree))
  BY DEF Holds, Idle, Descends, Inserts, Deletes, Descending, Fine
<1> QED
  BY <1>1, <1>3, <1>4, <1>5 DEF Coloured, Red, Root

\* All ways down have as many black nodes, but for the one that a running
\* deletion carries, and no red node has a red parent, but for the one that a
\* running operation has in hand.
THEOREM ColouredHolds == Spec => []Coloured
<1>1. RBInv => Coloured
  BY HoldsColoured DEF RBInv
<1> QED
  BY <1>1, RBInvHolds, PTL

-----------------------------------------------------------------------------
(***************************************************************************)
(* The tree implements TimerQueue.                                         *)
(***************************************************************************)

\* The queue that a tree stands for.
Nodes(t) == Below(t, t.root)
QueueOf(t) == [n \in Nodes(t) |-> t.key[n]]
FirstOf(t) == IF t.root = Sentinel THEN Sentinel ELSE Min(t, t.root)

\* The two modules' orders of keys are one.
LEMMA QueueBefore ==
    /\ \A j, k : Queue!Before(j, k) <=> Before(j, k)
    /\ \A K : Queue!Together(K) <=> Together(K)
BY DEF Queue!Before, Before, Queue!Together, Together

\* What the tree stands for: its nodes, their keys and the leftmost one.
LEMMA QueueIs ==
    ASSUME NEW t, NEW D, Sound(t, D)
    PROVE  /\ Nodes(t) = In(t, D) /\ Nodes(t) \subseteq Node
           /\ DOMAIN QueueOf(t) = Nodes(t)
           /\ \A n : n \in Nodes(t) => QueueOf(t)[n] = Key(t, n)
           /\ Nodes(t) = {} => FirstOf(t) = Sentinel
           /\ Nodes(t) # {} => IsFirst(t, D, Root(t), FirstOf(t)) /\ Root(t) \in Nodes(t)
<1>1. t \in Trees /\ D \in Subtrees /\ Shape(t, D)
  BY DEF Sound
<1>2. Root(t) \in Cell /\ Root(t) \in Place
  BY <1>1, TreeFields, Cells
<1>3. Nodes(t) = In(t, D)
  BY <1>1, <1>2, BelowIsSub DEF Nodes, In, Root
<1>4. In(t, D) \subseteq Node /\ (Root(t) = Sentinel => In(t, D) = {})
  BY <1>1, SubIs, Cells DEF In
<1>5. Root(t) # Sentinel => Root(t) \in In(t, D) /\ Root(t) \in Node
  BY <1>1, <1>2, Cells, ShapeFacts DEF In
<1>6. FirstOf(t) = IF Root(t) = Sentinel THEN Sentinel ELSE Min(t, Root(t))
  BY DEF FirstOf, Root
<1>7. DOMAIN QueueOf(t) = Nodes(t) /\ \A n : n \in Nodes(t) => QueueOf(t)[n] = Key(t, n)
  BY DEF QueueOf, Key
<1>8. Root(t) # Sentinel => IsFirst(t, D, Root(t), FirstOf(t))
  BY <1>1, <1>5, <1>6, MinIs
<1>9. Nodes(t) = {} => FirstOf(t) = Sentinel
  BY <1>3, <1>5, <1>6
<1> QED
  BY <1>3, <1>4, <1>5, <1>7, <1>8, <1>9

\* The leftmost node is due before all others.
LEMMA FirstAnswers ==
    ASSUME NEW t, NEW D, Sound(t, D)
    PROVE  FirstOf(t) \in Node \cup {Sentinel} /\ Queue!Answers(FirstOf(t), QueueOf(t))
<1>1. /\ t \in Trees /\ D \in Subtrees /\ Shape(t, D) /\ Order(t, D)
      /\ Together(KeysIn(t, In(t, D)))
  BY DEF Sound
<1>2. /\ Nodes(t) = In(t, D) /\ Nodes(t) \subseteq Node
      /\ DOMAIN QueueOf(t) = Nodes(t)
      /\ \A n : n \in Nodes(t) => QueueOf(t)[n] = Key(t, n)
      /\ Nodes(t) = {} => FirstOf(t) = Sentinel
      /\ Nodes(t) # {} => IsFirst(t, D, Root(t), FirstOf(t)) /\ Root(t) \in Nodes(t)
  BY QueueIs
<1>3. CASE Nodes(t) = {}
  BY <1>2, <1>3 DEF Queue!Answers
<1>4. CASE Nodes(t) # {}
  <2>1. IsFirst(t, D, Root(t), FirstOf(t)) /\ Root(t) \in In(t, D)
    BY <1>2, <1>4
  <2>2. FirstOf(t) \in Nodes(t)
    BY <1>2, <2>1 DEF IsFirst, In
  <2>3. \A n : n \in Nodes(t) => Upto(Key(t, FirstOf(t)), Key(t, n))
    BY <1>1, <1>2, <2>1, FirstIsEarliest DEF In
  <2>4. \A n \in Nodes(t) : ~Queue!Before(QueueOf(t)[n], QueueOf(t)[FirstOf(t)])
    BY <1>2, <2>2, <2>3, QueueBefore DEF Upto
  <2> QED
    BY <1>2, <1>4, <2>2, <2>4 DEF Queue!Answers
<1> QED
  BY <1>3, <1>4

\* A step that keeps the nodes, their keys and the first one is none of the
\* queue's.
LEMMA StaysQueue ==
    ASSUME NEW t, NEW D, Sound(t, D), NEW u, NEW E, Sound(u, E), Stays(t, D, u, E)
    PROVE  QueueOf(u) = QueueOf(t) /\ FirstOf(u) = FirstOf(t)
<1>1. /\ Nodes(u) = Nodes(t) /\ Nodes(t) = In(t, D) /\ Nodes(t) \subseteq Node
      /\ \A n : n \in Nodes(t) => Key(u, n) = Key(t, n)
  BY QueueIs DEF Stays
<1>2. QueueOf(u) = QueueOf(t)
  BY <1>1 DEF QueueOf, Key
<1>3. CASE Nodes(t) = {}
  BY <1>1, <1>2, <1>3, QueueIs
<1>4. CASE Nodes(t) # {}
  <2>1. IsFirst(t, D, Root(t), FirstOf(t)) /\ IsFirst(u, E, Root(u), FirstOf(u))
    BY <1>1, <1>4, QueueIs
  <2>2. IsFirst(u, E, Root(u), FirstOf(t))
    BY <2>1 DEF Stays
  <2>3. Root(u) \in Node
    BY <1>1, <1>4, QueueIs
  <2>4. FirstOf(u) = FirstOf(t)
    BY <2>1, <2>2, <2>3, OneFirst DEF Sound
  <2> QED
    BY <1>2, <2>4
<1> QED
  BY <1>3, <1>4

\* The queue's own steps.
PutOf(t, u, n, k) ==
    /\ n \in Node /\ k \in Keys /\ n \notin DOMAIN QueueOf(t)
    /\ Queue!Together({QueueOf(t)[m] : m \in DOMAIN QueueOf(t)} \cup {k})
    /\ QueueOf(u) = [m \in DOMAIN QueueOf(t) \cup {n} |-> IF m = n THEN k ELSE QueueOf(t)[m]]
    /\ FirstOf(u) \in Node \cup {Sentinel} /\ Queue!Answers(FirstOf(u), QueueOf(u))

\* The queue's removal of n, between what t and u stand for.
RemoveOf(t, u, n) ==
    /\ n \in Node /\ n \in DOMAIN QueueOf(t)
    /\ QueueOf(u) = [m \in DOMAIN QueueOf(t) \ {n} |-> QueueOf(t)[m]]
    /\ FirstOf(u) \in Node \cup {Sentinel} /\ Queue!Answers(FirstOf(u), QueueOf(u))

\* A node that is added is a put.
LEMMA GrownQueue ==
    ASSUME NEW t, NEW D, Sound(t, D), NEW u, NEW E, Sound(u, E),
           NEW n \in Node, NEW k \in Keys, n \notin In(t, D),
           Grown(t, D, u, E, n), Key(u, n) = k
    PROVE  PutOf(t, u, n, k)
<1>1. /\ Nodes(t) = In(t, D) /\ Nodes(t) \subseteq Node
      /\ DOMAIN QueueOf(t) = Nodes(t)
      /\ \A m : m \in Nodes(t) => QueueOf(t)[m] = Key(t, m)
  BY QueueIs
<1>2. /\ Nodes(u) = Nodes(t) \cup {n}
      /\ \A m : m \in Node /\ m # n => Key(u, m) = Key(t, m)
  BY <1>1, QueueIs DEF Grown
<1>3. QueueOf(u) = [m \in Nodes(u) |-> Key(u, m)]
  BY DEF QueueOf, Key
<1>4. \A m : m \in Nodes(u) => Key(u, m) = IF m = n THEN k ELSE QueueOf(t)[m]
  BY <1>1, <1>2
<1>5. QueueOf(u) = [m \in DOMAIN QueueOf(t) \cup {n} |-> IF m = n THEN k ELSE QueueOf(t)[m]]
  BY <1>1, <1>2, <1>3, <1>4
<1>6. Together({QueueOf(t)[m] : m \in DOMAIN QueueOf(t)} \cup {k})
  <2>1. Together(KeysIn(u, In(u, E)))
    BY DEF Sound
  <2>2. In(u, E) = In(t, D) \cup {n}
    BY DEF Grown
  <2>3. {QueueOf(t)[m] : m \in DOMAIN QueueOf(t)} \cup {k} \subseteq KeysIn(u, In(u, E))
    BY <1>1, <1>2, <2>2 DEF KeysIn
  <2> QED
    BY <2>1, <2>3 DEF Together
<1> QED
  BY <1>1, <1>5, <1>6, FirstAnswers, QueueBefore DEF PutOf

\* A node that is deleted is a removal.
LEMMA ShrunkQueue ==
    ASSUME NEW t, NEW D, Sound(t, D), NEW u, NEW E, Sound(u, E),
           NEW n \in Node, n \in In(t, D), Shrunk(t, D, u, E, n)
    PROVE  RemoveOf(t, u, n)
<1>1. /\ Nodes(t) = In(t, D) /\ Nodes(t) \subseteq Node
      /\ DOMAIN QueueOf(t) = Nodes(t)
      /\ \A m : m \in Nodes(t) => QueueOf(t)[m] = Key(t, m)
  BY QueueIs
<1>2. /\ Nodes(u) = Nodes(t) \ {n}
      /\ \A m : m \in Node /\ m # n => Key(u, m) = Key(t, m)
  BY <1>1, QueueIs DEF Shrunk
<1>3. QueueOf(u) = [m \in Nodes(u) |-> Key(u, m)]
  BY DEF QueueOf, Key
<1>4. \A m : m \in Nodes(u) => Key(u, m) = QueueOf(t)[m]
  BY <1>1, <1>2
<1>5. QueueOf(u) = [m \in DOMAIN QueueOf(t) \ {n} |-> QueueOf(t)[m]]
  BY <1>1, <1>2, <1>3, <1>4
<1> QED
  BY <1>1, <1>5, FirstAnswers DEF RemoveOf

\* HoldsSound, of the next state.
LEMMA HoldsSoundNext ==
    ASSUME NEW E, Holds(E)'
    PROVE  Sound(tree', E)
<1>1. Idle(E)' => Sound(tree', E)
  BY DEF Idle, Fine
<1>2. Descends(E)' => Sound(tree', E)
  BY DEF Descends, Descending, Fine
<1>3. Inserts(E)' => Sound(tree', E)
  BY DEF Inserts, Conflict
<1>4. Deletes(E)' => Sound(tree', E)
  BY DEF Deletes, Pending
<1> QED
  BY <1>1, <1>2, <1>3, <1>4 DEF Holds

\* A put, a removal and a step that does neither are the queue's.
LEMMA QueueSteps ==
    ASSUME NEW t, NEW u, t = tree, u = tree'
    PROVE  /\ \A n, k : PutOf(t, u, n, k) => Queue!Next
           /\ \A n : RemoveOf(t, u, n) => Queue!Next
           /\ QueueOf(u) = QueueOf(t) /\ FirstOf(u) = FirstOf(t) => UNCHANGED Queue!queueVars
<1>1. /\ QueueOf(t) = [n \in InTree |-> tree.key[n]]
      /\ FirstOf(t) = IF tree.root = Sentinel THEN Sentinel ELSE Min(tree, tree.root)
      /\ QueueOf(u) = [n \in InTree |-> tree.key[n]]'
      /\ FirstOf(u) = (IF tree.root = Sentinel THEN Sentinel ELSE Min(tree, tree.root))'
  BY DEF QueueOf, FirstOf, Nodes, InTree
<1>2. ASSUME NEW n, NEW k, PutOf(t, u, n, k)
      PROVE  Queue!Next
  <2>1. n \in Node /\ k \in 0..(Msecs - 1)
    BY <1>2 DEF PutOf, Keys
  <2>2. Queue!Put(n, k)
    BY <1>1, <1>2 DEF PutOf, Queue!Put
  <2> QED
    BY <2>1, <2>2 DEF Queue!Next
<1>3. ASSUME NEW n, RemoveOf(t, u, n)
      PROVE  Queue!Next
  <2>1. n \in Node
    BY <1>3 DEF RemoveOf
  <2>2. Queue!Remove(n)
    BY <1>1, <1>3 DEF RemoveOf, Queue!Remove
  <2> QED
    BY <2>1, <2>2 DEF Queue!Next
<1>4. QueueOf(u) = QueueOf(t) /\ FirstOf(u) = FirstOf(t) => UNCHANGED Queue!queueVars
  BY <1>1 DEF Queue!queueVars
<1> QED
  BY <1>2, <1>3, <1>4

\* The tree is a queue of timers whose first one is due before all others, and
\* an operation is one step of that queue, however often it rebalances.
THEOREM ImplementsQueueHolds == Spec => ImplementsQueue
<1>1. Init => Queue!Init
  <2> SUFFICES ASSUME Init PROVE Queue!Init
    OBVIOUS
  <2>1. PICK D : Holds(D) /\ In(tree, D) = {}
    BY InitHolds
  <2>2. InTree = {} /\ tree.root = Sentinel
    BY <2>1, InTreeIs DEF Root
  <2> QED
    BY <2>2 DEF Queue!Init
<1>2. RBInv /\ [Next]_rbVars => [Queue!Next]_Queue!queueVars
  <2> SUFFICES ASSUME RBInv, [Next]_rbVars PROVE [Queue!Next]_Queue!queueVars
    OBVIOUS
  <2>1. PICK D : Holds(D)
    BY DEF RBInv
  <2>2. PICK t, u : t = tree /\ u = tree'
    OBVIOUS
  <2>3. Sound(t, D)
    BY <2>1, <2>2, HoldsSound
  <2>4. CASE Next
    <3>1. PICK E : Holds(E)' /\ Stepped(D, E)
      BY <2>1, <2>4, NextHolds
    <3>2. Sound(u, E)
      BY <2>2, <3>1, HoldsSoundNext
    <3>3. CASE \E n \in Node, k \in Keys :
                  n \notin In(t, D) /\ Grown(t, D, u, E, n) /\ Key(u, n) = k
      <4>1. PICK n \in Node, k \in Keys :
                    n \notin In(t, D) /\ Grown(t, D, u, E, n) /\ Key(u, n) = k
        BY <3>3
      <4>2. PutOf(t, u, n, k)
        BY <2>3, <3>2, <4>1, GrownQueue
      <4> QED
        BY <2>2, <4>2, QueueSteps
    <3>4. CASE \E n \in Node : n \in In(t, D) /\ Shrunk(t, D, u, E, n)
      <4>1. PICK n \in Node : n \in In(t, D) /\ Shrunk(t, D, u, E, n)
        BY <3>4
      <4>2. RemoveOf(t, u, n)
        BY <2>3, <3>2, <4>1, ShrunkQueue
      <4> QED
        BY <2>2, <4>2, QueueSteps
    <3>5. CASE Stays(t, D, u, E)
      <4>1. QueueOf(u) = QueueOf(t) /\ FirstOf(u) = FirstOf(t)
        BY <2>3, <3>2, <3>5, StaysQueue
      <4> QED
        BY <2>2, <4>1, QueueSteps
    <3> QED
      BY <2>2, <3>1, <3>3, <3>4, <3>5 DEF Stepped
  <2>5. CASE UNCHANGED rbVars
    <3>1. u = t
      BY <2>2, <2>5 DEF rbVars
    <3> QED
      BY <2>2, <3>1, QueueSteps
  <2> QED
    BY <2>4, <2>5
<1> QED
  BY <1>1, <1>2, RBInvHolds, PTL DEF Spec, ImplementsQueue, Queue!Spec
==============================================================================
