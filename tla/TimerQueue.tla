----------------------------- MODULE TimerQueue ------------------------------
(***************************************************************************)
(* What the timers need of their tree: a set of nodes, each with the key   *)
(* it was given, and one of the earliest of them.  And what the tree needs *)
(* of them: keys so near each other that there is an earliest.             *)
(***************************************************************************)
EXTENDS Integers

CONSTANTS
    Node,   \* the nodes that may be queued
    Msecs,  \* the number of values of a key
    None    \* no node

VARIABLES
    queue,  \* the key of each queued node
    first   \* a node that is due before all others, or None

queueVars == <<queue, first>>

\* j comes before k on a clock of Msecs values that wraps around.
Before(j, k) == 2 * ((j - k) % Msecs) >= Msecs

\* Keys within half of the word of each other.
Together(K) ==
    \E b \in 0..(Msecs - 1) : \A k \in K : 2 * ((k - b) % Msecs) < Msecs

\* first answers for queue q.
Answers(f, q) ==
    IF DOMAIN q = {} THEN f = None
    ELSE f \in DOMAIN q /\ \A n \in DOMAIN q : ~Before(q[n], q[f])

Init == queue = [n \in {} |-> 0] /\ first = None

Put(n, k) ==
    /\ n \notin DOMAIN queue
    /\ queue' = [m \in DOMAIN queue \cup {n} |-> IF m = n THEN k ELSE queue[m]]
    /\ Together({queue[m] : m \in DOMAIN queue} \cup {k})
    /\ first' \in Node \cup {None} /\ Answers(first', queue')

Remove(n) ==
    /\ n \in DOMAIN queue
    /\ queue' = [m \in DOMAIN queue \ {n} |-> queue[m]]
    /\ first' \in Node \cup {None} /\ Answers(first', queue')

Next == \E n \in Node : Remove(n) \/ \E k \in 0..(Msecs - 1) : Put(n, k)

Spec == Init /\ [][Next]_queueVars

\* Remove(n) and Put(n, k) with nothing in between.
Move(n, k) ==
    /\ n \in DOMAIN queue
    /\ queue' = [queue EXCEPT ![n] = k]
    /\ Together({queue[m] : m \in DOMAIN queue \ {n}} \cup {k})
    /\ first' \in Node \cup {None} /\ Answers(first', queue')

\* The queue as a caller sees it that takes a node out to put it in again.
MoveNext == Next \/ \E n \in Node, k \in 0..(Msecs - 1) : Move(n, k)

MoveSpec == Init /\ [][MoveNext]_queueVars
=============================================================================
