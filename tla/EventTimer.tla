----------------------------- MODULE EventTimer ------------------------------
(***************************************************************************)
(* The timers of src/ngx_event_timer.c and src/ngx_event_timer.h as the    *)
(* event loop of src/test.c uses them.  A connection that sleeps between   *)
(* two requests has its timer in a tree ordered by expiry time; the loop   *)
(* sleeps in epoll_wait() no longer than until the earliest key and then   *)
(* takes every expired timer out of the tree.                              *)
(*                                                                         *)
(* Time is ngx_current_msec: an unsigned word that wraps around, compared  *)
(* by the sign of differences.  The tree is the set of its nodes: what     *)
(* ngx_rbtree_min() finds is a node no other node is less than.            *)
(*                                                                         *)
(* A connection can leave its sleep without its timer being deleted        *)
(* (close_connection() does not call ngx_del_timer()), and ngx_add_timer() *)
(* keeps a timer that is still set when the new expiry time is close to    *)
(* the old.  The clock is the wall clock, which may be set back or forward, *)
(* and it is read once for a whole batch of events, whose handlers take    *)
(* time.  How long a connection then really sleeps is the question.        *)
(***************************************************************************)
EXTENDS Integers, FiniteSets

CONSTANTS
    Conn,       \* the connections
    Msecs,      \* 2^64: the values of ngx_msec_t
    IntMod,     \* 2^32: the values of the int epoll_wait() takes
    LazyDelay,  \* NGX_TIMER_LAZY_DELAY
    SleepTimes, \* what sleep_min and sleep_max allow, in milliseconds
    Late,       \* how late epoll_wait() may return after its timeout
    MaxBack,    \* bound: by how much the clock is set back, all in all
    MaxAhead,   \* bound: by how much it is set forward in one epoll_wait()
    Busy        \* bound: the time between two readings of the clock, but for
                \* epoll_wait()

ASSUME TimerConnAssumption == IsFiniteSet(Conn)
\* A sleep fits the int of epoll_wait() and, with the lateness, the lazy delay,
\* the time a batch takes and what the clock is set back or forward, less than
\* half of the word: what the sign of a difference needs.
ASSUME TimeAssumption ==
    /\ Msecs \in Nat \ {0} /\ IntMod \in Nat /\ LazyDelay \in Nat \ {0} /\ Late \in Nat
    /\ MaxBack \in Nat /\ MaxAhead \in Nat /\ Busy \in Nat
    /\ Msecs % 2 = 0 /\ SleepTimes \subseteq Nat \ {0}
    /\ \A t \in SleepTimes :
          /\ 2 * (t + MaxBack) < IntMod
          /\ 2 * (t + MaxBack + MaxAhead + Busy + Late + LazyDelay) < Msecs

VARIABLES
    ngx_current_msec,
    tree,        \* the connections whose timer is in ngx_event_timer_rbtree
    key,         \* c->timer.key
    timer_set,   \* c->timer_set
    idle,        \* c->state is ST_IDLE
    left,        \* history: what really is left of the sleep it asked for
    over,        \* history: by how much the clock was set back in that sleep
    under,       \* history: by how much it was behind when the sleep was asked
                 \* for, and was set forward since
    back,        \* history: by how much it was set back since the start
    lag,         \* the time since the clock was read, but for epoll_wait()
    pass         \* where the loop is

timerVars == <<ngx_current_msec, tree, key, timer_set, idle, left, over, under,
               back, lag, pass>>

histories == <<left, over, under, back, lag>>

Msec == 0..(Msecs - 1)

\* (ngx_msec_int_t) (a - b).
Diff(a, b) ==
    LET d == (a - b) % Msecs IN IF 2 * d >= Msecs THEN d - Msecs ELSE d

\* Mutant: a word that does not wrap around.
Later_NoWrap(t) == ngx_current_msec + t

\* ngx_current_msec + timer, on an unsigned word.
Later(t) == (ngx_current_msec + t) % Msecs

\* ngx_abs().
ngx_abs(n) == IF n >= 0 THEN n ELSE -n

\* ngx_rbtree_min(): by the comparison ngx_rbtree_insert_timer_value() makes.
Earliest(c) == c \in tree /\ \A d \in tree : Diff(key[d], key[c]) >= 0

Infinite == -1

\* Mutant: the root instead of the leftmost node.
FindTimer_Root ==
    IF tree = {} THEN {Infinite}
    ELSE {LET timer == Diff(key[c], ngx_current_msec)
          IN  IF timer > 0 THEN timer ELSE 0 : c \in tree}

\* ngx_event_find_timer().
FindTimer ==
    IF tree = {} THEN {Infinite}
    ELSE {LET timer == Diff(key[c], ngx_current_msec)
          IN  IF timer > 0 THEN timer ELSE 0 : c \in {d \in tree : Earliest(d)}}

\* What epoll_wait() makes of the 64-bit wait_time: negative is no timeout.
AsInt(t) ==
    LET i == t % IntMod IN IF 2 * i >= IntMod THEN Infinite ELSE i

-----------------------------------------------------------------------------
\* Nothing is set before the first ngx_time_update(), so that where the clock
\* starts makes no difference.
Init ==
    /\ ngx_current_msec = 0
    /\ tree = {}
    /\ key = [c \in Conn |-> 0]
    /\ timer_set = [c \in Conn |-> FALSE]
    /\ idle = [c \in Conn |-> FALSE]
    /\ left = [c \in Conn |-> 0]
    /\ over = [c \in Conn |-> 0] /\ under = [c \in Conn |-> 0]
    /\ back = 0 /\ lag = 0
    /\ pass = "wait"

\* ngx_time_update() after elapsed milliseconds in epoll_wait().  It finds the
\* wall clock set back by b or forward by f, whenever that was done since it was
\* last read.
TimeUpdate(elapsed, b, f) ==
    /\ back + b =< MaxBack /\ back' = back + b
    /\ ngx_current_msec' = Later(lag + elapsed + f - b)
    /\ lag' = 0
    /\ left' = [c \in Conn |-> IF idle[c] THEN left[c] - elapsed ELSE left[c]]
    /\ over' = [c \in Conn |-> IF idle[c] THEN over[c] + b ELSE over[c]]
    /\ under' = [c \in Conn |-> IF idle[c] THEN under[c] + f ELSE under[c]]

\* delta is not zero.
Moved(elapsed, b, f) == lag + elapsed + f # b

Longest == CHOOSE t \in SleepTimes : \A u \in SleepTimes : u =< t

\* epoll_wait() returns with events.  Elapsed is bounded by the timeout, or by
\* the longest sleep where there is none.
WaitEvents ==
    /\ pass = "wait"
    /\ \E w \in FindTimer, b \in 0..MaxBack, f \in 0..MaxAhead :
          LET limit == IF AsInt(w) = Infinite THEN Longest ELSE AsInt(w)
          IN  \E elapsed \in 0..(limit + Late) :
                 /\ TimeUpdate(elapsed, b, f)
                 /\ pass' = IF Moved(elapsed, b, f) THEN "events and timers"
                            ELSE "events"
    /\ UNCHANGED <<tree, key, timer_set, idle>>

\* It returns without events after its timeout.
WaitTimeout ==
    /\ pass = "wait"
    /\ \E w \in FindTimer, b \in 0..MaxBack, f \in 0..MaxAhead :
          /\ AsInt(w) # Infinite
          /\ \E elapsed \in AsInt(w)..(AsInt(w) + Late) :
                /\ TimeUpdate(elapsed, b, f)
                /\ pass' = IF w = 0 \/ Moved(elapsed, b, f) THEN "timers" ELSE "wait"
    /\ UNCHANGED <<tree, key, timer_set, idle>>

\* The loop and its handlers take time: the clock is not read again before the
\* next epoll_wait() returns.
Work ==
    /\ \E e \in 1..(Busy - lag) :
          /\ lag' = lag + e
          /\ left' = [c \in Conn |-> IF idle[c] THEN left[c] - e ELSE left[c]]
    /\ UNCHANGED <<ngx_current_msec, tree, key, timer_set, idle, over, under, back,
                   pass>>

\* c asks for a sleep of t.
Ask(c, t) ==
    /\ idle' = [idle EXCEPT ![c] = TRUE]
    /\ left' = [left EXCEPT ![c] = t]
    /\ over' = [over EXCEPT ![c] = 0] /\ under' = [under EXCEPT ![c] = lag]

\* Mutant: only a new expiry time that is earlier is compared with the delay.
AddTimer_NoAbs(c, t) ==
    /\ Ask(c, t)
    /\ IF timer_set[c] /\ Diff(Later(t), key[c]) < LazyDelay
       THEN UNCHANGED <<tree, key, timer_set>>
       ELSE /\ key' = [key EXCEPT ![c] = Later(t)]
            /\ tree' = tree \cup {c}
            /\ timer_set' = [timer_set EXCEPT ![c] = TRUE]

\* handle_after_request() of c asks for a sleep of t.  ngx_add_timer() keeps a
\* timer that is set and near, or else takes it out and inserts the new one.
AddTimer(c, t) ==
    /\ Ask(c, t)
    /\ IF timer_set[c] /\ ngx_abs(Diff(Later(t), key[c])) < LazyDelay
       THEN UNCHANGED <<tree, key, timer_set>>
       ELSE /\ key' = [key EXCEPT ![c] = Later(t)]
            /\ tree' = (IF timer_set[c] THEN tree \ {c} ELSE tree) \cup {c}
            /\ timer_set' = [timer_set EXCEPT ![c] = TRUE]

InEvents == pass \in {"events", "events and timers"}

\* A response is complete and the connection goes to sleep.
Sleep(c) ==
    /\ InEvents
    /\ ~idle[c]
    /\ \E t \in SleepTimes : AddTimer(c, t)
    /\ UNCHANGED <<ngx_current_msec, back, lag, pass>>

\* The end of a sleep, and of its history.
Awake(c) ==
    /\ idle' = [idle EXCEPT ![c] = FALSE]
    /\ left' = [left EXCEPT ![c] = 0]
    /\ over' = [over EXCEPT ![c] = 0] /\ under' = [under EXCEPT ![c] = 0]

\* close_connection() of a sleeping connection, which is reconnected or not:
\* the timer stays where it is.
Close(c) ==
    /\ InEvents
    /\ idle[c]
    /\ Awake(c)
    /\ UNCHANGED <<ngx_current_msec, tree, key, timer_set, back, lag, pass>>

\* Mutant: the clock's progress is not looked at after events.
EventsDone_NoTimers ==
    /\ InEvents
    /\ pass' = "wait"
    /\ UNCHANGED <<ngx_current_msec, tree, key, timer_set, idle, histories>>

\* The end of the batch.
EventsDone ==
    /\ InEvents
    /\ pass' = IF pass = "events" THEN "wait" ELSE "timers"
    /\ UNCHANGED <<ngx_current_msec, tree, key, timer_set, idle, histories>>

\* Mutant: the expired timer stays marked as set.
Expire_StaysSet(c) ==
    /\ pass = "timers"
    /\ Earliest(c)
    /\ Diff(key[c], ngx_current_msec) =< 0
    /\ tree' = tree \ {c} /\ key' = [key EXCEPT ![c] = 0]
    /\ Awake(c)
    /\ UNCHANGED <<ngx_current_msec, timer_set, back, lag, pass>>

\* ngx_event_expire_timers() takes out the earliest timer if it has expired;
\* handle_timer_event() ends the sleep if the connection is in one.  The tree's
\* deletion clears the key.
Expire(c) ==
    /\ pass = "timers"
    /\ Earliest(c)
    /\ Diff(key[c], ngx_current_msec) =< 0
    /\ tree' = tree \ {c} /\ key' = [key EXCEPT ![c] = 0]
    /\ timer_set' = [timer_set EXCEPT ![c] = FALSE]
    /\ Awake(c)
    /\ UNCHANGED <<ngx_current_msec, back, lag, pass>>

ExpireDone ==
    /\ pass = "timers"
    /\ \A c \in Conn : Earliest(c) => Diff(key[c], ngx_current_msec) > 0
    /\ pass' = "wait"
    /\ UNCHANGED <<ngx_current_msec, tree, key, timer_set, idle, histories>>

Next ==
    \/ WaitEvents \/ WaitTimeout \/ EventsDone \/ ExpireDone \/ Work
    \/ \E c \in Conn : Sleep(c) \/ Close(c) \/ Expire(c)

Spec == Init /\ [][Next]_timerVars

-----------------------------------------------------------------------------
\* Every variable has its type.
TimerTypeOK ==
    /\ ngx_current_msec \in Msec
    /\ tree \in SUBSET Conn
    /\ key \in [Conn -> Msec]
    /\ timer_set \in [Conn -> BOOLEAN]
    /\ idle \in [Conn -> BOOLEAN]
    /\ left \in [Conn -> Int] /\ over \in [Conn -> Nat] /\ under \in [Conn -> Nat]
    /\ back \in 0..MaxBack /\ lag \in 0..Busy
    /\ pass \in {"wait", "events", "events and timers", "timers"}

\* c->timer_set says whether the node is in the tree: ngx_rbtree_delete() is
\* never called on a node outside it, nor an insertion on one inside, however
\* a timer outlives the sleep it was set for.
TimerSetInTree == \A c \in Conn : timer_set[c] <=> c \in tree

\* The queue the timers are kept in, and the node ngx_rbtree_min() finds.
Timers == INSTANCE TimerQueue WITH
    Node <- Conn,
    None <- Infinite,
    queue <- [c \in tree |-> key[c]],
    first <- IF tree = {} THEN Infinite ELSE CHOOSE c \in tree : Earliest(c)

\* The timers are used as RBTree provides them, and only so: no node is inserted
\* twice or deleted from outside, no key is inserted that is not near all of
\* those that are there, none changes while its node is queued, and the node
\* whose key is waited for is due before all others.
UsesQueue == Timers!MoveSpec

\* When the loop computes its timeout every timer lies ahead, by no more than
\* a sleep and what the clock was set back: nobody is overdue, and all keys are
\* within the half word in which the tree's comparison by sign is an order.
AllTimersAhead ==
    pass = "wait" =>
        \A c \in tree : \E t \in SleepTimes :
            Diff(key[c], ngx_current_msec) \in 1..(t + back)

\* The timer that will wake a sleeping connection is set, and is due within
\* NGX_TIMER_LAZY_DELAY of what is really left of its sleep: later only by as
\* much as the clock was set back in that sleep, not in an earlier one that the
\* timer was left from, and earlier only by as much as it was set forward, or was
\* behind when the sleep was asked for late in a batch.
WakeNearDue ==
    \A c \in Conn : idle[c] =>
        /\ c \in tree
        /\ ngx_abs(Diff(key[c], ngx_current_msec)
                      - (left[c] + lag + over[c] - under[c])) < LazyDelay

\* A connection is woken less than LazyDelay before its time, beyond what the
\* clock was set forward while it slept and was behind when the sleep began; and
\* less than LazyDelay after it, beyond the lateness of epoll_wait(), what the
\* clock was set back while it slept and the time of two batches.
SleepsAsAsked ==
    [][\A c \in Conn : pass = "timers" /\ idle[c] /\ ~idle'[c] =>
          /\ left[c] < LazyDelay + under[c]
          /\ 0 - left[c] < LazyDelay + Late + over[c] + 2 * Busy]_timerVars
=============================================================================
