--------------------------- MODULE EventTimerProofs ---------------------------
(***************************************************************************)
(* Theorems about EventTimer, for any connections, any width of the words  *)
(* and any sleeps.                                                         *)
(***************************************************************************)
EXTENDS EventTimer, WellFoundedInduction, TLAPS

LEMMA Sizes ==
    /\ Msecs \in Nat \ {0} /\ MaxBack \in Nat /\ MaxAhead \in Nat /\ Busy \in Nat
    /\ \A t \in SleepTimes : t \in Nat
BY TimeAssumption

\* A word holds what is reduced modulo its size.
LEMMA MsecIsWord == 0 \in Msec /\ \A t \in Int : t % Msecs \in Msec
<1>1. Msecs \in Nat /\ Msecs > 0 /\ 0 \in Msec
  BY Sizes DEF Msec
<1>2. ASSUME NEW t \in Int PROVE t % Msecs \in Msec
  BY <1>1 DEF Msec
<1>3. QED
  BY <1>1, <1>2

-----------------------------------------------------------------------------
(***************************************************************************)
(* The two invariants are inductive together.                              *)
(***************************************************************************)
TInv == TimerTypeOK /\ TimerSetInTree

LEMMA InitTInv == Init => TInv
<1> SUFFICES ASSUME Init PROVE TInv
  OBVIOUS
<1>1. 0 \in Msec /\ 0 \in 0..MaxBack /\ 0 \in 0..Busy
  BY MsecIsWord, Sizes
<1>2. TimerTypeOK
  BY <1>1 DEF Init, TimerTypeOK
<1>3. TimerSetInTree
  BY DEF Init, TimerSetInTree
<1>4. QED
  BY <1>2, <1>3 DEF TInv

LEMMA UpdateKeeps ==
    ASSUME TimerTypeOK, NEW elapsed \in Int, NEW b \in 0..MaxBack,
           NEW f \in 0..MaxAhead, TimeUpdate(elapsed, b, f)
    PROVE  /\ ngx_current_msec' \in Msec
           /\ left' \in [Conn -> Int] /\ over' \in [Conn -> Nat]
           /\ under' \in [Conn -> Nat]
           /\ back' \in 0..MaxBack /\ lag' \in 0..Busy
<1>0. /\ ngx_current_msec \in Msec /\ back \in 0..MaxBack /\ lag \in 0..Busy
      /\ left \in [Conn -> Int] /\ over \in [Conn -> Nat] /\ under \in [Conn -> Nat]
  BY DEF TimerTypeOK
<1>1. ngx_current_msec \in Int /\ b \in Nat /\ f \in Nat /\ lag \in Nat
  BY <1>0, Sizes DEF Msec
<1>2. ngx_current_msec' \in Msec
  <2>1. ngx_current_msec + (lag + elapsed + f - b) \in Int
    BY <1>1
  <2> QED
    BY <2>1, MsecIsWord DEF TimeUpdate, Later
<1>3. back' \in 0..MaxBack /\ lag' \in 0..Busy
  BY Sizes, <1>0, <1>1 DEF TimeUpdate
<1>4. left' \in [Conn -> Int]
  BY <1>0 DEF TimeUpdate
<1>5. over' \in [Conn -> Nat]
  BY <1>0, <1>1 DEF TimeUpdate
<1>6. under' \in [Conn -> Nat]
  BY <1>0, <1>1 DEF TimeUpdate
<1>7. QED
  BY <1>2, <1>3, <1>4, <1>5, <1>6

LEMMA WorkKeeps ==
    ASSUME TimerTypeOK, Work
    PROVE  left' \in [Conn -> Int] /\ lag' \in 0..Busy
<1>1. lag \in 0..Busy /\ left \in [Conn -> Int] /\ Busy \in Nat
  BY Sizes DEF TimerTypeOK
<1>2. PICK e \in 1..(Busy - lag) :
         /\ lag' = lag + e
         /\ left' = [c \in Conn |-> IF idle[c] THEN left[c] - e ELSE left[c]]
  BY DEF Work
<1>3. lag' \in 0..Busy
  BY <1>1, <1>2
<1>4. e \in Int
  OBVIOUS
<1>5. left' \in [Conn -> Int]
  BY <1>1, <1>2, <1>4
<1> QED
  BY <1>3, <1>5

LEMMA AwakeKeeps ==
    ASSUME TimerTypeOK, NEW c \in Conn, Awake(c)
    PROVE  /\ idle' \in [Conn -> BOOLEAN]
           /\ left' \in [Conn -> Int] /\ over' \in [Conn -> Nat]
           /\ under' \in [Conn -> Nat]
<1>1. idle' \in [Conn -> BOOLEAN]
  BY DEF TimerTypeOK, Awake
<1>2. left' \in [Conn -> Int]
  <2>1. left \in [Conn -> Int]
    BY DEF TimerTypeOK
  <2>2. QED
    BY <2>1 DEF Awake
<1>3. over' \in [Conn -> Nat]
  BY DEF TimerTypeOK, Awake
<1>4. under' \in [Conn -> Nat]
  BY DEF TimerTypeOK, Awake
<1>5. QED
  BY <1>1, <1>2, <1>3, <1>4

\* ngx_add_timer(), which takes a timer that is set out before it goes back in.
LEMMA AddKeeps ==
    ASSUME TInv, NEW c \in Conn, NEW t \in SleepTimes, AddTimer(c, t)
    PROVE  /\ TimerSetInTree'
           /\ tree' \in SUBSET Conn /\ key' \in [Conn -> Msec]
           /\ timer_set' \in [Conn -> BOOLEAN] /\ idle' \in [Conn -> BOOLEAN]
           /\ left' \in [Conn -> Int] /\ over' \in [Conn -> Nat]
           /\ under' \in [Conn -> Nat]
<1>0. TimerTypeOK
  BY DEF TInv
<1>a. ngx_current_msec \in Msec
  BY <1>0 DEF TimerTypeOK
<1>1. t \in Nat /\ ngx_current_msec \in Int
  BY <1>a, Sizes DEF Msec
<1>2. Later(t) \in Msec
  BY <1>1, MsecIsWord DEF Later
<1>3. idle' \in [Conn -> BOOLEAN]
  BY <1>0 DEF AddTimer, Ask, TimerTypeOK
<1>6. /\ left' \in [Conn -> Int] /\ over' \in [Conn -> Nat]
      /\ under' \in [Conn -> Nat]
  <2>1. left \in [Conn -> Int] /\ lag \in 0..Busy
    BY <1>0 DEF TimerTypeOK
  <2>2. over \in [Conn -> Nat]
    BY <1>0 DEF TimerTypeOK
  <2>3. under \in [Conn -> Nat]
    BY <1>0 DEF TimerTypeOK
  <2>4. under' \in [Conn -> Nat]
    BY <2>1, <2>3, Sizes DEF AddTimer, Ask
  <2>5. QED
    BY <1>1, <2>1, <2>2, <2>4 DEF AddTimer, Ask
<1>4. /\ tree' \in SUBSET Conn /\ key' \in [Conn -> Msec]
      /\ timer_set' \in [Conn -> BOOLEAN]
  BY <1>0, <1>2 DEF AddTimer, TimerTypeOK
<1>5. TimerSetInTree'
  <2>1. CASE UNCHANGED <<tree, timer_set>>
    BY <2>1 DEF TInv, TimerSetInTree
  <2>2. CASE /\ tree' = tree \cup {c}
             /\ timer_set' = [timer_set EXCEPT ![c] = TRUE]
    BY <2>2 DEF TInv, TimerTypeOK, TimerSetInTree
  <2>3. tree' = (IF timer_set[c] THEN tree \ {c} ELSE tree) \cup {c}
          => tree' = tree \cup {c}
    OBVIOUS
  <2>4. QED
    BY <2>1, <2>2, <2>3 DEF AddTimer
<1>7. QED
  BY <1>3, <1>4, <1>5, <1>6

LEMMA NextTInv == TInv /\ [Next]_timerVars => TInv'
<1> SUFFICES ASSUME TInv, [Next]_timerVars PROVE TInv'
  OBVIOUS
<1>0. TimerTypeOK /\ TimerSetInTree
  BY DEF TInv
<1>1. CASE WaitEvents
  <2>1. PICK elapsed \in Int, b \in 0..MaxBack, f \in 0..MaxAhead :
           TimeUpdate(elapsed, b, f)
    <3>1. \A m : 0..m \subseteq Int
      OBVIOUS
    <3>2. QED
      BY <1>1, <3>1, Zenon DEF WaitEvents
  <2>2. /\ pass' \in {"events and timers", "events"}
        /\ UNCHANGED <<tree, key, timer_set, idle>>
    BY <1>1 DEF WaitEvents
  <2>3. QED
    BY <1>0, <2>1, <2>2, UpdateKeeps DEF TInv, TimerTypeOK, TimerSetInTree
<1>2. CASE WaitTimeout
  <2>1. PICK elapsed \in Int, b \in 0..MaxBack, f \in 0..MaxAhead :
           TimeUpdate(elapsed, b, f)
    BY <1>2 DEF WaitTimeout
  <2>2. pass' \in {"timers", "wait"} /\ UNCHANGED <<tree, key, timer_set, idle>>
    BY <1>2 DEF WaitTimeout
  <2>3. QED
    BY <1>0, <2>1, <2>2, UpdateKeeps DEF TInv, TimerTypeOK, TimerSetInTree
<1>3. CASE EventsDone \/ ExpireDone
  BY <1>0, <1>3
     DEF EventsDone, ExpireDone, InEvents, histories, TInv, TimerTypeOK,
         TimerSetInTree
<1>4. ASSUME NEW c \in Conn, Sleep(c) PROVE TInv'
  <2>1. PICK t \in SleepTimes : AddTimer(c, t)
    BY <1>4 DEF Sleep
  <2>2. UNCHANGED <<ngx_current_msec, back, lag, pass>>
    BY <1>4 DEF Sleep
  <2>3. QED
    BY <1>0, <2>1, <2>2, AddKeeps DEF TInv, TimerTypeOK
<1>5. ASSUME NEW c \in Conn, Close(c) PROVE TInv'
  <2>1. /\ Awake(c)
        /\ UNCHANGED <<ngx_current_msec, tree, key, timer_set, back, lag, pass>>
    BY <1>5 DEF Close
  <2>2. QED
    BY <1>0, <2>1, AwakeKeeps DEF TInv, TimerTypeOK, TimerSetInTree
<1>6. ASSUME NEW c \in Conn, Expire(c) PROVE TInv'
  <2>1. /\ Awake(c) /\ UNCHANGED <<ngx_current_msec, back, lag, pass>>
        /\ tree' = tree \ {c} /\ key' = [key EXCEPT ![c] = 0]
        /\ timer_set' = [timer_set EXCEPT ![c] = FALSE]
    BY <1>6 DEF Expire
  <2>2. TimerTypeOK'
    BY <1>0, <2>1, AwakeKeeps, MsecIsWord DEF TimerTypeOK
  <2>3. TimerSetInTree'
    BY <1>0, <2>1 DEF TimerTypeOK, TimerSetInTree
  <2>4. QED
    BY <2>2, <2>3 DEF TInv
<1>7. CASE UNCHANGED timerVars
  BY <1>0, <1>7 DEF timerVars, TInv, TimerTypeOK, TimerSetInTree
<1>8. CASE Work
  <2>1. UNCHANGED <<ngx_current_msec, tree, key, timer_set, idle, over, under, back,
                    pass>>
    BY <1>8 DEF Work
  <2>2. QED
    BY <1>0, <1>8, <2>1, WorkKeeps DEF TInv, TimerTypeOK, TimerSetInTree
<1>9. QED
  BY <1>1, <1>2, <1>3, <1>4, <1>5, <1>6, <1>7, <1>8 DEF Next

-----------------------------------------------------------------------------
LEMMA TInvHolds == Spec => []TInv
<1>1. QED
  BY InitTInv, NextTInv, PTL DEF Spec

\* Every variable keeps its type; the clock and the keys stay words.
THEOREM TimerTypeOKHolds == Spec => []TimerTypeOK
<1>1. TInv => TimerTypeOK
  BY DEF TInv
<1>2. QED
  BY <1>1, TInvHolds, PTL

\* timer_set tells whether the node is in the tree, so that no node is inserted
\* twice or deleted from outside, whatever order sleeps, closes, expiries and
\* changes of the clock come in.
THEOREM TimerSetInTreeHolds == Spec => []TimerSetInTree
<1>1. TInv => TimerSetInTree
  BY DEF TInv
<1>2. QED
  BY <1>1, TInvHolds, PTL

-----------------------------------------------------------------------------
(***************************************************************************)
(* Differences on the circle of the clock's word.  As long as they stay    *)
(* within half of it they behave like differences of integers.             *)
(***************************************************************************)
LEMMA WordSum ==
    ASSUME NEW M \in Nat \ {0}, NEW x \in Int, -M =< x, x < 2 * M
    PROVE  x % M = IF x < 0 THEN x + M ELSE IF x < M THEN x ELSE x - M
OBVIOUS

\* d is within the half word whose differences have the right sign.
Short(d) == d \in Int /\ -Msecs < 2 * d /\ 2 * d < Msecs

LEMMA DiffBySign ==
    ASSUME NEW a \in Msec, NEW b \in Msec
    PROVE  /\ Diff(a, b) \in Int
           /\ Diff(a, b) \in {a - b, a - b + Msecs, a - b - Msecs}
           /\ -Msecs =< 2 * Diff(a, b) /\ 2 * Diff(a, b) < Msecs
<1>1. /\ Msecs \in Nat \ {0} /\ a \in Int /\ b \in Int
      /\ 0 =< a /\ a < Msecs /\ 0 =< b /\ b < Msecs
  BY Sizes DEF Msec
<1>2. (a - b) % Msecs = IF a - b < 0 THEN a - b + Msecs
                        ELSE IF a - b < Msecs THEN a - b ELSE a - b - Msecs
  <2> DEFINE x == a - b
  <2>1. x \in Int /\ -Msecs =< x /\ x < 2 * Msecs
    BY <1>1
  <2> HIDE DEF x
  <2>2. x % Msecs = IF x < 0 THEN x + Msecs ELSE IF x < Msecs THEN x ELSE x - Msecs
    BY <1>1, <2>1, WordSum
  <2> QED
    BY <2>2 DEF x
<1> QED
  BY <1>1, <1>2 DEF Diff

LEMMA DiffIs ==
    ASSUME NEW a \in Msec, NEW b \in Msec, NEW d, Short(d),
           d \in {a - b, a - b + Msecs, a - b - Msecs}
    PROVE  Diff(a, b) = d
<1>1. Msecs \in Nat \ {0} /\ a \in Int /\ b \in Int
  BY Sizes DEF Msec
<1> QED
  BY <1>1, DiffBySign DEF Short

LEMMA LaterIs ==
    ASSUME ngx_current_msec \in Msec, NEW t, Short(t)
    PROVE  /\ Later(t) \in Msec
           /\ Later(t) \in {ngx_current_msec + t, ngx_current_msec + t + Msecs,
                            ngx_current_msec + t - Msecs}
           /\ Diff(Later(t), ngx_current_msec) = t
<1>1. /\ Msecs \in Nat \ {0} /\ ngx_current_msec \in Int /\ t \in Int
      /\ 0 =< ngx_current_msec /\ ngx_current_msec < Msecs
      /\ -Msecs < 2 * t /\ 2 * t < Msecs
  BY Sizes DEF Msec, Short
<1>2. ngx_current_msec + t \in Int /\ -Msecs =< ngx_current_msec + t
      /\ ngx_current_msec + t < 2 * Msecs
  BY <1>1
<1>3. Later(t) = IF ngx_current_msec + t < 0 THEN ngx_current_msec + t + Msecs
                 ELSE IF ngx_current_msec + t < Msecs THEN ngx_current_msec + t
                 ELSE ngx_current_msec + t - Msecs
  <2> DEFINE x == ngx_current_msec + t
  <2>1. x \in Int /\ -Msecs =< x /\ x < 2 * Msecs
    BY <1>2
  <2> HIDE DEF x
  <2>2. x % Msecs = IF x < 0 THEN x + Msecs ELSE IF x < Msecs THEN x ELSE x - Msecs
    BY <1>1, <2>1, WordSum
  <2> QED
    BY <1>1, <2>2 DEF x, Later
<1>4. Later(t) \in Msec
  BY <1>1, <1>2, MsecIsWord DEF Later
<1>5. t \in {Later(t) - ngx_current_msec, Later(t) - ngx_current_msec + Msecs,
             Later(t) - ngx_current_msec - Msecs}
  BY <1>1, <1>3
<1>6. Diff(Later(t), ngx_current_msec) = t
  BY <1>4, <1>5, DiffIs
<1> QED
  BY <1>1, <1>3, <1>4, <1>6

\* The clock goes on by e, and a difference from it goes down by e.
LEMMA DiffShifts ==
    ASSUME ngx_current_msec \in Msec, NEW a \in Msec, NEW e, Short(e),
           Short(Diff(a, ngx_current_msec) - e)
    PROVE  Diff(a, Later(e)) = Diff(a, ngx_current_msec) - e
<1> DEFINE n == ngx_current_msec
           d == Diff(a, n)
           l == Later(e)
<1>1. /\ Msecs \in Nat \ {0} /\ a \in Int /\ n \in Int /\ l \in Msec /\ l \in Int
      /\ 0 =< a /\ a < Msecs /\ 0 =< n /\ n < Msecs /\ 0 =< l /\ l < Msecs
  BY Sizes, LaterIs DEF Msec
<1>2. l \in {n + e, n + e + Msecs, n + e - Msecs} /\ e \in Int
  BY LaterIs DEF Short
<1>3. d \in {a - n, a - n + Msecs, a - n - Msecs} /\ d \in Int
  BY DiffBySign
<1>4. -Msecs < 2 * (d - e) /\ 2 * (d - e) < Msecs
  BY DEF Short
<1> HIDE DEF n, d, l
<1>5. d - e \in {a - l, a - l + Msecs, a - l - Msecs}
  BY <1>1, <1>2, <1>3, <1>4
<1>6. Short(d - e)
  BY <1>2, <1>3, <1>4 DEF Short
<1> QED
  BY <1>1, <1>5, <1>6, DiffIs DEF d, l, n

\* The comparison by sign of two keys is that of their distances.
LEMMA DiffCompares ==
    ASSUME ngx_current_msec \in Msec, NEW a \in Msec, NEW b \in Msec,
           Short(Diff(a, ngx_current_msec) - Diff(b, ngx_current_msec))
    PROVE  Diff(a, b) = Diff(a, ngx_current_msec) - Diff(b, ngx_current_msec)
<1> DEFINE n == ngx_current_msec
           d == Diff(a, n)
           f == Diff(b, n)
<1>1. /\ Msecs \in Nat \ {0} /\ a \in Int /\ n \in Int /\ b \in Int
      /\ 0 =< a /\ a < Msecs /\ 0 =< n /\ n < Msecs /\ 0 =< b /\ b < Msecs
  BY Sizes DEF Msec
<1>2. /\ d \in {a - n, a - n + Msecs, a - n - Msecs} /\ d \in Int
      /\ f \in {b - n, b - n + Msecs, b - n - Msecs} /\ f \in Int
  BY DiffBySign
<1>3. Short(d - f)
  OBVIOUS
<1> HIDE DEF n, d, f
<1>4. d - f \in {a - b, a - b + Msecs, a - b - Msecs}
  BY <1>1, <1>2, <1>3 DEF Short
<1>5. Diff(a, b) = d - f
  BY <1>3, <1>4, DiffIs
<1> QED
  BY <1>5 DEF d, f, n

LEMMA LeastNatural ==
    ASSUME NEW S \in SUBSET Nat, S # {}
    PROVE  \E m \in S : \A n \in S : m =< n
<1> DEFINE R == {ss \in Nat \X Nat : ss[1] < ss[2]}
<1>1. IsWellFoundedOn(R, Nat)
  BY NatLessThanWellFounded, Zenon DEF OpToRel
<1>2. \A x, y \in Nat : <<y, x>> \in R <=> y < x
  OBVIOUS
<1> HIDE DEF R
<1>3. \E x \in S : \A y \in S : ~(<<y, x>> \in R)
  BY <1>1, WFMin
<1>4. PICK m \in S : \A n \in S : ~(<<n, m>> \in R)
  BY <1>3
<1>5. \A n \in S : m \in Nat /\ n \in Nat /\ ~(n < m)
  BY <1>2, <1>4
<1> QED
  BY <1>5

-----------------------------------------------------------------------------
(***************************************************************************)
(* Where the timers are.                                                   *)
(***************************************************************************)
\* How far timer c is from the clock.
Ahead(c) == Diff(key[c], ngx_current_msec)

\* What WakeNearDue compares that with.
Owed(c) == left[c] + lag + over[c] - under[c]

\* How far behind the clock a timer may be found.
Overdue == Late + MaxAhead + Busy

\* A timer lies no further behind the clock than that, and no further ahead of
\* it than a sleep and what the clock was set back; and ahead for certain while
\* nothing can have come due.
Placed ==
    \A c \in tree : \E t \in SleepTimes :
        /\ -Overdue =< Ahead(c) /\ Ahead(c) =< t + back
        /\ pass \in {"wait", "events"} => Ahead(c) >= 1

PInv == TInv /\ Placed /\ WakeNearDue

\* What the assumptions on sizes leave room for.
LEMMA Room ==
    ASSUME NEW t \in SleepTimes
    PROVE  /\ Msecs \in Nat \ {0} /\ IntMod \in Nat /\ LazyDelay \in Nat \ {0}
           /\ Late \in Nat /\ MaxBack \in Nat /\ t \in Nat /\ t > 0
           /\ Overdue \in Nat
           /\ 2 * (t + MaxBack) < IntMod
           /\ 2 * (t + MaxBack + Overdue + LazyDelay) < Msecs
BY TimeAssumption DEF Overdue

LEMMA LateIs == /\ Late \in Nat /\ MaxBack \in Nat /\ MaxAhead \in Nat /\ Busy \in Nat
                /\ LazyDelay \in Nat /\ LazyDelay > 0
                /\ IntMod \in Nat /\ Overdue \in Nat
BY TimeAssumption DEF Overdue

LEMMA PlacedIs ==
    ASSUME TInv, Placed, NEW c \in tree
    PROVE  /\ c \in Conn /\ key[c] \in Msec /\ Ahead(c) \in Int /\ back \in Nat
           /\ back =< MaxBack /\ ngx_current_msec \in Msec
           /\ \E t \in SleepTimes : -Overdue =< Ahead(c) /\ Ahead(c) =< t + back
<1>1. /\ c \in Conn /\ key[c] \in Msec /\ ngx_current_msec \in Msec
      /\ back \in 0..MaxBack
  BY DEF TInv, TimerTypeOK
<1> QED
  BY <1>1, DiffBySign, Sizes DEF Ahead, Placed

\* The leftmost timer is the nearest.
LEMMA EarliestIsNearest ==
    ASSUME TInv, Placed, NEW c \in tree
    PROVE  Earliest(c) <=> \A d \in tree : Ahead(c) =< Ahead(d)
<1>1. ASSUME NEW d \in tree
      PROVE  Diff(key[d], key[c]) = Ahead(d) - Ahead(c)
  <2>1. PICK t \in SleepTimes : -Overdue =< Ahead(c) /\ Ahead(c) =< t + back
    BY PlacedIs
  <2>2. PICK u \in SleepTimes : -Overdue =< Ahead(d) /\ Ahead(d) =< u + back
    BY <1>1, PlacedIs
  <2>3. /\ Ahead(c) \in Int /\ Ahead(d) \in Int /\ back \in Nat /\ back =< MaxBack
    BY <1>1, PlacedIs
  <2>4. Short(Ahead(d) - Ahead(c))
    <3>1. /\ 2 * (t + MaxBack + Overdue + LazyDelay) < Msecs /\ t \in Nat
          /\ 2 * (u + MaxBack + Overdue + LazyDelay) < Msecs /\ u \in Nat
          /\ Overdue \in Nat /\ LazyDelay \in Nat /\ MaxBack \in Nat
          /\ Msecs \in Nat
      BY Room
    <3> QED
      BY <2>1, <2>2, <2>3, <3>1 DEF Short
  <2> QED
    BY <1>1, <2>4, PlacedIs, DiffCompares DEF Ahead
<1>2. \A d \in tree : Ahead(c) \in Int /\ Ahead(d) \in Int
  BY PlacedIs
<1> QED
  BY <1>1, <1>2 DEF Earliest

LEMMA SomeEarliest ==
    ASSUME TInv, Placed, tree # {}
    PROVE  \E c \in tree : Earliest(c)
<1> DEFINE S == {Ahead(c) + Overdue : c \in tree}
<1>1. Overdue \in Nat
  BY LateIs
<1>2. \A c \in tree : Ahead(c) \in Int /\ Ahead(c) + Overdue \in Nat
  BY <1>1, PlacedIs
<1>3. S \in SUBSET Nat /\ S # {}
  BY <1>2
<1>4. PICK m \in S : \A n \in S : m =< n
  BY <1>3, LeastNatural
<1>5. PICK c \in tree : m = Ahead(c) + Overdue
  BY <1>4
<1>6. \A d \in tree : Ahead(c) =< Ahead(d)
  <2>1. ASSUME NEW d \in tree PROVE Ahead(c) + Overdue =< Ahead(d) + Overdue
    BY <1>4, <1>5, <2>1
  <2> QED
    BY <1>1, <1>2, <2>1
<1> QED
  BY <1>6, EarliestIsNearest

\* The timeout of epoll_wait() is the distance of the nearest timer.
LEMMA TimeoutIsNearest ==
    ASSUME TInv, Placed, pass = "wait", NEW w \in FindTimer, NEW c \in tree
    PROVE  w \in Nat /\ w >= 1 /\ AsInt(w) = w /\ w =< Ahead(c)
<1>1. w \in {LET timer == Diff(key[d], ngx_current_msec)
             IN  IF timer > 0 THEN timer ELSE 0 : d \in {e \in tree : Earliest(e)}}
  BY DEF FindTimer
<1>2. PICK d \in {e \in tree : Earliest(e)} :
         w = IF Ahead(d) > 0 THEN Ahead(d) ELSE 0
  BY <1>1 DEF Ahead
<1>3. Ahead(d) >= 1
  BY DEF Placed
<1>4. PICK t \in SleepTimes : Ahead(d) =< t + back
  BY PlacedIs
<1>5. Ahead(d) \in Int /\ back \in Nat /\ back =< MaxBack
  BY PlacedIs
<1>6. Ahead(d) =< Ahead(c)
  BY <1>2, EarliestIsNearest
<1>7. /\ IntMod \in Nat /\ MaxBack \in Nat /\ t \in Nat
      /\ 2 * (t + MaxBack) < IntMod
  BY Room
<1>8. w = Ahead(d) /\ w \in Nat /\ 2 * w < IntMod /\ w < IntMod
  BY <1>2, <1>3, <1>4, <1>5, <1>7
<1>9. w % IntMod = w
  BY <1>7, <1>8
<1>10. AsInt(w) = w
  BY <1>7, <1>8, <1>9 DEF AsInt
<1> QED
  BY <1>3, <1>6, <1>8, <1>10

LEMMA HistoryIs ==
    ASSUME TInv, NEW c \in Conn
    PROVE  left[c] \in Int /\ over[c] \in Nat /\ under[c] \in Nat
<1>1. left \in [Conn -> Int]
  BY DEF TInv, TimerTypeOK
<1>2. over \in [Conn -> Nat]
  BY DEF TInv, TimerTypeOK
<1>3. under \in [Conn -> Nat]
  BY DEF TInv, TimerTypeOK
<1> QED
  BY <1>1, <1>2, <1>3

LEMMA LagIs == TInv => lag \in Nat /\ lag =< Busy
<1>1. TInv => lag \in 0..Busy
  BY DEF TInv, TimerTypeOK
<1> QED
  BY <1>1, Sizes

LEMMA BoundsAreNat ==
    /\ \A b \in 0..MaxBack : b \in Nat
    /\ \A f \in 0..MaxAhead : f \in Nat /\ f =< MaxAhead
BY LateIs

\* What a return of epoll_wait() does to a timer: it nears by what the clock has
\* gone on, or was set.
LEMMA TimerNears ==
    ASSUME TInv, Placed, NEW c \in tree, NEW b \in Nat, back + b =< MaxBack,
           NEW delta \in Int, -b =< delta, delta =< Ahead(c) + Overdue
    PROVE  /\ Diff(key[c], Later(delta)) = Ahead(c) - delta
           /\ -Overdue =< Ahead(c) - delta
           /\ \E t \in SleepTimes : Ahead(c) - delta =< t + (back + b)
<1>1. PICK t \in SleepTimes : -Overdue =< Ahead(c) /\ Ahead(c) =< t + back
  BY PlacedIs
<1>2. /\ 2 * (t + MaxBack + Overdue + LazyDelay) < Msecs /\ t \in Nat
      /\ LazyDelay \in Nat /\ LazyDelay > 0 /\ Msecs \in Nat
      /\ Overdue \in Nat /\ MaxBack \in Nat
  BY Room
<1>3. /\ Ahead(c) \in Int /\ key[c] \in Msec /\ ngx_current_msec \in Msec
      /\ back \in Nat
  BY PlacedIs
<1>4. -Overdue =< Ahead(c) - delta /\ Ahead(c) - delta =< t + (back + b)
  BY <1>1, <1>2, <1>3
<1>5. Short(delta) /\ Short(Ahead(c) - delta)
  BY <1>1, <1>2, <1>3, <1>4 DEF Short
<1>6. Diff(key[c], Later(delta)) = Ahead(c) - delta
  BY <1>3, <1>5, DiffShifts DEF Ahead
<1> QED
  BY <1>4, <1>6

\* epoll_wait() returns when the nearest timer is due, give or take its lateness,
\* or before that.
LEMMA WaitIs ==
    ASSUME PInv, WaitEvents \/ WaitTimeout, tree # {}
    PROVE  /\ pass = "wait" /\ UNCHANGED <<tree, key, timer_set, idle>>
           /\ \E elapsed \in Nat, b \in Nat, f \in Nat :
                 /\ f =< MaxAhead /\ TimeUpdate(elapsed, b, f)
                 /\ \A c \in tree : Ahead(c) >= 1 /\ elapsed =< Ahead(c) + Late
                 /\ \/ ~Moved(elapsed, b, f)
                    \/ pass' \in {"events and timers", "timers"}
<1>0. TInv /\ Placed /\ Late \in Nat
  BY LateIs DEF PInv
<1>1. pass = "wait" /\ UNCHANGED <<tree, key, timer_set, idle>>
  BY DEF WaitEvents, WaitTimeout
<1>2. PICK w \in FindTimer, b \in 0..MaxBack, f \in 0..MaxAhead :
         \/ LET limit == IF AsInt(w) = Infinite THEN Longest ELSE AsInt(w)
            IN  \E elapsed \in 0..(limit + Late) :
                   /\ TimeUpdate(elapsed, b, f)
                   /\ pass' = IF Moved(elapsed, b, f) THEN "events and timers"
                              ELSE "events"
         \/ \E elapsed \in AsInt(w)..(AsInt(w) + Late) :
                /\ TimeUpdate(elapsed, b, f)
                /\ pass' = IF w = 0 \/ Moved(elapsed, b, f) THEN "timers" ELSE "wait"
  BY Zenon DEF WaitEvents, WaitTimeout
<1>3. \A c \in tree : w \in Nat /\ AsInt(w) = w /\ w =< Ahead(c) /\ w >= 1
  BY <1>0, <1>1, TimeoutIsNearest
<1>4. w \in Nat /\ AsInt(w) = w /\ AsInt(w) # Infinite /\ w # 0
  BY <1>3 DEF Infinite
<1>5. PICK elapsed \in 0..(w + Late) :
         /\ TimeUpdate(elapsed, b, f)
         /\ ~Moved(elapsed, b, f) \/ pass' \in {"events and timers", "timers"}
  <2>1. w..(w + Late) \subseteq 0..(w + Late)
    BY <1>0, <1>4
  <2> QED
    BY <1>2, <1>4, <2>1
<1>6. elapsed \in Nat /\ elapsed =< w + Late
  BY <1>0, <1>4
<1>7. \A c \in tree : Ahead(c) >= 1 /\ elapsed =< Ahead(c) + Late
  <2>1. ASSUME NEW c \in tree PROVE Ahead(c) >= 1 /\ elapsed =< Ahead(c) + Late
    <3>1. Ahead(c) \in Int /\ w =< Ahead(c) /\ w >= 1
      BY <1>0, <1>3, PlacedIs
    <3> QED
      BY <1>0, <1>4, <1>6, <3>1
  <2> QED
    BY <2>1
<1>8. b \in Nat /\ f \in Nat /\ f =< MaxAhead
  BY BoundsAreNat
<1> QED
  BY <1>1, <1>5, <1>6, <1>7, <1>8

\* Such a return changes a distance, and what it is compared with, by the same.
LEMMA WaitKeeps ==
    ASSUME PInv, WaitEvents \/ WaitTimeout, tree # {}
    PROVE  Placed' /\ WakeNearDue'
<1>1. TInv /\ Placed /\ WakeNearDue /\ lag \in Nat
  BY LagIs DEF PInv
<1>2. PICK elapsed \in Nat, b \in Nat, f \in Nat :
         /\ f =< MaxAhead /\ TimeUpdate(elapsed, b, f)
         /\ \A c \in tree : Ahead(c) >= 1 /\ elapsed =< Ahead(c) + Late
         /\ \/ ~Moved(elapsed, b, f)
            \/ pass' \in {"events and timers", "timers"}
  BY WaitIs
<1>3. UNCHANGED <<tree, key, timer_set, idle>>
  BY WaitIs
<1>4. PICK delta : delta = lag + elapsed + f - b
  OBVIOUS
<1>5. delta \in Int /\ (~Moved(elapsed, b, f) => delta = 0)
  BY <1>1, <1>4 DEF Moved
<1>6. /\ back' = back + b /\ back + b =< MaxBack /\ lag' = 0
      /\ ngx_current_msec' = Later(delta)
  BY <1>2, <1>4 DEF TimeUpdate
<1>7. ASSUME NEW c \in tree
      PROVE  /\ Ahead(c) \in Int /\ Ahead(c)' = Ahead(c) - delta
             /\ \E t \in SleepTimes :
                   /\ -Overdue =< Ahead(c)' /\ Ahead(c)' =< t + back'
                   /\ pass' \in {"wait", "events"} => Ahead(c)' >= 1
  <2>1. Ahead(c) \in Int /\ Ahead(c) >= 1 /\ elapsed =< Ahead(c) + Late
    BY <1>1, <1>2, PlacedIs
  <2>2. /\ Diff(key[c], Later(delta)) = Ahead(c) - delta
        /\ -Overdue =< Ahead(c) - delta
        /\ \E t \in SleepTimes : Ahead(c) - delta =< t + (back + b)
    <3>1. Overdue = Late + MaxAhead + Busy
      BY DEF Overdue
    <3>2. lag =< Busy /\ Busy \in Nat /\ Late \in Nat /\ MaxAhead \in Nat
      BY <1>1, LagIs, LateIs
    <3>3. f =< MaxAhead /\ back + b =< MaxBack
      BY <1>2, <1>6
    <3>4. -b =< delta /\ delta =< Ahead(c) + Overdue
      BY <1>1, <1>4, <2>1, <3>1, <3>2, <3>3
    <3> QED
      BY <1>1, <1>5, <3>3, <3>4, TimerNears
  <2>3. Ahead(c)' = Ahead(c) - delta
    BY <1>3, <1>6, <2>2 DEF Ahead
  <2>4. pass' \in {"wait", "events"} => Ahead(c)' >= 1
    <3>1. pass' \in {"wait", "events"} => delta = 0
      BY <1>2, <1>5
    <3> QED
      BY <2>1, <2>3, <3>1
  <2> QED
    BY <1>6, <2>1, <2>2, <2>3, <2>4
<1>8. Placed'
  BY <1>3, <1>7 DEF Placed, Overdue
<1>9. WakeNearDue'
  <2> SUFFICES ASSUME NEW c \in Conn, idle[c]
               PROVE  /\ c \in tree
                      /\ ngx_abs(Ahead(c)' - Owed(c)') < LazyDelay
    BY <1>3 DEF WakeNearDue, Ahead, Owed
  <2>1. c \in tree /\ ngx_abs(Ahead(c) - Owed(c)) < LazyDelay
    BY <1>1 DEF WakeNearDue, Ahead, Owed
  <2>2. /\ left'[c] = left[c] - elapsed /\ over'[c] = over[c] + b
        /\ under'[c] = under[c] + f
    BY <1>2 DEF TimeUpdate
  <2>3. /\ Ahead(c)' = Ahead(c) - delta /\ Ahead(c) \in Int
        /\ left[c] \in Int /\ over[c] \in Nat /\ under[c] \in Nat
    BY <1>1, <1>7, <2>1, HistoryIs
  <2>4. Owed(c) = left[c] + lag + over[c] - under[c]
    BY DEF Owed
  <2>5. Owed(c)' = left'[c] + lag' + over'[c] - under'[c]
    BY DEF Owed
  <2>6. Owed(c)' = Owed(c) - delta /\ Owed(c) \in Int
    BY <1>1, <1>4, <1>6, <2>2, <2>3, <2>4, <2>5
  <2>7. Ahead(c)' - Owed(c)' = Ahead(c) - Owed(c)
    BY <1>5, <2>3, <2>6
  <2> QED
    BY <2>1, <2>7
<1> QED
  BY <1>8, <1>9

\* The time handlers take leaves the keys alone, and what they are compared with.
LEMMA WorkKeepsPlaces ==
    ASSUME PInv, Work
    PROVE  Placed' /\ WakeNearDue'
<1>1. TInv /\ Placed /\ WakeNearDue /\ lag \in Nat
  BY LagIs DEF PInv
<1>2. UNCHANGED <<ngx_current_msec, tree, key, idle, over, under, back, pass>>
  BY DEF Work
<1>3. \A c : Ahead(c)' = Ahead(c)
  BY <1>2 DEF Ahead
<1>4. ASSUME NEW c \in Conn, idle[c] PROVE Owed(c)' = Owed(c)
  <2>1. PICK e \in 1..(Busy - lag) : lag' = lag + e /\ left'[c] = left[c] - e
    BY <1>4 DEF Work
  <2>2. e \in Int /\ left[c] \in Int /\ over[c] \in Int /\ under[c] \in Int
    BY <1>1, HistoryIs
  <2>3. /\ Owed(c) = left[c] + lag + over[c] - under[c]
        /\ Owed(c)' = left'[c] + lag' + over'[c] - under'[c]
    BY DEF Owed
  <2> QED
    BY <1>1, <1>2, <2>1, <2>2, <2>3
<1>5. Placed'
  BY <1>1, <1>2, <1>3 DEF Placed, Overdue
<1>6. WakeNearDue'
  <2> SUFFICES ASSUME NEW c \in Conn, idle[c]
               PROVE  c \in tree /\ ngx_abs(Ahead(c)' - Owed(c)') < LazyDelay
    BY <1>2 DEF WakeNearDue, Ahead, Owed
  <2> QED
    BY <1>1, <1>3, <1>4 DEF WakeNearDue, Ahead, Owed
<1> QED
  BY <1>5, <1>6

\* A connection goes to sleep for t: its timer lies t ahead, or nearly.
LEMMA AddTimerKeeps ==
    ASSUME PInv, NEW c \in Conn, NEW t \in SleepTimes, AddTimer(c, t),
           InEvents, UNCHANGED <<ngx_current_msec, back, lag, pass>>
    PROVE  Placed' /\ WakeNearDue'
<1>1. /\ ngx_current_msec \in Msec /\ back \in Nat /\ back =< MaxBack
      /\ timer_set[c] <=> c \in tree
  <2>1. TimerTypeOK /\ TimerSetInTree
    BY DEF PInv, TInv
  <2>2. back \in 0..MaxBack /\ MaxBack \in Nat
    BY <2>1, LateIs DEF TimerTypeOK
  <2>3. back \in Nat /\ back =< MaxBack
    BY <2>2
  <2> QED
    BY <2>1, <2>3 DEF TimerTypeOK, TimerSetInTree
<1>a. tree \subseteq Conn /\ idle \in [Conn -> BOOLEAN] /\ key \in [Conn -> Msec]
  BY DEF PInv, TInv, TimerTypeOK
<1>b. left \in [Conn -> Int]
  BY DEF PInv, TInv, TimerTypeOK
<1>c. over \in [Conn -> Nat] /\ under \in [Conn -> Nat]
  BY DEF PInv, TInv, TimerTypeOK
<1>d. lag \in Nat
  BY LagIs DEF PInv
<1>2. /\ 2 * (t + MaxBack + Overdue + LazyDelay) < Msecs /\ t \in Nat /\ t > 0
      /\ Overdue \in Nat /\ MaxBack \in Nat
      /\ LazyDelay \in Nat /\ LazyDelay > 0 /\ Msecs \in Nat
  BY Room
<1>3. Short(t) /\ Later(t) \in Msec /\ Diff(Later(t), ngx_current_msec) = t
  <2>1. Short(t)
    BY <1>2 DEF Short
  <2> QED
    BY <1>1, <2>1, LaterIs
<1>4. /\ idle' = [idle EXCEPT ![c] = TRUE]
      /\ left'[c] = t /\ over'[c] = 0 /\ under'[c] = lag
      /\ \A d \in Conn \ {c} : /\ left'[d] = left[d] /\ over'[d] = over[d]
                               /\ under'[d] = under[d]
  BY <1>b, <1>c DEF AddTimer, Ask
<1>e. Owed(c)' = t /\ \A d \in Conn \ {c} : Owed(d)' = Owed(d)
  <2>1. Owed(c)' = left'[c] + lag' + over'[c] - under'[c]
    BY DEF Owed
  <2>2. Owed(c)' = t
    BY <1>2, <1>4, <1>d, <2>1
  <2>3. \A d \in Conn \ {c} : Owed(d)' = Owed(d)
    BY <1>4 DEF Owed
  <2> QED
    BY <2>2, <2>3
<1>5. /\ c \in tree' /\ tree' \ {c} = tree \ {c}
      /\ \A d \in Conn \ {c} : key'[d] = key[d]
      /\ \/ /\ c \in tree /\ key' = key
            /\ ngx_abs(Diff(Later(t), key[c])) < LazyDelay
         \/ key'[c] = Later(t)
  BY <1>1, <1>a DEF AddTimer
<1>6. \A d \in Conn \ {c} : Ahead(d)' = Ahead(d)
  BY <1>5 DEF Ahead
<1>7. CASE /\ c \in tree /\ key' = key
           /\ ngx_abs(Diff(Later(t), key[c])) < LazyDelay
  <2>1. Ahead(c)' = Ahead(c)
    BY <1>7 DEF Ahead
  <2>2. tree' = tree
    BY <1>5, <1>7
  <2>3. \A d \in tree : Ahead(d)' = Ahead(d)
    BY <1>6, <1>a, <2>1
  <2>4. Placed'
    BY <2>2, <2>3 DEF Placed, PInv, Overdue
  <2>5. Diff(Later(t), key[c]) = t - Ahead(c)
    <3>1. PICK u \in SleepTimes : -Overdue =< Ahead(c) /\ Ahead(c) =< u + back
      BY <1>7, PlacedIs DEF PInv
    <3>2. Ahead(c) \in Int /\ key[c] \in Msec
      BY <1>7, PlacedIs DEF PInv
    <3>3. 2 * (u + MaxBack + Overdue + LazyDelay) < Msecs /\ u \in Nat
      BY Room
    <3>4. Short(t - Ahead(c))
      BY <1>1, <1>2, <3>1, <3>2, <3>3 DEF Short
    <3> QED
      BY <1>1, <1>3, <3>2, <3>4, DiffCompares DEF Ahead
  <2>6. Ahead(c) \in Int
    BY <1>7, PlacedIs DEF PInv
  <2>7. ngx_abs(Ahead(c)' - Owed(c)') < LazyDelay
    BY <1>2, <1>e, <1>7, <2>1, <2>5, <2>6 DEF ngx_abs
  <2>8. WakeNearDue'
    <3> SUFFICES ASSUME NEW d \in Conn, idle'[d]
                 PROVE  /\ d \in tree'
                        /\ ngx_abs(Ahead(d)' - Owed(d)') < LazyDelay
      BY DEF WakeNearDue, Ahead, Owed
    <3>1. CASE d = c
      BY <1>5, <2>7, <3>1
    <3>2. CASE d # c
      BY <1>4, <1>6, <1>a, <1>e, <2>2, <3>2 DEF PInv, WakeNearDue, Ahead, Owed
    <3> QED
      BY <3>1, <3>2
  <2> QED
    BY <2>4, <2>8
<1>8. CASE key'[c] = Later(t)
  <2>1. Ahead(c)' = t
    BY <1>3, <1>8 DEF Ahead
  <2>2. Placed'
    <3> SUFFICES ASSUME NEW d \in tree'
                 PROVE  \E u \in SleepTimes :
                           /\ -Overdue =< Ahead(d)' /\ Ahead(d)' =< u + back
                           /\ pass \in {"wait", "events"} => Ahead(d)' >= 1
      BY DEF Placed, Overdue
    <3>1. CASE d = c
      <4>1. -Overdue =< t /\ t =< t + back /\ t >= 1
        BY <1>1, <1>2
      <4> QED
        BY <2>1, <3>1, <4>1
    <3>2. CASE d # c
      BY <1>5, <1>6, <1>a, <3>2 DEF Placed, PInv, Overdue
    <3> QED
      BY <3>1, <3>2
  <2>3. ngx_abs(Ahead(c)' - Owed(c)') < LazyDelay
    BY <1>2, <1>e, <2>1 DEF ngx_abs
  <2>4. WakeNearDue'
    <3> SUFFICES ASSUME NEW d \in Conn, idle'[d]
                 PROVE  /\ d \in tree'
                        /\ ngx_abs(Ahead(d)' - Owed(d)') < LazyDelay
      BY DEF WakeNearDue, Ahead, Owed
    <3>1. CASE d = c
      BY <1>5, <2>3, <3>1
    <3>2. CASE d # c
      BY <1>4, <1>5, <1>6, <1>a, <1>e, <3>2 DEF PInv, WakeNearDue, Ahead, Owed
    <3> QED
      BY <3>1, <3>2
  <2> QED
    BY <2>2, <2>4
<1> QED
  BY <1>5, <1>7, <1>8

\* A sleep ends, and at most its own timer goes.
LEMMA AwakeKeepsPlaces ==
    ASSUME PInv, NEW c \in Conn, Awake(c),
           UNCHANGED <<ngx_current_msec, back, lag, pass>>,
           tree' \subseteq tree, tree \ {c} \subseteq tree',
           \A d \in tree' : key'[d] = key[d]
    PROVE  Placed' /\ WakeNearDue'
<1>1. /\ tree \subseteq Conn /\ idle \in [Conn -> BOOLEAN]
      /\ left \in [Conn -> Int] /\ over \in [Conn -> Nat]
      /\ under \in [Conn -> Nat]
  BY DEF PInv, TInv, TimerTypeOK
<1>2. \A d \in tree' : Ahead(d)' = Ahead(d)
  BY DEF Ahead
<1>3. Placed'
  BY <1>2 DEF Placed, PInv, Overdue
<1>4. /\ ~idle'[c]
      /\ \A d \in Conn \ {c} : /\ idle'[d] = idle[d] /\ left'[d] = left[d]
                               /\ over'[d] = over[d] /\ under'[d] = under[d]
  BY <1>1 DEF Awake
<1>5. WakeNearDue'
  <2> SUFFICES ASSUME NEW d \in Conn, idle'[d]
               PROVE  /\ d \in tree'
                      /\ ngx_abs(Ahead(d)' - Owed(d)') < LazyDelay
    BY DEF WakeNearDue, Ahead, Owed
  <2>1. d # c
    BY <1>4
  <2> QED
    BY <1>2, <1>4, <2>1 DEF PInv, WakeNearDue, Ahead, Owed
<1> QED
  BY <1>3, <1>5

LEMMA NextPInv == PInv /\ [Next]_timerVars => PInv'
<1> SUFFICES ASSUME PInv, [Next]_timerVars PROVE Placed' /\ WakeNearDue'
  BY NextTInv DEF PInv
<1>0. TInv /\ Placed /\ WakeNearDue /\ TimerTypeOK
  BY DEF PInv, TInv
<1>1. CASE WaitEvents \/ WaitTimeout
  <2>1. CASE tree = {}
    <3>1. tree' = {} /\ idle' = idle
      BY <1>1, <2>1 DEF WaitEvents, WaitTimeout
    <3> QED
      BY <1>0, <2>1, <3>1 DEF Placed, WakeNearDue
  <2> QED
    BY <1>1, <2>1, WaitKeeps
<1>2. CASE Work
  BY <1>2, WorkKeepsPlaces
<1>3. CASE EventsDone
  <2>1. /\ UNCHANGED <<ngx_current_msec, tree, key, idle, histories>>
        /\ pass' \in {"wait", "events"} => pass \in {"wait", "events"}
    BY <1>3 DEF EventsDone, InEvents
  <2>3. UNCHANGED <<left, over, under, back, lag>>
    BY <2>1 DEF histories
  <2>2. \A c : Ahead(c)' = Ahead(c)
    BY <2>1 DEF Ahead
  <2> QED
    BY <1>0, <2>1, <2>2, <2>3 DEF Placed, WakeNearDue, Overdue
<1>4. CASE ExpireDone
  <2>1. /\ UNCHANGED <<ngx_current_msec, tree, key, idle, histories>>
        /\ \A c \in Conn : Earliest(c) => Ahead(c) > 0
    BY <1>4 DEF ExpireDone, Ahead
  <2>2. \A c : Ahead(c)' = Ahead(c)
    BY <2>1 DEF Ahead
  <2>4. UNCHANGED <<left, over, under, back, lag>>
    BY <2>1 DEF histories
  <2>3. \A c \in tree : Ahead(c) >= 1
    <3>1. ASSUME NEW c \in tree PROVE Ahead(c) >= 1
      <4>1. PICK d \in tree : Earliest(d)
        BY <1>0, <3>1, SomeEarliest
      <4>2. Ahead(d) =< Ahead(c)
        BY <1>0, <4>1, EarliestIsNearest
      <4>3. Ahead(c) \in Int /\ Ahead(d) \in Int /\ d \in Conn
        BY <1>0, PlacedIs
      <4> QED
        BY <2>1, <4>1, <4>2, <4>3
    <3> QED
      BY <3>1
  <2> QED
    BY <1>0, <2>1, <2>2, <2>3, <2>4 DEF Placed, WakeNearDue, Overdue
<1>5. ASSUME NEW c \in Conn, Sleep(c) PROVE Placed' /\ WakeNearDue'
  <2>1. PICK t \in SleepTimes : AddTimer(c, t)
    BY <1>5 DEF Sleep
  <2> QED
    BY <1>5, <2>1, AddTimerKeeps DEF Sleep
<1>6. ASSUME NEW c \in Conn, Close(c) PROVE Placed' /\ WakeNearDue'
  BY <1>6, AwakeKeepsPlaces DEF Close
<1>7. ASSUME NEW c \in Conn, Expire(c) PROVE Placed' /\ WakeNearDue'
  <2>1. /\ Awake(c) /\ UNCHANGED <<ngx_current_msec, back, lag, pass>>
        /\ tree' = tree \ {c} /\ key' = [key EXCEPT ![c] = 0]
    BY <1>7 DEF Expire
  <2>2. \A d \in tree' : key'[d] = key[d]
    BY <1>0, <2>1 DEF TimerTypeOK
  <2> QED
    BY <2>1, <2>2, AwakeKeepsPlaces
<1>8. CASE UNCHANGED timerVars
  <2>1. \A c : Ahead(c)' = Ahead(c)
    BY <1>8 DEF Ahead, timerVars
  <2> QED
    BY <1>0, <1>8, <2>1 DEF timerVars, Placed, WakeNearDue, Overdue
<1> QED
  BY <1>1, <1>2, <1>3, <1>4, <1>5, <1>6, <1>7, <1>8 DEF Next

LEMMA PInvHolds == Spec => []PInv
<1>1. Init => PInv
  BY InitTInv DEF Init, PInv, Placed, WakeNearDue
<1> QED
  BY <1>1, NextPInv, PTL DEF Spec

\* When the loop computes its timeout every timer lies ahead, by no more than
\* the half word in which the tree's comparison by sign is an order, however
\* late epoll_wait() returns and wherever the clock's word wraps around.
THEOREM AllTimersAheadHolds == Spec => []AllTimersAhead
<1>1. PInv => AllTimersAhead
  <2> SUFFICES ASSUME PInv, pass = "wait", NEW c \in tree
               PROVE  \E t \in SleepTimes :
                         Diff(key[c], ngx_current_msec) \in 1..(t + back)
    BY DEF AllTimersAhead
  <2>1. Ahead(c) \in Int /\ back \in Int
    BY PlacedIs DEF PInv
  <2>2. PICK t \in SleepTimes : Ahead(c) =< t + back /\ Ahead(c) >= 1
    BY DEF PInv, Placed
  <2>3. t \in Nat
    BY Room
  <2> QED
    BY <2>1, <2>2, <2>3 DEF Ahead
<1> QED
  BY <1>1, PInvHolds, PTL

\* The timer of a sleeping connection is due when its sleep is over, give or
\* take the lazy delay, what the clock was set back or forward in that sleep, and
\* what it was behind when the sleep was asked for; also when the timer was left
\* by an earlier sleep.
THEOREM WakeNearDueHolds == Spec => []WakeNearDue
<1>1. PInv => WakeNearDue
  BY DEF PInv
<1> QED
  BY <1>1, PInvHolds, PTL

\* How late a connection is that sleeps on when the loop may have come to wake
\* it.
Awaited ==
    \A c \in Conn : idle[c] /\ pass \notin {"wait", "events"} =>
        0 - left[c] < LazyDelay + Late + over[c] + Busy + lag

LEMMA NextAwaited == PInv /\ Awaited /\ [Next]_timerVars => Awaited'
<1> SUFFICES ASSUME PInv, Awaited, [Next]_timerVars,
                    NEW c \in Conn, idle'[c], pass' \notin {"wait", "events"}
             PROVE  0 - left'[c] < LazyDelay' + Late' + over'[c] + Busy' + lag'
  BY DEF Awaited
<1>0. /\ TInv /\ lag \in Nat /\ lag =< Busy /\ Busy \in Nat /\ Late \in Nat
      /\ LazyDelay \in Nat /\ LazyDelay > 0
      /\ left[c] \in Int /\ over[c] \in Nat /\ under[c] \in Nat
  BY LagIs, LateIs, HistoryIs DEF PInv
<1>1. /\ left \in [Conn -> Int] /\ over \in [Conn -> Nat]
      /\ idle \in [Conn -> BOOLEAN]
  BY <1>0 DEF TInv, TimerTypeOK
<1>2. CASE WaitEvents \/ WaitTimeout
  <2>1. /\ pass = "wait" /\ idle[c] /\ c \in tree
        /\ ngx_abs(Ahead(c) - Owed(c)) < LazyDelay
    BY <1>2 DEF WaitEvents, WaitTimeout, PInv, WakeNearDue, Ahead, Owed
  <2>2. PICK elapsed \in Nat, b \in Nat, f \in Nat :
           TimeUpdate(elapsed, b, f) /\ elapsed =< Ahead(c) + Late
    BY <1>2, <2>1, WaitIs
  <2>3. left'[c] = left[c] - elapsed /\ over'[c] = over[c] + b /\ lag' = 0
    BY <2>1, <2>2 DEF TimeUpdate
  <2>4. Ahead(c) \in Int /\ Owed(c) = left[c] + lag + over[c] - under[c]
    BY <1>0, <2>1, PlacedIs DEF PInv, Owed
  <2>5. Ahead(c) - Owed(c) < LazyDelay
    BY <1>0, <2>1, <2>4 DEF ngx_abs
  <2> QED
    BY <1>0, <2>2, <2>3, <2>4, <2>5
<1>3. CASE Work
  <2>1. PICK e \in 1..(Busy - lag) :
           /\ lag' = lag + e
           /\ left' = [d \in Conn |-> IF idle[d] THEN left[d] - e ELSE left[d]]
    BY <1>3 DEF Work
  <2>2. idle[c] /\ pass \notin {"wait", "events"} /\ over' = over
    BY <1>3 DEF Work
  <2>3. left'[c] = left[c] - e /\ lag' = lag + e /\ e \in Int
    BY <1>0, <2>1, <2>2
  <2>4. 0 - left[c] < LazyDelay + Late + over[c] + Busy + lag
    BY <2>2 DEF Awaited
  <2> QED
    BY <1>0, <2>2, <2>3, <2>4
<1>4. CASE EventsDone \/ ExpireDone
  <2>1. UNCHANGED <<idle, histories>> /\ pass \notin {"wait", "events"}
    BY <1>4 DEF EventsDone, ExpireDone, InEvents
  <2> QED
    BY <2>1 DEF Awaited, histories
<1>5. ASSUME NEW d \in Conn, Sleep(d)
      PROVE  0 - left'[c] < LazyDelay' + Late' + over'[c] + Busy' + lag'
  <2>1. PICK t \in SleepTimes : AddTimer(d, t)
    BY <1>5 DEF Sleep
  <2>2. t \in Nat /\ UNCHANGED <<lag, pass>>
    BY <1>5, Sizes DEF Sleep
  <2>3. CASE c = d
    <3>1. left'[c] = t /\ over'[c] = 0
      BY <1>1, <2>1, <2>3 DEF AddTimer, Ask
    <3> QED
      BY <1>0, <2>2, <3>1
  <2>4. CASE c # d
    <3>1. left'[c] = left[c] /\ over'[c] = over[c] /\ idle[c]
      BY <1>1, <2>1, <2>4 DEF AddTimer, Ask
    <3> QED
      BY <2>2, <3>1 DEF Awaited
  <2> QED
    BY <2>3, <2>4
<1>6. ASSUME NEW d \in Conn, Awake(d), UNCHANGED <<lag, pass>>
      PROVE  0 - left'[c] < LazyDelay' + Late' + over'[c] + Busy' + lag'
  <2>1. c # d
    BY <1>1, <1>6 DEF Awake
  <2>2. left'[c] = left[c] /\ over'[c] = over[c] /\ idle[c]
    BY <1>1, <1>6, <2>1 DEF Awake
  <2> QED
    BY <1>6, <2>2 DEF Awaited
<1>7. ASSUME NEW d \in Conn, Close(d) \/ Expire(d)
      PROVE  0 - left'[c] < LazyDelay' + Late' + over'[c] + Busy' + lag'
  <2>1. Awake(d) /\ UNCHANGED <<lag, pass>>
    BY <1>7 DEF Close, Expire
  <2> QED
    BY <1>6, <2>1
<1>8. CASE UNCHANGED timerVars
  BY <1>8 DEF timerVars, Awaited
<1> QED
  BY <1>2, <1>3, <1>4, <1>5, <1>7, <1>8 DEF Next

LEMMA AwaitedHolds == Spec => []Awaited
<1>1. Init => Awaited
  BY DEF Init, Awaited
<1> QED
  BY <1>1, NextAwaited, PInvHolds, PTL DEF Spec

\* Nobody is woken much before its time, but by a clock that was set forward or
\* was behind, or much after it, but by one that was set back.
THEOREM SleepsAsAskedHolds == Spec => SleepsAsAsked
<1>1. ASSUME PInv, Awaited, [Next]_timerVars,
             NEW c \in Conn, pass = "timers", idle[c], ~idle'[c]
      PROVE  /\ left[c] < LazyDelay + under[c]
             /\ 0 - left[c] < LazyDelay + Late + over[c] + 2 * Busy
  <2>1. Expire(c)
    <3>1. ASSUME NEW d \in Conn, Expire(d) PROVE d = c
      BY <1>1, <3>1 DEF Expire, Awake, PInv, TInv, TimerTypeOK
    <3>2. ~UNCHANGED idle
      BY <1>1
    <3>3. \E d \in Conn : Expire(d)
      BY <1>1, <3>2 DEF Next, WaitEvents, WaitTimeout, EventsDone, ExpireDone, Sleep,
                       Close, Work, InEvents, timerVars
    <3> QED
      BY <3>1, <3>3
  <2>2. c \in tree /\ Ahead(c) =< 0
    BY <2>1 DEF Expire, Earliest, Ahead
  <2>3. /\ ngx_abs(Ahead(c) - Owed(c)) < LazyDelay
        /\ 0 - left[c] < LazyDelay + Late + over[c] + Busy + lag
    BY <1>1 DEF PInv, WakeNearDue, Ahead, Owed, Awaited
  <2>4. /\ Ahead(c) \in Int /\ LazyDelay \in Nat /\ Late \in Nat
        /\ left[c] \in Int /\ over[c] \in Nat /\ under[c] \in Nat
        /\ lag \in Nat /\ Busy \in Nat /\ lag =< Busy
        /\ Owed(c) = left[c] + lag + over[c] - under[c]
    BY <1>1, <2>2, PlacedIs, HistoryIs, LagIs, LateIs DEF PInv, Owed
  <2>5. Owed(c) - Ahead(c) < LazyDelay
    BY <2>3, <2>4 DEF ngx_abs
  <2> QED
    BY <2>2, <2>3, <2>4, <2>5
<1>2. PInv /\ Awaited /\ [Next]_timerVars =>
          [\A c \in Conn : pass = "timers" /\ idle[c] /\ ~idle'[c] =>
              /\ left[c] < LazyDelay + under[c]
              /\ 0 - left[c] < LazyDelay + Late + over[c] + 2 * Busy]_timerVars
  BY <1>1
<1> QED
  BY <1>2, PInvHolds, AwaitedHolds, PTL DEF Spec, SleepsAsAsked

-----------------------------------------------------------------------------
(***************************************************************************)
(* The timers and their tree: TimerQueue is what they agree on.            *)
(***************************************************************************)
\* The queue, its first timer, and what makes it one.
Kept == [c \in tree |-> key[c]]
First == IF tree = {} THEN Infinite ELSE CHOOSE c \in tree : Earliest(c)
Answered == First \in Conn \cup {Infinite} /\ Timers!Answers(First, Kept)
Near == Timers!Together({key[c] : c \in tree})

\* The sign of the difference is the queue's order.
LEMMA BeforeIs ==
    ASSUME NEW j \in Msec, NEW k \in Msec
    PROVE  Timers!Before(j, k) <=> ~(Diff(j, k) >= 0)
<1>1. PICK d : d = (j - k) % Msecs
  OBVIOUS
<1>2. d \in 0..(Msecs - 1) /\ Msecs \in Nat \ {0}
  BY <1>1, Sizes DEF Msec
<1>3. Diff(j, k) = IF 2 * d >= Msecs THEN d - Msecs ELSE d
  BY <1>1 DEF Diff
<1>4. Timers!Before(j, k) <=> 2 * d >= Msecs
  BY <1>1 DEF Timers!Before
<1> QED
  BY <1>2, <1>3, <1>4

\* The node that ngx_rbtree_min() finds is due before all others.
LEMMA FirstAnswers == PInv => Answered
<1> SUFFICES ASSUME PInv PROVE Answered
  OBVIOUS
<1>1. TInv /\ Placed /\ tree \subseteq Conn /\ \A c \in tree : key[c] \in Msec
  BY DEF PInv, TInv, TimerTypeOK
<1>2. DOMAIN Kept = tree /\ \A c \in tree : Kept[c] = key[c]
  BY DEF Kept
<1>3. CASE tree = {}
  BY <1>2, <1>3 DEF Answered, First, Timers!Answers
<1>4. CASE tree # {}
  <2>1. First \in tree /\ Earliest(First)
    BY <1>1, <1>4, SomeEarliest DEF First
  <2>2. \A d \in tree : ~Timers!Before(key[d], key[First])
    BY <1>1, <2>1, BeforeIs DEF Earliest
  <2> QED
    BY <1>1, <1>2, <1>4, <2>1, <2>2 DEF Answered, Timers!Answers
<1> QED
  BY <1>3, <1>4

\* All keys lie within what Placed allows: less than half the word.
LEMMA KeysNear == PInv => Near
<1> SUFFICES ASSUME PInv PROVE Near
  OBVIOUS
<1>1. TInv /\ Placed /\ Overdue \in Nat /\ Msecs \in Nat \ {0}
  BY LateIs, Sizes DEF PInv
<1>2. PICK n : n = ngx_current_msec
  OBVIOUS
<1>3. n \in Msec
  BY <1>1, <1>2 DEF TInv, TimerTypeOK
<1>4. PICK b : b = (n - Overdue) % Msecs
  OBVIOUS
<1>5. b \in 0..(Msecs - 1) /\ b \in Int
  <2>1. n - Overdue \in Int
    BY <1>1, <1>3 DEF Msec
  <2> QED
    BY <1>1, <1>4, <2>1, MsecIsWord DEF Msec
<1>6. ASSUME NEW c \in tree PROVE 2 * ((key[c] - b) % Msecs) < Msecs
  <2>1. PICK k, d : k = key[c] /\ d = Ahead(c)
    OBVIOUS
  <2>2. /\ k \in Msec /\ d \in Int /\ back \in Nat /\ back <= MaxBack
        /\ \E t \in SleepTimes : -Overdue =< d /\ d =< t + back
    BY <1>1, <2>1, PlacedIs
  <2>3. PICK t \in SleepTimes : -Overdue =< d /\ d =< t + back
    BY <2>2
  <2>4. d \in {k - n, k - n + Msecs, k - n - Msecs}
    BY <1>2, <1>3, <2>1, <2>2, DiffBySign DEF Ahead
  <2>5. b \in {n - Overdue, n - Overdue + Msecs}
    <3>1. /\ 2 * (t + MaxBack + Overdue + LazyDelay) < Msecs /\ t \in Nat
          /\ LazyDelay \in Nat /\ MaxBack \in Nat
      BY Room
    <3>2. Overdue < Msecs
      BY <1>1, <3>1
    <3>3. PICK x : x = n - Overdue
      OBVIOUS
    <3>4. x \in Int /\ -Msecs =< x /\ x < 2 * Msecs
      BY <1>1, <1>3, <3>2, <3>3 DEF Msec
    <3>5. x % Msecs = IF x < 0 THEN x + Msecs ELSE IF x < Msecs THEN x ELSE x - Msecs
      BY <1>1, <3>4, WordSum
    <3>6. x < Msecs
      BY <1>1, <1>3, <3>3 DEF Msec
    <3> QED
      BY <1>4, <3>3, <3>5, <3>6
  <2>6. PICK e : e = d + Overdue
    OBVIOUS
  <2>7. e \in Nat /\ 2 * e < Msecs
    <3>1. /\ 2 * (t + MaxBack + Overdue + LazyDelay) < Msecs /\ t \in Nat
          /\ LazyDelay \in Nat /\ MaxBack \in Nat
      BY Room
    <3> QED
      BY <1>1, <2>2, <2>3, <2>6, <3>1
  <2>8. (k - b) % Msecs = e
    <3>1. PICK x : x = k - b
      OBVIOUS
    <3>2. x \in Int /\ -Msecs =< x /\ x < 2 * Msecs
      BY <1>1, <1>5, <2>2, <3>1 DEF Msec
    <3>3. x % Msecs = IF x < 0 THEN x + Msecs ELSE IF x < Msecs THEN x ELSE x - Msecs
      BY <1>1, <3>2, WordSum
    <3>4. k \in Int /\ n \in Int
      BY <1>1, <1>3, <2>2 DEF Msec
    <3>5. x \in {e, e - Msecs, e + Msecs, e - 2 * Msecs}
      BY <1>1, <2>2, <2>4, <2>5, <2>6, <3>1, <3>4
    <3> QED
      BY <1>1, <2>7, <3>1, <3>2, <3>3, <3>5
  <2> QED
    BY <2>1, <2>7, <2>8
<1>7. \A x \in {key[c] : c \in tree} : 2 * ((x - b) % Msecs) < Msecs
  BY <1>6
<1> QED
  BY <1>5, <1>7 DEF Near, Timers!Together

\* A timer that is set is a put or, if it was set before, a move.
LEMMA SetIsQueued ==
    ASSUME TInv, NEW c \in Conn, NEW k \in Msec,
           tree' = tree \cup {c}, key' = [key EXCEPT ![c] = k],
           Answered', Near'
    PROVE  Timers!MoveNext
<1>1. tree \subseteq Conn /\ key \in [Conn -> Msec]
  BY DEF TInv, TimerTypeOK
<1>2. PICK q, r, f : q = Kept /\ r = Kept' /\ f = First'
  OBVIOUS
<1>3. /\ q = [m \in tree |-> key[m]] /\ r = [m \in tree' |-> key'[m]]
      /\ DOMAIN q = tree /\ DOMAIN r = tree \cup {c}
      /\ \A m \in tree : q[m] = key[m]
      /\ \A m \in tree \cup {c} : r[m] = IF m = c THEN k ELSE key[m]
  BY <1>1, <1>2 DEF Kept
<1>4. f \in Conn \cup {Infinite} /\ Timers!Answers(f, r)
  BY <1>2 DEF Answered, Timers!Answers, Timers!Before
<1>5. k \in 0..(Msecs - 1)
  BY DEF Msec
<1>6. Timers!Together({r[m] : m \in tree \cup {c}})
  <2>1. {key[m] : m \in tree}' = {r[m] : m \in tree \cup {c}}
    BY <1>3
  <2> QED
    BY <2>1 DEF Near, Timers!Together
<1>7. CASE c \notin tree
  <2>1. r = [m \in DOMAIN q \cup {c} |-> IF m = c THEN k ELSE q[m]]
    BY <1>3, <1>7
  <2>2. k = r[c] /\ \A m \in tree : q[m] = r[m]
    BY <1>3, <1>7
  <2>3. {q[m] : m \in DOMAIN q} \cup {k} \subseteq {r[m] : m \in tree \cup {c}}
    BY <1>3, <2>2
  <2>4. c \notin DOMAIN q /\ Timers!Together({q[m] : m \in DOMAIN q} \cup {k})
    BY <1>3, <1>6, <1>7, <2>3 DEF Timers!Together
  <2>5. Timers!Put(c, k)
    BY <1>2, <1>4, <2>1, <2>4 DEF Timers!Put, Kept, First
  <2> QED
    BY <1>5, <2>5 DEF Timers!MoveNext, Timers!Next
<1>8. CASE c \in tree
  <2>1. r = [q EXCEPT ![c] = k]
    BY <1>3, <1>8
  <2>2. k = r[c] /\ \A m \in tree \ {c} : q[m] = r[m]
    BY <1>3, <1>8
  <2>3. {q[m] : m \in DOMAIN q \ {c}} \cup {k}
           \subseteq {r[m] : m \in tree \cup {c}}
    BY <1>3, <2>2
  <2>4. c \in DOMAIN q /\ Timers!Together({q[m] : m \in DOMAIN q \ {c}} \cup {k})
    BY <1>3, <1>6, <1>8, <2>3 DEF Timers!Together
  <2>5. Timers!Move(c, k)
    BY <1>2, <1>4, <2>1, <2>4 DEF Timers!Move, Kept, First
  <2> QED
    BY <1>5, <2>5 DEF Timers!MoveNext
<1> QED
  BY <1>7, <1>8

\* A timer that expires is removed.
LEMMA ExpireIsQueued ==
    ASSUME TInv, NEW c \in Conn, Expire(c), Answered'
    PROVE  Timers!MoveNext
<1>1. tree \subseteq Conn /\ key \in [Conn -> Msec]
  BY DEF TInv, TimerTypeOK
<1>2. /\ c \in tree /\ tree' = tree \ {c}
      /\ key' = [key EXCEPT ![c] = 0]
  BY DEF Expire, Earliest
<1>3. PICK q, r, f : q = Kept /\ r = Kept' /\ f = First'
  OBVIOUS
<1>4. /\ q = [m \in tree |-> key[m]] /\ r = [m \in tree' |-> key'[m]]
      /\ DOMAIN q = tree
  BY <1>3 DEF Kept
<1>5. f \in Conn \cup {Infinite} /\ Timers!Answers(f, r)
  BY <1>3 DEF Answered, Timers!Answers, Timers!Before
<1>6. r = [m \in DOMAIN q \ {c} |-> q[m]]
  BY <1>1, <1>2, <1>4
<1>7. Timers!Remove(c)
  BY <1>2, <1>3, <1>4, <1>5, <1>6 DEF Timers!Remove, Kept, First
<1> QED
  BY <1>7 DEF Timers!MoveNext, Timers!Next

\* EventTimer keeps its side of what TimerQueue asks of a caller, and relies on
\* no more than it promises; RBTree implements the rest.
THEOREM UsesQueueHolds == Spec => UsesQueue
<1>1. Init => Timers!Init
  <2> SUFFICES ASSUME Init PROVE Timers!Init
    OBVIOUS
  <2>1. tree = {}
    BY DEF Init
  <2> QED
    BY <2>1 DEF Timers!Init
<1>2. PInv => Answered /\ Near
  BY FirstAnswers, KeysNear
<1>3. PInv /\ Answered' /\ Near' /\ [Next]_timerVars => [Timers!MoveNext]_Timers!queueVars
  <2> SUFFICES ASSUME PInv, Answered', Near', [Next]_timerVars
               PROVE  [Timers!MoveNext]_Timers!queueVars
    OBVIOUS
  <2>1. TInv
    BY DEF PInv
  <2>2. ASSUME tree' = tree, key' = key PROVE UNCHANGED Timers!queueVars
    BY <2>2 DEF Timers!queueVars, Earliest
  <2>3. ASSUME NEW c \in Conn, Sleep(c) PROVE [Timers!MoveNext]_Timers!queueVars
    <3>1. PICK t \in SleepTimes : AddTimer(c, t)
      BY <2>3 DEF Sleep
    <3>2. CASE UNCHANGED <<tree, key, timer_set>>
      BY <2>2, <3>2
    <3>3. CASE /\ key' = [key EXCEPT ![c] = Later(t)]
               /\ tree' = (IF timer_set[c] THEN tree \ {c} ELSE tree) \cup {c}
      <4>1. tree' = tree \cup {c}
        BY <3>3
      <4>2. Later(t) \in Msec
        <5>1. ngx_current_msec \in Msec /\ t \in Nat
          BY <2>1, Sizes DEF TInv, TimerTypeOK
        <5>2. ngx_current_msec + t \in Int
          BY <5>1, Sizes DEF Msec
        <5> QED
          BY <5>2, MsecIsWord DEF Later
      <4>3. PICK k \in Msec : k = Later(t)
        BY <4>2
      <4> QED
        BY <2>1, <3>3, <4>1, <4>3, SetIsQueued
    <3> QED
      BY <3>1, <3>2, <3>3 DEF AddTimer
  <2>4. ASSUME NEW c \in Conn, Expire(c) PROVE [Timers!MoveNext]_Timers!queueVars
    BY <2>1, <2>4, ExpireIsQueued
  <2>5. CASE \/ WaitEvents \/ WaitTimeout \/ EventsDone \/ ExpireDone \/ Work
             \/ \E c \in Conn : Close(c)
    <3>1. tree' = tree /\ key' = key
      BY <2>5 DEF WaitEvents, WaitTimeout, EventsDone, ExpireDone, Work, Close
    <3> QED
      BY <2>2, <3>1
  <2>6. CASE UNCHANGED timerVars
    BY <2>2, <2>6 DEF timerVars
  <2> QED
    BY <2>3, <2>4, <2>5, <2>6 DEF Next
<1> QED
  BY <1>1, <1>2, <1>3, PInvHolds, PTL DEF Spec, UsesQueue, Timers!MoveSpec
=============================================================================
