------------------------------ MODULE FlogProofs ------------------------------
(***************************************************************************)
(* Theorems about Flog, for any length of a day, any sizes and any number  *)
(* of calls.                                                               *)
(***************************************************************************)
EXTENDS Flog, TLAPS

-----------------------------------------------------------------------------
(***************************************************************************)
(* The inductive invariant.                                                *)
(***************************************************************************)
Opening == {"init", "day", "size"}

FLog == [binited : {0, 1}, file : Nat \cup {Null}, mid_night : Nat,
         max_size : Nat, max_level : Nat, enable_pack_print : {0, 1}]

\* What the steps rely on of the types.
Types ==
    /\ now \in Nat /\ MaxTime \in Nat /\ now <= MaxTime
    /\ len \in 0..LineMax
    /\ flog \in FLog
    /\ pc = "down" => flog.max_size = 0
    /\ open \in Nat
    /\ size \in [Second -> Nat] /\ unchecked \in [Second -> Nat]
    /\ conf.max_size \in Nat /\ conf.max_level \in Nat
    /\ backs \in Nat

\* FLog_open() is called only when no FILE is named, and FLog_close() has an
\* effect wherever it is called.
Phases ==
    /\ pc \in Opening \cup {"down", "aborted", "undefined"} => flog.file = Null
    /\ pc \in {"up", "day", "line", "size"} => flog.binited = 1
    /\ pc \in {"down", "init"} => flog.binited = 0
    /\ flog.file # Null => flog.file \in Second
    /\ flog.file # Null /\ "file" \notin setback => flog.file <= now
    /\ "file" \in setback => backs >= 1

\* What set-backs have allowed for.
Slack == LineMax * backs

\* Every file is within its bound, one whose second is not over by a line, and the
\* open one by a line, too, or by two if the clock was set back under it.
Filled ==
    /\ \A s \in Second : size[s] <= flog.max_size + unchecked[s] + Slack + LineMax
    /\ \A s \in Second : s >= now => size[s] <= flog.max_size + unchecked[s] + Slack
    /\ flog.file # Null =>
          LET f == flog.file
          IN  /\ size[f] <= flog.max_size + unchecked[f] + Slack
              /\ "file" \in setback =>
                    size[f] + LineMax <= flog.max_size + unchecked[f] + Slack

FInv == Types /\ OneStream /\ Phases /\ Filled

-----------------------------------------------------------------------------
LEMMA LeastIsNat == \A a, b \in Nat : Least(a, b) \in Nat
BY DEF Least

LEMMA MidnightIsNat == \A t \in Nat : DateOf(t) * Day \in Nat
<1> SUFFICES ASSUME NEW t \in Nat PROVE DateOf(t) * Day \in Nat
  OBVIOUS
<1>1. Day \in Nat /\ Day > 0
  BY FlogAssumption
<1>2. t \div Day \in Nat
  BY <1>1
<1>3. QED
  BY <1>1, <1>2 DEF DateOf

LEMMA SlackIs ==
    ASSUME Types
    PROVE  /\ Slack \in Nat /\ LineMax * (1 + backs) = Slack + LineMax
           /\ backs >= 1 => Slack >= LineMax
<1>1. backs \in Nat /\ LineMax \in Nat
  BY FlogAssumption DEF Types
<1>2. LineMax * backs \in Nat /\ LineMax * (1 + backs) = LineMax * backs + LineMax
  BY <1>1
<1>3. ASSUME backs >= 1
      PROVE  LineMax * backs >= LineMax
  <2>1. backs - 1 \in Nat /\ backs = 1 + (backs - 1)
    BY <1>1, <1>3
  <2>2. LineMax * (backs - 1) \in Nat
    BY <1>1, <2>1
  <2>3. LineMax * backs = LineMax + LineMax * (backs - 1)
    BY <1>1, <2>1
  <2>4. QED
    BY <1>1, <2>2, <2>3
<1>4. QED
  BY <1>1, <1>2, <1>3 DEF Slack

LEMMA SlackStays == UNCHANGED backs => Slack' = Slack
BY DEF Slack

LEMMA FilledIsBounded == FInv => SizeBounded
<1> SUFFICES ASSUME FInv PROVE SizeBounded
  OBVIOUS
<1>1. Types /\ Filled
  BY DEF FInv
<1>2. LineMax * (1 + backs) = Slack + LineMax /\ Slack \in Nat
  BY <1>1, SlackIs
<1>3. ASSUME NEW s \in Second
      PROVE  size[s] <= flog.max_size + unchecked[s] + (Slack + LineMax)
  BY <1>1, <1>2, FlogAssumption DEF Filled, Types, FLog
<1>4. QED
  BY <1>2, <1>3 DEF SizeBounded

LEMMA InitFInv == Init => FInv
<1> SUFFICES ASSUME Init PROVE FInv
  OBVIOUS
<1>1. Types
  BY FlogAssumption DEF Init, Types, FLog, Conf, L_INFO, L_LEVEL_MAX, Second
<1>2. OneStream
  BY DEF Init, OneStream
<1>3. Phases
  BY DEF Init, Phases, Opening
<1>4. Filled
  BY <1>1, SlackIs, FlogAssumption DEF Init, Filled
<1>5. QED
  BY <1>1, <1>2, <1>3, <1>4 DEF FInv

\* FLog_open(), wherever it is called from.
LEMMA OpenKeeps ==
    ASSUME FInv, NEW from \in Opening, NEW done, NEW failed,
           FLog_open(from, done, failed),
           <<done, failed>> \in {<<"up", "exited">>, <<"up", "up">>, <<"line",
               "line">>},
           from = "init" <=> failed = "exited"
    PROVE  FInv'
<1>1. /\ pc = from /\ flog.file = Null
      /\ UNCHANGED <<ndebug, conf, len, size, unchecked, now, backs>>
  BY DEF FInv, Phases, FLog_open, Opening
<1>2. /\ Null \notin Nat /\ now \in Second /\ now \in Nat /\ open = 0
      /\ Slack \in Nat /\ Slack' = Slack
  BY <1>1, SlackIs, SlackStays, FlogAssumption DEF FInv, Types, OneStream, Second
<1>3. CASE pc' = "aborted" /\ UNCHANGED <<flog, open, setback>>
  BY <1>1, <1>2, <1>3
     DEF FInv, Types, OneStream, Phases, Filled, Opening
<1>4. CASE /\ pc' = done /\ open' = open + 1 /\ setback' = setback \ {"file"}
           /\ flog' = [flog EXCEPT !.file = now, !.mid_night = DateOf(now) * Day,
                                   !.binited = IF from = "init" THEN 1 ELSE @]
  <2>1. /\ flog'.file = now /\ flog'.max_size = flog.max_size
        /\ flog'.binited = 1
    BY <1>1, <1>4 DEF FInv, Types, FLog, Phases, Opening
  <2>2. Types'
    <3>1. DateOf(now) * Day \in Nat
      BY <1>2, MidnightIsNat
    <3>2. flog \in FLog
      BY DEF FInv, Types
    <3>3. flog' \in FLog
      BY <1>2, <1>4, <3>1, <3>2 DEF FLog
    <3>4. pc' # "down"
      BY <1>4
    <3>5. QED
      BY <1>1, <1>2, <1>4, <3>3, <3>4 DEF FInv, Types
  <2>3. OneStream'
    BY <1>2, <1>4, <2>1 DEF OneStream
  <2>4. Phases'
    BY <1>1, <1>2, <1>4, <2>1 DEF Phases, Opening
  <2>5. Filled'
    BY <1>1, <1>2, <1>4, <2>1 DEF FInv, Types, FLog, Filled
  <2>6. QED
    BY <2>2, <2>3, <2>4, <2>5 DEF FInv
<1>5. CASE /\ pc' = failed /\ open' = open /\ UNCHANGED setback
           /\ flog' = [flog EXCEPT !.file = Null]
  <2>1. flog' = flog
    BY <1>1, <1>5 DEF FInv, Types, FLog
  <2>2. QED
    BY <1>1, <1>2, <1>5, <2>1
       DEF FInv, Types, OneStream, Phases, Filled, Opening
<1>6. QED
  BY <1>3, <1>4, <1>5 DEF FLog_open

\* FLog_close() of a file that is open, with a step that may have written to it.
LEMMA CloseIs ==
    ASSUME Types, flog.binited = 1, NEW next, FLog_close(next)
    PROVE  /\ flog' \in FLog /\ flog'.file = Null
           /\ flog'.max_size = flog.max_size /\ flog'.binited = 1
           /\ flog.file # Null => pc' = next /\ open' = open - 1
           /\ flog.file = Null => pc' = "undefined" /\ open' = open
BY DEF Types, FLog, FLog_close

LEMMA NextFInv == FInv /\ [Next]_flogVars => FInv'
<1> SUFFICES ASSUME FInv, [Next]_flogVars PROVE FInv'
  OBVIOUS
<1>0. /\ Types /\ OneStream /\ Phases /\ Filled
      /\ Slack \in Nat /\ (UNCHANGED backs => Slack' = Slack)
  BY SlackIs, SlackStays DEF FInv
<1>1. CASE InitFLog
  <2>1. /\ pc = "down" /\ pc' = "init" /\ flog.max_size = 0 /\ flog.file = Null
        /\ UNCHANGED <<conf, len, open, size, unchecked, now, setback, backs>>
    BY <1>0, <1>1 DEF InitFLog, Types, Phases, Opening
  <2>2. Least(conf.max_size, LogMax) \in Nat /\ Least(conf.max_level, L_LEVEL_MAX) \in Nat
    BY <1>0, LeastIsNat, FlogAssumption DEF Types, L_LEVEL_MAX
  <2>3. /\ flog' \in FLog /\ flog'.file = Null /\ flog'.binited = 0
        /\ flog'.max_size \in Nat
    BY <1>0, <1>1, <2>2 DEF InitFLog, Types, FLog
  <2>4. Types'
    BY <1>0, <2>1, <2>3 DEF Types
  <2>5. OneStream' /\ Phases'
    BY <1>0, <2>1, <2>3 DEF OneStream, Phases, Opening
  <2>6. Filled'
    BY <1>0, <2>1, <2>3, FlogAssumption DEF Filled, Types
  <2>7. QED
    BY <2>4, <2>5, <2>6 DEF FInv
<1>2. CASE OpenFirst
  BY <1>2, OpenKeeps DEF OpenFirst, Opening
<1>3. CASE OpenDay
  BY <1>3, OpenKeeps DEF OpenDay, Opening
<1>4. CASE OpenNext
  BY <1>4, OpenKeeps DEF OpenNext, Opening
<1>5. ASSUME NEW level, NEW n \in 1..LineMax, LogLine(level, n)
      PROVE  FInv'
  <2>1. /\ pc = "up" /\ flog.binited = 1 /\ len' = n
        /\ setback' = setback \ {"line"}
        /\ UNCHANGED <<conf, size, unchecked, now, backs>>
    BY <1>0, <1>5 DEF LogLine, Phases
  <2>2. CASE pc' = "line" /\ UNCHANGED <<flog, open>>
    BY <1>0, <2>1, <2>2, FlogAssumption
       DEF FInv, Types, OneStream, Phases, Filled, Opening
  <2>3. CASE FLog_close("day")
    BY <1>0, <2>1, <2>3, CloseIs, FlogAssumption
       DEF FInv, Types, OneStream, Phases, Filled, Opening
  <2>4. QED
    BY <1>5, <2>2, <2>3 DEF LogLine
<1>6. CASE WriteLine
  <2>1. /\ pc = "line" /\ flog.binited = 1 /\ len' = 0
        /\ UNCHANGED <<conf, now, setback, backs>>
    BY <1>0, <1>6 DEF WriteLine, Phases
  <2>2. CASE flog.file = Null
    BY <1>0, <1>6, <2>1, <2>2, FlogAssumption
       DEF WriteLine, FInv, Types, OneStream, Phases, Filled, Opening
  <2>3. CASE flog.file # Null
    <3> DEFINE f == flog.file
               max == flog.max_size
    <3>1. /\ f \in Second /\ f \in Nat /\ now \in Nat /\ Slack' = Slack
          /\ len \in Nat /\ len <= LineMax /\ LineMax \in Nat /\ max \in Nat
          /\ size \in [Second -> Nat] /\ unchecked \in [Second -> Nat]
      BY <1>0, <2>1, <2>3, FlogAssumption DEF Phases, Types, FLog, Second
    <3>2. /\ size' = [size EXCEPT ![f] = size[f] + len]
          /\ unchecked' = [unchecked EXCEPT
                              ![f] = IF now = f THEN unchecked[f] + len ELSE unchecked[f]]
      BY <1>6, <2>3 DEF WriteLine
    <3>3. size' \in [Second -> Nat] /\ unchecked' \in [Second -> Nat]
      BY <3>1, <3>2
    <3>4. \A s \in Second : size'[s] <= max + unchecked'[s] + Slack + LineMax
      BY <1>0, <2>3, <3>1, <3>2 DEF Filled
    <3>5. ASSUME NEW s \in Second, s >= now
          PROVE  size'[s] <= max + unchecked'[s] + Slack
      <4>1. size[s] <= max + unchecked[s] + Slack
        BY <1>0, <3>5 DEF Filled
      <4>2. CASE s # f
        BY <3>1, <3>2, <4>1, <4>2
      <4>3. CASE s = f /\ now = f
        BY <1>0, <3>1, <3>2, <4>1, <4>3
      <4>4. CASE s = f /\ now # f
        <5>1. "file" \in setback
          BY <1>0, <2>3, <3>1, <3>5, <4>4 DEF Phases
        <5>2. size[f] + LineMax <= max + unchecked[f] + Slack
          BY <1>0, <2>3, <5>1 DEF Filled
        <5>3. QED
          BY <1>0, <3>1, <3>2, <4>4, <5>2
      <4>5. QED
        BY <4>2, <4>3, <4>4
    <3>6. CASE pc' = "up" /\ UNCHANGED <<flog, open>> /\ size'[f] <= flog.max_size
      <4>1. /\ size'[f] <= max + unchecked'[f] + Slack
            /\ "file" \in setback => size'[f] + LineMax <= max + unchecked'[f] + Slack
        <5>1. size'[f] \in Nat /\ unchecked'[f] \in Nat
          BY <3>1, <3>3
        <5>2. "file" \in setback => Slack >= LineMax
          BY <1>0, SlackIs DEF Phases
        <5>3. QED
          BY <1>0, <3>1, <3>6, <5>1, <5>2
      <4>2. Filled'
        BY <2>1, <3>1, <3>4, <3>5, <3>6, <4>1 DEF Filled
      <4>3. Types' /\ OneStream' /\ Phases'
        BY <1>0, <2>1, <3>1, <3>3, <3>6 DEF Types, OneStream, Phases, Opening
      <4>4. QED
        BY <4>2, <4>3 DEF FInv
    <3>7. CASE FLog_close("size")
      <4>1. /\ flog' \in FLog /\ flog'.file = Null /\ flog'.max_size = max
            /\ flog'.binited = 1 /\ pc' = "size" /\ open' = open - 1
        BY <1>0, <2>1, <2>3, <3>7, CloseIs
      <4>2. Filled'
        BY <2>1, <3>1, <3>4, <3>5, <4>1 DEF Filled
      <4>3. Types' /\ OneStream' /\ Phases'
        BY <1>0, <2>1, <2>3, <3>1, <3>3, <4>1 DEF Types, OneStream, Phases, Opening
      <4>4. QED
        BY <4>2, <4>3 DEF FInv
    <3>8. size'[f] > flog.max_size \/ size'[f] <= flog.max_size
      BY <3>1, <3>3
    <3>9. QED
      BY <1>6, <2>3, <3>6, <3>7, <3>8 DEF WriteLine
  <2>4. QED
    BY <2>2, <2>3
<1>7. ASSUME NEW level, NEW n \in 1..LineMax, LogHex(level, n)
      PROVE  FInv'
  <2>1. /\ pc = "up"
        /\ UNCHANGED <<pc, conf, flog, len, open, now, setback, backs>>
    BY <1>7 DEF LogHex
  <2>2. CASE UNCHANGED <<size, unchecked>>
    BY <1>0, <2>1, <2>2
       DEF FInv, Types, OneStream, Phases, Filled, Opening
  <2>3. CASE /\ flog.file # Null
             /\ size' = [size EXCEPT ![flog.file] = size[flog.file] + n]
             /\ unchecked' = [unchecked EXCEPT ![flog.file] = unchecked[flog.file] + n]
    <3>1. flog.file \in Second /\ n \in Nat
      BY <1>0, <2>3, FlogAssumption DEF Phases, Types, Second
    <3>2. size' \in [Second -> Nat] /\ unchecked' \in [Second -> Nat]
      BY <1>0, <2>3, <3>1 DEF Types
    <3>3. Filled'
      BY <1>0, <2>1, <2>3, <3>1, FlogAssumption DEF Types, FLog, Filled
    <3>4. QED
      BY <1>0, <2>1, <3>2, <3>3 DEF FInv, Types, OneStream, Phases, Opening
  <2>4. QED
    BY <1>7, <2>2, <2>3 DEF LogHex
<1>8. CASE ExitFlog
  <2>1. /\ pc = "up" /\ flog.binited = 1 /\ FLog_close("exited")
        /\ UNCHANGED <<conf, len, size, unchecked, now, setback, backs>>
    BY <1>0, <1>8 DEF ExitFlog, Phases
  <2>2. QED
    BY <1>0, <2>1, CloseIs
       DEF FInv, Types, OneStream, Phases, Filled, Opening
<1>9. CASE Tick
  <2>1. /\ now < MaxTime /\ now' = now + 1
        /\ UNCHANGED <<pc, conf, flog, len, open, size, unchecked, setback, backs>>
    BY <1>9 DEF Tick
  <2>2. QED
    BY <1>0, <2>1
       DEF FInv, Types, OneStream, Phases, Filled, Opening, Second
<1>10. ASSUME NEW t \in Second, SetBack(t)
       PROVE  FInv'
  <2>1. /\ t < now /\ now' = t /\ backs' = backs + 1
        /\ setback' = {"file", "line"}
        /\ UNCHANGED <<pc, conf, flog, len, open, size, unchecked>>
    BY <1>10 DEF SetBack
  <2>2. Types'
    BY <1>0, <2>1 DEF Types, Second
  <2>3. OneStream' /\ Phases'
    BY <1>0, <2>1 DEF OneStream, Phases, Types
  <2>4. Slack' = Slack + LineMax /\ LineMax \in Nat
    BY <1>0, <2>1, SlackIs, FlogAssumption DEF Slack, Types
  <2>5. Filled'
    BY <1>0, <2>1, <2>4 DEF Filled, Types, FLog, Phases
  <2>6. QED
    BY <2>2, <2>3, <2>5 DEF FInv
<1>11. CASE UNCHANGED flogVars
  BY <1>0, <1>11
     DEF flogVars, FInv, Types, OneStream, Phases, Filled, Opening
<1>12. QED
  BY <1>1, <1>2, <1>3, <1>4, <1>5, <1>6, <1>7, <1>8, <1>9, <1>10, <1>11 DEF Next

-----------------------------------------------------------------------------
LEMMA FInvHolds == Spec => []FInv
<1>1. QED
  BY InitFInv, NextFInv, PTL DEF Spec

\* No rotation leaks a FILE, whichever of them fail or abort.
THEOREM OneStreamHolds == Spec => []OneStream
<1>1. FInv => OneStream
  BY DEF FInv
<1>2. QED
  BY <1>1, FInvHolds, PTL

\* Besides what was written within its own second and hex dumps, a file outgrows
\* its limit by at most one line, and one more for each time the clock was set
\* back.
THEOREM SizeBoundedHolds == Spec => []SizeBounded
<1>1. QED
  BY FilledIsBounded, FInvHolds, PTL

-----------------------------------------------------------------------------
(***************************************************************************)
(* The date of a line.                                                     *)
(***************************************************************************)
\* The file's midnight is that of the day in its level strings, and neither the
\* file nor the line in progress is from the future, unless the clock was set back
\* in the meantime.
Dated ==
    /\ stamp \in Nat /\ time \in Nat
    /\ "line" \in setback \/ time <= now
    /\ flog.file # Null =>
          /\ flog.mid_night = stamp * Day
          /\ "file" \in setback \/ stamp <= DateOf(now)

DInv == FInv /\ Dated /\ DateIsRight

LEMMA DayIsDivision ==
    \A t \in Nat : /\ DateOf(t) \in Nat
                   /\ DateOf(t) * Day <= t /\ t < DateOf(t) * Day + Day
<1> SUFFICES ASSUME NEW t \in Nat
             PROVE  /\ t \div Day \in Nat
                    /\ (t \div Day) * Day <= t /\ t < (t \div Day) * Day + Day
  BY DEF DateOf
<1>1. Day \in Nat /\ Day > 0
  BY FlogAssumption
<1>2. QED
  BY <1>1

\* Days are in the order of their midnights.
LEMMA DaysInOrder ==
    \A a, b \in Nat : a * Day < b * Day + Day => a <= b
<1> SUFFICES ASSUME NEW a \in Nat, NEW b \in Nat, a > b
             PROVE  a * Day >= b * Day + Day
  BY FlogAssumption
<1>1. Day \in Nat /\ Day > 0
  BY FlogAssumption
<1>2. PICK c \in Nat : a = b + 1 + c
  <2>1. a - b - 1 \in Nat /\ a = b + 1 + (a - b - 1)
    OBVIOUS
  <2>2. QED
    BY <2>1
<1>3. a * Day = b * Day + Day + c * Day
  BY <1>1, <1>2
<1>4. c * Day \in Nat /\ b * Day \in Nat
  BY <1>1
<1>5. QED
  BY <1>1, <1>3, <1>4

LEMMA LaterIsNoEarlierDay ==
    \A s, t \in Nat : s <= t => DateOf(s) <= DateOf(t)
<1> SUFFICES ASSUME NEW s \in Nat, NEW t \in Nat, s <= t
             PROVE  DateOf(s) <= DateOf(t)
  OBVIOUS
<1>1. /\ DateOf(s) \in Nat /\ DateOf(t) \in Nat
      /\ DateOf(s) * Day <= s /\ t < DateOf(t) * Day + Day
  BY DayIsDivision
<1>2. DateOf(s) * Day \in Nat /\ DateOf(t) * Day + Day \in Nat
  BY <1>1, FlogAssumption
<1>3. DateOf(s) * Day < DateOf(t) * Day + Day
  BY <1>1, <1>2
<1>4. QED
  BY <1>1, <1>3, DaysInOrder

LEMMA InitDInv == Init => DInv
<1> SUFFICES ASSUME Init PROVE DInv
  OBVIOUS
<1>1. FInv /\ now \in Nat
  BY InitFInv DEF FInv, Types
<1>2. stamp = 0 /\ time = 0 /\ flog.file = Null /\ pc = "down"
  BY DEF Init
<1>3. QED
  BY <1>1, <1>2 DEF DInv, Dated, DateIsRight

\* The file is opened under today's date: a line in progress is of today or, if
\* midnight has passed since its time was taken, of an earlier day.
LEMMA OpenKeepsDates ==
    ASSUME DInv, NEW from, NEW done, NEW failed, FLog_open(from, done, failed),
           failed = "line" => done = "line"
    PROVE  Dated' /\ DateIsRight'
<1>1. /\ now \in Nat /\ time \in Nat /\ ("line" \in setback \/ time <= now)
      /\ stamp \in Nat /\ flog \in FLog /\ UNCHANGED <<time, now>>
  BY DEF DInv, Dated, FInv, Types, FLog_open
<1>2. /\ DateOf(now) \in Nat /\ DateOf(time) \in Nat
      /\ time <= now => DateOf(time) <= DateOf(now)
      /\ DateOf(now)' = DateOf(now) /\ DateOf(time)' = DateOf(time)
  BY <1>1, DayIsDivision, LaterIsNoEarlierDay DEF DateOf
<1>3. CASE UNCHANGED <<flog, stamp, setback>> /\ pc' = "aborted"
  BY <1>1, <1>2, <1>3 DEF DInv, Dated, DateIsRight
<1>4. CASE flog'.file = Null /\ UNCHANGED <<stamp, setback>>
  BY <1>1, <1>4 DEF Dated, DateIsRight
<1>5. CASE /\ flog'.mid_night = DateOf(now) * Day /\ stamp' = DateOf(now)
           /\ setback' = setback \ {"file"}
  <2>1. Dated'
    BY <1>1, <1>2, <1>5 DEF Dated
  <2>2. DateIsRight'
    BY <1>1, <1>2, <1>5 DEF DateIsRight
  <2>3. QED
    BY <2>1, <2>2
<1>6. QED
  BY <1>1, <1>3, <1>4, <1>5 DEF FLog_open, FLog

\* A line for which the day did not have to end.
LEMMA SameDay ==
    ASSUME DInv, flog.file # Null, ~(now > flog.mid_night + Day)
    PROVE  \/ stamp = DateOf(now)
           \/ stamp + 1 = DateOf(now) /\ now = DateOf(now) * Day
           \/ DateOf(now) < stamp /\ "file" \in setback
<1>1. /\ now \in Nat /\ stamp \in Nat
      /\ "file" \in setback \/ stamp <= DateOf(now)
      /\ Day \in Nat /\ Day > 0 /\ now <= stamp * Day + Day
  BY FlogAssumption DEF DInv, Dated, FInv, Types
<1>2. /\ DateOf(now) \in Nat
      /\ DateOf(now) * Day <= now /\ now < DateOf(now) * Day + Day
  BY <1>1, DayIsDivision
<1>3. stamp * Day \in Nat /\ DateOf(now) * Day \in Nat
  BY <1>1, <1>2
<1>4. (stamp + 1) * Day = stamp * Day + Day
  BY <1>1
<1>5. CASE now < stamp * Day + Day
  <2>1. DateOf(now) * Day < stamp * Day + Day
    BY <1>1, <1>2, <1>3, <1>5
  <2>2. DateOf(now) <= stamp
    BY <1>1, <1>2, <2>1, DaysInOrder
  <2>3. QED
    BY <1>1, <1>2, <2>2
<1>6. CASE now = stamp * Day + Day
  <2>1. (stamp + 1) * Day < DateOf(now) * Day + Day
    BY <1>2, <1>4, <1>6
  <2>2. stamp + 1 <= DateOf(now)
    BY <1>1, <1>2, <2>1, DaysInOrder
  <2>3. DateOf(now) * Day < (stamp + 1) * Day + Day
    BY <1>1, <1>2, <1>3, <1>4, <1>6
  <2>4. DateOf(now) <= stamp + 1
    BY <1>1, <1>2, <2>3, DaysInOrder
  <2>5. stamp + 1 = DateOf(now)
    BY <1>1, <1>2, <2>2, <2>4
  <2>6. now = (stamp + 1) * Day
    BY <1>4, <1>6
  <2>7. QED
    BY <2>5, <2>6
<1>7. QED
  BY <1>1, <1>3, <1>5, <1>6

LEMMA NextDInv == DInv /\ [Next]_flogVars => DInv'
<1> SUFFICES ASSUME DInv, [Next]_flogVars PROVE Dated' /\ DateIsRight'
  BY NextFInv DEF DInv
<1>0. /\ FInv /\ Types /\ Dated /\ now \in Nat /\ flog \in FLog
      /\ Null \notin Nat
  BY FlogAssumption DEF DInv, FInv, Types
<1>1. CASE InitFLog
  <2>1. flog'.file = Null /\ UNCHANGED <<stamp, time, now, setback>>
    BY <1>0, <1>1 DEF InitFLog, FLog
  <2>2. QED
    BY <1>0, <2>1 DEF Dated, DateIsRight
<1>2. CASE OpenFirst \/ OpenDay \/ OpenNext
  BY <1>2, OpenKeepsDates DEF OpenFirst, OpenDay, OpenNext
<1>3. ASSUME NEW level, NEW n \in 1..LineMax, LogLine(level, n)
      PROVE  Dated' /\ DateIsRight'
  <2>1. /\ pc = "up" /\ flog.binited = 1 /\ time' = now
        /\ setback' = setback \ {"line"} /\ UNCHANGED <<stamp, now>>
    BY <1>0, <1>3 DEF LogLine, FInv, Phases
  <2>2. CASE FLog_close("day")
    BY <1>0, <2>1, <2>2, CloseIs DEF Dated, DateIsRight
  <2>3. CASE ~(now > flog.mid_night + Day) /\ UNCHANGED flog
    <3>1. Dated'
      BY <1>0, <2>1, <2>3 DEF Dated, DateOf
    <3>2. DateOf(time)' = DateOf(now) /\ DateOf(now)' = DateOf(now)
      BY <2>1 DEF DateOf
    <3>3. DateIsRight'
      BY <2>1, <2>3, <3>2, SameDay DEF DateIsRight
    <3>4. QED
      BY <3>1, <3>3
  <2>4. QED
    BY <1>3, <2>2, <2>3 DEF LogLine
<1>4. CASE WriteLine
  <2>1. /\ pc = "line" /\ flog.binited = 1 /\ time' = 0
        /\ UNCHANGED <<stamp, now, setback>>
    BY <1>0, <1>4 DEF WriteLine, FInv, Phases
  <2>2. CASE pc' \in {"up", "undefined"} /\ UNCHANGED flog
    BY <1>0, <2>1, <2>2 DEF Dated, DateIsRight, DateOf
  <2>3. CASE FLog_close("size")
    BY <1>0, <2>1, <2>3, CloseIs DEF Dated, DateIsRight
  <2>4. QED
    BY <1>4, <2>2, <2>3 DEF WriteLine
<1>5. ASSUME NEW level, NEW n \in 1..LineMax, LogHex(level, n)
      PROVE  Dated' /\ DateIsRight'
  BY <1>0, <1>5 DEF LogHex, Dated, DateIsRight, DateOf
<1>6. CASE ExitFlog
  <2>1. /\ flog.binited = 1 /\ FLog_close("exited")
        /\ UNCHANGED <<stamp, time, now, setback>>
    BY <1>0, <1>6 DEF ExitFlog, FInv, Phases
  <2>2. QED
    BY <1>0, <2>1, CloseIs DEF Dated, DateIsRight
<1>7. CASE Tick
  <2>1. now' = now + 1 /\ UNCHANGED <<pc, flog, stamp, time, setback>>
    BY <1>7 DEF Tick
  <2>2. /\ DateOf(now) \in Nat /\ DateOf(now') \in Nat
        /\ DateOf(now) <= DateOf(now')
    BY <1>0, <2>1, DayIsDivision, LaterIsNoEarlierDay
  <2>3. DateOf(now)' = DateOf(now') /\ DateOf(time)' = DateOf(time)
    BY <2>1 DEF DateOf
  <2>4. Dated'
    BY <1>0, <2>1, <2>2, <2>3 DEF Dated
  <2>5. DateIsRight'
    BY <1>0, <2>1, <2>2, <2>3 DEF DInv, Dated, DateIsRight
  <2>6. QED
    BY <2>4, <2>5
<1>8. ASSUME NEW t \in Second, SetBack(t)
      PROVE  Dated' /\ DateIsRight'
  <2>1. setback' = {"file", "line"} /\ UNCHANGED <<pc, flog, stamp, time>>
    BY <1>8 DEF SetBack
  <2>2. /\ stamp \in Nat /\ DateOf(time) \in Nat /\ DateOf(time)' = DateOf(time)
    BY <1>0, <2>1, DayIsDivision DEF Dated, DateOf
  <2>3. Dated'
    BY <1>0, <2>1 DEF Dated
  <2>4. DateIsRight'
    BY <2>1, <2>2 DEF DateIsRight
  <2>5. QED
    BY <2>3, <2>4
<1>9. CASE UNCHANGED flogVars
  BY <1>9 DEF flogVars, DInv, Dated, DateIsRight, DateOf
<1>10. QED
  BY <1>1, <1>2, <1>3, <1>4, <1>5, <1>6, <1>7, <1>8, <1>9 DEF Next

\* A line carries the date of its time, but for the second of midnight, a rotation
\* that midnight overtakes, and a clock set back, over every sequence of rotations.
THEOREM DateIsRightHolds == Spec => []DateIsRight
<1>1. DInv => DateIsRight
  BY DEF DInv
<1>2. QED
  BY <1>1, InitDInv, NextDInv, PTL DEF Spec

-----------------------------------------------------------------------------
(***************************************************************************)
(* Types.                                                                  *)
(***************************************************************************)
TInv == DInv /\ FlogTypeOK

FlogRecord == [binited : {0, 1}, file : Second \cup {Null}, mid_night : Second,
               max_size : 0..LogMax, max_level : 0..L_LEVEL_MAX,
               enable_pack_print : {0, 1}]

LEMMA InitFlogTypeOK == Init => FlogTypeOK
BY FlogAssumption DEF Init, FlogTypeOK, Conf, Second, L_INFO, L_LEVEL_MAX

LEMMA OpenKeepsTypes ==
    ASSUME TInv, NEW from \in Opening, NEW done, NEW failed,
           FLog_open(from, done, failed),
           done \in {"up", "line"}, failed \in {"up", "line", "exited"}
    PROVE  FlogTypeOK'
<1>1. /\ now \in Second /\ DateOf(now) \in Nat /\ DateOf(now) * Day \in Second
  <2>1. now \in Nat /\ now <= MaxTime /\ MaxTime \in Nat
    BY DEF TInv, DInv, FInv, Types
  <2>2. /\ DateOf(now) \in Nat /\ DateOf(now) * Day \in Nat
        /\ DateOf(now) * Day <= now
    BY <2>1, DayIsDivision, MidnightIsNat
  <2>3. QED
    BY <2>1, <2>2 DEF Second
<1>2. flog \in FlogRecord
  BY DEF TInv, FlogTypeOK, FlogRecord
<1>3. flog' \in FlogRecord
  BY <1>1, <1>2 DEF FLog_open, FlogRecord
<1>4. /\ pc' \in {"aborted", "up", "line", "exited"} /\ stamp' \in Nat /\ open' \in Nat
      /\ UNCHANGED <<ndebug, conf, time, len, size, unchecked, now, backs, calls>>
      /\ setback' \in SUBSET {"file", "line"}
  BY <1>1 DEF TInv, FlogTypeOK, FLog_open
<1>5. QED
  BY <1>3, <1>4 DEF TInv, FlogTypeOK, FlogRecord, Second, Conf

LEMMA CloseKeepsTypes ==
    ASSUME TInv, NEW next \in {"day", "size", "exited"}, FLog_close(next)
    PROVE  /\ pc' \in {"day", "size", "exited", "undefined"}
           /\ flog' \in FlogRecord /\ open' \in Nat
<1>1. flog \in FlogRecord /\ open \in Nat
  BY DEF TInv, FlogTypeOK, FlogRecord
<1>2. flog.file # Null => open = 1
  BY DEF TInv, DInv, FInv, OneStream
<1>3. QED
  BY <1>1, <1>2 DEF FLog_close, FlogRecord

LEMMA NextTInv == TInv /\ [Next]_flogVars => TInv'
<1> SUFFICES ASSUME TInv, [Next]_flogVars PROVE FlogTypeOK'
  BY NextDInv DEF TInv
<1>0. /\ flog \in FlogRecord /\ FlogTypeOK
      /\ size \in [Second -> Nat] /\ unchecked \in [Second -> Nat]
      /\ now \in Second /\ calls \in 0..MaxLines
      /\ setback \in SUBSET {"file", "line"} /\ backs \in 0..MaxBacks
      /\ flog.file # Null => flog.file \in Second
  BY DEF TInv, FlogTypeOK, FlogRecord
<1>1. CASE InitFLog
  <2>1. conf.max_size \in Nat /\ conf.max_level \in Nat
    BY DEF TInv, DInv, FInv, Types
  <2>2. /\ Least(conf.max_size, LogMax) \in 0..LogMax
        /\ Least(conf.max_level, L_LEVEL_MAX) \in 0..L_LEVEL_MAX
    BY <2>1, FlogAssumption DEF Least, L_LEVEL_MAX
  <2>3. flog' \in FlogRecord
    BY <1>0, <1>1, <2>2 DEF InitFLog, FlogRecord
  <2>4. pc' = "init" /\ UNCHANGED <<ndebug, conf, stamp, time, len, open, size,
                                   unchecked, now, setback, backs, calls>>
    BY <1>1 DEF InitFLog
  <2>5. QED
    BY <1>0, <2>3, <2>4 DEF FlogTypeOK, FlogRecord
<1>2. CASE OpenFirst \/ OpenDay \/ OpenNext
  BY <1>2, OpenKeepsTypes DEF OpenFirst, OpenDay, OpenNext, Opening
<1>3. ASSUME NEW level, NEW n \in 1..LineMax, LogLine(level, n)
      PROVE  FlogTypeOK'
  <2>1. /\ time' = now /\ len' \in 0..LineMax /\ calls' \in 0..MaxLines
        /\ setback' \in SUBSET {"file", "line"}
        /\ UNCHANGED <<ndebug, conf, stamp, size, unchecked, now, backs>>
    BY <1>0, <1>3, FlogAssumption DEF LogLine
  <2>2. /\ pc' \in {"day", "size", "exited", "undefined", "line"}
        /\ flog' \in FlogRecord /\ open' \in Nat
    BY <1>0, <1>3, CloseKeepsTypes DEF LogLine, FlogTypeOK
  <2>3. QED
    BY <1>0, <2>1, <2>2 DEF FlogTypeOK, FlogRecord
<1>4. CASE WriteLine
  <2>1. /\ time' \in Second /\ len' \in 0..LineMax
        /\ UNCHANGED <<ndebug, conf, stamp, now, setback, backs, calls>>
    BY <1>4, FlogAssumption DEF WriteLine, Second
  <2>2. size' \in [Second -> Nat] /\ unchecked' \in [Second -> Nat]
    BY <1>0, <1>4, FlogAssumption DEF WriteLine, FlogTypeOK
  <2>3. /\ pc' \in {"day", "size", "exited", "undefined", "up"}
        /\ flog' \in FlogRecord /\ open' \in Nat
    BY <1>0, <1>4, CloseKeepsTypes DEF WriteLine, FlogTypeOK
  <2>4. QED
    BY <1>0, <2>1, <2>2, <2>3 DEF FlogTypeOK, FlogRecord
<1>5. ASSUME NEW level, NEW n \in 1..LineMax, LogHex(level, n)
      PROVE  FlogTypeOK'
  <2>1. /\ size' \in [Second -> Nat] /\ unchecked' \in [Second -> Nat]
        /\ calls' \in 0..MaxLines
    BY <1>0, <1>5, FlogAssumption DEF LogHex
  <2>2. UNCHANGED <<pc, ndebug, conf, flog, stamp, time, len, open, now, setback,
                    backs>>
    BY <1>5 DEF LogHex
  <2>3. QED
    BY <1>0, <2>1, <2>2 DEF FlogTypeOK, FlogRecord
<1>6. CASE ExitFlog
  <2>1. /\ pc' \in {"day", "size", "exited", "undefined"}
        /\ flog' \in FlogRecord /\ open' \in Nat
    BY <1>6, CloseKeepsTypes DEF ExitFlog
  <2>2. UNCHANGED <<ndebug, conf, stamp, time, len, size, unchecked, now, setback,
                    backs, calls>>
    BY <1>6 DEF ExitFlog
  <2>3. QED
    BY <1>0, <2>1, <2>2 DEF FlogTypeOK, FlogRecord
<1>7. CASE Tick \/ \E t \in Second : SetBack(t)
  <2>1. /\ now' \in Second /\ setback' \in SUBSET {"file", "line"}
        /\ backs' \in 0..MaxBacks
    <3>1. CASE Tick
      BY <1>0, <3>1, FlogAssumption DEF Tick, Second
    <3>2. ASSUME NEW t \in Second, SetBack(t)
          PROVE  /\ now' \in Second /\ setback' \in SUBSET {"file", "line"}
                 /\ backs' \in 0..MaxBacks
      BY <1>0, <3>2, FlogAssumption DEF SetBack
    <3>3. QED
      BY <1>7, <3>1, <3>2
  <2>2. UNCHANGED <<pc, ndebug, conf, flog, stamp, time, len, open, size,
                    unchecked, calls>>
    BY <1>7 DEF Tick, SetBack
  <2>3. QED
    BY <1>0, <2>1, <2>2 DEF FlogTypeOK, FlogRecord
<1>8. CASE UNCHANGED flogVars
  BY <1>0, <1>8 DEF flogVars, FlogTypeOK, FlogRecord, Second, Conf
<1>9. QED
  BY <1>1, <1>2, <1>3, <1>4, <1>5, <1>6, <1>7, <1>8 DEF Next

\* Every variable of the logger has its type; the midnight FLog_open() stores is
\* a second that has been.
THEOREM FlogTypeOKHolds == Spec => []FlogTypeOK
<1>1. Init => TInv
  BY InitDInv, InitFlogTypeOK DEF TInv
<1>2. TInv => FlogTypeOK
  BY DEF TInv
<1>3. QED
  BY <1>1, <1>2, NextTInv, PTL DEF Spec
=============================================================================
