--------------------------------- MODULE Flog ---------------------------------
(***************************************************************************)
(* The logger of src/flog.c: one FILE at a time, named after the second in *)
(* which it was opened, replaced by FLog_vlog() when the day is over or the *)
(* file is larger than max_size.  Each line starts with the date that was   *)
(* stamped into the level strings when the file was opened, and with the    *)
(* time of the call.                                                       *)
(*                                                                         *)
(* The clock is the wall clock of time() and gettimeofday(): between any   *)
(* two system calls it runs on, or is set forward, or back.  A line is a    *)
(* number of bytes; a file is known by the second of its name, and opening  *)
(* a name again appends to it ("a+").                                      *)
(***************************************************************************)
EXTENDS Naturals, FiniteSets

CONSTANTS
    Day,        \* seconds of a day: 24 * 60 * 60
    LineMax,    \* bytes of the longest line
    LogMax,     \* LOGFILE_DEFMAXSIZE
    Null,       \* no FILE
    MaxTime,    \* bound: the clock stops there
    MaxBacks,   \* bound: how often the clock is set back
    MaxLines    \* bound: calls of the logger

ASSUME FlogAssumption ==
    /\ Day \in Nat \ {0} /\ LineMax \in Nat \ {0} /\ LogMax \in Nat
    /\ MaxTime \in Nat /\ MaxBacks \in Nat /\ MaxLines \in Nat
    /\ Null \notin Nat

L_INFO == 3
L_DEBUG == 4
L_LEVEL_MAX == 6

Second == 0..MaxTime

VARIABLES
    pc,         \* the call in progress, and how far it is
    ndebug,     \* whether the build leaves assert() out
    conf,       \* the configuration InitFLog() was given
    flog,       \* g_sFlog
    stamp,      \* the day in level_str_ and level_str_usec_
    time,       \* what gettimeofday() told the call in progress
    len,        \* the bytes it will write
    open,       \* FILEs that are open
    size,       \* bytes of the file of each second
    unchecked,  \* history: those of the file's own second, or of a hex dump
    now,        \* the clock
    setback,    \* history: whether it was set back since the file was opened,
                \* and since the line in progress took its time
    backs,      \* history: how often it was set back
    calls       \* calls so far

flogVars == <<pc, ndebug, conf, flog, stamp, time, len, open, size,
              unchecked, now, setback, backs, calls>>

Conf == [max_size : {LogMax, LogMax + 1}, max_level : {L_INFO, L_LEVEL_MAX + 1},
         enable_pack_print : {0, 1}]

DateOf(t) == t \div Day

Least(a, b) == IF a < b THEN a ELSE b

\* A static object starts as zeros.
Init ==
    /\ pc = "down" /\ ndebug \in BOOLEAN
    /\ conf \in Conf
    /\ flog = [binited |-> 0, file |-> Null, mid_night |-> 0, max_size |-> 0,
               max_level |-> 0, enable_pack_print |-> 0]
    /\ stamp = 0 /\ time = 0 /\ len = 0
    /\ open = 0
    /\ size = [s \in Second |-> 0] /\ unchecked = [s \in Second |-> 0]
    /\ now \in Second \cap (0..(Day - 1))
    /\ setback = {} /\ backs = 0
    /\ calls = 0

-----------------------------------------------------------------------------
\* FLog_open() at from, which goes on at done, or at failed if fopen() fails.
\* Its assertion allows it only before the logger counts as initialised.
FLog_open(from, done, failed) ==
    /\ pc = from
    /\ \/ /\ ~ndebug /\ flog.binited # 0
          /\ pc' = "aborted"
          /\ UNCHANGED <<flog, stamp, open, setback>>
       \/ /\ ndebug \/ flog.binited = 0
          /\ pc' = done
          /\ flog' = [flog EXCEPT !.file = now, !.mid_night = DateOf(now) * Day,
                                  !.binited = IF from = "init" THEN 1 ELSE @]
          /\ stamp' = DateOf(now)
          /\ open' = open + 1
          /\ setback' = setback \ {"file"}
       \/ /\ ndebug \/ flog.binited = 0
          /\ pc' = failed
          /\ flog' = [flog EXCEPT !.file = Null]
          /\ UNCHANGED <<stamp, open, setback>>
    /\ UNCHANGED <<ndebug, conf, time, len, size, unchecked, now, backs, calls>>

\* FLog_close() on the way to next: fclose(), file = NULL.  binited stays.
FLog_close(next) ==
    IF flog.binited = 0 THEN pc' = next /\ UNCHANGED <<flog, open>>
    ELSE /\ pc' = IF flog.file = Null THEN "undefined" ELSE next
         /\ flog' = [flog EXCEPT !.file = Null]
         /\ open' = IF flog.file = Null THEN open ELSE open - 1

\* Mutant: max_size and max_level are taken as they are.
InitFLog_NoClip ==
    /\ pc = "down" /\ flog.binited = 0
    /\ pc' = "init"
    /\ flog' = [flog EXCEPT !.max_size = conf.max_size,
                            !.max_level = conf.max_level, !.file = Null]
    /\ UNCHANGED <<ndebug, conf, stamp, time, len, open, size, unchecked,
                   now, setback, backs, calls>>

\* InitFLog() up to its call of FLog_open(): of the configuration,
\* enable_pack_print stays behind.
InitFLog ==
    /\ pc = "down" /\ flog.binited = 0
    /\ pc' = "init"
    /\ flog' = [flog EXCEPT !.max_size = Least(conf.max_size, LogMax),
                            !.max_level = Least(conf.max_level, L_LEVEL_MAX),
                            !.file = Null]
    /\ UNCHANGED <<ndebug, conf, stamp, time, len, open, size, unchecked,
                   now, setback, backs, calls>>

OpenFirst == FLog_open("init", "up", "exited")

\* Mutant: a day ends only when the next one does.
LogLine_LateRotation(level, n) ==
    /\ pc = "up" /\ level <= flog.max_level
    /\ calls < MaxLines /\ calls' = calls + 1
    /\ time' = now /\ len' = n /\ setback' = setback \ {"line"}
    /\ IF now >= flog.mid_night + 2 * Day THEN FLog_close("day")
       ELSE pc' = "line" /\ UNCHANGED <<flog, open>>
    /\ UNCHANGED <<ndebug, conf, stamp, size, unchecked, now, backs>>

\* Mutant: the new file is opened and the old one not closed.
LogLine_NoClose(level, n) ==
    /\ pc = "up" /\ level <= flog.max_level
    /\ calls < MaxLines /\ calls' = calls + 1
    /\ time' = now /\ len' = n /\ setback' = setback \ {"line"}
    /\ pc' = IF now > flog.mid_night + Day THEN "day" ELSE "line"
    /\ UNCHANGED <<ndebug, conf, flog, open, stamp, size, unchecked, now, backs>>

\* FLog_vlog() of a line of n bytes, up to its first rotation.
LogLine(level, n) ==
    /\ pc = "up" /\ level <= flog.max_level
    /\ calls < MaxLines /\ calls' = calls + 1
    /\ time' = now /\ len' = n /\ setback' = setback \ {"line"}
    /\ IF now > flog.mid_night + Day THEN FLog_close("day")
       ELSE pc' = "line" /\ UNCHANGED <<flog, open>>
    /\ UNCHANGED <<ndebug, conf, stamp, size, unchecked, now, backs>>

\* What FLog_open() returns is not looked at.
OpenDay == FLog_open("day", "line", "line")

\* Mutant: the limit is tested before the line is written.
WriteLine_TestsBefore ==
    LET f == flog.file
    IN  /\ pc = "line"
        /\ IF f = Null THEN pc' = "undefined" /\ UNCHANGED <<flog, open, size, unchecked>>
           ELSE /\ size' = [size EXCEPT ![f] = @ + len]
                /\ unchecked' = [unchecked EXCEPT ![f] = IF now = f THEN @ + len ELSE @]
                /\ IF size[f] > flog.max_size THEN FLog_close("size")
                   ELSE pc' = "up" /\ UNCHANGED <<flog, open>>
        /\ time' = 0 /\ len' = 0
        /\ UNCHANGED <<ndebug, conf, stamp, now, setback, backs, calls>>

\* The line is written, and the file has its limit checked.  What is local to the
\* call is not needed after that.
WriteLine ==
    LET f == flog.file
    IN  /\ pc = "line"
        /\ IF f = Null THEN pc' = "undefined" /\ UNCHANGED <<flog, open, size, unchecked>>
           ELSE /\ size' = [size EXCEPT ![f] = @ + len]
                /\ unchecked' = [unchecked EXCEPT ![f] = IF now = f THEN @ + len ELSE @]
                /\ IF size'[f] > flog.max_size THEN FLog_close("size")
                   ELSE pc' = "up" /\ UNCHANGED <<flog, open>>
        /\ time' = 0 /\ len' = 0
        /\ UNCHANGED <<ndebug, conf, stamp, now, setback, backs, calls>>

OpenNext == FLog_open("size", "up", "up")

\* FLog_log_hex(): no date, and no limit.
LogHex(level, n) ==
    LET refused == \/ level > flog.max_level \/ flog.file = Null
                   \/ flog.enable_pack_print = 0 /\ level > L_INFO
    IN  /\ pc = "up"
        /\ calls < MaxLines /\ calls' = calls + 1
        /\ IF refused THEN UNCHANGED <<size, unchecked>>
           ELSE /\ size' = [size EXCEPT ![flog.file] = @ + n]
                /\ unchecked' = [unchecked EXCEPT ![flog.file] = @ + n]
        /\ UNCHANGED <<pc, ndebug, conf, flog, stamp, time, len, open, now,
                       setback, backs>>

ExitFlog ==
    /\ pc = "up"
    /\ FLog_close("exited")
    /\ UNCHANGED <<ndebug, conf, stamp, time, len, size, unchecked, now, setback,
                   backs, calls>>

\* The clock runs on, or is set forward: by a second, as often as you please.
Tick ==
    /\ now < MaxTime
    /\ now' = now + 1
    /\ UNCHANGED <<pc, ndebug, conf, flog, stamp, time, len, open, size,
                   unchecked, setback, backs, calls>>

\* The clock is set back to t.
SetBack(t) ==
    /\ t < now
    /\ backs < MaxBacks /\ backs' = backs + 1
    /\ now' = t
    /\ setback' = {"file", "line"}
    /\ UNCHANGED <<pc, ndebug, conf, flog, stamp, time, len, open, size,
                   unchecked, calls>>

Next ==
    \/ InitFLog \/ OpenFirst \/ OpenDay \/ WriteLine \/ OpenNext \/ ExitFlog
    \/ \E level \in {L_INFO, L_DEBUG}, n \in 1..LineMax :
          LogLine(level, n) \/ LogHex(level, n)
    \/ Tick
    \/ \E t \in Second : SetBack(t)

Spec == Init /\ [][Next]_flogVars

-----------------------------------------------------------------------------
\* Every variable has its type.
FlogTypeOK ==
    /\ pc \in {"down", "init", "up", "day", "line", "size", "exited", "aborted",
               "undefined"}
    /\ ndebug \in BOOLEAN /\ conf \in Conf
    /\ flog \in [binited : {0, 1}, file : Second \cup {Null}, mid_night : Second,
                 max_size : 0..LogMax, max_level : 0..L_LEVEL_MAX,
                 enable_pack_print : {0, 1}]
    /\ stamp \in Nat /\ time \in Second /\ len \in 0..LineMax
    /\ open \in Nat
    /\ size \in [Second -> Nat] /\ unchecked \in [Second -> Nat]
    /\ now \in Second /\ setback \in SUBSET {"file", "line"}
    /\ backs \in 0..MaxBacks /\ calls \in 0..MaxLines

\* However many rotations there are, by day and by size, and whichever of them
\* fail or abort, just the FILE in g_sFlog is open, so that no rotation leaks
\* one and an abort loses no line.
OneStream == open = IF flog.file = Null THEN 0 ELSE 1

\* A line carries the date of its time, with four exceptions.  The first second
\* of a day still counts to the day before.  The file may be opened for a line
\* after a midnight that was still to come when the line's time was taken.  Once
\* the clock was set back over a midnight, lines go on under the later date of
\* their file, as t_diff is negative and nothing rotates.  And where it was set
\* back just between a line's time and the opening of a file for the line, the
\* date is an earlier one.
DateIsRight ==
    pc = "line" /\ flog.file # Null =>
        \/ stamp = DateOf(time)
        \/ stamp + 1 = DateOf(time) /\ time = DateOf(time) * Day
        \/ DateOf(time) < stamp /\ stamp <= DateOf(now)
        \/ DateOf(time) < stamp /\ "file" \in setback
        \/ stamp < DateOf(time) /\ "line" \in setback

\* Besides what was written within the second it is named after, where rotation
\* opens the same file again, and besides hex dumps, a file outgrows its limit by
\* no more than one line, and one more each time the clock was set back, as the
\* name may then be taken again by a file that has its size already.
SizeBounded ==
    \A s \in Second :
        size[s] <= flog.max_size + unchecked[s] + LineMax * (1 + backs)

\* "assert(g_sFlog.binited == 0)": what FLog_open() expects of its callers.
AssertionHolds == pc # "aborted"
=============================================================================
