------------------------------ MODULE Lifecycle -------------------------------
(***************************************************************************)
(* How the process of src/test.c comes up and goes down.  main() opens the *)
(* log, loads the test data, builds the pool, runs the loop and, at done:, *)
(* calls clean_all_resource(); signal_handler() calls the same function    *)
(* from wherever SIGTERM or SIGINT finds the thread, also from the middle  *)
(* of a clean-up, and then leaves the process.                             *)
(*                                                                         *)
(* Two sets carry the state.  held is what the process really holds:       *)
(* blocks of the heap and open descriptors.  known is what its variables   *)
(* name.  A clean-up goes by known and changes held, and between a release *)
(* and the assignment that forgets it the two differ: a step here is one   *)
(* call of a library function or one assignment; only an allocation and    *)
(* the assignment of its address are a step together.  The log stays the   *)
(* same file here: its rotations, which close it for a moment or lose it,  *)
(* are Flog's.                                                             *)
(*                                                                         *)
(* A signal handler that has started never returns, so only the topmost    *)
(* frame matters: pc is where that frame is.                               *)
(***************************************************************************)
EXTENDS Naturals, FiniteSets

CONSTANTS
    Slots,      \* connection_pool_n
    Data        \* the requests in the test data file

ASSUME SizeAssumption == Slots \in Nat \ {0} /\ Data \in Nat \ {0}

Slot == 1..Slots
Datum == 1..Data

Signal == {"SIGTERM", "SIGINT"}

\* A resource is a pair, so that the sockets of slots and the blocks of test
\* data have names as well.
Sockets == {"socket"} \X Slot
Blocks == {"datum"} \X Datum
Stdin == <<"stdin", 0>>
Log == <<"g_sFlog.file", 0>>
File == <<"fp", 0>>
Array == <<"test_data", 0>>
Con == <<"con_config", 0>>
Pool == <<"p_connection_pool", 0>>
Buf == <<"read_buf", 0>>
Epoll == <<"epfd", 0>>
Resource == Sockets \cup Blocks
                \cup {Stdin, Log, File, Array, Con, Pool, Buf, Epoll}

\* p_config points at a static object: it is known or not, and never held.
Config == <<"p_config", 0>>

VARIABLES
    pc,         \* where the topmost frame is
    i,          \* its loop counter
    after,      \* where clear_test_config() returns to
    held,       \* the blocks and descriptors of the process
    known,      \* those its variables name
    zero,       \* slots whose fd is still the 0 of zcalloc()
    binited,    \* g_sFlog.binited
    caught,     \* signals whose handler has started
    cut         \* history: where they found the process

lifeVars == <<pc, i, after, held, known, zero, binited, caught, cut>>

Looping == {"loop", "dialled", "hung up"}
Cleaning == {"done", "clean", "close socket", "free buf", "free pool",
             "forget pool", "clear", "free con", "free item", "free data",
             "forget config", "close epoll", "forget epoll", "report",
             "close log", "forget log", "exit"}
Ended == {"exited", "undefined"}

Init ==
    /\ pc = "init log" /\ i = 0 /\ after = "clean"
    /\ held = {Stdin} /\ known = {} /\ zero = {}
    /\ binited = 0
    /\ caught = {} /\ cut = {}

\* From one program point to another, with what is held and known after it.
Step(from, to, h, k) ==
    /\ pc = from /\ pc' = to
    /\ held' = h /\ known' = k
    /\ UNCHANGED <<binited, caught, cut>>

Go(from, to) == Step(from, to, held, known)

\* free() of what a variable names.  A block that is no longer held is freed
\* twice: anything may happen.
Free(from, to, o) ==
    Step(from, IF o \in held THEN to ELSE "undefined", held \ {o}, known)

Rest == UNCHANGED <<i, after, zero>>

-----------------------------------------------------------------------------
(***************************************************************************)
(* main() up to its loop.                                                  *)
(***************************************************************************)
\* LOG_INIT(): without a log main() returns at once.
OpenLog ==
    /\ \/ Step("init log", "inited", held \cup {Log}, known \cup {Log})
       \/ Go("init log", "exit")
    /\ Rest

LogInited ==
    /\ pc = "inited" /\ pc' = "config"
    /\ binited' = 1
    /\ UNCHANGED <<held, known, caught, cut>> /\ Rest

\* make_test_config().
SetConfig == Step("config", "open data", held, known \cup {Config}) /\ Rest

\* An error exit of load_test_data(): make_test_config() clears the
\* configuration and main() goes to done.
LoadFails(from, h, k) ==
    /\ Step(from, "clear", h, k)
    /\ after' = "clean"
    /\ UNCHANGED <<i, zero>>

OpenData ==
    \/ Step("open data", "count", held \cup {File}, known) /\ Rest
    \/ LoadFails("open data", held, known)

\* The number of requests.  A short read leaves the file open, a number out of
\* range closes it.
ReadCount ==
    \/ LoadFails("count", held, known)
    \/ LoadFails("count", held \ {File}, known)
    \/ /\ Step("count", "item", held \cup {Array}, known \cup {Array})
       /\ i' = 1
       /\ UNCHANGED <<after, zero>>

\* Mutant: a bad request ends the loop as if it were the last.
ReadItem_Breaks ==
    LET block == <<"datum", i>>
    IN  \/ Go("item", "close data") /\ Rest
        \/ /\ Step("item", IF i = Data THEN "close data" ELSE "item",
                   held \cup {block}, known \cup {block})
           /\ i' = i + 1
           /\ UNCHANGED <<after, zero>>

\* One request.  A bad length is found before its block is allocated, a short
\* body after.
ReadItem ==
    LET block == <<"datum", i>>
    IN  \/ LoadFails("item", held \ {File}, known)
        \/ LoadFails("item", (held \ {File}) \cup {block}, known \cup {block})
        \/ /\ Step("item", IF i = Data THEN "close data" ELSE "item",
                   held \cup {block}, known \cup {block})
           /\ i' = i + 1
           /\ UNCHANGED <<after, zero>>

CloseData == Step("close data", "con", held \ {File}, known) /\ Rest

MakeCon == Step("con", "pool", held \cup {Con}, known \cup {Con}) /\ Rest

\* create_connection_pool(): the slots come zeroed, and 0 is a descriptor.
MakePool ==
    /\ Step("pool", "slot", held \cup {Pool}, known \cup {Pool})
    /\ i' = 1 /\ zero' = Slot
    /\ UNCHANGED after

InitSlot ==
    /\ Go("slot", IF i = Slots THEN "buf" ELSE "slot")
    /\ i' = i + 1 /\ zero' = zero \ {i}
    /\ UNCHANGED after

MakeBuf == Step("buf", "epoll", held \cup {Buf}, known \cup {Buf}) /\ Rest

MakeEpoll ==
    /\ \/ Step("epoll", "loop", held \cup {Epoll}, known \cup {Epoll})
       \/ Go("epoll", "done")
    /\ Rest

-----------------------------------------------------------------------------
(***************************************************************************)
(* The loop, as far as it opens and closes descriptors.                    *)
(***************************************************************************)
\* start_connect(): socket(), then c->fd, or close() if connect() fails, or
\* both if epoll_ctl() does.
Dial(s) ==
    /\ s \notin known
    /\ Step("loop", "dialled", held \cup {s}, known)
    /\ i' = s[2]
    /\ UNCHANGED <<after, zero>>

DialDone ==
    LET s == <<"socket", i>>
    IN  /\ \/ Step("dialled", "loop", held, known \cup {s})
           \/ Step("dialled", "loop", held \ {s}, known)
           \/ Step("dialled", "loop", held \ {s}, known \cup {s})
        /\ Rest

\* close_connection(): close(), then c->fd = -1.
Hangup(s) ==
    /\ s \in known
    /\ Step("loop", "hung up", held \ {s}, known)
    /\ i' = s[2]
    /\ UNCHANGED <<after, zero>>

HangupDone == Step("hung up", "loop", held, known \ {<<"socket", i>>}) /\ Rest

\* No connection could be started, or epoll_wait() has failed.
LeaveLoop == Go("loop", "done") /\ Rest

Done == Go("done", "clean") /\ Rest

-----------------------------------------------------------------------------
(***************************************************************************)
(* clean_all_resource() and LOG_EXIT.                                      *)
(***************************************************************************)
\* Mutant: the configuration is cleared before the pool that needs it.
Clean_ConfigFirst ==
    /\ Go("clean", IF Config \in known THEN "clear" ELSE "close epoll")
    /\ after' = "close epoll"
    /\ UNCHANGED <<i, zero>>

\* destroy_connection_pool() returns if there is no pool.
Clean ==
    /\ Go("clean", IF Pool \in known THEN "close socket" ELSE "clear")
    /\ i' = 1 /\ after' = "close epoll"
    /\ UNCHANGED zero

\* close() of the descriptor of slot i, read from the pool, for as many slots
\* as p_config says.  A number that is open no more does no harm, 0 is stdin.
CloseSocket ==
    /\ Step("close socket",
            CASE Pool \notin held \/ Config \notin known -> "undefined"
              [] i = Slots -> "free buf"
              [] OTHER -> "close socket",
            CASE i \in zero -> held \ {Stdin}
              [] <<"socket", i>> \in known -> held \ {<<"socket", i>>}
              [] OTHER -> held,
            known)
    /\ i' = i + 1
    /\ UNCHANGED <<after, zero>>

\* zfree() of the buffers, which the first slot names; NULL is ignored.
FreeBuf ==
    /\ \/ Pool \notin held /\ Go("free buf", "undefined")
       \/ Pool \in held /\ Buf \notin known /\ Go("free buf", "free pool")
       \/ Pool \in held /\ Buf \in known /\ Free("free buf", "free pool", Buf)
    /\ Rest

FreePool == Free("free pool", "forget pool", Pool) /\ Rest

\* Mutant: p_connection_pool keeps its value.
ForgetPool_Dangling == Go("forget pool", "clear") /\ Rest

\* p_connection_pool = NULL, and nothing else names what the slots named.
ForgetPool ==
    /\ Step("forget pool", "clear", held, known \ ({Pool, Buf} \cup Sockets))
    /\ zero' = {}
    /\ UNCHANGED <<i, after>>

\* clear_test_config() returns if there is no configuration.
Clear == Go("clear", IF Config \in known THEN "free con" ELSE after) /\ Rest

FreeCon ==
    /\ \/ Con \notin known /\ Go("free con", "free item")
       \/ Con \in known /\ Free("free con", "free item", Con)
    /\ i' = 1
    /\ UNCHANGED <<after, zero>>

\* Mutant: the array is freed and its blocks are forgotten.
FreeItem_ArrayOnly ==
    /\ Go("free item", IF Array \in known THEN "free data" ELSE "forget config")
    /\ Rest

\* zfree() of request i, which the array names.
FreeItem ==
    LET block == <<"datum", i>>
        next == IF i = Data THEN "free data" ELSE "free item"
    IN  /\ \/ Array \notin known /\ Go("free item", "forget config")
           \/ /\ Array \in known /\ Array \notin held
              /\ Go("free item", "undefined")
           \/ /\ Array \in known /\ Array \in held
              /\ IF block \in known THEN Free("free item", next, block)
                 ELSE Go("free item", next)
        /\ i' = i + 1
        /\ UNCHANGED <<after, zero>>

FreeData == Free("free data", "forget config", Array) /\ Rest

\* p_config = NULL.  The static object keeps its pointers, but only p_config
\* leads to them.
ForgetConfig == Step("forget config", after, held, known \ {Config}) /\ Rest

CloseEpoll ==
    /\ \/ Epoll \notin known /\ Go("close epoll", "report")
       \/ Epoll \in known /\ Step("close epoll", "forget epoll",
                                  held \ {Epoll}, known)
    /\ Rest

ForgetEpoll == Step("forget epoll", "report", held, known \ {Epoll}) /\ Rest

\* Writing to the log, or closing it, goes by binited and needs an open file.
LogUsable == binited = 0 \/ Log \in held \cap known

\* LOG_INFO() at the end of clean_all_resource().
Report == Go("report", IF LogUsable THEN "close log" ELSE "undefined") /\ Rest

\* LOG_EXIT.
CloseLog ==
    /\ \/ binited = 0 /\ Go("close log", "exit")
       \/ binited = 1 /\ LogUsable /\ Free("close log", "forget log", Log)
       \/ ~LogUsable /\ Go("close log", "undefined")
    /\ Rest

\* g_sFlog.file = NULL.  binited stays 1.
ForgetLog == Step("forget log", "exit", held, known \ {Log}) /\ Rest

\* Mutant: the handler returns instead of calling exit().
Exit_Returns == Go("exit", IF caught = {} THEN "exited" ELSE "loop") /\ Rest

\* main() returns, or the handler calls exit().
Exit == Go("exit", "exited") /\ Rest

\* signal_handler().  A signal is blocked while its own handler runs.
Handle(sig) ==
    /\ pc \notin Ended
    /\ sig \notin caught
    /\ caught' = caught \cup {sig}
    /\ cut' = cut \cup {pc}
    /\ pc' = "clean"
    /\ UNCHANGED <<i, after, held, known, zero, binited>>

Program ==
    \/ OpenLog \/ LogInited \/ SetConfig \/ OpenData \/ ReadCount \/ ReadItem
    \/ CloseData \/ MakeCon \/ MakePool \/ InitSlot \/ MakeBuf \/ MakeEpoll
    \/ \E s \in Sockets : Dial(s) \/ Hangup(s)
    \/ DialDone \/ HangupDone \/ LeaveLoop \/ Done
    \/ Clean \/ CloseSocket \/ FreeBuf \/ FreePool \/ ForgetPool
    \/ Clear \/ FreeCon \/ FreeItem \/ FreeData \/ ForgetConfig
    \/ CloseEpoll \/ ForgetEpoll \/ Report \/ CloseLog \/ ForgetLog
    \/ Exit

Next == Program \/ \E sig \in Signal : Handle(sig)

\* The thread is scheduled; signals need not come.
Spec == Init /\ [][Next]_lifeVars /\ WF_lifeVars(Program)

-----------------------------------------------------------------------------
\* "Need call after p_config", "need call before p_config": a pool is never
\* without the configuration its slots and its clean-up refer to, in whichever
\* frame and in whatever order signals arrive.
PoolNeedsConfig == Pool \in known => Config \in known

\* Where a signal finds the clean-up between the release of a block or of the
\* log and the assignment that forgets it, or, with the log forgotten but not
\* binited, about to exit.
Fragile == {"free pool", "forget pool", "free item", "free data",
            "forget config", "forget log", "exit"}

\* Nothing is freed twice or used after it was freed, nothing is written to a
\* log that is closed, and stdin stays open, however often main() and the
\* handlers clean up, unless a signal hits such a gap or, for stdin, the loop
\* that initialises the slots.  That the log is not in a rotation when the
\* signal comes, and that none has lost it, is taken for granted.
CleansUpOnce ==
    /\ cut \cap Fragile = {} => pc # "undefined"
    /\ "slot" \notin cut => Stdin \in held

\* Where a signal finds a descriptor that no variable names yet, or a log that
\* does not count as open yet.
Unrecorded == {"dialled", "inited"}

\* When the process exits, by itself or by signals that hit no gap, it has
\* released whatever it held; but for the data file, which only load_test_data()
\* closes, and one of its error exits does not.
AllReleased ==
    pc = "exited" /\ cut \cap (Fragile \cup Unrecorded) = {} =>
        held \subseteq {Stdin, File}

\* The loop runs only on complete data, and on everything its handlers use;
\* whatever fails before that leads past it.  The log is open when the loop is
\* entered; a rotation in the loop may still lose it.
LoopIsEquipped ==
    pc \in Looping =>
        /\ Blocks \cup {Array, Con, Pool, Buf, Epoll, Log} \subseteq held \cap known
        /\ Config \in known /\ File \notin held
        /\ zero = {}

\* Once a signal has come, or start-up has failed, the process ends.
SignalEnds == caught # {} \/ pc \in Cleaning ~> pc \in Ended
=============================================================================
