# A TLA+ model of concurrent-tcp-client

The program under `src/` opens a pool of TCP connections to one server and
replays prepared requests on each of them: connect, send, wait for the
response, sleep, send again.  It has one thread, an edge-triggered epoll set
and timers taken from nginx.  This directory holds a model of it, the TLC
configurations that check the model on small instances, and proofs, checked by
TLAPS, that its main safety properties hold for every value of the constants.

## 1. Inventory

| Part | Source | State | Operations |
| --- | --- | --- | --- |
| Connection handlers | `common.c`, `common.h` | `p_connection_pool`: per connection `state`, `fd`, `active`, `ready_read`, `ready_write`, buffers, `timer_set`, its `conf->requests` | `start_connect`, `close_connection`, `add_read_event`, `add_write_event`, `handle_send_event`, `handle_read_event`, `handle_after_request`, `handle_close_event`, `handle_timer_event` |
| Event loop | `test.c` | the event list, `delta`, `wait_time` | `main`, `signal_handler` |
| Timers | `ngx_event_timer.c`, `.h` | `ngx_current_msec`, `ngx_event_timer_rbtree` | `ngx_event_find_timer`, `ngx_event_expire_timers`, `ngx_event_add_timer`, `ngx_event_del_timer`, `ngx_time_update` |
| Red-black tree | `ngx_rbtree.c`, `.h` | nodes, root, sentinel | insert, delete, rotations, minimum |
| Configuration, test data | `config.c`, `config.h` | `p_config` | `make_test_config`, `load_test_data`, `clear_test_config` |
| Logger | `flog.c`, `flog.h` | `g_sFlog`, the level strings | `InitFLog`, `FLog_open`, `FLog_vlog` with its rotations, `FLog_log_hex`, `FLog_close` |
| Allocator wrapper | `zmalloc.c`, `zmalloc.h` | `used_memory`, `zmalloc_oom_handler` | `zmalloc`, `zcalloc`, `zrealloc`, `zfree`, `zmalloc_size` |

How they interact.  `main` calls everything.  It starts the connections, then
repeats: ask the timers for the time to the earliest, block in `epoll_wait`,
update the clock, call one handler per reported event, expire the timers.  A
handler works on one connection; it calls `send`, `recv`, `epoll_ctl`, may
close and reopen the descriptor, and may set the connection's timer.  An
expired timer calls `handle_timer_event`, which may send.  The kernel and the
server run beside all this: between the snapshot that `epoll_wait` takes and
the handler that acts on it a stream may be filled, closed or aborted.  SIGTERM
and SIGINT run the same clean-up as `main`'s exit, at any instruction.

What is hard here:

* the flags `ready_read`, `ready_write` and `active` are a cache of what epoll
  was last told, and `epoll_ctl` is skipped by them;
* an edge is reported once, and a handler called in a state it ignores
  consumes it;
* `close_connection` leaves the timer of a sleeping connection in the tree, and
  `ngx_event_add_timer` may keep it for the next sleep;
* a handler that closes and reopens a descriptor in the middle of a batch
  reuses its number at once;
* `conf->requests` is unsigned, decremented by the test that reads it, and pays
  for answers and reconnections alike;
* responses arrive in pieces, and the connection resumes where it stopped;
* time is a word that wraps around, is compared by the sign of differences, and
  follows a wall clock that may be set back or forward, read once for a batch;
* a signal may find the clean-up between a release and the assignment that
  forgets what was released;
* start-up has ten ways to fail, each with its own half-built state to clean up;
* the log rotates by day and by size, from within the function that writes, and
  by the same wall clock.

What makes each part correct: descriptors, epoll entries and connections
correspond one to one; the cached flags agree with the kernel; nobody waits for
something that has already happened; a stream and its connection agree on what
is outstanding; the budget is conserved; a connection that was given up stays
closed; sleeps end, and near the time they asked for; requests go out whole and
in turn; what start-up acquired is released once, whenever the process ends;
one log file is open.
`PROJECT.json` lists the
hazards at their lines, each with the properties about it.

## 2. Modules

### TcpClient

One module for the handlers, the loop and the kernel, since no handler can be
judged without the other two.

| Variable | Code |
| --- | --- |
| `conn` | the `connection_t` of each connection, with `conf->requests`; `timer` is `timer_set` together with whether the timer has come due |
| `sock` | external: for each descriptor the stream's stage, the units to read, the units the server owes, room in the send buffer, and the epoll entry (`data.ptr`, mask, on the ready list or not) |
| `loop` | where `main` is: starting, about to wait, in the `for` over the events, in `ngx_event_expire_timers`, at `done:`, exited, or killed by SIGPIPE |
| `todo` | the connections `start_all_connection` has still to start |
| `batch` | the part of `event_list` not yet dispatched |
| `delta` | whether the clock moved during `epoll_wait` |
| `answered`, `redialled` | history, read by properties only: responses taken and retries paid for |

A handler never blocks and the process has one thread, so a handler is one
action: `DispatchClose`, `DispatchRead`, `DispatchSend`, `Expire`, with
`DispatchIgnored` for a handler that returns by its state test.  The helpers are
operators on the record of a connection and the record of its descriptor:
`ReadEventConn`/`ReadEventSock` and `WriteEventConn`/`WriteEventSock` for the
two `add_*_event`, `Closed` and `Released` for `close_connection`,
`StartConnect`, `Drop` for the error exit that four places share
(close, pay, reconnect), `SendAll`, `SendSome`, `TrySend` for the ways `send`
can end, `AfterRequest`, `HandleRead`.  The environment's actions (`Accept`,
`Refuse`, `Reply`, `Push`, `Fin`, `Reset`, `Drain`) interleave with them freely,
also within a batch.

What is abstracted, and why it loses nothing the properties see:

* Bytes are units: a request has `ReqLen` of them, a response `HeadLen` and
  `BodyLen`.  With two of each every cut (before, inside, between, after) happens.
* Once the head is read only the sign of `read_len` is used, so it is 0.  A
  resumed body never completes (see the finding below); the model keeps reading.
  If more bytes came than the head announces, `common.c:367` would count
  `read_len` down below 0 and what follows would be taken for a head; this is not
  followed, so `FlagAssumption` excludes a server that both splits and pushes.
* The time of a timer is reduced to whether it has come due; which key it has is
  the subject of `EventTimer`.  Keeping an old timer is a nondeterministic
  choice in `AddTimer`, since the keys decide it.
* A `connect` that succeeds at once is an `Accept` before the next step.
* EINTR on a non-blocking socket takes the branch of EAGAIN.
* `epoll_ctl` fails when the entry does not fit the operation (`CtlFits`) and,
  for `EPOLL_CTL_ADD`, when `"epoll_add"` is among the faults.
* The connections are alike, so the order of `start_all_connection` is open.
* The branch after `EPOLLOUT` in `main` (an error alone) does what `EPOLLRDHUP`
  does, so `WantsClose` covers both.
* Which request is sent, and which byte of it, is the subject of `Exchange`.

`Faults` selects what the environment may do, so that a run asks one question.

### RequestBudget, TcpClientBudget

`RequestBudget` is the promise behind all this, without sockets: each connection
has a phase (not opened, open, closed) and an account of answers and retries
against a budget.  `TcpClientBudget` maps `TcpClient` onto it (`PhaseOf`; the
history variables are the account) and states `ImplementsBudget`: the unsigned
counter that the handlers decrement in four places, and that wraps, amounts to
that account.

### Exchange

One connection byte by byte, where `TcpClient` counts units: requests of
different lengths, `make_request`'s index or its random choice, sends that take
part of a request or nothing, heads that arrive in pieces, lengths out of range,
closes at any byte, retries.  `c` has the fields of `connection_t`, `stream` is
the TCP stream (external), `size` is the local variable of `handle_read_event`.
Each turn of that function's loop is a step (`RecvSome`, `RecvHead`, `RecvBody`,
`RecvNone`), as bytes arrive between its calls of `recv`; the other handlers are
a step each.  A byte of a request is a pair of its request and its place, a byte
of a response of the request it answers and its place, so a mixture of two is
seen.  The bytes of a body are counted only: the program does not look at them.
Events come whenever there is something to do; that they do come is
`TcpClient`'s subject.  The server answers whole requests and sends nothing else.

### Lifecycle

The process from `LOG_INIT` to its exit, with `signal_handler`.  `held` is what
the process holds (blocks and descriptors), `known` what its variables name; a
step is one call or one assignment, and between two of them a handler may start,
twice if both signals come.  A handler never returns, so `pc` is the place of the
topmost frame only; `after` is where `clear_test_config` returns to, since
`make_test_config` calls it too.  `zero` are the slots whose `fd` is still the 0
of `zcalloc`, which is also stdin.  `cut` is history: where signals hit.  There
are seven places where one may do harm (`Fragile`): six between a release and the
assignment that forgets what was released, and the one between `file = NULL`
and the exit, as `binited` stays 1 and the handler's `LOG_INFO` writes to that
file.  The log keeps its file here: a signal during a rotation, or after one that
failed, is left to neither this module nor `Flog`, whose calls no signal cuts.
The loop is reduced to opening and closing descriptors, which is what a clean-up in
its middle can meet.  Library calls are atomic: a signal inside `malloc`, `free`
or stdio may break the library itself, and that is not modelled.

### Flog

The logger over days and sizes.  A file is named after the second it is opened
in, so a file is a second; the clock runs on, or is set back (`SetBack`), between
the calls of one function (`LogLine` takes the time, `OpenDay` and `OpenNext` take
it anew).  `setback` and `backs` are history: which of the file's opening and the
line's time a set-back came after, and how many there were.  `FLog_open`
is an operator with the points it is called from and returns to; its assertion
fails or is not compiled (`ndebug`).  A line is a number of bytes.

### EventTimer

Timers with their keys, on a clock of `Msecs` values that wraps around.
`TimeUpdate` may find it set back, by up to `MaxBack` in all, or forward, by up
to `MaxAhead` at a time; and the handlers take time (`Work`) that
`ngx_current_msec`, read once for a batch, does not show.
`ngx_current_msec`, `key`, `timer_set` are the code's; `tree` is the set of the
nodes in the red-black tree; `idle` says a connection is in `ST_IDLE`; `pass` is
the place in the loop.  `left`, `over`, `under`, `back` and `lag` are history: what
really is left of a sleep, by how much the clock was set back in it, by how much
it was set forward in it or was behind when it was asked for, by how much it was
set back altogether, and how old its last reading is but for `epoll_wait`.
`FindTimer` computes the timeout as `ngx_event_find_timer` does, and `AsInt`
what `epoll_wait` makes of it.  `Sleep` is `handle_after_request` with
`ngx_event_add_timer`, `Close` is `close_connection` of a sleeping connection,
which leaves the timer; `Expire` takes out one timer.  `ngx_event_del_timer` is
inlined where it is called, in `AddTimer`.  `TcpClient` abstracts this module:
`timer` is `"off"` outside the tree, and a timer `Expire` would take is `"due"`.
The other way round `EventTimer` uses `TimerQueue`, see below.

### RBTree, TimerQueue

`RBTree` is the tree itself: the fields of the nodes and the root in `tree`, and
the loop that is running with its variable in `step`, `node`, `temp`.  Each
iteration of a loop is an action (`Descend`, `InsertFixup`, `DeleteFixup`), with
`Insert` and `Delete` for what comes before it and `InsertDone` and `DeleteDone`
for what comes after.  The two halves of each function are mirror images, so a
side is a parameter.  The assignments of a step are grouped by what they do to
the links: `Turned` is a rotation, `Spliced` puts a node's only child in its
place, `Replaced` puts the successor in the place of the deleted node, and
`Repay` is the part of the deletion's loop that deals with a black sibling.  The
tree starts as static memory: all fields null, the sentinel black.  Fields the
code leaves stale are left so: the parent and colour of deleted nodes and of the
root, the parent of the shared sentinel.  Only one operation runs at a time,
since the program has one thread; the steps serve to state what holds between
iterations.

`TimerQueue` is the contract between the two.  It says what the timers get: a
set of nodes with the keys they were given, and a node none of the others is due
before.  And it says what the tree must be given: no node twice, and keys that
lie within half of the word (`Together`), as comparison by sign is an order there
only.  `RBTree` implements it (`ImplementsQueue`), with the set of nodes below
the root as the queue and `ngx_rbtree_min` as the first; its `Insert` is guarded
by `Together`.  `EventTimer` keeps to it (`UsesQueue`), with its `tree` and
`Earliest` as queue and first, and nothing but its own handling of time to
guarantee the nearness of keys.  A timer that is set anew is taken out and put in
within one step of `EventTimer`, which `MoveSpec` allows as `Move`.

### TcpClientLemmas and the modules named ...Proofs

The inductive invariants and the proofs; see section 4.  `RequestBudget` is
short, and has its theorem with it.

### MCTcpClient, MCEventTimer, MCRBTree, MCExchange

The first two add the symmetry of connections for TLC.  `MCRBTree` gives keys to
the nodes and defines the view of `RBTree_climb`, `MCExchange` gives lengths to
the requests.  `Lifecycle` and `Flog` are checked as they are.

## 3. Runs

Every run is small enough to be exhausted.  Deadlock is not checked in the runs
of `TcpClient`: when all connections are closed for good `epoll_wait` blocks for
ever, which is how the program ends without a signal, and it may also exit or be
killed.  Nor is it in `Exchange` (a closed connection), `Lifecycle` and `Flog`
(processes that exit).  `EventTimer` and `RBTree` never stop, and there deadlock
is checked.

| Run | Question | Instance |
| --- | --- | --- |
| `TcpClient_faults` | Do flags, timers and budgets survive refusals, closes, aborts, bad heads, and the reconnections they cause, and implement `RequestBudget`? | 2 connections, budget 2, retry, sleeps |
| `TcpClient_local` | Are descriptors exclusive and released, when the client's own calls fail? | 3 connections, 2 descriptors, 1 event per wait |
| `TcpClient_stream` | Do stream and connection stay in step, and is no edge lost, when everything is cut in pieces? | 2 connections, 2 units of everything, no sleeps |
| `TcpClient_live` | Does every sleep and every wait end, and the run, also when data nobody asked for uses up edges? | 2 connections, budget 1, fairness |
| `TcpClient_split_body` | README:21 says that head and body are handled. In pieces, too? | 1 connection, a server that splits; violated |
| `EventTimer` | Does lazy keeping of timers, over closes, busy handlers and a clock that wraps and is set back and forward, keep every sleep near what it asked for, and give the tree only what it can take? | 2 connections, 24 clock values, an int of 10, delay 2, sleeps of 1 and 3, late by 1, set back by 1, forward by up to 3 at a time, batches of up to 1 |
| `RBTree_queue` | Does the tree implement a queue of timers, with keys that coincide, and whatever earlier operations left behind? | 5 nodes, a word of 8, keys that coincide in pairs around the wrap, two nodes with a choice of key |
| `RBTree_climb` | Are links, order and colours right between any two iterations, also when the repair after a deletion climbs? | 11 nodes with keys of their own in a word of 32, over the wrap, seen from the root |
| `Exchange` | Do requests go out whole and in turn, and does reading keep its place, over cuts at any byte and retries? | requests of 2, 1 and 3 bytes, budget 3, responses of up to 7 bytes |
| `Lifecycle` | Where is a signal harmless, what is released, and does the process end? | 3 slots, 3 requests in the file, both signals |
| `Flog` | Is one file open, dated right and bounded, over rotations, failures and a clock set back? | days of 2 seconds, 5 seconds, set back once, 4 calls, lines of up to 2 bytes, limit 3 |
| `Flog_assert` | flog.c:92 asserts that the log is not initialised. Is it so? | the same; violated |

Properties of `TcpClient`: `TypeOK`; `FdOwnership` (descriptors, epoll entries
and live connections correspond, and no event reaches a closed connection);
`FlagsMatchKernel`; `NoLostWakeup` (a connection nobody is about to wake waits
for something still to come); `OneOutstanding` (what the server owes or has in
flight is what the connection misses); `SleeperHasTimer`;
`BudgetInv`; `GivesUpOnlyWhenSpent`; `ExitReleasesAll`; `ClosedForGood` (an
action property); `ImplementsBudget` (refinement); `SleeperWakes`,
`ResponseEnds`, `Quiesces` (liveness).

Properties of `EventTimer`: `TimerTypeOK`; `TimerSetInTree`; `AllTimersAhead`
(also the condition under which the tree's comparison is an order and `wait_time`
fits an int); `WakeNearDue` and `SleepsAsAsked` (an action property), which bound
how far a timer and a wake-up are from the end of the sleep by the lazy delay and
by what the clock was set back, set forward and behind, each in its own
direction; `UsesQueue` (refinement).

Properties of `RBTree`: `RBTypeOK`; `Linked` (links down and up agree);
`Ordered`; `Coloured` (red nodes and black heights, with what a running loop
still owes), of which `RBTree_climb` checks the last three and `RBTree_queue` the
first; `Terminates` (liveness); `ImplementsQueue` (refinement).

Properties of `Exchange`: `ExchangeTypeOK`; `WholeRequests` (the server gets
requests whole, one after the other, none continued from an earlier stream);
`InTurn` (the test data is gone through in order, errors and retries
notwithstanding); `HeadWhole` (the head being read is made of bytes of one
response, the right one); `InStep` (the next byte is the one the connection
stands at, and nothing is left when a request starts).

Properties of `Lifecycle`: `PoolNeedsConfig`; `CleansUpOnce` (no
double release, no use after one, stdin stays open, unless a signal hits one of
the places that are named); `AllReleased`; `LoopIsEquipped`; `SignalEnds`
(liveness).

Properties of `Flog`: `FlogTypeOK`; `OneStream`; `DateIsRight` (with four
exceptions, each of which occurs: the first second of a day, a midnight between a
line's time and its file's opening, a set-back under the file, and a set-back
between the two); `SizeBounded` (by a line more for each set-back).

Why the bounds are enough.  Handlers touch one connection; two are needed for
one to take the other's descriptor or events, three to compete for two
descriptors.  A budget of two takes a connection through sleep, answer and retry
in each order, and through the wrap of the counter, with `ReqMod` 8 so that the
wrapped value is far from both.  The theorems below hold for every value. In
`EventTimer` the word and the int are about as small as `TimeAssumption` allows,
so that sums wrap in most histories; a timer that was left behind is nearer to the
next one than the delay in some of them, and not in others; the set-back falls
into the sleep of either connection or both, a step forward may be longer than
the delay and as long as a sleep, and a batch takes time before or after a
connection in it asks for its sleep.
In `Exchange` the index of three requests wraps within the budget, a head of
four bytes has every cut, and lengths at both ends of the range (4, 5, 6, 7)
occur. Three slots and three requests give `Lifecycle` each loop's first, middle
and last turn, and two signals are all there can be.  In `Flog` five seconds
hold two midnights and rotations within and across a second; four lines outgrow
a file twice; one set-back suffices for each exception, over either midnight or
onto the second of a file that is there.  Below ten nodes no deletion of `RBTree`
repairs more than one level: it takes a tree of seven black nodes, and the first insertion history
that leaves one needs ten.  `RBTree_climb` therefore has eleven, and identifies
states (VIEW `Reached`) that differ only in fields which are written before they
are read again; `RBTree_queue` keeps these fields, on fewer nodes.

Fairness.  `Program` is weakly fair: the thread runs whenever it can.  `Accept`,
`Reply` and `Drain` are weakly fair per descriptor: a server that neither
refuses, closes nor aborts accepts, answers and reads.  Faults are never fair.
`WaitTimeout` is part of `Program`, so time passes when nothing else happens.
In `RBTree` the iterations are weakly fair, the calls are not.  In `Lifecycle`
the program is weakly fair and signals are not: none need come.

The findings.

* `TcpClient_split_body` violates `ResponseEnds`.  A body that EAGAIN
  interrupts is resumed with a size computed from `read_buf.end`
  (`common.c:351`), which nothing ever sets; the end of the response is never
  recognised and the connection stays in `ST_RECVING` until the server closes it.
  A head that is interrupted is resumed properly, which `OneOutstanding` and
  `NoLostWakeup` show in `TcpClient_stream`, and `HeadWhole` in `Exchange`.
* `Flog_assert` violates `AssertionHolds`.  Rotation calls `FLog_open` while
  `binited` is 1, which `FLog_open` asserts it is not (`flog.c:92`): in a build
  with assertions, as that of `src/README`, the first rotation aborts the client.

Other behaviour the model shows and no document contradicts: a budget of N
allows N + 1 answers; a response that arrives with the server's close is thrown
away, as EPOLLRDHUP is tested first; a connection whose reconnection fails
locally is never tried again; a `send` after close and abort kills the process;
a request whose exchange failed is not repeated, its turn comes again; a signal
that hits a gap of the clean-up (`Fragile`, `Unrecorded`) releases twice,
leaks, or writes to a log that is gone, and one in the loop that initialises the slots closes stdin; the first
second of a day is logged into the file, and with the date, of the day before;
once the clock was set back over a midnight lines carry the next day's date, as
`t_diff` (`flog.c:257`) is negative and nothing rotates; a clock that is set
forward wakes every sleeper early, by as much, and one that is set back late; a
rotation that fails leaves no file, and the next line is written to NULL.

Two comments do not describe the code, and no run is spent on them:
`load_test_data` leaves the data file open when its first read is short
(`config.c:147`; the exception in `AllReleased`), though `config.c:32` promises
that all resources are cleared; `InitFLog` does not take over
`enable_pack_print`, so that no hex dump above INFO is written whatever
`flog.h:42` says of it (`LogHex`).

## 4. Proofs

Every theorem rests on the assumptions about constants that its module names
(any finite non-empty `Conn`, any descriptors, any budget below any `ReqMod`,
any `Faults` but splitting and pushing together; any `Slots`, `Data`; any
lengths; any `Day`, `LogMax`; any finite set of nodes and any even word of
keys; ...) and on nothing else.  Each invariant is proved by induction: it is strengthened until it is inductive, and
each action has a step or a lemma of its own.

**`TcpClientProofs`**: `TypeCorrect`, `FdOwnershipHolds`,
`FlagsMatchKernelHolds`, `SleeperHasTimerHolds`, `NoOverdueAtLoopHeadHolds`,
`BudgetHolds`, `ClosedForGoodHolds` (an action property), and, each by one more
induction on top, `ExitReleasesAllHolds`, `OneOutstandingHolds` and
`NoLostWakeupHolds`.
`FdOwnership` needs the link back from each open descriptor to its owner
(`Linked`), or closing one connection might disturb another; `FlagsMatchKernel`
needs `active` and `data.ptr` of every live connection and cleared flags of every
closed one (`Held`, `Shut`), or a reconnection would skip `epoll_ctl`;
`SleeperHasTimer` and `NoOverdueAtLoopHead` need where in the loop a timer may be
due (`NoneDue`); `BudgetInv` needs that a connection still to be started has its
whole budget.  `IInv` is their conjunction, with the facts that events are
pending only during dispatch and only for live connections.  `OneOutstanding` is
inductive on top of `IInv`, once it is followed through the calls within a
handler, each of which keeps it of the stream it hands on (`Stream`).
`NoLostWakeup` needs that whatever a connection waits for is reported, on the
ready list, or still to come (`Awake`), and that a handler, which consumes the
reports, leaves its connection so with none of them left (`Alert`).
`TcpClientLemmas` has one lemma for each helper on records, two on
what a step that changes one connection must show for the others (`Attach`,
`Detach`), and one for each handler, which concludes an `Outcome`: links whole,
budget balanced, timer the one found or a new one, no other connection changed.
The last part of `TcpClientProofs` is about `TcpClientBudget`: `ImplementsBudgetHolds`, that every
initial state of `TcpClient` maps to one of `RequestBudget` and every step to a
step or a stutter.  The budget a connection has left and the wrapped counter are read as an account
by `BudgetInv`; an exhausted set of descriptors is excluded by a pigeonhole
argument from `FdOwnership` and the number of descriptors, so a dial fails only
when the client's calls do.  `RequestBudget`'s own theorem `BudgetKept` then
yields `GivesUpOnlyWhenSpentHolds`.

**`ExchangeProofs`**: `InTurnHolds`, `HeadWholeHolds`, `InStepHolds`, and
`ExchangeTypeOKHolds`, `WholeRequestsHolds`.  `InTurn` needs that the index is
the successor of the last request begun.  `HeadWhole` and `InStep` need where
everything on the way belongs: while a response is awaited all of it is the rest
of one response, numbered from the place the connection has reached (`InHead`,
`InBody`), and otherwise there is none, and the server owes none (`Quiet`).  The
other two need a second invariant, inductive together with the first: what a
state of the connection has taken from the budget (`Paid`), or the number of
requests begun would have no bound; that all bytes on the way are bytes of
responses (`Known`); and that the server of the present stream has got the
requests begun on it, whole, and of the last one as much as `pos` says
(`Wired`).  `Wired` has the bytes as a concatenation, and a send that completes a
request turns its last piece into a whole one: what `FlattenSeq` makes of one
more piece is shown by induction over the number of pieces.

**`LifecycleProofs`**: `PoolNeedsConfigHolds`, `CleansUpOnceHolds`,
`LoopIsEquippedHolds` and `AllReleasedHolds`.  `PoolNeedsConfig` follows from
what variables name at each point (`Control`), whatever the signals do.
`CleansUpOnce` needs that what is named is held but for what the clean-up in
progress is about to forget (`Sound`), which holds as long as no signal has hit
such a place.  The other two rest on what start-up has made so far (`Equipped`)
and on the converse of `Sound`: what is held is named and can be reached
(`Named`), and what a clean-up has passed is released (`Behind`).

**`FlogProofs`**: `OneStreamHolds`, `SizeBoundedHolds`, `DateIsRightHolds`,
`FlogTypeOKHolds`.  A file whose second is not over, or that is open, is short of
its bound by a line, and by two if the clock was set back while it was open
(`Filled`): it may get one now, and another when its second comes again.
The date needs that `mid_night` is the midnight of the day in the level strings,
and that neither it nor the line's time is in the future unless the clock was set
back since (`Dated`).

**`EventTimerProofs`**: `TimerTypeOKHolds`, `TimerSetInTreeHolds`,
`AllTimersAheadHolds`, `WakeNearDueHolds` and `SleepsAsAskedHolds`.  The last
three are about differences of words that wrap.  Two lemmas make them tractable:
moving the clock by d moves a difference by d (`DiffShifts`), and keys compare
by sign as their differences from the clock compare as integers
(`DiffCompares`), both as long as nothing leaves half of the word.  The
invariant is that every timer lies no further behind the clock than `epoll_wait`
is late, the clock set forward and a batch long (`Overdue`), and no further ahead
of it than a sleep and the set-back (`Placed`, within `PInv`), and the assumption
about the word's size keeps that within the half.  `WakeNearDue` is inductive on
top of it; `SleepsAsAsked` needs, besides, how late the loop may be when it looks
at the timers of those that sleep on (`Awaited`).
`ngx_event_find_timer` then returns the distance of a nearest timer: a non-empty
tree has one because the natural numbers are well-founded (`LeastNatural`).
`UsesQueueHolds` is the refinement: what is `Placed` is so near the clock that
all keys, a new one included, are `Together` (`KeysNear`), the nearest timer is
one no other comes before (`FirstAnswers`), and `TimerSetInTree` keeps a node
from being inserted twice.

**`RBTreeProofs`**: `RBInvHolds` and, from it, `RBTypeOKHolds`, `LinkedHolds`,
`OrderedHolds`, `ColouredHolds` and `ImplementsQueueHolds`.  None of these is
inductive, and an invariant cannot speak of subtrees by the recursive functions
`Below` and `Min`: what an assignment to one link does to them is an induction
over the tree, one for each rotation.  So the invariant `RBInv` says that there
*is* a function D, from each node to the set of nodes below it, that agrees with
the links: a node's set is the node and the sets of its children, these are
disjoint, and the links up and down correspond (`Shape`).  A rotation or a
replacement of a node changes D at a few nodes, which can be written down.  In
the same way the black heights are a function H (`Level`), and that keys are in
order is said of D (`Order`); that sign comparison is an order at all rests on
the keys being `Together`.

Four cases say where in an operation the tree is, each with its own exception.
`Idle`: the tree is `Fine`, it has no red child of a red node and a black root.
`Descends`: so it is, and the node to be inserted is outside of it and
belongs below `temp` by every comparison above it.  `Inserts`: one red node may
have a red parent, the one the loop has reached (`Conflict`).  `Deletes`: one
black is missing, on the side where `temp` hangs, and `temp` pays if it is red or
the root (`Pending`).  The stale fields are what makes this delicate: `temp` may
be the sentinel, whose parent is then what the deletion has stored in it, and
`Hangs`, which looks at the left child only, is right because the sibling of what
lacks a black cannot be the sentinel, too (`Sibling`).  The lemmas follow the code: the red uncle of an insertion (`LiftedConflict`) and its
rotations (`SwappedConflict`, `SettledConflict`); the red sibling of a deletion
(`RedSibling`), and the black one with two black children, with a red near child
or a red far one (`BlackNephews`, `NearNephew`, `FarNephew`).

Only at the end D is tied to the code's view: `Below` and `Min` give what D says
(an induction over generations, and one over the size of a subtree), so that the
invariants the runs check follow.  The refinement needs that a step leaves the
nodes, their keys and the leftmost node alone (`Stays`), or adds one node
(`Grown`) or takes one away (`Shrunk`).  A node that is still descending is
not in the tree, and so it joins the queue in the step that links it.

Induction over data is done without the library's induction theorems, which take
an operator as a parameter and cannot be instantiated by the provers at hand:
a claim is instead a set of numbers, and one that has 0 and every successor has
them all (`NatSubset` in `ExchangeProofs`, `Induction` in `RBTreeProofs`), as the
naturals are well-founded.

Only model-checked: the liveness properties `SleeperWakes`, `ResponseEnds`,
`Quiesces`, `Terminates` and `SignalEnds`, as fairness and ENABLED are out of the
prover's reach.  All other properties of the passing runs are proved, too.
Only proved, as `EventTimer` checks the same of the timers themselves:
`NoOverdueAtLoopHead`.

## 5. Not modelled

* Failure of `malloc`, which aborts.
* Addresses and the layout of buffers: that read buffers are 1024 bytes apart
  (`common.c:175`) and where the bytes of a body are put (`common.c:367`).
* A signal inside a library call, in the middle of writing a line, or in a
  rotation of the log.
* Which of `EPOLLIN` and `EPOLLRDHUP` ought to be handled first, and whether
  SIGPIPE ought to kill the process: the model follows the code, and there is no
  document to compare it with.
* The edges that `epoll_wait` holds back when there are more than
  `EPOLLWAITNUM`: that none is lost is epoll's own business.
* Summer time: days have a fixed length in `Flog`.
* The text of log lines, and `FLog_strformatreplace`, which always returns -1, as
  its destination is an empty string: the format is used as it is.
* `setsockopt`'s and `ioctl`'s effects on the socket.
* `make_tmp_test_data`, `check_config` and `ngx_rbtree_insert_value`, which
  nothing calls or which do nothing.
* `zmalloc.c`, which is Redis' wrapper of `malloc` with an account nobody reads;
  `Lifecycle` has the blocks the client allocates and frees by it.
* The Lua scripts that generate the test data, and the documents.

## 6. Plan

1. `TcpClient`'s `timer` as an abstraction of `EventTimer`: an abstract module of
   timers that come due, which `EventTimer` implements and `TcpClient` uses, as
   `TimerQueue` is between `EventTimer` and `RBTree`.
2. Of the liveness properties, the safety part: that each iteration of a loop of
   `RBTree` moves towards the root or a leaf, and each handler of `Exchange`
   makes progress, as action properties that can be proved.
3. Larger instances of `TcpClient_stream`, with retries and sleeps.
4. A heap with addresses, for the layout of the read buffers.
