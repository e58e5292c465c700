------------------------------ MODULE TcpClient ------------------------------
(***************************************************************************)
(* The epoll client: the connection handlers of src/common.c driven by the *)
(* event loop of src/test.c, together with the kernel they talk to.        *)
(*                                                                         *)
(* A pool of connections replays requests against one server.  The process *)
(* has a single thread: start_all_connection() opens every connection once *)
(* and the loop then alternates between epoll_wait(), the handlers of the  *)
(* reported events and the expired timers.  A handler never blocks, so it  *)
(* is one step; the kernel and the server act between any two steps, in    *)
(* particular between the snapshot epoll_wait() takes and the handler that *)
(* consumes it.                                                            *)
(*                                                                         *)
(* A connection is a record of connection_t, a descriptor a record of what *)
(* the kernel knows of it.  Bytes are counted in units: a request is       *)
(* ReqLen of them, a response HeadLen (the 4-byte head) and BodyLen.  Time *)
(* is reduced to which armed timers have come due; their keys, and the     *)
(* lazy rule that may keep an old one, are the subject of EventTimer.      *)
(***************************************************************************)
EXTENDS Integers, FiniteSets

CONSTANTS
    Conn,       \* the connections of the pool
    FD,         \* the descriptors the process may hold
    Requests,   \* conf->requests before the run
    ReqMod,     \* 2^32: conf->requests is an unsigned int
    Retry,      \* conf->retry
    Sleeps,     \* conf->sleep_min > 0
    ReqLen,     \* units of a request
    HeadLen,    \* units of the response head
    BodyLen,    \* units of the response body
    MaxEvents,  \* EPOLLWAITNUM
    Faults      \* what the environment may do, a subset of Fault

Fault == {"refuse",    \* the server refuses a connection
          "local",     \* socket(), setsockopt() or connect() fails at once
          "epoll_add", \* epoll_ctl(EPOLL_CTL_ADD) fails
          "fin",       \* the server closes its side
          "rst",       \* the server aborts the connection
          "bad_head",  \* a response with a length out of range
          "split",     \* a response arrives in several pieces
          "push",      \* the server sends a response nobody asked for
          "short",     \* the send buffer fills up
          "wait"}      \* epoll_wait() fails

NoFd == -1
NoConn == "no connection"

ASSUME ConnAssumption     == /\ IsFiniteSet(Conn) /\ Conn # {}
                             /\ NoConn \notin Conn
ASSUME FDAssumption       == IsFiniteSet(FD) /\ FD \subseteq Nat
ASSUME RequestsAssumption == /\ Requests \in Nat /\ ReqMod \in Nat
                             /\ Requests < ReqMod
ASSUME LengthAssumption   == /\ ReqLen \in Nat \ {0} /\ HeadLen \in Nat \ {0}
                             /\ BodyLen \in Nat \ {0}
ASSUME EventsAssumption   == MaxEvents \in Nat \ {0}
\* A server that cuts a response in pieces sends none that nobody asked for: it
\* could count read_len down below 0 in a body that is resumed, which HandleRead
\* does not follow.
ASSUME FlagAssumption     == /\ Retry \in BOOLEAN /\ Sleeps \in BOOLEAN
                             /\ Faults \subseteq Fault
                             /\ ~({"split", "push"} \subseteq Faults)

VARIABLES
    conn,       \* p_connection_pool, with each connection's conf->requests
    sock,       \* the kernel's side of each descriptor
    loop,       \* where main() is
    todo,       \* connections start_all_connection() has not reached
    batch,      \* the events of each connection still to be dispatched
    delta,      \* whether ngx_current_msec moved during epoll_wait()
    answered,   \* history: responses each connection took in full
    redialled   \* history: retries each connection paid for

vars == <<conn, sock, loop, todo, batch, delta, answered, redialled>>

\* ST_SENT and ST_RECVED exist only inside a handler.
State == {"CLOSED", "CONNECTING", "IDLE", "SENDING", "RECVING"}

Event == {"IN", "RDHUP", "OUT", "ERR"}

\* none: not open.  syn: connecting.  up: established.  fin: the server has
\* closed its side.  rst: refused or aborted, the error is pending.  pipe:
\* aborted after the server's close, where the next send() raises SIGPIPE.
Link == {"none", "syn", "up", "fin", "rst", "pipe"}

Phase == {"start", "wait", "dispatch", "expire", "done", "exited", "killed"}

\* read_len is negative while units of the head are missing and 0 stands for
\* any value the code takes once the head is parsed: nothing but its sign is
\* looked at again.
Connection ==
    [state : State, fd : FD \cup {NoFd}, active : BOOLEAN,
     ready_read : BOOLEAN, ready_write : BOOLEAN,
     timer : {"off", "pending", "due"}, requests : 0..(ReqMod - 1),
     sent : 0..ReqLen, read_len : (-HeadLen)..0]

Socket ==
    [link : Link, rx : Nat, owed : Nat, writable : BOOLEAN,
     ptr : Conn \cup {NoConn}, mask : SUBSET Event, rdy : BOOLEAN]

NoSock == [link |-> "none", rx |-> 0, owed |-> 0, writable |-> TRUE,
           ptr |-> NoConn, mask |-> {}, rdy |-> FALSE]

\* A socket whose connect() is in progress, not yet known to epoll.
Dialled == [NoSock EXCEPT !.link = "syn"]

RespLen == HeadLen + BodyLen

Live(c) == conn[c].state # "CLOSED"

-----------------------------------------------------------------------------
(***************************************************************************)
(* What the kernel reports of a descriptor.                                *)
(***************************************************************************)
PeerClosed(k) == k.link \in {"fin", "rst", "pipe"}
Aborted(k) == k.link \in {"rst", "pipe"}

\* send() finds room in the buffer of an open stream.
Sendable(k) == k.link \in {"up", "fin"} /\ k.writable

\* The poll state of a TCP socket.
Poll(k) ==
    {e \in Event :
        \/ e = "IN" /\ (k.rx > 0 \/ PeerClosed(k))
        \/ e = "RDHUP" /\ PeerClosed(k)
        \/ e = "OUT" /\ (Aborted(k) \/ Sendable(k))
        \/ e = "ERR" /\ Aborted(k)}

\* The revents of epoll_wait(): what was asked for, and errors always.
Revents(k) == Poll(k) \cap (k.mask \cup {"ERR"})

\* epoll_ctl(): a new mask, and a report if the condition already holds.
Watch(k, c, m) ==
    LET w == [k EXCEPT !.ptr = c, !.mask = m]
    IN  [w EXCEPT !.rdy = (Revents(w) # {})]

\* An edge: the descriptor joins the ready list if the change is watched.
Edge(k, e) == [k EXCEPT !.rdy = (@ \/ e \cap (k.mask \cup {"ERR"}) # {})]

Ready == {f \in FD : /\ sock[f].link # "none" /\ sock[f].rdy
                     /\ Revents(sock[f]) # {}}

-----------------------------------------------------------------------------
(***************************************************************************)
(* The helpers of common.c.  They take and return the record r of the      *)
(* connection and the record k of its descriptor.                          *)
(***************************************************************************)
\* The events the two kinds of registration ask for.
ReadMask == {"IN", "RDHUP"}
WriteMask == {"OUT"}

\* EPOLL_CTL_MOD of a descriptor epoll does not hold, or EPOLL_CTL_ADD of one
\* it does, fails and changes nothing.
CtlFits(r, k) == r.active = (k.ptr # NoConn)

ReadEventConn(r, k) ==
    IF r.ready_read \/ ~CtlFits(r, k) THEN r
    ELSE [r EXCEPT !.active = TRUE, !.ready_read = TRUE, !.ready_write = FALSE]

ReadEventSock(r, k, c) ==
    IF r.ready_read \/ ~CtlFits(r, k) THEN k ELSE Watch(k, c, ReadMask)

WriteEventConn(r, k) ==
    IF r.ready_write \/ ~CtlFits(r, k) THEN r
    ELSE [r EXCEPT !.active = TRUE, !.ready_write = TRUE, !.ready_read = FALSE]

WriteEventSock(r, k, c) ==
    IF r.ready_write \/ ~CtlFits(r, k) THEN k ELSE Watch(k, c, WriteMask)

\* Mutant: close_connection() forgets ready_write.
Closed_KeepsReadyWrite(r) ==
    [r EXCEPT !.fd = NoFd, !.active = FALSE, !.ready_read = FALSE,
              !.state = "CLOSED"]

\* Mutant: close_connection() forgets the descriptor.
Released_NotClosed(r) == sock

\* close_connection() on the connection and on the descriptors.  The timer is
\* not deleted.
Closed(r) ==
    [r EXCEPT !.fd = NoFd, !.active = FALSE, !.ready_read = FALSE,
              !.ready_write = FALSE, !.state = "CLOSED"]

Released(r) ==
    IF r.fd = NoFd THEN sock ELSE [sock EXCEPT ![r.fd] = NoSock]

\* Mutant: conf->requests is a signed int.
Spend_Signed(r) == [r EXCEPT !.requests = @ - 1]

\* conf->requests--, on an unsigned int.
Spend(r) ==
    [r EXCEPT !.requests = IF @ = 0 THEN ReqMod - 1 ELSE @ - 1]

\* The lowest free descriptor, as socket() hands them out.
Lowest(f, s) == /\ s[f].link = "none"
                /\ \A g \in FD : s[g].link = "none" => f =< g

\* start_connect() for c, whose record is r, when the descriptors are s.
\* connect() reports EINPROGRESS; a success at once is the same as an Accept
\* before the next step.  After a failed epoll_ctl() the record keeps the
\* descriptor that has just been closed.
StartConnect(c, r, s) ==
    /\ UNCHANGED loop
    /\ \/ /\ "local" \in Faults \/ \A f \in FD : s[f].link # "none"
          /\ conn' = [conn EXCEPT ![c] = r]
          /\ sock' = s
       \/ \E f \in FD :
             /\ Lowest(f, s)
             /\ "epoll_add" \in Faults
             /\ conn' = [conn EXCEPT ![c] = [r EXCEPT !.fd = f]]
             /\ sock' = s
       \/ \E f \in FD :
             /\ Lowest(f, s)
             /\ conn' = [conn EXCEPT ![c] =
                   [WriteEventConn(r, Dialled) EXCEPT !.fd = f,
                                                      !.state = "CONNECTING"]]
             /\ sock' = [s EXCEPT ![f] = WriteEventSock(r, Dialled, c)]

\* Mutant: the retry is not paid for.
Drop_FreeRetry(c, r) ==
    IF Retry /\ r.requests > 0
    THEN /\ redialled' = [redialled EXCEPT ![c] = @ + 1]
         /\ StartConnect(c, Closed(r), Released(r))
    ELSE /\ conn' = [conn EXCEPT ![c] =
                        IF Retry THEN Spend(Closed(r)) ELSE Closed(r)]
         /\ sock' = Released(r)
         /\ UNCHANGED <<loop, redialled>>

\* Mutant: --requests > 0, which gives up one retry early.
Drop_PreDecrement(c, r) ==
    IF Retry /\ r.requests > 1
    THEN /\ redialled' = [redialled EXCEPT ![c] = @ + 1]
         /\ StartConnect(c, Spend(Closed(r)), Released(r))
    ELSE /\ conn' = [conn EXCEPT ![c] =
                        IF Retry THEN Spend(Closed(r)) ELSE Closed(r)]
         /\ sock' = Released(r)
         /\ UNCHANGED <<loop, redialled>>

\* The error exit every handler shares: close, and connect again if the budget
\* pays for it.  The budget is spent by the test itself, also at zero.
Drop(c, r) ==
    IF Retry /\ r.requests > 0
    THEN /\ redialled' = [redialled EXCEPT ![c] = @ + 1]
         /\ StartConnect(c, Spend(Closed(r)), Released(r))
    ELSE /\ conn' = [conn EXCEPT ![c] =
                        IF Retry THEN Spend(Closed(r)) ELSE Closed(r)]
         /\ sock' = Released(r)
         /\ UNCHANGED <<loop, redialled>>

\* The handler returns and leaves r and k behind.
Return(c, r, k) ==
    /\ conn' = [conn EXCEPT ![c] = r]
    /\ sock' = [sock EXCEPT ![r.fd] = k]
    /\ UNCHANGED <<loop, redialled>>

\* send() raises SIGPIPE, which nobody handles: the kernel closes everything.
Killed(c, r) ==
    /\ loop' = "killed"
    /\ conn' = [conn EXCEPT ![c] = r]
    /\ sock' = [f \in FD |-> NoSock]
    /\ UNCHANGED redialled

\* Mutant: the wait for the response starts without add_read_event().
SendAll_NoReadEvent(c, r, k) ==
    Return(c, [r EXCEPT !.sent = ReqLen, !.state = "RECVING",
                        !.read_len = -HeadLen],
           [k EXCEPT !.owed = IF k.link = "up" THEN @ + RespLen ELSE @])

\* A request that goes out completely makes an established server owe one
\* response, and the connection waits for it.
SendAll(c, r, k) ==
    \E w \in {TRUE} \cup (IF "short" \in Faults THEN {FALSE} ELSE {}) :
        LET q == [k EXCEPT !.writable = w,
                           !.owed = IF k.link = "up" THEN @ + RespLen ELSE @]
        IN  Return(c, [ReadEventConn([r EXCEPT !.sent = ReqLen], q) EXCEPT
                          !.state = "RECVING", !.read_len = -HeadLen],
                   ReadEventSock(r, q, c))

\* A partial send, n > 0, or EAGAIN, n = 0: ask for writability again.
SendSome(c, r, k, n) ==
    LET p == [r EXCEPT !.sent = @ + n, !.ready_write = FALSE]
        q == [k EXCEPT !.writable = @ /\ n = 0]
    IN  Return(c, WriteEventConn(p, q), WriteEventSock(p, q, c))

\* A connection that is connecting or idle takes up a new request.
Begin(r) ==
    IF r.state \in {"CONNECTING", "IDLE"}
    THEN [r EXCEPT !.state = "SENDING", !.sent = 0] ELSE r

\* send() of the rest of the request, and the ways it can end.
TrySend(c, r, k) ==
    \/ Sendable(k) /\ SendAll(c, r, k)
    \/ /\ Sendable(k) /\ "short" \in Faults
       /\ \E n \in 1..(ReqLen - r.sent - 1) : SendSome(c, r, k, n)
    \/ ~Aborted(k) /\ ~Sendable(k) /\ SendSome(c, r, k, 0)
    \/ k.link = "rst" /\ Drop(c, r)
    \/ k.link = "pipe" /\ Killed(c, r)

\* handle_send_event() in ST_CONNECTING, ST_IDLE and ST_SENDING.
HandleSend(c, r, k) == TrySend(c, Begin(r), k)

\* Mutant: any earlier timer counts as set, one that has fired included.
AddTimer_Fired(r) == {r.timer}

\* ngx_add_timer(): a timer that is still set, because close_connection() left
\* it behind, is kept when its key is close to the new one, else replaced.
AddTimer(r) ==
    {"pending"} \cup (IF r.timer = "off" THEN {} ELSE {r.timer})

\* handle_after_request(): a response is complete, k is what recv() left.
AfterRequest(c, r, k) ==
    /\ answered' = [answered EXCEPT ![c] = @ + 1]
    /\ IF r.requests = 0
       THEN /\ conn' = [conn EXCEPT ![c] = Closed(Spend(r))]
            /\ sock' = Released(r)
            /\ UNCHANGED <<loop, redialled>>
       ELSE LET i == [Spend(r) EXCEPT !.state = "IDLE"]
            IN  IF Sleeps
                THEN \E t \in AddTimer(i) : Return(c, [i EXCEPT !.timer = t], k)
                ELSE HandleSend(c, i, k)

\* Mutant: the head's own length is not part of the response.
Missing_NoHead(r) == BodyLen

\* The units recv() has to find for the response to be recognised.  A body
\* that is resumed in a later call is read with a size no stream can fill; of
\* read_len only that it is not negative matters then, and it is held at 0.
Missing(r) == BodyLen - r.read_len

\* handle_read_event() in ST_RECVING: recv() until the response is complete,
\* the stream ends or nothing is left.
HandleRead(c, r, k) ==
    LET headOk == r.read_len < 0 /\ k.rx >= -r.read_len
        p == [r EXCEPT !.ready_read = FALSE,
                       !.read_len = IF headOk \/ @ = 0 THEN 0 ELSE @ + k.rx]
        q == [k EXCEPT !.rx = 0]
    IN  \/ /\ headOk /\ k.rx >= Missing(r)
           /\ AfterRequest(c, [r EXCEPT !.read_len = 0],
                           [k EXCEPT !.rx = @ - Missing(r)])
        \/ /\ headOk /\ "bad_head" \in Faults
           /\ Drop(c, r) /\ UNCHANGED answered
        \/ /\ ~(headOk /\ k.rx >= Missing(r))
           /\ UNCHANGED answered
           /\ IF PeerClosed(k)
              THEN Drop(c, p)
              ELSE Return(c, ReadEventConn(p, q), ReadEventSock(p, q, c))

-----------------------------------------------------------------------------
(***************************************************************************)
(* The steps of main().                                                    *)
(***************************************************************************)
\* create_connection_pool(), epoll_create(): nothing is open yet.
Init ==
    /\ conn = [c \in Conn |->
                  [state |-> "CLOSED", fd |-> NoFd, active |-> FALSE,
                   ready_read |-> FALSE, ready_write |-> FALSE,
                   timer |-> "off", requests |-> Requests,
                   sent |-> 0, read_len |-> 0]]
    /\ sock = [f \in FD |-> NoSock]
    /\ loop = "start"
    /\ todo = Conn
    /\ batch = [c \in Conn |-> {}]
    /\ delta = FALSE
    /\ answered = [c \in Conn |-> 0]
    /\ redialled = [c \in Conn |-> 0]

\* start_all_connection().  The connections are alike, so that their order is
\* left open: every order is the code's up to their names.
StartNext(c) ==
    /\ loop = "start"
    /\ c \in todo
    /\ todo' = todo \ {c}
    /\ StartConnect(c, conn[c], sock)
    /\ UNCHANGED <<batch, delta, answered, redialled>>

\* It succeeds if one connection could be started, or main() gives up.
Started ==
    /\ loop = "start"
    /\ todo = {}
    /\ loop' = IF \E c \in Conn : Live(c) THEN "wait" ELSE "done"
    /\ UNCHANGED <<conn, sock, todo, batch, delta, answered, redialled>>

Armed == {c \in Conn : conn[c].timer = "pending"}

\* Timers come due while epoll_wait() sleeps.
ComeDue(D) ==
    conn' = [c \in Conn |-> IF c \in D THEN [conn[c] EXCEPT !.timer = "due"]
                            ELSE conn[c]]

\* epoll_wait() takes the events of at most MaxEvents ready descriptors off
\* the ready list.  D come due meanwhile, and then the clock has moved.
Wait ==
    /\ loop = "wait"
    /\ loop' = "dispatch"
    /\ \E B \in SUBSET Ready, D \in SUBSET Armed :
          /\ B # {}
          /\ \/ B = Ready /\ Cardinality(B) =< MaxEvents
             \/ Cardinality(B) = MaxEvents
          /\ delta' \in {TRUE} \cup (IF D = {} THEN {FALSE} ELSE {})
          /\ ComeDue(D)
          /\ batch' = [c \in Conn |->
                UNION {Revents(sock[f]) : f \in {g \in B : sock[g].ptr = c}}]
          /\ sock' = [f \in FD |-> IF f \in B THEN [sock[f] EXCEPT !.rdy = FALSE]
                                   ELSE sock[f]]
    /\ UNCHANGED <<todo, answered, redialled>>

\* epoll_wait() returns at the earliest key.  With no timer set it has no
\* timeout and returns only with an event.
WaitTimeout ==
    /\ loop = "wait"
    /\ Ready = {}
    /\ loop' = "expire"
    /\ \E D \in SUBSET Armed : D # {} /\ ComeDue(D)
    /\ delta' = TRUE
    /\ UNCHANGED <<sock, todo, batch, answered, redialled>>

\* epoll_wait() returns -1, for instance with EINTR, and main() gives up.
WaitFails ==
    /\ loop = "wait"
    /\ "wait" \in Faults
    /\ loop' = "done"
    /\ UNCHANGED <<conn, sock, todo, batch, delta, answered, redialled>>

\* The common part of handling the next reported event, which is c's.
Take(c) ==
    /\ loop = "dispatch"
    /\ batch[c] # {}
    /\ batch' = [batch EXCEPT ![c] = {}]
    /\ UNCHANGED <<todo, delta>>

\* What is reported of c selects one handler.  EPOLLRDHUP goes first, and an
\* event that is none of the three ends the connection as well.
WantsClose(c) == "RDHUP" \in batch[c] \/ batch[c] \cap {"IN", "OUT"} = {}
WantsRead(c)  == ~WantsClose(c) /\ "IN" \in batch[c]
WantsSend(c)  == ~WantsClose(c) /\ "IN" \notin batch[c]

\* handle_close_event().
DispatchClose(c) ==
    /\ Take(c)
    /\ WantsClose(c)
    /\ Drop(c, conn[c])
    /\ UNCHANGED answered

\* handle_read_event().
DispatchRead(c) ==
    /\ Take(c)
    /\ WantsRead(c)
    /\ conn[c].state = "RECVING"
    /\ HandleRead(c, conn[c], sock[conn[c].fd])

\* handle_send_event().
DispatchSend(c) ==
    /\ Take(c)
    /\ WantsSend(c)
    /\ conn[c].state \in {"CONNECTING", "IDLE", "SENDING"}
    /\ HandleSend(c, conn[c], sock[conn[c].fd])
    /\ UNCHANGED answered

\* The state does not match the event: the handler returns, the edge is gone.
DispatchIgnored(c) ==
    /\ Take(c)
    /\ conn[c].state \notin (IF WantsRead(c) THEN {"RECVING"}
                             ELSE {"CONNECTING", "IDLE", "SENDING"})
    /\ ~WantsClose(c)
    /\ UNCHANGED <<conn, sock, loop, answered, redialled>>

\* The end of the batch; timers are looked at only if the clock has moved.
DispatchDone ==
    /\ loop = "dispatch"
    /\ batch = [c \in Conn |-> {}]
    /\ loop' = IF delta THEN "expire" ELSE "wait"
    /\ UNCHANGED <<conn, sock, todo, batch, delta, answered, redialled>>

\* Mutant: a timer wakes a connection that has been closed since.
Expire_Reconnects(c) ==
    /\ loop = "expire"
    /\ conn[c].timer = "due"
    /\ LET r == [conn[c] EXCEPT !.timer = "off"]
       IN  \/ r.state = "IDLE" /\ HandleSend(c, r, sock[r.fd])
           \/ r.state = "CLOSED" /\ StartConnect(c, r, sock) /\ UNCHANGED redialled
           \/ /\ r.state \notin {"IDLE", "CLOSED"}
              /\ conn' = [conn EXCEPT ![c] = r]
              /\ UNCHANGED <<sock, loop, redialled>>
    /\ UNCHANGED <<todo, batch, delta, answered>>

\* Mutant: a due timer is deleted and its connection left idle.
Expire_NoSend(c) ==
    /\ loop = "expire"
    /\ conn[c].timer = "due"
    /\ conn' = [conn EXCEPT ![c].timer = "off"]
    /\ UNCHANGED <<sock, loop, redialled, todo, batch, delta, answered>>

\* ngx_event_expire_timers() takes a due timer out of the tree, then
\* handle_timer_event() starts the next request of an idle connection and
\* ignores a timer that outlived the sleep it was set for.
Expire(c) ==
    /\ loop = "expire"
    /\ conn[c].timer = "due"
    /\ LET r == [conn[c] EXCEPT !.timer = "off"]
       IN  \/ r.state = "IDLE" /\ HandleSend(c, r, sock[r.fd])
           \/ /\ r.state # "IDLE"
              /\ conn' = [conn EXCEPT ![c] = r]
              /\ UNCHANGED <<sock, loop, redialled>>
    /\ UNCHANGED <<todo, batch, delta, answered>>

ExpireDone ==
    /\ loop = "expire"
    /\ \A c \in Conn : conn[c].timer # "due"
    /\ loop' = "wait"
    /\ UNCHANGED <<conn, sock, todo, batch, delta, answered, redialled>>

\* Mutant: clean_all_resource() skips connections that are not established.
Cleanup_OnlyEstablished ==
    /\ loop = "done"
    /\ loop' = "exited"
    /\ sock' = [f \in FD |-> IF \E c \in Conn : /\ conn[c].fd = f
                                               /\ conn[c].state # "CONNECTING"
                             THEN NoSock ELSE sock[f]]
    /\ UNCHANGED <<conn, todo, batch, delta, answered, redialled>>

\* clean_all_resource() closes the descriptor of every connection that has one.
Cleanup ==
    /\ loop = "done"
    /\ loop' = "exited"
    /\ sock' = [f \in FD |-> IF \E c \in Conn : conn[c].fd = f THEN NoSock
                             ELSE sock[f]]
    /\ UNCHANGED <<conn, todo, batch, delta, answered, redialled>>

Program ==
    \/ \E c \in Conn : StartNext(c)
    \/ Started \/ Wait \/ WaitTimeout \/ WaitFails
    \/ \E c \in Conn : \/ DispatchClose(c) \/ DispatchRead(c)
                       \/ DispatchSend(c) \/ DispatchIgnored(c)
    \/ DispatchDone
    \/ \E c \in Conn : Expire(c)
    \/ ExpireDone \/ Cleanup

-----------------------------------------------------------------------------
(***************************************************************************)
(* The server and the kernel, as the handlers rely on them.                *)
(***************************************************************************)
Env(f, k) ==
    /\ sock' = [sock EXCEPT ![f] = k]
    /\ UNCHANGED <<conn, loop, todo, batch, delta, answered, redialled>>

Accept(f) ==
    /\ sock[f].link = "syn"
    /\ Env(f, Edge([sock[f] EXCEPT !.link = "up"], {"OUT"}))

\* A refused or timed out connect().
Refuse(f) ==
    /\ "refuse" \in Faults
    /\ sock[f].link = "syn"
    /\ Env(f, Edge([sock[f] EXCEPT !.link = "rst"], Event))

\* The server answers, at once or piece by piece.
Reply(f) ==
    /\ sock[f].link = "up"
    /\ sock[f].owed > 0
    /\ \E n \in 1..sock[f].owed :
          /\ n = sock[f].owed \/ "split" \in Faults
          /\ Env(f, Edge([sock[f] EXCEPT !.rx = @ + n, !.owed = @ - n], {"IN"}))

\* An unsolicited response; one at a time bounds the stream.
Push(f) ==
    /\ "push" \in Faults
    /\ sock[f].link = "up"
    /\ sock[f].rx = 0 /\ sock[f].owed = 0
    /\ Env(f, Edge([sock[f] EXCEPT !.rx = RespLen], {"IN"}))

Fin(f) ==
    /\ "fin" \in Faults
    /\ sock[f].link = "up"
    /\ Env(f, Edge([sock[f] EXCEPT !.link = "fin"], {"IN", "RDHUP"}))

Reset(f) ==
    /\ "rst" \in Faults
    /\ sock[f].link \in {"up", "fin"}
    /\ Env(f, Edge([sock[f] EXCEPT !.link = IF @ = "up" THEN "rst" ELSE "pipe"],
                   Event))

\* The server reads, and the send buffer has room again.
Drain(f) ==
    /\ sock[f].link \in {"up", "fin"}
    /\ ~sock[f].writable
    /\ Env(f, Edge([sock[f] EXCEPT !.writable = TRUE], {"OUT"}))

Environment ==
    \E f \in FD : \/ Accept(f) \/ Refuse(f) \/ Reply(f) \/ Push(f)
                  \/ Fin(f) \/ Reset(f) \/ Drain(f)

Next == Program \/ Environment

Spec == Init /\ [][Next]_vars

\* The process is scheduled whenever it can run, and a server that neither
\* closes nor refuses accepts, reads and answers eventually.
Fairness ==
    /\ WF_vars(Program)
    /\ \A f \in FD : WF_vars(Accept(f)) /\ WF_vars(Reply(f)) /\ WF_vars(Drain(f))

FairSpec == Spec /\ Fairness

-----------------------------------------------------------------------------
(***************************************************************************)
(* Correctness.                                                            *)
(***************************************************************************)
Running == loop \notin {"exited", "killed"}
Sock(c) == sock[conn[c].fd]

\* Budget that has gone into answers and retries.
Used(c) == answered[c] + redialled[c]

\* Every variable has its type; in particular conf->requests stays an unsigned
\* int and nothing is sent or read beyond a request and a head.
TypeOK ==
    /\ conn \in [Conn -> Connection]
    /\ sock \in [FD -> Socket]
    /\ loop \in Phase
    /\ todo \in SUBSET Conn
    /\ batch \in [Conn -> SUBSET Event]
    /\ delta \in BOOLEAN
    /\ answered \in [Conn -> Nat]
    /\ redialled \in [Conn -> Nat]

\* The open descriptors are exactly those of the live connections, one each,
\* and epoll hands events back to the connection that holds the descriptor:
\* data.ptr of a pending event is never a connection that has been closed.
\* The descriptor start_connect() leaves in a closed connection harms nobody.
FdOwnership ==
    Running =>
        /\ \A c \in Conn : Live(c) => /\ conn[c].fd \in FD
                                      /\ Sock(c).link # "none"
                                      /\ Sock(c).ptr = c
        /\ \A f \in FD : sock[f].link # "none" =>
                            \E c \in Conn : Live(c) /\ conn[c].fd = f
        /\ \A c \in Conn : batch[c] # {} => Live(c)

\* The flags by which add_read_event() and add_write_event() skip epoll_ctl()
\* say what the kernel is asked to report, and it is what the state needs.
FlagsMatchKernel ==
    Running =>
        \A c \in Conn : Live(c) =>
            /\ conn[c].active
            /\ conn[c].ready_write = (conn[c].state \in {"CONNECTING", "SENDING"})
            /\ conn[c].ready_read = (conn[c].state \in {"IDLE", "RECVING"})
            /\ Sock(c).mask = IF conn[c].ready_read THEN ReadMask ELSE WriteMask

\* An edge is reported once.  A connection nobody is about to wake waits for
\* something the server or the clock still has to do: never for data or room
\* that is already there, nor on a stream that has ended.  (A body that is
\* resumed is the subject of ResponseEnds.)
NoLostWakeup ==
    Running =>
        \A c \in Conn : batch[c] = {} /\ conn[c].fd \notin Ready =>
            CASE conn[c].state = "CONNECTING" -> Sock(c).link = "syn"
              [] conn[c].state = "SENDING" -> /\ Sock(c).link \in {"up", "fin"}
                                              /\ ~Sock(c).writable
              [] conn[c].state = "IDLE" -> conn[c].timer # "off"
              [] conn[c].state = "RECVING" /\ conn[c].read_len < 0 ->
                    Sock(c).link = "up" /\ Sock(c).owed > 0
              [] OTHER -> TRUE

\* Stop and wait: on an established stream the server owes or has in flight
\* exactly what is missing of the one response the connection waits for, and
\* nothing at all when it waits for none.
OneOutstanding ==
    Running /\ "push" \notin Faults =>
        \A c \in Conn : Live(c) /\ Sock(c).link \in {"syn", "up"} =>
            IF conn[c].state # "RECVING"
            THEN Sock(c).rx = 0 /\ Sock(c).owed = 0
            ELSE IF conn[c].read_len < 0
                 THEN Sock(c).rx + Sock(c).owed = BodyLen - conn[c].read_len
                 ELSE Sock(c).rx + Sock(c).owed =< BodyLen

\* An idle connection has a timer to wake it, whatever timer an earlier life
\* of the connection left behind.
SleeperHasTimer ==
    Running => \A c \in Conn :
        conn[c].state = "IDLE" => Sleeps /\ conn[c].timer # "off"

\* When the loop computes its timeout no timer is overdue: whoever comes due
\* in epoll_wait() is handled before the next one.
NoOverdueAtLoopHead ==
    loop = "wait" => \A c \in Conn : conn[c].timer # "due"

\* conf->requests pays for answers and retries alike, one for one.  It wraps
\* around at most once, when it closes the connection for good.
BudgetInv ==
    \A c \in Conn :
        \/ Used(c) + conn[c].requests = Requests
        \/ /\ ~Live(c)
           /\ conn[c].requests = ReqMod - 1
           /\ Used(c) \in {Requests, Requests + 1}

\* start_connect() can fail on the client's side.
CanFailLocally ==
    \/ Faults \cap {"local", "epoll_add"} # {}
    \/ Cardinality(FD) < Cardinality(Conn)

\* With retry set, and no failure on the client's side, a connection is given
\* up only when the whole budget is spent.
GivesUpOnlyWhenSpent ==
    Retry /\ ~CanFailLocally =>
        \A c \in Conn \ todo : ~Live(c) => Used(c) >= Requests

\* main()'s own exit leaves no descriptor open.
ExitReleasesAll == loop = "exited" => \A f \in FD : sock[f].link = "none"

\* A connection that is given up stays closed: neither a timer it left behind
\* nor a late event revives it, with its budget of ReqMod - 1.
ClosedForGood ==
    [][\A c \in Conn \ todo : ~Live(c) => conn'[c].state = "CLOSED"]_vars

\* A sleeping connection wakes up, whether or not the timer that wakes it is
\* the one its sleep was set for.
SleeperWakes ==
    \A c \in Conn : conn[c].state = "IDLE" ~> conn[c].state # "IDLE" \/ ~Running

\* "Only request-response protocols of a 4-byte head and a body are handled"
\* (README): a connection waiting for such a response gets out of the wait.
ResponseEnds ==
    \A c \in Conn :
        conn[c].state = "RECVING" ~> conn[c].state # "RECVING" \/ ~Running

\* A run ends: every connection spends its budget, or the process stops.
Quiesces == <>[](~Running \/ \A c \in Conn : ~Live(c))
=============================================================================
