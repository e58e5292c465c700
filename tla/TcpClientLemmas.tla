-------------------------- MODULE TcpClientLemmas ----------------------------
(***************************************************************************)
(* The inductive invariant of TcpClient, and what every handler of         *)
(* src/common.c does to it when it is called for a live connection.  Each  *)
(* helper has one lemma about the two records it works on; a handler's     *)
(* lemma says that it ends in an Outcome: the links between connections    *)
(* and descriptors are whole, and the budget is balanced.                  *)
(***************************************************************************)
EXTENDS TcpClient, FiniteSetTheorems, TLAPS

-----------------------------------------------------------------------------
(***************************************************************************)
(* The inductive invariant.                                                *)
(***************************************************************************)
\* A live connection c with record r agrees with its descriptor's record k.
Held(c, r, k) ==
    /\ r.fd \in FD
    /\ k.link # "none"
    /\ k.ptr = c
    /\ r.active
    /\ r.ready_write = (r.state \in {"CONNECTING", "SENDING"})
    /\ r.ready_read = (r.state \in {"IDLE", "RECVING"})
    /\ k.mask = IF r.ready_read THEN ReadMask ELSE WriteMask
    /\ r.state = "IDLE" => Sleeps /\ r.timer # "off"

\* What close_connection() leaves, and create_connection_pool() begins with.
Shut(r) == ~r.active /\ ~r.ready_read /\ ~r.ready_write

\* Everything but connection c is linked, when the descriptors are s and e is
\* the one that may be c's.
OthersLinked(c, s, e) ==
    /\ \A d \in Conn \ {c} : IF Live(d) THEN Held(d, conn[d], s[conn[d].fd])
                             ELSE Shut(conn[d])
    /\ \A f \in FD \ {e} : s[f].link # "none" => /\ s[f].ptr \in Conn \ {c}
                                                 /\ Live(s[f].ptr)
                                                 /\ conn[s[f].ptr].fd = f

\* Connections and descriptors point at each other.
Linked ==
    /\ \A c \in Conn : IF Live(c) THEN Held(c, conn[c], Sock(c))
                       ELSE Shut(conn[c])
    /\ \A f \in FD : sock[f].link # "none" => /\ sock[f].ptr \in Conn
                                              /\ Live(sock[f].ptr)
                                              /\ conn[sock[f].ptr].fd = f

\* The budget of a connection with record r that has taken a answers and paid
\* for d retries.
Balanced(r, a, d) ==
    \/ a + d + r.requests = Requests
    \/ /\ r.state = "CLOSED"
       /\ r.requests = ReqMod - 1
       /\ a + d \in {Requests, Requests + 1}

\* Timers are due only between the return of epoll_wait() and the end of the
\* expiry that follows it.
NoneDue == \A c \in Conn : conn[c].timer # "due"

IInv ==
    /\ TypeOK
    /\ Running => Linked
    /\ Running => \A c \in Conn : batch[c] # {} => loop = "dispatch" /\ Live(c)
    /\ \A c \in Conn : Balanced(conn[c], answered[c], redialled[c])
    /\ loop # "start" => todo = {}
    /\ \A c \in todo : /\ ~Live(c) /\ conn[c].requests = Requests
                       /\ answered[c] = 0 /\ redialled[c] = 0
    /\ loop \in {"start", "wait"} \/ (loop = "dispatch" /\ ~delta) => NoneDue

-----------------------------------------------------------------------------
(***************************************************************************)
(* The helpers on single records.                                          *)
(***************************************************************************)
LEMMA WatchSocket ==
    ASSUME NEW k \in Socket, NEW c \in Conn, NEW m \in SUBSET Event
    PROVE  /\ Watch(k, c, m) \in Socket
           /\ Watch(k, c, m).ptr = c
           /\ Watch(k, c, m).mask = m
           /\ Watch(k, c, m).link = k.link
BY DEF Watch, Socket

LEMMA EdgeSocket ==
    ASSUME NEW k \in Socket, NEW e
    PROVE  /\ Edge(k, e) \in Socket
           /\ Edge(k, e).ptr = k.ptr
           /\ Edge(k, e).mask = k.mask
           /\ Edge(k, e).link = k.link
BY DEF Edge, Socket

LEMMA NoSockSocket == NoSock \in Socket /\ NoSock.link = "none"
BY DEF NoSock, Socket, Link

LEMMA ClosedConnection ==
    ASSUME NEW r \in Connection
    PROVE  /\ Closed(r) \in Connection
           /\ Closed(r).state = "CLOSED"
           /\ Shut(Closed(r))
           /\ Closed(r).requests = r.requests
           /\ Closed(r).timer = r.timer
BY DEF Closed, Connection, State, Shut

LEMMA SpendConnection ==
    ASSUME NEW r \in Connection
    PROVE  /\ Spend(r) \in Connection
           /\ Spend(r).requests = IF r.requests = 0 THEN ReqMod - 1
                                  ELSE r.requests - 1
           /\ Spend(r).fd = r.fd /\ Spend(r).timer = r.timer
           /\ Spend(r).state = r.state /\ Spend(r).active = r.active
           /\ Spend(r).ready_read = r.ready_read
           /\ Spend(r).ready_write = r.ready_write
<1> DEFINE v == IF r.requests = 0 THEN ReqMod - 1 ELSE r.requests - 1
<1>1. v \in 0..(ReqMod - 1)
  BY RequestsAssumption DEF Connection
<1>2. Spend(r) = [r EXCEPT !.requests = v]
  BY DEF Spend, Connection
<1> HIDE DEF v
<1>3. Spend(r) \in Connection /\ Spend(r).requests = v
  BY <1>1, <1>2 DEF Connection
<1> QED
  BY <1>2, <1>3 DEF v, Connection

\* What adding an event leaves alone; the connection is registered after it.
SameButFlags(p, r) ==
    /\ p.active /\ p.state = r.state /\ p.fd = r.fd /\ p.timer = r.timer
    /\ p.requests = r.requests /\ p.sent = r.sent /\ p.read_len = r.read_len

\* After add_read_event() the flags and the mask are those of a reader,
\* whatever they were, and nothing else has changed.
LEMMA ReadEvent ==
    ASSUME NEW r \in Connection, NEW k \in Socket, NEW c \in Conn,
           r.active, k.ptr = c,
           r.ready_read => ~r.ready_write /\ k.mask = ReadMask
    PROVE  /\ ReadEventConn(r, k) \in Connection
           /\ ReadEventConn(r, k).ready_read
           /\ ~ReadEventConn(r, k).ready_write
           /\ SameButFlags(ReadEventConn(r, k), r)
           /\ ReadEventSock(r, k, c) \in Socket
           /\ ReadEventSock(r, k, c).ptr = c
           /\ ReadEventSock(r, k, c).mask = ReadMask
           /\ ReadEventSock(r, k, c).link = k.link
<1>1. ReadMask \in SUBSET Event
  BY DEF Event, ReadMask
<1>2. CtlFits(r, k)
  BY ConnAssumption DEF CtlFits, Connection
<1>3. CASE r.ready_read
  BY <1>2, <1>3 DEF ReadEventConn, ReadEventSock, Connection, SameButFlags
<1>4. CASE ~r.ready_read
  <2>1. ReadEventSock(r, k, c) = Watch(k, c, ReadMask)
    BY <1>2, <1>4 DEF ReadEventSock
  <2>2. ReadEventConn(r, k) =
           [r EXCEPT !.active = TRUE, !.ready_read = TRUE, !.ready_write = FALSE]
    BY <1>2, <1>4 DEF ReadEventConn
  <2>3. /\ ReadEventConn(r, k) \in Connection
        /\ ReadEventConn(r, k).ready_read /\ ~ReadEventConn(r, k).ready_write
        /\ SameButFlags(ReadEventConn(r, k), r)
    BY <2>2 DEF Connection, SameButFlags
  <2> QED
    BY <2>1, <2>3, <1>1, WatchSocket
<1> QED
  BY <1>3, <1>4

\* The same of add_write_event().
LEMMA WriteEvent ==
    ASSUME NEW r \in Connection, NEW k \in Socket, NEW c \in Conn,
           r.active, k.ptr = c,
           r.ready_write => ~r.ready_read /\ k.mask = WriteMask
    PROVE  /\ WriteEventConn(r, k) \in Connection
           /\ WriteEventConn(r, k).ready_write
           /\ ~WriteEventConn(r, k).ready_read
           /\ SameButFlags(WriteEventConn(r, k), r)
           /\ WriteEventSock(r, k, c) \in Socket
           /\ WriteEventSock(r, k, c).ptr = c
           /\ WriteEventSock(r, k, c).mask = WriteMask
           /\ WriteEventSock(r, k, c).link = k.link
<1>1. WriteMask \in SUBSET Event
  BY DEF Event, WriteMask
<1>2. CtlFits(r, k)
  BY ConnAssumption DEF CtlFits, Connection
<1>3. CASE r.ready_write
  BY <1>2, <1>3 DEF WriteEventConn, WriteEventSock, Connection, SameButFlags
<1>4. CASE ~r.ready_write
  <2>1. WriteEventSock(r, k, c) = Watch(k, c, WriteMask)
    BY <1>2, <1>4 DEF WriteEventSock
  <2>2. WriteEventConn(r, k) =
           [r EXCEPT !.active = TRUE, !.ready_write = TRUE, !.ready_read = FALSE]
    BY <1>2, <1>4 DEF WriteEventConn
  <2>3. /\ WriteEventConn(r, k) \in Connection
        /\ WriteEventConn(r, k).ready_write /\ ~WriteEventConn(r, k).ready_read
        /\ SameButFlags(WriteEventConn(r, k), r)
    BY <2>2 DEF Connection, SameButFlags
  <2> QED
    BY <2>1, <2>3, <1>1, WatchSocket
<1> QED
  BY <1>3, <1>4

\* start_connect() registers a fresh descriptor with a connection that has
\* been shut: epoll_ctl() is an addition and succeeds.
LEMMA FirstWriteEvent ==
    ASSUME NEW r \in Connection, NEW c \in Conn, Shut(r)
    PROVE  /\ WriteEventConn(r, Dialled) \in Connection
           /\ WriteEventConn(r, Dialled).ready_write
           /\ ~WriteEventConn(r, Dialled).ready_read
           /\ SameButFlags(WriteEventConn(r, Dialled), r)
           /\ WriteEventSock(r, Dialled, c) \in Socket
           /\ WriteEventSock(r, Dialled, c).ptr = c
           /\ WriteEventSock(r, Dialled, c).mask = WriteMask
           /\ WriteEventSock(r, Dialled, c).link = "syn"
<1>1. Dialled \in Socket /\ Dialled.link = "syn" /\ Dialled.ptr = NoConn
  BY DEF Dialled, NoSock, Socket, Link
<1>2. CtlFits(r, Dialled) /\ ~r.ready_write
  BY <1>1 DEF CtlFits, Shut, Connection
<1>3. WriteMask \in SUBSET Event
  BY DEF Event, WriteMask
<1>4. WriteEventSock(r, Dialled, c) = Watch(Dialled, c, WriteMask)
  BY <1>2 DEF WriteEventSock
<1>5. WriteEventConn(r, Dialled) =
         [r EXCEPT !.active = TRUE, !.ready_write = TRUE, !.ready_read = FALSE]
  BY <1>2 DEF WriteEventConn
<1>6. /\ WriteEventConn(r, Dialled) \in Connection
      /\ WriteEventConn(r, Dialled).ready_write
      /\ ~WriteEventConn(r, Dialled).ready_read
      /\ SameButFlags(WriteEventConn(r, Dialled), r)
  BY <1>5 DEF Connection, SameButFlags
<1> QED
  BY <1>1, <1>3, <1>4, <1>6, WatchSocket

-----------------------------------------------------------------------------
(***************************************************************************)
(* One connection changes, the others stay linked.                         *)
(***************************************************************************)
Typed == conn \in [Conn -> Connection] /\ sock \in [FD -> Socket]

\* c takes up descriptor e, or keeps it.
LEMMA Attach ==
    ASSUME Typed,
           NEW c \in Conn, NEW p \in Connection, NEW q \in Socket,
           NEW s \in [FD -> Socket], NEW e \in FD,
           OthersLinked(c, s, e), s[e].link = "none" \/ s[e].ptr = c,
           Held(c, p, q), p.state # "CLOSED", p.fd = e,
           conn' = [conn EXCEPT ![c] = p],
           sock' = [s EXCEPT ![e] = q]
    PROVE  Linked' /\ Typed'
<1>1. Typed'
  BY DEF Typed
<1>2. ASSUME NEW d \in Conn
      PROVE  IF Live(d)' THEN Held(d, conn'[d], sock'[conn'[d].fd])
             ELSE Shut(conn'[d])
  <2>1. CASE d = c
    BY <2>1 DEF Typed, Live
  <2>2. CASE d # c
    <3>1. conn'[d] = conn[d]
      BY <2>2 DEF Typed
    <3>2. CASE Live(d)
      <4>1. Held(d, conn[d], s[conn[d].fd])
        BY <2>2, <3>2 DEF OthersLinked
      <4>2. conn[d].fd # e
        BY <4>1, <2>2 DEF Held
      <4> QED
        BY <3>1, <3>2, <4>1, <4>2 DEF Live, Held
    <3>3. CASE ~Live(d)
      BY <2>2, <3>1, <3>3 DEF Live, OthersLinked
    <3> QED
      BY <3>2, <3>3
  <2> QED
    BY <2>1, <2>2
<1>3. ASSUME NEW f \in FD, sock'[f].link # "none"
      PROVE  /\ sock'[f].ptr \in Conn
             /\ Live(sock[f].ptr)'
             /\ conn'[sock'[f].ptr].fd = f
  <2>1. CASE f = e
    BY <2>1 DEF Held, Live, Typed
  <2>2. CASE f # e
    <3>1. sock'[f] = s[f]
      BY <2>2
    <3>2. s[f].ptr \in Conn \ {c} /\ Live(s[f].ptr) /\ conn[s[f].ptr].fd = f
      BY <1>3, <2>2, <3>1 DEF OthersLinked
    <3> QED
      BY <3>1, <3>2 DEF Live, Typed
  <2> QED
    BY <2>1, <2>2
<1> QED
  BY <1>1, <1>2, <1>3 DEF Linked, Sock

\* c holds no descriptor, even if its record still names one.
LEMMA Detach ==
    ASSUME Typed,
           NEW c \in Conn, NEW p \in Connection, NEW s \in [FD -> Socket],
           OthersLinked(c, s, NoFd), Shut(p), p.state = "CLOSED",
           conn' = [conn EXCEPT ![c] = p],
           sock' = s
    PROVE  Linked' /\ Typed'
<1>1. Typed'
  BY DEF Typed
<1>2. ASSUME NEW d \in Conn
      PROVE  IF Live(d)' THEN Held(d, conn'[d], sock'[conn'[d].fd])
             ELSE Shut(conn'[d])
  <2>1. CASE d = c
    BY <2>1 DEF Typed, Live
  <2>2. CASE d # c
    BY <2>2 DEF Typed, Live, OthersLinked
  <2> QED
    BY <2>1, <2>2
<1>3. ASSUME NEW f \in FD, sock'[f].link # "none"
      PROVE  /\ sock'[f].ptr \in Conn
             /\ Live(sock[f].ptr)'
             /\ conn'[sock'[f].ptr].fd = f
  <2>1. f # NoFd
    BY FDAssumption DEF NoFd
  <2>2. s[f].ptr \in Conn \ {c} /\ Live(s[f].ptr) /\ conn[s[f].ptr].fd = f
    BY <1>3, <2>1 DEF OthersLinked
  <2> QED
    BY <2>2 DEF Live, Typed
<1> QED
  BY <1>1, <1>2, <1>3 DEF Linked, Sock

-----------------------------------------------------------------------------
(***************************************************************************)
(* The handlers, each called for a live connection c.                      *)
(***************************************************************************)
\* The ways the account of c, with a answers, can leave a handler: c lives on,
\* or has been opened again, or is given up.
Settled(c, a) ==
    \/ Live(c)' /\ redialled'[c] = redialled[c]
    \/ /\ Retry /\ a + redialled[c] < Requests
       /\ redialled'[c] = redialled[c] + 1
       /\ Live(c)' \/ CanFailLocally
    \/ /\ ~Live(c)' /\ redialled'[c] = redialled[c]
       /\ ~Retry \/ a + redialled[c] >= Requests

\* What a handler of c establishes: the links, c's balance when it has taken a
\* answers, and a timer that is the one it found, t, or a new one.
Outcome(c, a, t) ==
    /\ Typed'
    /\ redialled' \in [Conn -> Nat]
    /\ loop' \in {loop, "killed"}
    /\ loop' = loop => Linked'
    /\ \A d \in Conn \ {c} : conn'[d] = conn[d] /\ redialled'[d] = redialled[d]
    /\ Balanced(conn'[c], a, redialled'[c])
    /\ Settled(c, a)
    /\ conn'[c].timer \in {t, "pending"}

\* What the handlers rely on: c holds descriptor record k, registered.
Registered(c, r, k) ==
    /\ r.fd \in FD /\ r.fd = conn[c].fd
    /\ k.link # "none" /\ k.ptr = c
    /\ r.active /\ r.ready_write = ~r.ready_read
    /\ k.mask = IF r.ready_read THEN ReadMask ELSE WriteMask

\* The descriptors of the other connections are fewer than the connections:
\* if c holds none and there are enough of them, socket() finds one.
LEMMA NoneFree ==
    ASSUME NEW c \in Conn, NEW s \in [FD -> Socket], OthersLinked(c, s, NoFd),
           \A f \in FD : s[f].link # "none"
    PROVE  Cardinality(FD) < Cardinality(Conn)
<1> DEFINE owner == [f \in FD |-> s[f].ptr]
<1>1. \A f \in FD : owner[f] \in Conn \ {c} /\ conn[owner[f]].fd = f
  BY FDAssumption DEF OthersLinked, NoFd
<1>2. owner \in [FD -> Conn \ {c}]
  BY <1>1
<1>3. \A f, g \in FD : owner[f] = owner[g] => f = g
  BY <1>1
<1> HIDE DEF owner
<1>4. /\ IsFiniteSet(Conn \ {c})
      /\ Cardinality(Conn \ {c}) = Cardinality(Conn) - 1
  BY ConnAssumption, FS_RemoveElement
<1>5. ~(Cardinality(Conn \ {c}) < Cardinality(FD))
  <2> DEFINE T == Conn \ {c}
  <2> SUFFICES ASSUME Cardinality(T) < Cardinality(FD) PROVE FALSE
    OBVIOUS
  <2>1. owner \in [FD -> T] /\ IsFiniteSet(T) /\ IsFiniteSet(FD)
    BY <1>2, <1>4, FDAssumption
  <2> HIDE DEF T
  <2>2. \E f, g \in FD : f # g /\ owner[f] = owner[g]
    BY <2>1, FS_PigeonHole
  <2> QED
    BY <1>3, <2>2
<1>6. Cardinality(FD) \in Nat /\ Cardinality(Conn) \in Nat
  BY ConnAssumption, FDAssumption, FS_CardinalityType
<1> QED
  BY <1>4, <1>5, <1>6

LEMMA StartConnectOutcome ==
    ASSUME Typed, redialled \in [Conn -> Nat],
           NEW c \in Conn, NEW r \in Connection, NEW s \in [FD -> Socket],
           OthersLinked(c, s, NoFd), Shut(r), r.state = "CLOSED",
           StartConnect(c, r, s)
    PROVE  /\ Typed' /\ Linked' /\ loop' = loop
           /\ \A d \in Conn \ {c} : conn'[d] = conn[d]
           /\ conn'[c].timer = r.timer /\ conn'[c].requests = r.requests
           /\ Live(c)' \/ CanFailLocally
<1>1. CASE /\ "local" \in Faults \/ \A f \in FD : s[f].link # "none"
           /\ conn' = [conn EXCEPT ![c] = r] /\ sock' = s
  <2>1. Typed' /\ Linked'
    BY <1>1, Detach
  <2>2. CanFailLocally
    BY <1>1, NoneFree DEF CanFailLocally
  <2> QED
    BY <1>1, <2>1, <2>2 DEF StartConnect, Typed
<1>2. ASSUME NEW f \in FD, "epoll_add" \in Faults,
             conn' = [conn EXCEPT ![c] = [r EXCEPT !.fd = f]], sock' = s
      PROVE  /\ Typed' /\ Linked' /\ loop' = loop
             /\ \A d \in Conn \ {c} : conn'[d] = conn[d]
             /\ conn'[c].timer = r.timer /\ conn'[c].requests = r.requests
             /\ Live(c)' \/ CanFailLocally
  <2> DEFINE p == [r EXCEPT !.fd = f]
  <2>1. /\ p \in Connection /\ Shut(p) /\ p.state = "CLOSED"
        /\ p.timer = r.timer /\ p.requests = r.requests
    BY DEF Connection, Shut
  <2> HIDE DEF p
  <2>2. conn' = [conn EXCEPT ![c] = p]
    BY <1>2 DEF p
  <2>3. Typed' /\ Linked'
    BY <1>2, <2>1, <2>2, Detach
  <2> QED
    BY <1>2, <2>1, <2>2, <2>3 DEF StartConnect, Typed, CanFailLocally
<1>3. ASSUME NEW f \in FD, Lowest(f, s),
             conn' = [conn EXCEPT ![c] =
                 [WriteEventConn(r, Dialled) EXCEPT !.fd = f,
                                                    !.state = "CONNECTING"]],
             sock' = [s EXCEPT ![f] = WriteEventSock(r, Dialled, c)]
      PROVE  /\ Typed' /\ Linked' /\ loop' = loop
             /\ \A d \in Conn \ {c} : conn'[d] = conn[d]
             /\ conn'[c].timer = r.timer /\ conn'[c].requests = r.requests
             /\ Live(c)' \/ CanFailLocally
  <2> DEFINE w == WriteEventConn(r, Dialled)
             p == [w EXCEPT !.fd = f, !.state = "CONNECTING"]
             q == WriteEventSock(r, Dialled, c)
  <2>1. /\ w \in Connection /\ w.ready_write /\ ~w.ready_read
        /\ SameButFlags(w, r)
        /\ q \in Socket /\ q.ptr = c /\ q.mask = WriteMask /\ q.link = "syn"
    BY FirstWriteEvent
  <2> HIDE DEF w, q
  <2>2. /\ p \in Connection /\ p.fd = f /\ p.state = "CONNECTING"
        /\ p.active /\ p.ready_write /\ ~p.ready_read
        /\ p.timer = r.timer /\ p.requests = r.requests
    BY <2>1 DEF Connection, State, SameButFlags
  <2> HIDE DEF p
  <2>3. conn' = [conn EXCEPT ![c] = p] /\ sock' = [s EXCEPT ![f] = q]
    BY <1>3 DEF p, q, w
  <2>4. Held(c, p, q) /\ p.state # "CLOSED"
    <3>1. p.ready_write = (p.state \in {"CONNECTING", "SENDING"})
      BY <2>2, Zenon DEF Connection
    <3>2. p.ready_read = (p.state \in {"IDLE", "RECVING"})
      BY <2>2 DEF Connection
    <3>3. q.mask = IF p.ready_read THEN ReadMask ELSE WriteMask
      BY <2>1, <2>2
    <3> QED
      BY <2>1, <2>2, <3>1, <3>2, <3>3 DEF Held
  <2>5. OthersLinked(c, s, f) /\ s[f].link = "none"
    BY <1>3, FDAssumption DEF OthersLinked, Lowest, NoFd
  <2>6. Typed' /\ Linked'
    BY <2>1, <2>2, <2>3, <2>4, <2>5, Attach
  <2> QED
    BY <2>2, <2>3, <2>4, <2>6 DEF StartConnect, Typed, Live
<1> QED
  BY <1>1, <1>2, <1>3 DEF StartConnect

\* close() of c's descriptor leaves the others as they were.
LEMMA ReleasedOthers ==
    ASSUME Typed, Linked, NEW c \in Conn, Live(c),
           NEW r \in Connection, r.fd = conn[c].fd
    PROVE  Released(r) \in [FD -> Socket] /\ OthersLinked(c, Released(r), NoFd)
<1>1. r.fd \in FD /\ r.fd # NoFd
  BY FDAssumption DEF Linked, Held, NoFd
<1>2. Released(r) = [sock EXCEPT ![r.fd] = NoSock]
  BY <1>1 DEF Released
<1>3. Released(r) \in [FD -> Socket]
  BY <1>2, NoSockSocket DEF Typed
<1>4. ASSUME NEW d \in Conn \ {c}
      PROVE  IF Live(d) THEN Held(d, conn[d], Released(r)[conn[d].fd])
             ELSE Shut(conn[d])
  <2>1. CASE Live(d)
    <3>1. Held(d, conn[d], sock[conn[d].fd]) /\ Held(c, conn[c], sock[conn[c].fd])
      BY <2>1 DEF Linked, Sock
    <3>2. conn[d].fd # r.fd
      BY <3>1 DEF Held
    <3> QED
      BY <1>2, <2>1, <3>1, <3>2 DEF Held, Typed
  <2>2. CASE ~Live(d)
    BY <2>2 DEF Linked
  <2> QED
    BY <2>1, <2>2
<1>5. ASSUME NEW f \in FD, Released(r)[f].link # "none"
      PROVE  /\ Released(r)[f].ptr \in Conn \ {c}
             /\ Live(Released(r)[f].ptr) /\ conn[Released(r)[f].ptr].fd = f
  <2>1. f # r.fd /\ Released(r)[f] = sock[f]
    BY <1>1, <1>2, <1>5, NoSockSocket DEF Typed
  <2> QED
    BY <1>5, <2>1 DEF Linked
<1> QED
  BY <1>3, <1>4, <1>5 DEF OthersLinked

\* close_connection(), a paid retry, and start_connect() if it is granted.
LEMMA DropOutcome ==
    ASSUME Typed, Linked, redialled \in [Conn -> Nat], loop # "killed",
           NEW c \in Conn, Live(c),
           NEW r \in Connection, r.fd = conn[c].fd,
           NEW a \in Nat, a + redialled[c] + r.requests = Requests,
           Drop(c, r)
    PROVE  Outcome(c, a, r.timer)
<1>1. Released(r) \in [FD -> Socket] /\ OthersLinked(c, Released(r), NoFd)
  BY ReleasedOthers
<1>2. r.requests \in Nat
  BY RequestsAssumption DEF Connection
<1>3. /\ Closed(r) \in Connection /\ Shut(Closed(r))
      /\ Closed(r).state = "CLOSED" /\ Closed(r).timer = r.timer
      /\ Closed(r).requests = r.requests
  BY ClosedConnection
<1> DEFINE p == Spend(Closed(r))
<1>4. /\ p \in Connection /\ Shut(p) /\ p.state = "CLOSED"
      /\ p.timer = r.timer
      /\ p.requests = IF r.requests = 0 THEN ReqMod - 1 ELSE r.requests - 1
  BY <1>3, SpendConnection DEF Shut
<1> HIDE DEF p
<1>5. CASE Retry /\ r.requests > 0
  <2>1. /\ redialled' = [redialled EXCEPT ![c] = @ + 1]
        /\ StartConnect(c, p, Released(r))
    BY <1>5 DEF Drop, p
  <2>2. /\ Typed' /\ Linked' /\ loop' = loop
        /\ \A d \in Conn \ {c} : conn'[d] = conn[d]
        /\ conn'[c].timer = p.timer /\ conn'[c].requests = p.requests
        /\ Live(c)' \/ CanFailLocally
    BY <1>1, <1>4, <2>1, StartConnectOutcome
  <2>3. /\ redialled' \in [Conn -> Nat] /\ redialled'[c] = redialled[c] + 1
        /\ \A d \in Conn \ {c} : redialled'[d] = redialled[d]
    BY <2>1
  <2>4. Balanced(conn'[c], a, redialled'[c])
    BY <1>2, <1>4, <1>5, <2>2, <2>3 DEF Balanced
  <2>5. Settled(c, a)
    BY <1>2, <1>5, <2>2, <2>3 DEF Settled
  <2> QED
    BY <1>4, <2>2, <2>3, <2>4, <2>5 DEF Outcome
<1>6. CASE ~(Retry /\ r.requests > 0)
  <2> DEFINE z == IF Retry THEN Spend(Closed(r)) ELSE Closed(r)
  <2>1. /\ conn' = [conn EXCEPT ![c] = z] /\ sock' = Released(r)
        /\ loop' = loop /\ redialled' = redialled
    BY <1>6 DEF Drop
  <2>2. /\ z \in Connection /\ Shut(z) /\ z.state = "CLOSED"
        /\ z.timer = r.timer
        /\ \/ z.requests = r.requests
           \/ r.requests = 0 /\ z.requests = ReqMod - 1
    BY <1>2, <1>3, <1>4, <1>6 DEF p
  <2> HIDE DEF z
  <2>3. Typed' /\ Linked'
    BY <1>1, <2>1, <2>2, Detach
  <2>4. /\ conn'[c] = z
        /\ \A d \in Conn \ {c} : conn'[d] = conn[d]
    BY <2>1 DEF Typed
  <2>5. Balanced(conn'[c], a, redialled'[c])
    BY <1>2, <2>1, <2>2, <2>4 DEF Balanced
  <2>6. Settled(c, a)
    BY <1>2, <1>6, <2>1, <2>2, <2>4 DEF Settled, Live
  <2> QED
    BY <2>1, <2>2, <2>3, <2>4, <2>5, <2>6 DEF Outcome
<1> QED
  BY <1>5, <1>6

\* A handler that leaves c in state p with descriptor record q.
LEMMA ReturnOutcome ==
    ASSUME Typed, Linked, redialled \in [Conn -> Nat],
           NEW c \in Conn, Live(c),
           NEW p \in Connection, NEW q \in Socket, NEW t,
           p.fd = conn[c].fd, p.state # "CLOSED", Held(c, p, q),
           p.timer \in {t, "pending"},
           NEW a \in Nat, a + redialled[c] + p.requests = Requests,
           Return(c, p, q)
    PROVE  Outcome(c, a, t)
<1>1. /\ conn' = [conn EXCEPT ![c] = p] /\ sock' = [sock EXCEPT ![p.fd] = q]
      /\ loop' = loop /\ redialled' = redialled
  BY DEF Return
<1>2. p.fd \in FD /\ sock[p.fd].ptr = c
  BY DEF Linked, Held, Sock
<1>3. OthersLinked(c, sock, p.fd)
  <2>1. \A d \in Conn \ {c} : IF Live(d) THEN Held(d, conn[d], sock[conn[d].fd])
                              ELSE Shut(conn[d])
    BY DEF Linked, Sock
  <2>2. ASSUME NEW f \in FD \ {p.fd}, sock[f].link # "none"
        PROVE  sock[f].ptr \in Conn \ {c} /\ Live(sock[f].ptr)
               /\ conn[sock[f].ptr].fd = f
    BY <2>2 DEF Linked
  <2> QED
    BY <2>1, <2>2 DEF OthersLinked
<1>4. Typed' /\ Linked'
  BY <1>1, <1>2, <1>3, Attach DEF Typed
<1>5. conn'[c] = p /\ \A d \in Conn \ {c} : conn'[d] = conn[d]
  BY <1>1 DEF Typed
<1>6. Balanced(conn'[c], a, redialled'[c])
  BY <1>1, <1>5 DEF Balanced
<1>7. Settled(c, a)
  BY <1>1, <1>5 DEF Settled, Live
<1> QED
  BY <1>1, <1>4, <1>5, <1>6, <1>7 DEF Outcome

\* A request that has gone out: the connection waits for the response.
LEMMA SendAllOutcome ==
    ASSUME Typed, Linked, redialled \in [Conn -> Nat],
           NEW c \in Conn, Live(c),
           NEW r \in Connection, NEW k \in Socket, Registered(c, r, k),
           NEW a \in Nat, a + redialled[c] + r.requests = Requests,
           SendAll(c, r, k)
    PROVE  Outcome(c, a, r.timer)
<1>1. PICK w \in BOOLEAN :
         LET q == [k EXCEPT !.writable = w,
                            !.owed = IF k.link = "up" THEN @ + RespLen ELSE @]
         IN  Return(c, [ReadEventConn([r EXCEPT !.sent = ReqLen], q) EXCEPT
                           !.state = "RECVING", !.read_len = -HeadLen],
                    ReadEventSock(r, q, c))
  BY DEF SendAll
<1> DEFINE q == [k EXCEPT !.writable = w,
                          !.owed = IF k.link = "up" THEN @ + RespLen ELSE @]
           s == [r EXCEPT !.sent = ReqLen]
           v == ReadEventConn(s, q)
           p == [v EXCEPT !.state = "RECVING", !.read_len = -HeadLen]
           y == ReadEventSock(r, q, c)
<1>2. q \in Socket /\ q.link = k.link /\ q.ptr = k.ptr /\ q.mask = k.mask
  <2> DEFINE o == IF k.link = "up" THEN k.owed + RespLen ELSE k.owed
  <2>1. k.owed \in Nat /\ RespLen \in Nat
    BY LengthAssumption DEF Socket, RespLen
  <2>2. o \in Nat /\ q = [k EXCEPT !.writable = w, !.owed = o]
    BY <2>1 DEF Socket
  <2> HIDE DEF o, q
  <2> QED
    BY <2>2 DEF Socket
<1>3. /\ s \in Connection /\ s.active = r.active /\ s.fd = r.fd
      /\ s.ready_read = r.ready_read /\ s.ready_write = r.ready_write
      /\ s.timer = r.timer /\ s.requests = r.requests
  BY LengthAssumption DEF Connection
<1> HIDE DEF q, s
<1>4. /\ r.active /\ q.ptr = c
      /\ r.ready_read => ~r.ready_write /\ q.mask = ReadMask
  BY <1>2 DEF Registered, Connection
<1>5. v \in Connection /\ v.ready_read /\ ~v.ready_write /\ SameButFlags(v, s)
  BY <1>2, <1>3, <1>4, ReadEvent
<1>6. /\ y \in Socket /\ y.ptr = c /\ y.mask = ReadMask
      /\ y.link = k.link
  BY <1>2, <1>4, ReadEvent
<1> HIDE DEF v, y
<1>7. /\ p \in Connection /\ p.state = "RECVING" /\ p.fd = r.fd /\ p.active
      /\ p.ready_read /\ ~p.ready_write
      /\ p.timer = r.timer /\ p.requests = r.requests
  <2>1. -HeadLen \in (-HeadLen)..0 /\ "RECVING" \in State
    BY LengthAssumption DEF State
  <2> QED
    BY <1>3, <1>5, <2>1 DEF Connection, SameButFlags
<1> HIDE DEF p
<1>8. Return(c, p, y)
  BY <1>1 DEF p, v, s, y, q
<1>9. Held(c, p, y)
  <2>1. p.ready_write = (p.state \in {"CONNECTING", "SENDING"})
    BY <1>7 DEF Connection
  <2>2. p.ready_read = (p.state \in {"IDLE", "RECVING"})
    BY <1>7, Zenon DEF Connection
  <2>3. y.mask = IF p.ready_read THEN ReadMask ELSE WriteMask
    BY <1>6, <1>7
  <2> QED
    BY <1>6, <1>7, <2>1, <2>2, <2>3 DEF Held, Registered
<1> QED
  BY <1>6, <1>7, <1>8, <1>9, ReturnOutcome DEF Registered

\* A request that has not gone out entirely: the connection waits for room.
LEMMA SendSomeOutcome ==
    ASSUME Typed, Linked, redialled \in [Conn -> Nat],
           NEW c \in Conn, Live(c),
           NEW r \in Connection, NEW k \in Socket, Registered(c, r, k),
           NEW n \in Nat, r.sent + n =< ReqLen, r.state = "SENDING",
           NEW a \in Nat, a + redialled[c] + r.requests = Requests,
           SendSome(c, r, k, n)
    PROVE  Outcome(c, a, r.timer)
<1> DEFINE s == [r EXCEPT !.sent = @ + n, !.ready_write = FALSE]
           q == [k EXCEPT !.writable = @ /\ n = 0]
           p == WriteEventConn(s, q)
           y == WriteEventSock(s, q, c)
<1>1. q \in Socket /\ q.link = k.link /\ q.ptr = k.ptr /\ q.mask = k.mask
  BY DEF Socket
<1>2. /\ s \in Connection /\ s.active = r.active /\ s.fd = r.fd
      /\ ~s.ready_write /\ s.state = r.state
      /\ s.timer = r.timer /\ s.requests = r.requests
  <2>1. r.sent + n \in 0..ReqLen
    BY LengthAssumption DEF Connection
  <2> QED
    BY <2>1 DEF Connection
<1> HIDE DEF q, s
<1>3. /\ p \in Connection /\ p.ready_write /\ ~p.ready_read
      /\ SameButFlags(p, s)
      /\ y \in Socket /\ y.ptr = c /\ y.mask = WriteMask /\ y.link = q.link
  <2>1. /\ s.active /\ q.ptr = c
        /\ s.ready_write => ~s.ready_read /\ q.mask = WriteMask
    BY <1>1, <1>2 DEF Registered
  <2>2. s \in Connection /\ q \in Socket
    BY <1>1, <1>2
  <2> QED
    BY <2>1, <2>2, WriteEvent
<1> HIDE DEF p, y
<1>4. Return(c, p, y)
  BY DEF SendSome, p, y, s, q
<1>5. Held(c, p, y)
  <2>1. p.ready_write = (p.state \in {"CONNECTING", "SENDING"})
    BY <1>2, <1>3, Zenon DEF Connection, SameButFlags
  <2>2. p.ready_read = (p.state \in {"IDLE", "RECVING"})
    BY <1>2, <1>3 DEF Connection, SameButFlags
  <2>3. y.mask = IF p.ready_read THEN ReadMask ELSE WriteMask
    BY <1>3
  <2> QED
    BY <1>1, <1>2, <1>3, <2>1, <2>2, <2>3 DEF Held, Registered, SameButFlags
<1> QED
  BY <1>2, <1>3, <1>4, <1>5, ReturnOutcome DEF Registered, SameButFlags

\* handle_send_event() in a state it sends in.
LEMMA HandleSendOutcome ==
    ASSUME Typed, Linked, redialled \in [Conn -> Nat], loop # "killed",
           NEW c \in Conn, Live(c),
           NEW r0 \in Connection, NEW k \in Socket, Registered(c, r0, k),
           r0.state \in {"CONNECTING", "IDLE", "SENDING"},
           NEW a \in Nat, a + redialled[c] + r0.requests = Requests,
           HandleSend(c, r0, k)
    PROVE  Outcome(c, a, r0.timer)
<1> DEFINE r == Begin(r0)
<1>1. /\ r \in Connection /\ r.state = "SENDING" /\ r.fd = r0.fd
      /\ r.active = r0.active /\ r.ready_read = r0.ready_read
      /\ r.ready_write = r0.ready_write
      /\ r.timer = r0.timer /\ r.requests = r0.requests
  <2>1. 0 \in 0..ReqLen /\ "SENDING" \in State
    BY LengthAssumption DEF State
  <2> QED
    BY <2>1 DEF Begin, Connection
<1>2. Registered(c, r, k)
  BY <1>1 DEF Registered
<1>3. TrySend(c, r, k)
  BY DEF HandleSend
<1> HIDE DEF r
<1>4. a + redialled[c] + r.requests = Requests
  BY <1>1
<1>5. CASE SendAll(c, r, k)
  BY <1>1, <1>2, <1>4, <1>5, SendAllOutcome
<1>6. ASSUME NEW n \in 1..(ReqLen - r.sent - 1), SendSome(c, r, k, n)
      PROVE  Outcome(c, a, r.timer)
  <2>1. n \in Nat /\ r.sent + n =< ReqLen
    BY <1>1, LengthAssumption DEF Connection
  <2> QED
    BY <1>1, <1>2, <1>4, <1>6, <2>1, SendSomeOutcome
<1>7. CASE SendSome(c, r, k, 0)
  <2>1. r.sent + 0 =< ReqLen
    BY <1>1, LengthAssumption DEF Connection
  <2> QED
    BY <1>1, <1>2, <1>4, <1>7, <2>1, SendSomeOutcome
<1>8. CASE Drop(c, r)
  BY <1>1, <1>2, <1>4, <1>8, DropOutcome DEF Registered
<1>9. CASE Killed(c, r)
  <2>1. Typed' /\ conn'[c] = r /\ \A d \in Conn \ {c} : conn'[d] = conn[d]
    BY <1>1, <1>9, NoSockSocket DEF Killed, Typed
  <2> QED
    BY <1>1, <1>4, <1>9, <2>1 DEF Killed, Outcome, Balanced, Settled, Live
<1> QED
  BY <1>1, <1>3, <1>5, <1>6, <1>7, <1>8, <1>9 DEF TrySend

\* handle_after_request(): the answer is counted and the budget spent on it.
LEMMA AfterRequestOutcome ==
    ASSUME Typed, Linked, redialled \in [Conn -> Nat], loop # "killed",
           answered \in [Conn -> Nat],
           NEW c \in Conn, Live(c),
           NEW r \in Connection, NEW k \in Socket, Registered(c, r, k),
           r.ready_read,
           answered[c] + redialled[c] + r.requests = Requests,
           AfterRequest(c, r, k)
    PROVE  /\ Outcome(c, answered[c] + 1, r.timer)
           /\ answered' = [answered EXCEPT ![c] = @ + 1]
<1>1. answered' = [answered EXCEPT ![c] = @ + 1]
  BY DEF AfterRequest
<1>2. answered[c] + 1 \in Nat /\ r.requests \in Nat
  BY RequestsAssumption DEF Connection
<1> DEFINE z == Spend(r)
<1>3. /\ z \in Connection /\ z.fd = r.fd /\ z.timer = r.timer
      /\ z.active = r.active /\ z.ready_read = r.ready_read
      /\ z.ready_write = r.ready_write
      /\ z.requests = IF r.requests = 0 THEN ReqMod - 1 ELSE r.requests - 1
  BY SpendConnection
<1> HIDE DEF z
<1>4. CASE r.requests = 0
  <2>1. /\ conn' = [conn EXCEPT ![c] = Closed(z)] /\ sock' = Released(r)
        /\ loop' = loop /\ redialled' = redialled
    BY <1>4 DEF AfterRequest, z
  <2>2. /\ Closed(z) \in Connection /\ Shut(Closed(z))
        /\ Closed(z).state = "CLOSED"
        /\ Closed(z).requests = ReqMod - 1 /\ Closed(z).timer = r.timer
    BY <1>3, <1>4, ClosedConnection
  <2>3. Released(r) \in [FD -> Socket] /\ OthersLinked(c, Released(r), NoFd)
    BY ReleasedOthers DEF Registered
  <2>4. Typed' /\ Linked'
    BY <2>1, <2>2, <2>3, Detach
  <2>5. /\ conn'[c] = Closed(z)
        /\ \A d \in Conn \ {c} : conn'[d] = conn[d]
    BY <2>1 DEF Typed
  <2>6. Balanced(conn'[c], answered[c] + 1, redialled'[c])
    BY <1>2, <1>4, <2>1, <2>2, <2>5 DEF Balanced
  <2>7. Settled(c, answered[c] + 1)
    BY <1>2, <1>4, <2>1, <2>2, <2>5 DEF Settled, Live
  <2> QED
    BY <1>1, <2>1, <2>2, <2>4, <2>5, <2>6, <2>7 DEF Outcome
<1>5. CASE r.requests # 0
  <2> DEFINE i == [z EXCEPT !.state = "IDLE"]
  <2>1. /\ i \in Connection /\ i.state = "IDLE" /\ i.fd = r.fd
        /\ i.active = r.active /\ i.ready_read = r.ready_read
        /\ i.ready_write = r.ready_write
        /\ i.timer = r.timer /\ i.requests = r.requests - 1
    BY <1>3, <1>5 DEF Connection, State
  <2>2. IF Sleeps THEN \E t \in AddTimer(i) : Return(c, [i EXCEPT !.timer = t], k)
        ELSE HandleSend(c, i, k)
    BY <1>5 DEF AfterRequest, z
  <2> HIDE DEF i
  <2>3. answered[c] + 1 + redialled[c] + i.requests = Requests
    BY <1>2, <2>1
  <2>4. CASE Sleeps
    <3>1. PICK t \in AddTimer(i) : Return(c, [i EXCEPT !.timer = t], k)
      BY <2>2, <2>4
    <3> DEFINE p == [i EXCEPT !.timer = t]
    <3>2. t \in {"pending", r.timer} /\ t # "off" /\ t \in {"pending", "due"}
      BY <2>1 DEF AddTimer, Connection
    <3>3. /\ p \in Connection /\ p.state = "IDLE" /\ p.fd = r.fd /\ p.active
          /\ p.ready_read = r.ready_read /\ p.ready_write = r.ready_write
          /\ p.timer = t /\ p.requests = i.requests
      BY <2>1, <3>2 DEF Connection, Registered
    <3> HIDE DEF p
    <3>4. Held(c, p, k)
      <4>1. p.ready_read = (p.state \in {"IDLE", "RECVING"})
        BY <3>3, Zenon DEF Connection
      <4>2. p.ready_write = (p.state \in {"CONNECTING", "SENDING"})
        BY <3>3 DEF Connection, Registered
      <4>3. k.mask = IF p.ready_read THEN ReadMask ELSE WriteMask
        BY <3>3 DEF Registered
      <4> QED
        BY <2>4, <3>2, <3>3, <4>1, <4>2, <4>3 DEF Held, Registered
    <3>5. Return(c, p, k)
      BY <3>1 DEF p
    <3>6. Outcome(c, answered[c] + 1, r.timer)
      <4>1. p.fd = conn[c].fd /\ p.state # "CLOSED"
            /\ p.timer \in {r.timer, "pending"}
            /\ answered[c] + 1 + redialled[c] + p.requests = Requests
        BY <2>3, <3>2, <3>3 DEF Registered
      <4> QED
        BY <1>2, <3>3, <3>4, <3>5, <4>1, ReturnOutcome
    <3> QED
      BY <1>1, <3>6
  <2>5. CASE ~Sleeps
    <3>1. Registered(c, i, k)
      BY <2>1 DEF Registered
    <3> QED
      BY <1>1, <1>2, <2>1, <2>2, <2>3, <2>5, <3>1, HandleSendOutcome
  <2> QED
    BY <2>4, <2>5
<1> QED
  BY <1>4, <1>5

\* handle_read_event() of a connection that waits for a response.
LEMMA HandleReadOutcome ==
    ASSUME Typed, Linked, redialled \in [Conn -> Nat], loop # "killed",
           answered \in [Conn -> Nat],
           NEW c \in Conn, conn[c].state = "RECVING",
           answered[c] + redialled[c] + conn[c].requests = Requests,
           HandleRead(c, conn[c], Sock(c))
    PROVE  /\ answered' \in [Conn -> Nat]
           /\ \A d \in Conn \ {c} : answered'[d] = answered[d]
           /\ answered'[c] \in {answered[c], answered[c] + 1}
           /\ Outcome(c, answered'[c], conn[c].timer)
<1> DEFINE r == conn[c]
           k == Sock(c)
           headOk == r.read_len < 0 /\ k.rx >= -r.read_len
           v == IF headOk \/ r.read_len = 0 THEN 0 ELSE r.read_len + k.rx
           p == [r EXCEPT !.ready_read = FALSE, !.read_len = v]
           q == [k EXCEPT !.rx = 0]
<1>1. /\ Live(c) /\ Held(c, r, k)
  BY DEF Linked, Live, State
<1>2. r \in Connection /\ k \in Socket
  BY <1>1 DEF Typed, Held, Sock
<1>3. r.active /\ r.ready_read /\ ~r.ready_write
  BY <1>1, <1>2 DEF Held, Connection
<1>4. Registered(c, r, k)
  BY <1>1, <1>2, <1>3 DEF Held, Registered, Connection
<1>5. /\ p \in Connection /\ p.fd = r.fd /\ p.state = r.state /\ p.active
      /\ ~p.ready_read /\ p.timer = r.timer /\ p.requests = r.requests
  <2>1. v \in (-HeadLen)..0
    BY <1>2, LengthAssumption DEF Connection, Socket
  <2> HIDE DEF v, r
  <2> QED
    BY <1>2, <1>3, <2>1 DEF Connection
<1>6. q \in Socket /\ q.link = k.link /\ q.ptr = k.ptr /\ q.mask = k.mask
  <2> HIDE DEF k
  <2> QED
    BY <1>2 DEF Socket
<1>7. \/ /\ k.rx >= Missing(r) /\ headOk
         /\ AfterRequest(c, [r EXCEPT !.read_len = 0],
                         [k EXCEPT !.rx = @ - Missing(r)])
      \/ Drop(c, r) /\ UNCHANGED answered
      \/ Drop(c, p) /\ UNCHANGED answered
      \/ Return(c, ReadEventConn(p, q), ReadEventSock(p, q, c)) /\ UNCHANGED answered
  BY DEF HandleRead
<1> HIDE DEF r, k, headOk, v, p, q
<1>8. answered[c] + redialled[c] + r.requests = Requests /\ r.fd = conn[c].fd
  BY DEF r
<1>9. CASE /\ k.rx >= Missing(r)
           /\ AfterRequest(c, [r EXCEPT !.read_len = 0],
                           [k EXCEPT !.rx = @ - Missing(r)])
  <2> DEFINE s == [r EXCEPT !.read_len = 0]
             y == [k EXCEPT !.rx = @ - Missing(r)]
  <2>1. /\ s \in Connection /\ s.fd = r.fd /\ s.active = r.active
        /\ s.ready_read = r.ready_read /\ s.ready_write = r.ready_write
        /\ s.timer = r.timer /\ s.requests = r.requests
    <3>1. 0 \in (-HeadLen)..0
      BY LengthAssumption
    <3> QED
      BY <1>2, <3>1 DEF Connection
  <2>2. y \in Socket /\ y.link = k.link /\ y.ptr = k.ptr /\ y.mask = k.mask
    <3>1. k.rx - Missing(r) \in Nat
      BY <1>2, <1>9, LengthAssumption DEF Connection, Socket, Missing
    <3> QED
      BY <1>2, <3>1 DEF Socket
  <2>3. AfterRequest(c, s, y)
    BY <1>9
  <2> HIDE DEF s, y
  <2>4. Registered(c, s, y)
    BY <1>4, <2>1, <2>2 DEF Registered
  <2>5. s.ready_read /\ answered[c] + redialled[c] + s.requests = Requests
    BY <1>3, <1>8, <2>1
  <2>6. /\ Outcome(c, answered[c] + 1, s.timer)
        /\ answered' = [answered EXCEPT ![c] = @ + 1]
    BY <1>1, <2>1, <2>2, <2>3, <2>4, <2>5, AfterRequestOutcome
  <2> QED
    BY <2>1, <2>6 DEF r
<1>10. CASE Drop(c, r) /\ UNCHANGED answered
  BY <1>1, <1>2, <1>8, <1>10, DropOutcome DEF r
<1>11. CASE Drop(c, p) /\ UNCHANGED answered
  <2>1. Outcome(c, answered[c], p.timer)
    BY <1>1, <1>5, <1>8, <1>11, DropOutcome
  <2> QED
    BY <1>5, <1>11, <2>1 DEF r
<1>12. CASE /\ Return(c, ReadEventConn(p, q), ReadEventSock(p, q, c))
            /\ UNCHANGED answered
  <2> DEFINE s == ReadEventConn(p, q)
             y == ReadEventSock(p, q, c)
  <2>1. q.ptr = c /\ (p.ready_read => ~p.ready_write /\ q.mask = ReadMask)
    BY <1>4, <1>5, <1>6 DEF Registered
  <2>2. /\ s \in Connection /\ s.ready_read /\ ~s.ready_write
        /\ SameButFlags(s, p)
        /\ y \in Socket /\ y.ptr = c /\ y.mask = ReadMask /\ y.link = q.link
    BY <1>5, <1>6, <2>1, ReadEvent
  <2>3. Return(c, s, y)
    BY <1>12
  <2> HIDE DEF s, y
  <2>4. Held(c, s, y)
    <3>0. s.state = "RECVING"
      BY <1>5, <2>2 DEF r, SameButFlags
    <3>1. s.ready_write = (s.state \in {"CONNECTING", "SENDING"})
      BY <2>2, <3>0 DEF Connection
    <3>2. s.ready_read = (s.state \in {"IDLE", "RECVING"})
      BY <2>2, <3>0, Zenon DEF Connection
    <3>3. y.mask = IF s.ready_read THEN ReadMask ELSE WriteMask
      BY <2>2
    <3> QED
      BY <1>4, <1>5, <1>6, <2>2, <3>0, <3>1, <3>2, <3>3
      DEF Held, Registered, SameButFlags
  <2>5. /\ s.fd = conn[c].fd /\ s.state # "CLOSED" /\ s.timer \in {r.timer, "pending"}
        /\ answered[c] + redialled[c] + s.requests = Requests
    BY <1>5, <1>8, <2>2 DEF r, SameButFlags
  <2>6. Outcome(c, answered[c], r.timer)
    BY <1>1, <2>2, <2>3, <2>4, <2>5, ReturnOutcome
  <2> QED
    BY <1>12, <2>6 DEF r
<1> QED
  BY <1>7, <1>9, <1>10, <1>11, <1>12
=============================================================================
