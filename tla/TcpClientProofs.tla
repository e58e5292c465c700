--------------------------- MODULE TcpClientProofs ---------------------------
(***************************************************************************)
(* Theorems about TcpClient, for any pool, any budget and any set of       *)
(* faults.  Every action preserves the inductive invariant IInv; the       *)
(* properties follow from it.  At the end, that TcpClient implements       *)
(* RequestBudget, and what follows of it.                                  *)
(***************************************************************************)
EXTENDS TcpClientBudget, TcpClientLemmas

-----------------------------------------------------------------------------
(***************************************************************************)
(* The invariant is inductive.                                             *)
(***************************************************************************)
LEMMA LiveBalance ==
    ASSUME IInv, NEW c \in Conn, Live(c)
    PROVE  answered[c] + redialled[c] + conn[c].requests = Requests
BY DEF IInv, Balanced, Live

LEMMA InitIInv == Init => IInv
<1> SUFFICES ASSUME Init PROVE IInv
  OBVIOUS
<1> DEFINE r == [state |-> "CLOSED", fd |-> NoFd, active |-> FALSE,
                 ready_read |-> FALSE, ready_write |-> FALSE,
                 timer |-> "off", requests |-> Requests,
                 sent |-> 0, read_len |-> 0]
<1>1. r \in Connection
  BY RequestsAssumption, LengthAssumption DEF Connection, State
<1>2. r.state = "CLOSED" /\ Shut(r) /\ r.requests = Requests /\ r.timer = "off"
  BY DEF Shut
<1> HIDE DEF r
<1>3. conn = [c \in Conn |-> r]
  BY DEF Init, r
<1>4. TypeOK
  BY <1>1, <1>3, NoSockSocket DEF Init, TypeOK, Phase
<1>5. Linked
  BY <1>2, <1>3, NoSockSocket DEF Init, Linked, Live
<1>6. \A c \in Conn : Balanced(conn[c], answered[c], redialled[c])
  BY <1>2, <1>3, RequestsAssumption DEF Init, Balanced
<1> QED
  BY <1>2, <1>3, <1>4, <1>5, <1>6 DEF Init, IInv, NoneDue, Live

\* A handler of c that dispatch or expiry has called.
LEMMA HandlerStep ==
    ASSUME IInv, loop \in {"dispatch", "expire"},
           NEW c \in Conn, NEW t \in {conn[c].timer, "off"},
           answered' \in [Conn -> Nat],
           \A d \in Conn \ {c} : answered'[d] = answered[d],
           Outcome(c, answered'[c], t),
           todo' = todo, delta' = delta,
           batch' \in [Conn -> SUBSET Event],
           \A d \in Conn : batch'[d] # {} => d # c /\ batch[d] # {}
    PROVE  IInv'
<1>1. Typed' /\ redialled' \in [Conn -> Nat]
  BY DEF Outcome
<1>2. TypeOK'
  BY <1>1 DEF IInv, TypeOK, Typed, Outcome, Phase
<1>3. Running' => Linked'
  BY DEF Outcome, Running
<1>4. Running' => loop' = loop
  BY DEF Outcome, Running
<1>5. ASSUME Running', NEW d \in Conn, batch'[d] # {}
      PROVE  loop' = "dispatch" /\ Live(d)'
  <2>1. d # c /\ batch[d] # {} /\ conn'[d] = conn[d]
    BY <1>5 DEF Outcome
  <2> QED
    BY <1>4, <1>5, <2>1 DEF IInv, Running, Live
<1>6. \A d \in Conn : Balanced(conn'[d], answered'[d], redialled'[d])
  BY DEF IInv, Outcome
<1>7. todo' = {}
  BY DEF IInv
<1>8. ASSUME loop' = "dispatch", ~delta'
      PROVE  NoneDue'
  <2>1. NoneDue
    BY <1>4, <1>8 DEF IInv, Running
  <2>2. conn'[c].timer # "due"
    BY <2>1 DEF Outcome, NoneDue
  <2> QED
    BY <2>1, <2>2 DEF Outcome, NoneDue
<1>9. loop' \notin {"start", "wait"}
  BY DEF Outcome
<1> QED
  BY <1>2, <1>3, <1>5, <1>6, <1>7, <1>8, <1>9 DEF IInv

\* Steps that change no more of a connection than its timer, and of a
\* descriptor neither its owner nor its mask.
LEMMA Undisturbed ==
    ASSUME Typed, Linked, Typed',
           \A c \in Conn :
               /\ conn'[c].state = conn[c].state /\ conn'[c].fd = conn[c].fd
               /\ conn'[c].active = conn[c].active
               /\ conn'[c].ready_read = conn[c].ready_read
               /\ conn'[c].ready_write = conn[c].ready_write
               /\ conn[c].state = "IDLE" /\ conn[c].timer # "off"
                      => conn'[c].timer # "off",
           \A f \in FD :
               /\ sock'[f].link = "none" <=> sock[f].link = "none"
               /\ sock'[f].ptr = sock[f].ptr /\ sock'[f].mask = sock[f].mask
    PROVE  Linked'
<1>1. \A c \in Conn : Live(c)' <=> Live(c)
  BY DEF Live
<1>2. ASSUME NEW c \in Conn
      PROVE  IF Live(c)' THEN Held(c, conn[c], Sock(c))' ELSE Shut(conn[c])'
  <2>1. CASE Live(c)
    <3>1. Held(c, conn[c], Sock(c))
      BY <2>1 DEF Linked
    <3>2. conn[c].fd \in FD
      BY <3>1 DEF Held
    <3> QED
      BY <1>1, <2>1, <3>1, <3>2 DEF Held, Sock
  <2>2. CASE ~Live(c)
    BY <1>1, <2>2 DEF Linked, Shut
  <2> QED
    BY <2>1, <2>2
<1>3. ASSUME NEW f \in FD, sock'[f].link # "none"
      PROVE  /\ sock'[f].ptr \in Conn
             /\ Live(sock[f].ptr)'
             /\ conn'[sock'[f].ptr].fd = f
  BY <1>1, <1>3 DEF Linked
<1> QED
  BY <1>2, <1>3 DEF Linked

\* start_all_connection() reaches c.
LEMMA StartNextOutcome ==
    ASSUME IInv, NEW c \in Conn, StartNext(c)
    PROVE  /\ Typed' /\ Linked' /\ loop' = loop
           /\ \A d \in Conn \ {c} : conn'[d] = conn[d]
           /\ conn'[c].timer = conn[c].timer
           /\ conn'[c].requests = conn[c].requests
           /\ Live(c)' \/ CanFailLocally
<1>1. /\ loop = "start" /\ c \in todo /\ todo' = todo \ {c}
      /\ StartConnect(c, conn[c], sock)
      /\ UNCHANGED <<batch, delta, answered, redialled>>
  BY DEF StartNext
<1>2. Typed /\ redialled \in [Conn -> Nat] /\ Linked /\ ~Live(c)
  BY <1>1 DEF IInv, TypeOK, Typed, Running
<1>3. OthersLinked(c, sock, NoFd) /\ Shut(conn[c]) /\ conn[c].state = "CLOSED"
  <2>1. \A d \in Conn : IF Live(d) THEN Held(d, conn[d], sock[conn[d].fd])
                        ELSE Shut(conn[d])
    BY <1>2 DEF Linked, Sock
  <2>2. ASSUME NEW f \in FD, sock[f].link # "none"
        PROVE  /\ sock[f].ptr \in Conn \ {c} /\ Live(sock[f].ptr)
               /\ conn[sock[f].ptr].fd = f
    BY <1>2, <2>2 DEF Linked
  <2> QED
    BY <1>2, <2>1, <2>2 DEF OthersLinked, Live
<1>4. conn[c] \in Connection /\ sock \in [FD -> Socket]
  BY <1>2 DEF Typed
<1> QED
  BY <1>1, <1>2, <1>3, <1>4, StartConnectOutcome

LEMMA StartNextStep ==
    ASSUME IInv, NEW c \in Conn, StartNext(c) PROVE IInv'
<1>1. /\ loop = "start" /\ c \in todo /\ todo' = todo \ {c}
      /\ UNCHANGED <<batch, delta, answered, redialled>>
  BY DEF StartNext
<1>2. /\ Typed' /\ Linked' /\ loop' = loop
      /\ \A d \in Conn \ {c} : conn'[d] = conn[d]
      /\ conn'[c].timer = conn[c].timer /\ conn'[c].requests = conn[c].requests
  BY StartNextOutcome
<1>3. TypeOK'
  BY <1>1, <1>2 DEF IInv, TypeOK, Typed
<1>4. \A d \in Conn : Balanced(conn'[d], answered'[d], redialled'[d])
  <2>1. Balanced(conn'[c], answered'[c], redialled'[c])
    BY <1>1, <1>2, RequestsAssumption DEF IInv, Balanced
  <2> QED
    BY <1>1, <1>2, <2>1 DEF IInv
<1>5. \A d \in todo' : /\ ~Live(d)' /\ conn'[d].requests = Requests
                       /\ answered'[d] = 0 /\ redialled'[d] = 0
  BY <1>1, <1>2 DEF IInv, TypeOK, Live
<1>6. NoneDue'
  BY <1>1, <1>2 DEF IInv, NoneDue
<1>7. \A d \in Conn : batch'[d] = {}
  BY <1>1 DEF IInv, Running
<1> QED
  BY <1>1, <1>2, <1>3, <1>4, <1>5, <1>6, <1>7 DEF IInv

\* Steps of main() that move on and touch no connection.
LEMMA ControlStep ==
    ASSUME IInv, Started \/ WaitFails \/ DispatchDone \/ ExpireDone
    PROVE  IInv'
<1>1. UNCHANGED <<conn, sock, todo, batch, delta, answered, redialled>>
  BY DEF Started, WaitFails, DispatchDone, ExpireDone
<1>2. TypeOK'
  BY <1>1 DEF IInv, TypeOK, Started, WaitFails, DispatchDone, ExpireDone, Phase
<1>3. Linked' /\ Running
  BY <1>1 DEF IInv, Running, Linked, Live, Sock, Started, WaitFails,
              DispatchDone, ExpireDone
<1>4. \A c \in Conn : batch'[c] = {}
  BY <1>1, <1>3 DEF IInv, Started, WaitFails, DispatchDone, ExpireDone
<1>5. loop' \in {"start", "wait"} \/ (loop' = "dispatch" /\ ~delta') => NoneDue'
  BY <1>1 DEF IInv, NoneDue, Started, WaitFails, DispatchDone, ExpireDone
<1>6. todo' = {}
  BY <1>1 DEF IInv, Started, WaitFails, DispatchDone, ExpireDone
<1>7. \A c \in Conn : Balanced(conn'[c], answered'[c], redialled'[c])
  BY <1>1 DEF IInv
<1> QED
  BY <1>2, <1>3, <1>4, <1>5, <1>6, <1>7 DEF IInv

\* Timers that come due leave everything else of the connections alone.
LEMMA ComeDueConn ==
    ASSUME conn \in [Conn -> Connection], NEW D \in SUBSET Conn, ComeDue(D)
    PROVE  /\ conn' \in [Conn -> Connection]
           /\ \A c \in Conn :
                 /\ conn'[c].state = conn[c].state /\ conn'[c].fd = conn[c].fd
                 /\ conn'[c].active = conn[c].active
                 /\ conn'[c].ready_read = conn[c].ready_read
                 /\ conn'[c].ready_write = conn[c].ready_write
                 /\ conn'[c].requests = conn[c].requests
                 /\ conn[c].timer # "off" => conn'[c].timer # "off"
                 /\ D = {} => conn'[c] = conn[c]
<1> DEFINE r(c) == [conn[c] EXCEPT !.timer = "due"]
<1>1. \A c \in Conn : /\ r(c) \in Connection
                      /\ r(c).state = conn[c].state /\ r(c).fd = conn[c].fd
                      /\ r(c).active = conn[c].active
                      /\ r(c).ready_read = conn[c].ready_read
                      /\ r(c).ready_write = conn[c].ready_write
                      /\ r(c).requests = conn[c].requests
                      /\ r(c).timer = "due"
  BY DEF Connection
<1>2. conn' = [c \in Conn |-> IF c \in D THEN r(c) ELSE conn[c]]
  BY DEF ComeDue
<1> HIDE DEF r
<1> QED
  BY <1>1, <1>2

LEMMA WaitStep ==
    ASSUME IInv, Wait PROVE IInv'
<1>1. PICK B \in SUBSET Ready, D \in SUBSET Armed :
         /\ D # {} => delta'
         /\ delta' \in BOOLEAN
         /\ ComeDue(D)
         /\ batch' = [c \in Conn |->
               UNION {Revents(sock[f]) : f \in {g \in B : sock[g].ptr = c}}]
         /\ sock' = [f \in FD |-> IF f \in B THEN [sock[f] EXCEPT !.rdy = FALSE]
                                  ELSE sock[f]]
  BY DEF Wait
<1>2. /\ loop = "wait" /\ loop' = "dispatch"
      /\ UNCHANGED <<todo, answered, redialled>>
  BY DEF Wait
<1>3. Typed /\ Linked /\ NoneDue /\ todo = {} /\ TypeOK
  BY <1>2 DEF IInv, TypeOK, Typed, Running
<1>4. /\ conn' \in [Conn -> Connection]
      /\ \A c \in Conn :
            /\ conn'[c].state = conn[c].state /\ conn'[c].fd = conn[c].fd
            /\ conn'[c].active = conn[c].active
            /\ conn'[c].ready_read = conn[c].ready_read
            /\ conn'[c].ready_write = conn[c].ready_write
            /\ conn'[c].requests = conn[c].requests
            /\ conn[c].timer # "off" => conn'[c].timer # "off"
            /\ D = {} => conn'[c] = conn[c]
  <2>1. D \in SUBSET Conn
    BY DEF Armed
  <2> QED
    BY <1>1, <1>3, <2>1, ComeDueConn DEF Typed
<1>5. /\ sock' \in [FD -> Socket]
      /\ \A f \in FD : /\ sock'[f].link = sock[f].link
                       /\ sock'[f].ptr = sock[f].ptr
                       /\ sock'[f].mask = sock[f].mask
  <2>1. \A f \in FD : /\ [sock[f] EXCEPT !.rdy = FALSE] \in Socket
                      /\ [sock[f] EXCEPT !.rdy = FALSE].link = sock[f].link
                      /\ [sock[f] EXCEPT !.rdy = FALSE].ptr = sock[f].ptr
                      /\ [sock[f] EXCEPT !.rdy = FALSE].mask = sock[f].mask
    BY <1>3 DEF Typed, Socket
  <2> QED
    BY <1>1, <1>3, <2>1 DEF Typed
<1>6. Typed' /\ Linked'
  BY <1>3, <1>4, <1>5, Undisturbed DEF Typed
<1>7. batch' \in [Conn -> SUBSET Event]
  <2>1. \A f \in FD : Revents(sock[f]) \subseteq Event
    BY DEF Revents, Poll
  <2>2. B \subseteq FD
    BY DEF Ready
  <2>3. \A c \in Conn :
           UNION {Revents(sock[f]) : f \in {g \in B : sock[g].ptr = c}}
               \subseteq Event
    BY <2>1, <2>2
  <2> QED
    BY <1>1, <2>3
<1>8. ASSUME NEW c \in Conn, batch'[c] # {}
      PROVE  Live(c)'
  <2>1. PICK f \in B : sock[f].ptr = c
    BY <1>1, <1>8
  <2>2. f \in FD /\ sock[f].link # "none"
    BY DEF Ready
  <2>3. Live(c)
    BY <1>3, <2>1, <2>2 DEF Linked
  <2> QED
    BY <1>4, <2>3 DEF Live
<1>9. TypeOK'
  BY <1>1, <1>2, <1>3, <1>6, <1>7 DEF TypeOK, Typed, Phase
<1>10. \A c \in Conn : Balanced(conn'[c], answered'[c], redialled'[c])
  BY <1>2, <1>4 DEF IInv, Balanced
<1>11. ~delta' => NoneDue'
  BY <1>1, <1>3, <1>4 DEF NoneDue
<1> QED
  BY <1>2, <1>3, <1>6, <1>8, <1>9, <1>10, <1>11 DEF IInv

LEMMA WaitTimeoutStep ==
    ASSUME IInv, WaitTimeout PROVE IInv'
<1>1. PICK D \in SUBSET Armed : ComeDue(D)
  BY DEF WaitTimeout
<1>2. /\ loop = "wait" /\ loop' = "expire" /\ delta' = TRUE
      /\ UNCHANGED <<sock, todo, batch, answered, redialled>>
  BY DEF WaitTimeout
<1>3. Typed /\ Linked /\ todo = {} /\ TypeOK
  BY <1>2 DEF IInv, TypeOK, Typed, Running
<1>4. /\ conn' \in [Conn -> Connection]
      /\ \A c \in Conn :
            /\ conn'[c].state = conn[c].state /\ conn'[c].fd = conn[c].fd
            /\ conn'[c].active = conn[c].active
            /\ conn'[c].ready_read = conn[c].ready_read
            /\ conn'[c].ready_write = conn[c].ready_write
            /\ conn'[c].requests = conn[c].requests
            /\ conn[c].timer # "off" => conn'[c].timer # "off"
  <2>1. D \in SUBSET Conn
    BY DEF Armed
  <2> QED
    BY <1>1, <1>3, <2>1, ComeDueConn DEF Typed
<1>5. Typed' /\ Linked'
  BY <1>2, <1>3, <1>4, Undisturbed DEF Typed
<1>6. TypeOK'
  BY <1>2, <1>3, <1>5 DEF TypeOK, Typed, Phase
<1>7. \A c \in Conn : Balanced(conn'[c], answered'[c], redialled'[c])
  BY <1>2, <1>4 DEF IInv, Balanced
<1>8. \A c \in Conn : batch'[c] = {}
  BY <1>2 DEF IInv, Running
<1> QED
  BY <1>2, <1>3, <1>5, <1>6, <1>7, <1>8 DEF IInv

\* What every dispatched event starts from.
LEMMA Taken ==
    ASSUME IInv, NEW c \in Conn, Take(c)
    PROVE  /\ TypeOK /\ Typed /\ Linked /\ loop = "dispatch" /\ Live(c)
           /\ conn[c] \in Connection
           /\ answered[c] \in Nat
           /\ answered[c] + redialled[c] + conn[c].requests = Requests
           /\ todo' = todo /\ delta' = delta
           /\ batch' \in [Conn -> SUBSET Event]
           /\ \A d \in Conn : batch'[d] # {} => d # c /\ batch[d] # {}
<1>1. /\ loop = "dispatch" /\ batch[c] # {}
      /\ batch' = [batch EXCEPT ![c] = {}]
      /\ todo' = todo /\ delta' = delta
  BY DEF Take
<1>2. TypeOK /\ Typed /\ Linked /\ Live(c)
  BY <1>1 DEF IInv, TypeOK, Typed, Running
<1>3. answered[c] + redialled[c] + conn[c].requests = Requests
  BY <1>2, LiveBalance
<1> QED
  BY <1>1, <1>2, <1>3 DEF TypeOK

\* A live connection that may send is registered with its own descriptor.
LEMMA HeldRegistered ==
    ASSUME Typed, Linked, NEW c \in Conn, Live(c),
           NEW t \in {"off", "pending", "due"}
    PROVE  /\ [conn[c] EXCEPT !.timer = t] \in Connection
           /\ Sock(c) \in Socket
           /\ Registered(c, conn[c], Sock(c))
           /\ Registered(c, [conn[c] EXCEPT !.timer = t], Sock(c))
<1>1. Held(c, conn[c], Sock(c)) /\ conn[c] \in Connection
  BY DEF Linked, Typed
<1>2. Sock(c) \in Socket
  BY <1>1 DEF Held, Sock, Typed
<1>3. conn[c].ready_write = ~conn[c].ready_read
  BY <1>1 DEF Held, Connection, State, Live
<1>4. Registered(c, conn[c], Sock(c))
  BY <1>1, <1>3 DEF Held, Registered
<1> DEFINE p == [conn[c] EXCEPT !.timer = t]
<1>5. /\ p \in Connection /\ p.fd = conn[c].fd /\ p.active = conn[c].active
      /\ p.ready_read = conn[c].ready_read /\ p.ready_write = conn[c].ready_write
  BY <1>1 DEF Connection
<1> HIDE DEF p
<1>6. Registered(c, p, Sock(c))
  BY <1>4, <1>5 DEF Registered
<1> QED
  BY <1>2, <1>4, <1>5, <1>6 DEF p

\* A handler that dispatch has called settles its connection's account.
LEMMA DispatchOutcome ==
    ASSUME IInv, NEW c \in Conn,
           DispatchClose(c) \/ DispatchRead(c) \/ DispatchSend(c)
    PROVE  /\ answered' \in [Conn -> Nat]
           /\ \A d \in Conn \ {c} : answered'[d] = answered[d]
           /\ answered'[c] \in {answered[c], answered[c] + 1}
           /\ Outcome(c, answered'[c], conn[c].timer)
<1>1. /\ TypeOK /\ Typed /\ Linked /\ loop = "dispatch" /\ Live(c)
      /\ conn[c] \in Connection /\ answered[c] \in Nat
      /\ answered[c] + redialled[c] + conn[c].requests = Requests
  BY Taken DEF DispatchClose, DispatchRead, DispatchSend
<1>2. redialled \in [Conn -> Nat] /\ answered \in [Conn -> Nat]
  BY <1>1 DEF TypeOK
<1>3. CASE DispatchClose(c)
  <2>1. Drop(c, conn[c]) /\ answered' = answered
    BY <1>3 DEF DispatchClose
  <2>2. Outcome(c, answered[c], conn[c].timer)
    BY <1>1, <1>2, <2>1, DropOutcome
  <2> QED
    BY <1>2, <2>1, <2>2
<1>4. CASE DispatchRead(c)
  <2>1. conn[c].state = "RECVING" /\ HandleRead(c, conn[c], Sock(c))
    BY <1>4 DEF DispatchRead, Sock
  <2> QED
    BY <1>1, <1>2, <2>1, HandleReadOutcome
<1>5. CASE DispatchSend(c)
  <2>1. /\ conn[c].state \in {"CONNECTING", "IDLE", "SENDING"}
        /\ HandleSend(c, conn[c], Sock(c)) /\ answered' = answered
    BY <1>5 DEF DispatchSend, Sock
  <2>2. Registered(c, conn[c], Sock(c)) /\ Sock(c) \in Socket
    BY <1>1, HeldRegistered
  <2>3. Outcome(c, answered[c], conn[c].timer)
    BY <1>1, <1>2, <2>1, <2>2, HandleSendOutcome
  <2> QED
    BY <1>2, <2>1, <2>3
<1> QED
  BY <1>3, <1>4, <1>5

LEMMA DispatchStep ==
    ASSUME IInv, NEW c \in Conn,
           DispatchClose(c) \/ DispatchRead(c) \/ DispatchSend(c)
    PROVE  IInv'
<1>1. /\ loop = "dispatch" /\ todo' = todo /\ delta' = delta
      /\ batch' \in [Conn -> SUBSET Event]
      /\ \A d \in Conn : batch'[d] # {} => d # c /\ batch[d] # {}
  BY Taken DEF DispatchClose, DispatchRead, DispatchSend
<1> QED
  BY <1>1, DispatchOutcome, HandlerStep

LEMMA DispatchIgnoredStep ==
    ASSUME IInv, NEW c \in Conn, DispatchIgnored(c) PROVE IInv'
<1>1. /\ TypeOK /\ Typed /\ Linked /\ loop = "dispatch"
      /\ todo' = todo /\ delta' = delta
      /\ batch' \in [Conn -> SUBSET Event]
      /\ \A d \in Conn : batch'[d] # {} => d # c /\ batch[d] # {}
  BY Taken DEF DispatchIgnored
<1>2. UNCHANGED <<conn, sock, loop, answered, redialled>>
  BY DEF DispatchIgnored
<1>3. TypeOK' /\ Linked'
  BY <1>1, <1>2 DEF TypeOK, Linked, Live, Sock
<1>4. \A d \in Conn : batch'[d] # {} => loop' = "dispatch" /\ Live(d)'
  BY <1>1, <1>2 DEF IInv, Running, Live
<1> QED
  BY <1>1, <1>2, <1>3, <1>4 DEF IInv, NoneDue, Live

\* What every expired timer starts from; r is the connection without it.
LEMMA Expired ==
    ASSUME IInv, NEW c \in Conn, Expire(c), NEW r,
           r = [conn[c] EXCEPT !.timer = "off"]
    PROVE  /\ loop = "expire" /\ answered' = answered
           /\ todo' = todo /\ batch' = batch /\ delta' = delta
           /\ TypeOK /\ Typed /\ Linked /\ todo = {}
           /\ \A d \in Conn : batch[d] = {}
           /\ r \in Connection /\ r.state = conn[c].state /\ r.fd = conn[c].fd
           /\ r.active = conn[c].active /\ r.ready_read = conn[c].ready_read
           /\ r.ready_write = conn[c].ready_write
           /\ r.requests = conn[c].requests /\ r.timer = "off"
<1>1. /\ loop = "expire" /\ todo' = todo /\ batch' = batch /\ delta' = delta
      /\ answered' = answered
  BY DEF Expire
<1>2. TypeOK /\ Typed /\ Linked /\ todo = {}
  BY <1>1 DEF IInv, TypeOK, Typed, Running
<1> QED
  BY <1>1, <1>2 DEF IInv, Running, Typed, Connection

\* The timer of an idle connection makes it send.
LEMMA ExpireOutcome ==
    ASSUME IInv, NEW c \in Conn, Expire(c), conn[c].state = "IDLE"
    PROVE  Outcome(c, answered[c], "off")
<1> DEFINE r == [conn[c] EXCEPT !.timer = "off"]
<1>1. /\ loop = "expire" /\ TypeOK /\ Typed /\ Linked
      /\ r \in Connection /\ r.state = conn[c].state /\ r.fd = conn[c].fd
      /\ r.requests = conn[c].requests /\ r.timer = "off"
  BY Expired
<1>2. HandleSend(c, r, Sock(c))
  BY <1>1 DEF Expire, Sock
<1>3. Live(c) /\ redialled \in [Conn -> Nat] /\ answered[c] \in Nat
  BY <1>1 DEF Live, TypeOK
<1>4. Registered(c, r, Sock(c)) /\ Sock(c) \in Socket
  BY <1>1, <1>3, HeldRegistered
<1>5. answered[c] + redialled[c] + r.requests = Requests
  BY <1>1, <1>3, LiveBalance
<1>6. r.state \in {"CONNECTING", "IDLE", "SENDING"}
  BY <1>1
<1> HIDE DEF r
<1>7. Outcome(c, answered[c], r.timer)
  BY <1>1, <1>2, <1>3, <1>4, <1>5, <1>6, HandleSendOutcome
<1> QED
  BY <1>1, <1>7

\* A timer that has come due is deleted; an idle connection sends.
LEMMA ExpireStep ==
    ASSUME IInv, NEW c \in Conn, Expire(c) PROVE IInv'
<1> DEFINE r == [conn[c] EXCEPT !.timer = "off"]
<1>1. /\ loop = "expire" /\ answered' = answered
      /\ todo' = todo /\ batch' = batch /\ delta' = delta
      /\ TypeOK /\ Typed /\ Linked /\ todo = {}
      /\ \A d \in Conn : batch[d] = {}
      /\ r \in Connection /\ r.state = conn[c].state /\ r.fd = conn[c].fd
      /\ r.active = conn[c].active /\ r.ready_read = conn[c].ready_read
      /\ r.ready_write = conn[c].ready_write
      /\ r.requests = conn[c].requests /\ r.timer = "off"
  BY Expired
<1>2. CASE conn[c].state = "IDLE"
  <2>1. Outcome(c, answered'[c], "off")
    BY <1>1, <1>2, ExpireOutcome
  <2>2. batch' \in [Conn -> SUBSET Event] /\ answered \in [Conn -> Nat]
    BY <1>1 DEF TypeOK
  <2> QED
    BY <1>1, <2>1, <2>2, HandlerStep
<1>3. CASE conn[c].state # "IDLE"
  <2>1. conn' = [conn EXCEPT ![c] = r] /\ UNCHANGED <<sock, loop, redialled>>
    BY <1>1, <1>3 DEF Expire
  <2> HIDE DEF r
  <2>2. conn'[c] = r /\ \A d \in Conn \ {c} : conn'[d] = conn[d]
    BY <1>1, <2>1 DEF Typed
  <2>3. Typed'
    BY <1>1, <2>1 DEF Typed
  <2>4. Linked'
    BY <1>1, <1>3, <2>1, <2>2, <2>3, Undisturbed
  <2>5. TypeOK'
    BY <1>1, <2>1, <2>3 DEF TypeOK, Typed
  <2>6. \A d \in Conn : Balanced(conn'[d], answered'[d], redialled'[d])
    <3>1. Balanced(conn'[c], answered'[c], redialled'[c])
      BY <1>1, <2>1, <2>2 DEF IInv, Balanced
    <3> QED
      BY <1>1, <2>1, <2>2, <3>1 DEF IInv
  <2> QED
    BY <1>1, <2>1, <2>4, <2>5, <2>6 DEF IInv
<1> QED
  BY <1>2, <1>3

LEMMA CleanupStep ==
    ASSUME IInv, Cleanup PROVE IInv'
<1>1. sock' \in [FD -> Socket]
  BY NoSockSocket DEF Cleanup, IInv, TypeOK
<1>2. TypeOK'
  BY <1>1 DEF Cleanup, IInv, TypeOK, Phase
<1> QED
  BY <1>2 DEF Cleanup, IInv, Running, NoneDue, Live

\* The server and the kernel change what there is to read or write, and the
\* stage a stream is in, but neither its owner nor what is watched.
LEMMA EnvStep ==
    ASSUME IInv, NEW f \in FD, NEW k, NEW e,
           k \in Socket, k.ptr = sock[f].ptr, k.mask = sock[f].mask,
           k.link # "none", sock[f].link # "none",
           Env(f, Edge(k, e))
    PROVE  IInv'
<1> DEFINE q == Edge(k, e)
<1>1. /\ sock' = [sock EXCEPT ![f] = q]
      /\ UNCHANGED <<conn, loop, todo, batch, delta, answered, redialled>>
  BY DEF Env
<1>2. /\ q \in Socket /\ q.ptr = sock[f].ptr /\ q.mask = sock[f].mask
      /\ q.link # "none"
  BY EdgeSocket
<1> HIDE DEF q
<1>3. TypeOK /\ Typed
  BY DEF IInv, TypeOK, Typed
<1>4. TypeOK' /\ Typed'
  BY <1>1, <1>2, <1>3 DEF TypeOK, Typed
<1>5. \A g \in FD : /\ sock'[g].link = "none" <=> sock[g].link = "none"
                    /\ sock'[g].ptr = sock[g].ptr /\ sock'[g].mask = sock[g].mask
  BY <1>1, <1>2, <1>3 DEF Typed
<1>6. Running => Linked'
  BY <1>1, <1>3, <1>4, <1>5, Undisturbed DEF IInv
<1> QED
  BY <1>1, <1>4, <1>6 DEF IInv, Running, NoneDue, Live

LEMMA EnvironmentStep ==
    ASSUME IInv, Environment PROVE IInv'
<1>1. PICK f \in FD : \/ Accept(f) \/ Refuse(f) \/ Reply(f) \/ Push(f)
                      \/ Fin(f) \/ Reset(f) \/ Drain(f)
  BY DEF Environment
<1>2. sock[f] \in Socket
  BY DEF IInv, TypeOK
<1>3. \A l \in Link \ {"none"} :
         /\ [sock[f] EXCEPT !.link = l] \in Socket
         /\ [sock[f] EXCEPT !.link = l].ptr = sock[f].ptr
         /\ [sock[f] EXCEPT !.link = l].mask = sock[f].mask
         /\ [sock[f] EXCEPT !.link = l].link # "none"
  BY <1>2 DEF Socket
<1>4. {"up", "fin", "rst", "pipe"} \subseteq Link \ {"none"}
  BY DEF Link
<1>5. CASE Accept(f)
  <2>1. sock[f].link # "none"
    BY <1>5 DEF Accept
  <2> QED
    BY <1>3, <1>4, <1>5, <2>1, EnvStep DEF Accept
<1>6. CASE Refuse(f)
  <2>1. sock[f].link # "none"
    BY <1>6 DEF Refuse
  <2> QED
    BY <1>3, <1>4, <1>6, <2>1, EnvStep DEF Refuse
<1>7. CASE Fin(f)
  <2>1. sock[f].link # "none"
    BY <1>7 DEF Fin
  <2> QED
    BY <1>3, <1>4, <1>7, <2>1, EnvStep DEF Fin
<1>8. CASE Reset(f)
  <2> DEFINE l == IF sock[f].link = "up" THEN "rst" ELSE "pipe"
  <2>1. sock[f].link # "none" /\ l \in Link \ {"none"}
    BY <1>4, <1>8 DEF Reset
  <2>2. Env(f, Edge([sock[f] EXCEPT !.link = l], Event))
    BY <1>8 DEF Reset
  <2> HIDE DEF l
  <2> QED
    BY <1>3, <2>1, <2>2, EnvStep
<1>9. CASE Drain(f)
  <2> DEFINE k == [sock[f] EXCEPT !.writable = TRUE]
  <2>1. /\ k \in Socket /\ k.ptr = sock[f].ptr /\ k.mask = sock[f].mask
        /\ k.link = sock[f].link /\ sock[f].link # "none"
    BY <1>2, <1>9 DEF Drain, Socket
  <2>2. Env(f, Edge(k, {"OUT"}))
    BY <1>9 DEF Drain
  <2> HIDE DEF k
  <2> QED
    BY <2>1, <2>2, EnvStep
<1>10. CASE Reply(f)
  <2>1. PICK n \in 1..sock[f].owed :
           Env(f, Edge([sock[f] EXCEPT !.rx = @ + n, !.owed = @ - n], {"IN"}))
    BY <1>10 DEF Reply
  <2> DEFINE k == [sock[f] EXCEPT !.rx = @ + n, !.owed = @ - n]
  <2>2. sock[f].rx + n \in Nat /\ sock[f].owed - n \in Nat
    BY <1>2 DEF Socket
  <2>3. /\ k \in Socket /\ k.ptr = sock[f].ptr /\ k.mask = sock[f].mask
        /\ k.link = sock[f].link /\ sock[f].link # "none"
    BY <1>2, <1>10, <2>2 DEF Reply, Socket
  <2> HIDE DEF k
  <2> QED
    BY <2>1, <2>3, EnvStep DEF k
<1>11. CASE Push(f)
  <2> DEFINE k == [sock[f] EXCEPT !.rx = RespLen]
  <2>1. RespLen \in Nat
    BY LengthAssumption DEF RespLen
  <2>2. /\ k \in Socket /\ k.ptr = sock[f].ptr /\ k.mask = sock[f].mask
        /\ k.link = sock[f].link /\ sock[f].link # "none"
    BY <1>2, <1>11, <2>1 DEF Push, Socket
  <2>3. Env(f, Edge(k, {"IN"}))
    BY <1>11 DEF Push
  <2> HIDE DEF k
  <2> QED
    BY <2>2, <2>3, EnvStep
<1> QED
  BY <1>1, <1>5, <1>6, <1>7, <1>8, <1>9, <1>10, <1>11

LEMMA NextIInv == IInv /\ [Next]_vars => IInv'
<1> SUFFICES ASSUME IInv, [Next]_vars PROVE IInv'
  OBVIOUS
<1>1. CASE \E c \in Conn : StartNext(c)
  BY <1>1, StartNextStep
<1>2. CASE Started \/ WaitFails \/ DispatchDone \/ ExpireDone
  BY <1>2, ControlStep
<1>3. CASE Wait
  BY <1>3, WaitStep
<1>4. CASE WaitTimeout
  BY <1>4, WaitTimeoutStep
<1>5. ASSUME NEW c \in Conn,
             \/ DispatchClose(c) \/ DispatchRead(c)
             \/ DispatchSend(c) \/ DispatchIgnored(c)
      PROVE  IInv'
  BY <1>5, DispatchStep, DispatchIgnoredStep
<1>6. CASE \E c \in Conn : Expire(c)
  BY <1>6, ExpireStep
<1>7. CASE Cleanup
  BY <1>7, CleanupStep
<1>8. CASE Environment
  BY <1>8, EnvironmentStep
<1>9. CASE UNCHANGED vars
  BY <1>9 DEF vars, IInv, TypeOK, Running, Linked, Live, Sock, NoneDue
<1> QED
  BY <1>1, <1>2, <1>3, <1>4, <1>5, <1>6, <1>7, <1>8, <1>9 DEF Next, Program

\* The invariant that carries the others holds of every behaviour.
THEOREM Invariance == Spec => []IInv
BY InitIInv, NextIInv, PTL DEF Spec

-----------------------------------------------------------------------------
(***************************************************************************)
(* What follows from it.                                                   *)
(***************************************************************************)
\* Every variable keeps its type, whatever the faults: conf->requests stays an
\* unsigned int through the decrements of handle_after_request() and of the
\* retries, and neither send() nor recv() runs past a request or a head.
THEOREM TypeCorrect == Spec => []TypeOK
<1>1. IInv => TypeOK
  BY DEF IInv
<1> QED
  BY <1>1, Invariance, PTL

\* The open descriptors are those of the live connections, and epoll's
\* data.ptr leads back to them, through close_connection() and reconnection in
\* the middle of a batch of events.
THEOREM FdOwnershipHolds == Spec => []FdOwnership
<1>1. IInv => FdOwnership
  BY DEF IInv, FdOwnership, Linked, Held, Sock
<1> QED
  BY <1>1, Invariance, PTL

\* The flags by which add_read_event() and add_write_event() skip epoll_ctl()
\* always agree with what the kernel watches and with the connection's state.
THEOREM FlagsMatchKernelHolds == Spec => []FlagsMatchKernel
<1>1. IInv => FlagsMatchKernel
  BY DEF IInv, FlagsMatchKernel, Linked, Held
<1> QED
  BY <1>1, Invariance, PTL

\* A connection that handle_after_request() puts to sleep has a timer set, even
\* if ngx_add_timer() kept one that close_connection() left behind.
THEOREM SleeperHasTimerHolds == Spec => []SleeperHasTimer
<1>1. IInv => SleeperHasTimer
  BY DEF IInv, SleeperHasTimer, Linked, Held, Live
<1> QED
  BY <1>1, Invariance, PTL

\* main() never computes a timeout while a timer is overdue.
THEOREM NoOverdueAtLoopHeadHolds == Spec => []NoOverdueAtLoopHead
<1>1. IInv => NoOverdueAtLoopHead
  BY DEF IInv, NoOverdueAtLoopHead, NoneDue
<1> QED
  BY <1>1, Invariance, PTL

\* The budget conf->requests pays for every answer and every retry, and wraps
\* around at most once, for any word size and any initial budget.
THEOREM BudgetHolds == Spec => []BudgetInv
<1>1. IInv => BudgetInv
  BY DEF IInv, BudgetInv, Balanced, Used, Live
<1> QED
  BY <1>1, Invariance, PTL

-----------------------------------------------------------------------------
(***************************************************************************)
(* What a handler leaves alone, whatever it is called with.                *)
(***************************************************************************)
\* No connection but c, and of the loop no more than that the process may die.
Confined(c) ==
    /\ \A d \in Conn \ {c} : conn'[d] = conn[d]
    /\ loop' \in {loop, "killed"}

LEMMA DropConfined ==
    ASSUME Typed, NEW c \in Conn, NEW r, Drop(c, r)
    PROVE  Confined(c)
BY DEF Typed, Drop, StartConnect, Confined

LEMMA HandleSendConfined ==
    ASSUME Typed, NEW c \in Conn, NEW r, NEW k, HandleSend(c, r, k)
    PROVE  Confined(c)
<1>1. CASE Drop(c, Begin(r))
  BY <1>1, DropConfined
<1>2. ASSUME NEW p, NEW q, Return(c, p, q)
      PROVE  Confined(c)
  BY <1>2 DEF Typed, Return, Confined
<1>3. CASE Killed(c, Begin(r))
  BY <1>3 DEF Typed, Killed, Confined
<1>4. CASE SendAll(c, Begin(r), k)
  BY <1>2, <1>4 DEF SendAll
<1>5. ASSUME NEW n, SendSome(c, Begin(r), k, n)
      PROVE  Confined(c)
  BY <1>2, <1>5 DEF SendSome
<1> QED
  BY <1>1, <1>3, <1>4, <1>5 DEF HandleSend, TrySend

LEMMA HandleReadConfined ==
    ASSUME Typed, NEW c \in Conn, NEW r, NEW k, HandleRead(c, r, k)
    PROVE  Confined(c)
<1>1. ASSUME NEW p, Drop(c, p)
      PROVE  Confined(c)
  BY <1>1, DropConfined
<1>2. ASSUME NEW p, NEW q, Return(c, p, q)
      PROVE  Confined(c)
  BY <1>2 DEF Typed, Return, Confined
<1>3. ASSUME NEW p, NEW q, AfterRequest(c, p, q)
      PROVE  Confined(c)
  <2>1. CASE p.requests = 0
    BY <1>3, <2>1 DEF AfterRequest, Typed, Confined
  <2>2. CASE p.requests # 0
    BY <1>2, <1>3, <2>2, HandleSendConfined DEF AfterRequest
  <2> QED
    BY <2>1, <2>2
<1> QED
  BY <1>1, <1>2, <1>3 DEF HandleRead

\* Every step of the program that is about one connection is about one that is
\* live or still to be started, and is confined to it, a deleted timer apart.
LEMMA ConnectionStep ==
    ASSUME IInv, NEW c \in Conn,
           \/ StartNext(c) \/ Expire(c)
           \/ DispatchClose(c) \/ DispatchRead(c)
           \/ DispatchSend(c) \/ DispatchIgnored(c)
    PROVE  /\ Confined(c)
           /\ c \in todo \/ Live(c) \/ conn'[c].state = "CLOSED"
           /\ loop \notin {"done", "exited"}
<1>1. Typed /\ conn[c] \in Connection
  BY DEF IInv, TypeOK, Typed
<1>2. CASE StartNext(c)
  BY <1>1, <1>2 DEF StartNext, StartConnect, Typed, Confined
<1>3. CASE Expire(c)
  <2> DEFINE r == [conn[c] EXCEPT !.timer = "off"]
  <2>1. r.state = conn[c].state
    BY <1>1 DEF Connection
  <2>2. CASE r.state = "IDLE" /\ HandleSend(c, r, sock[r.fd])
    <3>1. Confined(c)
      BY <1>1, <2>2, HandleSendConfined
    <3> QED
      BY <1>3, <2>1, <2>2, <3>1 DEF Expire, Live
  <2>3. CASE /\ r.state # "IDLE" /\ conn' = [conn EXCEPT ![c] = r]
             /\ UNCHANGED <<sock, loop, redialled>>
    <3>1. conn'[c] = r /\ Confined(c)
      BY <1>1, <2>3 DEF Typed, Confined
    <3> QED
      BY <1>3, <2>1, <3>1 DEF Expire, Live
  <2> QED
    BY <1>3, <2>2, <2>3 DEF Expire
<1>4. CASE DispatchClose(c) \/ DispatchRead(c) \/ DispatchSend(c)
  <2>1. Live(c) /\ loop = "dispatch"
    BY <1>4, Taken DEF DispatchClose, DispatchRead, DispatchSend
  <2> QED
    BY <1>1, <1>4, <2>1, DropConfined, HandleReadConfined, HandleSendConfined
    DEF DispatchClose, DispatchRead, DispatchSend
<1>5. CASE DispatchIgnored(c)
  BY <1>5, Taken DEF DispatchIgnored, Confined
<1> QED
  BY <1>2, <1>3, <1>4, <1>5

LEMMA ExitStep ==
    ASSUME IInv, ExitReleasesAll, [Next]_vars
    PROVE  ExitReleasesAll'
<1> SUFFICES ASSUME loop' = "exited", NEW f \in FD
             PROVE  sock'[f].link = "none"
  BY DEF ExitReleasesAll
<1>1. CASE Cleanup
  <2>1. loop = "done" /\ Linked
    BY <1>1 DEF Cleanup, IInv, Running
  <2>2. sock'[f] = IF \E c \in Conn : conn[c].fd = f THEN NoSock ELSE sock[f]
    BY <1>1 DEF Cleanup
  <2> QED
    BY <2>1, <2>2, NoSockSocket DEF Linked
<1>2. CASE Environment
  <2>1. loop = "exited"
    BY <1>2 DEF Environment, Env, Accept, Refuse, Reply, Push, Fin, Reset, Drain
  <2>2. \A g \in FD : sock[g].link = "none"
    BY <2>1 DEF ExitReleasesAll
  <2> QED
    BY <1>2, <2>2 DEF Environment, Accept, Refuse, Reply, Push, Fin, Reset, Drain
<1>3. CASE UNCHANGED vars
  BY <1>3 DEF vars, ExitReleasesAll
<1>4. ASSUME NEW c \in Conn,
             \/ StartNext(c) \/ Expire(c)
             \/ DispatchClose(c) \/ DispatchRead(c)
             \/ DispatchSend(c) \/ DispatchIgnored(c)
      PROVE  FALSE
  BY <1>4, ConnectionStep DEF Confined
<1>5. CASE \/ Started \/ Wait \/ WaitTimeout \/ WaitFails
           \/ DispatchDone \/ ExpireDone
  BY <1>5 DEF Started, Wait, WaitTimeout, WaitFails, DispatchDone, ExpireDone
<1> QED
  BY <1>1, <1>2, <1>3, <1>4, <1>5 DEF Next, Program

\* When main() has run clean_all_resource() no descriptor is open, whatever
\* start_connect() and close_connection() have left in the connections.
THEOREM ExitReleasesAllHolds == Spec => []ExitReleasesAll
<1>1. Init => ExitReleasesAll
  BY DEF Init, ExitReleasesAll
<1> QED
  BY <1>1, ExitStep, Invariance, PTL DEF Spec

\* A connection that handle_after_request() or an error exit has given up is
\* never opened again: no timer and no event of an earlier life reaches it.
THEOREM ClosedForGoodHolds == Spec => ClosedForGood
<1> DEFINE Stays == \A c \in Conn \ todo : ~Live(c) => conn'[c].state = "CLOSED"
<1>1. ASSUME IInv, [Next]_vars PROVE Stays
  <2> SUFFICES ASSUME NEW c \in Conn \ todo, ~Live(c)
               PROVE  conn'[c].state = "CLOSED"
    OBVIOUS
  <2>1. ASSUME NEW d \in Conn,
               \/ StartNext(d) \/ Expire(d)
               \/ DispatchClose(d) \/ DispatchRead(d)
               \/ DispatchSend(d) \/ DispatchIgnored(d)
        PROVE  conn'[c].state = "CLOSED"
    <3>1. Confined(d) /\ (d \in todo \/ Live(d) \/ conn'[d].state = "CLOSED")
      BY <1>1, <2>1, ConnectionStep
    <3>2. c # d => conn'[c] = conn[c]
      BY <3>1 DEF Confined
    <3> QED
      BY <3>1, <3>2 DEF Live
  <2>2. CASE \/ Started \/ WaitFails \/ DispatchDone \/ ExpireDone \/ Cleanup
    BY <2>2 DEF Started, WaitFails, DispatchDone, ExpireDone, Cleanup, Live
  <2>3. CASE Wait \/ WaitTimeout
    <3>1. PICK D \in SUBSET Armed : ComeDue(D)
      BY <2>3 DEF Wait, WaitTimeout
    <3>2. conn \in [Conn -> Connection] /\ D \in SUBSET Conn
      BY <1>1 DEF IInv, TypeOK, Armed
    <3>3. conn'[c].state = conn[c].state
      BY <3>1, <3>2, ComeDueConn
    <3> QED
      BY <3>3 DEF Live
  <2>4. CASE Environment
    BY <2>4 DEF Environment, Env, Accept, Refuse, Reply, Push, Fin, Reset,
                Drain, Live
  <2>5. CASE UNCHANGED vars
    BY <2>5 DEF vars, Live
  <2> QED
    BY <1>1, <2>1, <2>2, <2>3, <2>4, <2>5 DEF Next, Program
<1>2. IInv /\ [Next]_vars => [Stays]_vars
  BY <1>1
<1> QED
  BY <1>2, Invariance, PTL DEF Spec, ClosedForGood

-----------------------------------------------------------------------------
(***************************************************************************)
(* Stop and wait.                                                          *)
(***************************************************************************)
\* What may be in flight on the stream k of a connection with record r.
Stream(r, k) ==
    k.link \in {"syn", "up"} =>
        IF r.state # "RECVING" THEN k.rx = 0 /\ k.owed = 0
        ELSE IF r.read_len < 0 THEN k.rx + k.owed = BodyLen - r.read_len
             ELSE k.rx + k.owed =< BodyLen

\* A handler of c keeps to its own stream, and leaves it in order.
Orderly(c) ==
    Running' =>
        /\ \A d \in Conn \ {c} : Live(d) => sock'[conn[d].fd] = sock[conn[d].fd]
        /\ Live(c)' => Stream(conn'[c], Sock(c)')

\* Registering an event touches nothing of the stream.
LEMMA EventsKeepStream ==
    ASSUME NEW k \in Socket, NEW r, NEW c \in Conn
    PROVE  /\ ReadEventSock(r, k, c).rx = k.rx
           /\ ReadEventSock(r, k, c).owed = k.owed
           /\ ReadEventSock(r, k, c).link = k.link
           /\ WriteEventSock(r, k, c).rx = k.rx
           /\ WriteEventSock(r, k, c).owed = k.owed
           /\ WriteEventSock(r, k, c).link = k.link
<1>1. \A m : /\ Watch(k, c, m).rx = k.rx /\ Watch(k, c, m).owed = k.owed
             /\ Watch(k, c, m).link = k.link
  BY DEF Watch, Socket
<1> QED
  BY <1>1 DEF ReadEventSock, WriteEventSock

\* The other live connections hold other descriptors, which are open.
LEMMA OwnDescriptors ==
    ASSUME Typed, Linked, NEW c \in Conn, NEW d \in Conn \ {c}, Live(d)
    PROVE  /\ conn[d].fd \in FD /\ sock[conn[d].fd].link # "none"
           /\ Live(c) => conn[d].fd # conn[c].fd
<1>1. Held(d, conn[d], sock[conn[d].fd])
  BY DEF Linked, Sock
<1>2. Live(c) => Held(c, conn[c], sock[conn[c].fd])
  BY DEF Linked, Sock
<1> QED
  BY <1>1, <1>2 DEF Held

LEMMA StartConnectOrderly ==
    ASSUME Typed, NEW c \in Conn, NEW r \in Connection, NEW s \in [FD -> Socket],
           Shut(r), r.state = "CLOSED",
           \A d \in Conn \ {c} : Live(d) =>
               /\ conn[d].fd \in FD /\ s[conn[d].fd] = sock[conn[d].fd]
               /\ s[conn[d].fd].link # "none",
           StartConnect(c, r, s)
    PROVE  Orderly(c)
<1>1. CASE conn' = [conn EXCEPT ![c] = r] /\ sock' = s
  BY <1>1 DEF Orderly, Live, Typed
<1>2. ASSUME NEW f \in FD, conn' = [conn EXCEPT ![c] = [r EXCEPT !.fd = f]], sock' = s
      PROVE  Orderly(c)
  <2>1. conn'[c].state = "CLOSED"
    BY <1>2 DEF Typed, Connection
  <2> QED
    BY <1>2, <2>1 DEF Orderly, Live
<1>3. ASSUME NEW f \in FD, Lowest(f, s),
             conn' = [conn EXCEPT ![c] =
                         [WriteEventConn(r, Dialled) EXCEPT !.fd = f,
                                                            !.state = "CONNECTING"]],
             sock' = [s EXCEPT ![f] = WriteEventSock(r, Dialled, c)]
      PROVE  Orderly(c)
  <2> DEFINE p == WriteEventConn(r, Dialled)
             y == WriteEventSock(r, Dialled, c)
  <2>1. p \in Connection
    BY FirstWriteEvent
  <2>2. y.rx = 0 /\ y.owed = 0
    <3>1. Dialled \in Socket /\ Dialled.rx = 0 /\ Dialled.owed = 0
      BY DEF Dialled, NoSock, Socket, Link
    <3> QED
      BY <3>1, EventsKeepStream
  <2> HIDE DEF p, y
  <2>3. /\ conn' = [conn EXCEPT ![c] = [p EXCEPT !.fd = f, !.state = "CONNECTING"]]
        /\ sock' = [s EXCEPT ![f] = y]
    BY <1>3 DEF p, y
  <2>4. conn'[c].fd = f /\ conn'[c].state = "CONNECTING" /\ sock'[f] = y
    BY <2>1, <2>3 DEF Typed, Connection
  <2>5. Stream(conn'[c], Sock(c)')
    BY <2>2, <2>4 DEF Stream, Sock
  <2>6. \A d \in Conn \ {c} : Live(d) => conn[d].fd # f
    BY <1>3 DEF Lowest
  <2> QED
    BY <2>3, <2>5, <2>6 DEF Orderly
<1> QED
  BY <1>1, <1>2, <1>3 DEF StartConnect

LEMMA DropOrderly ==
    ASSUME Typed, Linked, NEW c \in Conn, Live(c),
           NEW r \in Connection, r.fd = conn[c].fd, Drop(c, r)
    PROVE  Orderly(c)
<1>1. r.fd \in FD /\ r.fd # NoFd
  BY FDAssumption DEF Linked, Held, NoFd
<1>2. Released(r) = [sock EXCEPT ![r.fd] = NoSock]
  BY <1>1 DEF Released
<1>3. Released(r) \in [FD -> Socket]
  BY <1>2, NoSockSocket DEF Typed
<1>4. \A d \in Conn \ {c} : Live(d) =>
         /\ conn[d].fd \in FD /\ Released(r)[conn[d].fd] = sock[conn[d].fd]
         /\ Released(r)[conn[d].fd].link # "none"
  BY <1>2, OwnDescriptors DEF Typed
<1> DEFINE p == Spend(Closed(r))
<1>5. /\ Closed(r) \in Connection /\ Closed(r).state = "CLOSED"
      /\ p \in Connection /\ Shut(p) /\ p.state = "CLOSED"
  BY ClosedConnection, SpendConnection DEF Shut
<1> HIDE DEF p
<1>6. CASE Retry /\ r.requests > 0
  <2>1. StartConnect(c, p, Released(r))
    BY <1>6 DEF Drop, p
  <2> QED
    BY <1>3, <1>4, <1>5, <2>1, StartConnectOrderly
<1>7. CASE ~(Retry /\ r.requests > 0)
  <2>1. conn' = [conn EXCEPT ![c] = IF Retry THEN p ELSE Closed(r)]
        /\ sock' = Released(r)
    BY <1>7 DEF Drop, p
  <2> QED
    BY <1>4, <1>5, <2>1 DEF Orderly, Live, Typed
<1> QED
  BY <1>6, <1>7

LEMMA ReturnOrderly ==
    ASSUME Typed, Linked, NEW c \in Conn, Live(c), NEW p, NEW q,
           p.fd = conn[c].fd, Stream(p, q), Return(c, p, q)
    PROVE  Orderly(c)
<1>1. conn[c].fd \in FD
  BY DEF Linked, Held
<1>2. conn' = [conn EXCEPT ![c] = p] /\ sock' = [sock EXCEPT ![p.fd] = q]
  BY DEF Return
<1>3. conn'[c] = p /\ Sock(c)' = q
  BY <1>1, <1>2 DEF Typed, Sock
<1> QED
  BY <1>2, <1>3, OwnDescriptors DEF Orderly, Typed

\* A connection that is not waiting for a response sends on a silent stream.
LEMMA HandleSendOrderly ==
    ASSUME Typed, Linked, NEW c \in Conn, Live(c),
           NEW r0 \in Connection, NEW k \in Socket, Registered(c, r0, k),
           r0.state \in {"CONNECTING", "IDLE", "SENDING"},
           k.link \in {"syn", "up"} => k.rx = 0 /\ k.owed = 0,
           HandleSend(c, r0, k)
    PROVE  Orderly(c)
<1> DEFINE r == Begin(r0)
<1>1. /\ r \in Connection /\ r.state = "SENDING" /\ r.fd = conn[c].fd
      /\ r.active = r0.active /\ r.ready_read = r0.ready_read
      /\ r.ready_write = r0.ready_write
  <2>1. 0 \in 0..ReqLen /\ "SENDING" \in State
    BY LengthAssumption DEF State
  <2> QED
    BY <2>1 DEF Begin, Connection, Registered
<1>2. TrySend(c, r, k)
  BY DEF HandleSend
<1> HIDE DEF r
<1>3. ASSUME Sendable(k), SendAll(c, r, k)
      PROVE  Orderly(c)
  <2>1. PICK w \in BOOLEAN :
           LET q == [k EXCEPT !.writable = w,
                              !.owed = IF k.link = "up" THEN @ + RespLen ELSE @]
           IN  Return(c, [ReadEventConn([r EXCEPT !.sent = ReqLen], q) EXCEPT
                             !.state = "RECVING", !.read_len = -HeadLen],
                      ReadEventSock(r, q, c))
    BY <1>3 DEF SendAll
  <2> DEFINE o == IF k.link = "up" THEN k.owed + RespLen ELSE k.owed
             q == [k EXCEPT !.writable = w,
                            !.owed = IF k.link = "up" THEN @ + RespLen ELSE @]
             s == [r EXCEPT !.sent = ReqLen]
             v == ReadEventConn(s, q)
             p == [v EXCEPT !.state = "RECVING", !.read_len = -HeadLen]
             y == ReadEventSock(r, q, c)
  <2>2. o \in Nat
    BY LengthAssumption DEF Socket, RespLen
  <2>3. q \in Socket /\ q.rx = k.rx /\ q.owed = o /\ q.link = k.link
        /\ q.ptr = k.ptr /\ q.mask = k.mask
    <3>1. q = [k EXCEPT !.writable = w, !.owed = o]
      BY DEF Socket
    <3> HIDE DEF o, q
    <3> QED
      BY <2>2, <3>1 DEF Socket
  <2>4. /\ s \in Connection /\ s.fd = r.fd /\ s.active = r.active
        /\ s.ready_read = r.ready_read /\ s.ready_write = r.ready_write
    BY <1>1, LengthAssumption DEF Connection
  <2> HIDE DEF q, s
  <2>5. v \in Connection /\ v.fd = r.fd
    <3>1. s.active /\ q.ptr = c /\ (s.ready_read => ~s.ready_write /\ q.mask = ReadMask)
      BY <1>1, <2>3, <2>4 DEF Registered, Connection
    <3> QED
      BY <2>3, <2>4, <3>1, ReadEvent DEF SameButFlags
  <2>6. y.rx = k.rx /\ y.owed = o /\ y.link = k.link
    BY <2>3, EventsKeepStream
  <2> HIDE DEF v, y
  <2>7. p.state = "RECVING" /\ p.read_len = -HeadLen /\ p.fd = conn[c].fd
    BY <1>1, <2>5 DEF Connection
  <2>8. Return(c, p, y)
    BY <2>1 DEF p, v, s, y, q
  <2> HIDE DEF p
  <2>9. Stream(p, y)
    <3>1. CASE k.link \in {"syn", "up"}
      <4>1. k.link = "up" /\ k.rx = 0 /\ k.owed = 0
        BY <1>3, <3>1 DEF Sendable
      <4>2. y.rx = 0 /\ y.owed = HeadLen + BodyLen
        BY <2>6, <4>1, LengthAssumption DEF RespLen
      <4>3. y.rx + y.owed = BodyLen - (-HeadLen) /\ -HeadLen < 0
        BY <4>2, LengthAssumption
      <4> QED
        BY <2>7, <4>3 DEF Stream
    <3>2. CASE k.link \notin {"syn", "up"}
      BY <2>6, <3>2 DEF Stream
    <3> QED
      BY <3>1, <3>2
  <2> QED
    BY <2>7, <2>8, <2>9, ReturnOrderly
<1>4. ASSUME NEW n \in Nat, r.sent + n =< ReqLen, SendSome(c, r, k, n)
      PROVE  Orderly(c)
  <2> DEFINE s == [r EXCEPT !.sent = @ + n, !.ready_write = FALSE]
             q == [k EXCEPT !.writable = @ /\ n = 0]
             p == WriteEventConn(s, q)
             y == WriteEventSock(s, q, c)
  <2>1. /\ q \in Socket /\ q.rx = k.rx /\ q.owed = k.owed /\ q.link = k.link
        /\ q.ptr = k.ptr
    BY DEF Socket
  <2>2. /\ s \in Connection /\ s.active = r.active /\ s.fd = r.fd
        /\ ~s.ready_write /\ s.state = r.state
    <3>1. r.sent + n \in 0..ReqLen
      BY <1>1, <1>4, LengthAssumption DEF Connection
    <3> QED
      BY <1>1, <3>1 DEF Connection
  <2> HIDE DEF q, s
  <2>3. p.state = "SENDING" /\ p.fd = conn[c].fd
    <3>1. /\ s.active /\ q.ptr = c
          /\ s.ready_write => ~s.ready_read /\ q.mask = WriteMask
      BY <1>1, <2>1, <2>2 DEF Registered
    <3> QED
      BY <1>1, <2>1, <2>2, <3>1, WriteEvent DEF SameButFlags
  <2>4. y.rx = k.rx /\ y.owed = k.owed /\ y.link = k.link
    BY <2>1, EventsKeepStream
  <2>5. Return(c, p, y)
    BY <1>4 DEF SendSome, p, y, s, q
  <2> HIDE DEF p, y
  <2>6. Stream(p, y)
    BY <2>3, <2>4 DEF Stream
  <2> QED
    BY <2>3, <2>5, <2>6, ReturnOrderly
<1>5. ASSUME NEW n \in 1..(ReqLen - r.sent - 1), SendSome(c, r, k, n)
      PROVE  Orderly(c)
  <2>1. n \in Nat /\ r.sent + n =< ReqLen
    BY <1>1, LengthAssumption DEF Connection
  <2> QED
    BY <1>4, <1>5, <2>1
<1>6. CASE SendSome(c, r, k, 0)
  <2>1. r.sent + 0 =< ReqLen
    BY <1>1, LengthAssumption DEF Connection
  <2> QED
    BY <1>4, <1>6, <2>1
<1>7. CASE Drop(c, r)
  BY <1>1, <1>7, DropOrderly
<1>8. CASE Killed(c, r)
  BY <1>8 DEF Killed, Orderly, Running
<1> QED
  BY <1>2, <1>3, <1>5, <1>6, <1>7, <1>8 DEF TrySend

\* A response that is complete leaves a silent stream behind.
LEMMA AfterRequestOrderly ==
    ASSUME Typed, Linked, NEW c \in Conn, Live(c),
           NEW r \in Connection, NEW k \in Socket, Registered(c, r, k),
           k.link \in {"syn", "up"} => k.rx = 0 /\ k.owed = 0,
           AfterRequest(c, r, k)
    PROVE  Orderly(c)
<1> DEFINE i == [Spend(r) EXCEPT !.state = "IDLE"]
<1>1. /\ i \in Connection /\ i.state = "IDLE" /\ i.fd = r.fd /\ i.active = r.active
      /\ i.ready_read = r.ready_read /\ i.ready_write = r.ready_write
  <2> DEFINE p == Spend(r)
  <2>1. /\ p \in Connection /\ p.fd = r.fd /\ p.active = r.active
        /\ p.ready_read = r.ready_read /\ p.ready_write = r.ready_write
    BY SpendConnection
  <2> HIDE DEF p
  <2>2. [p EXCEPT !.state = "IDLE"] \in Connection
    BY <2>1 DEF Connection, State
  <2> QED
    BY <2>1, <2>2 DEF Connection, p
<1>2. CASE r.requests = 0
  <2>1. Closed(Spend(r)).state = "CLOSED"
    BY SpendConnection, ClosedConnection
  <2>2. conn'[c].state = "CLOSED" /\ sock' = Released(r)
    BY <1>2, <2>1 DEF AfterRequest, Typed
  <2>3. Released(r) = [sock EXCEPT ![r.fd] = NoSock] /\ r.fd = conn[c].fd
    BY FDAssumption DEF Released, Registered, NoFd
  <2> QED
    BY <2>2, <2>3, OwnDescriptors DEF Orderly, Live, Typed
<1> HIDE DEF i
<1>3. CASE r.requests # 0 /\ Sleeps
  <2>1. PICK t \in AddTimer(i) : Return(c, [i EXCEPT !.timer = t], k)
    BY <1>3 DEF AfterRequest, i
  <2>2. [i EXCEPT !.timer = t].state = "IDLE" /\ [i EXCEPT !.timer = t].fd = conn[c].fd
    BY <1>1 DEF Connection, Registered
  <2>3. Stream([i EXCEPT !.timer = t], k)
    BY <2>2 DEF Stream
  <2> QED
    BY <2>1, <2>2, <2>3, ReturnOrderly
<1>4. CASE r.requests # 0 /\ ~Sleeps
  <2>1. HandleSend(c, i, k)
    BY <1>4 DEF AfterRequest, i
  <2>2. Registered(c, i, k)
    BY <1>1 DEF Registered
  <2> QED
    BY <1>1, <2>1, <2>2, HandleSendOrderly
<1> QED
  BY <1>2, <1>3, <1>4

\* What recv() takes off the stream is what read_len stops missing.
LEMMA HandleReadOrderly ==
    ASSUME Typed, Linked, NEW c \in Conn, conn[c].state = "RECVING",
           Stream(conn[c], Sock(c)), HandleRead(c, conn[c], Sock(c))
    PROVE  Orderly(c)
<1> DEFINE r == conn[c]
           k == Sock(c)
           headOk == r.read_len < 0 /\ k.rx >= -r.read_len
           v == IF headOk \/ r.read_len = 0 THEN 0 ELSE r.read_len + k.rx
           p == [r EXCEPT !.ready_read = FALSE, !.read_len = v]
           q == [k EXCEPT !.rx = 0]
<1>1. /\ Live(c) /\ Held(c, r, k)
  BY DEF Linked, Live, State
<1>2. r \in Connection /\ k \in Socket
  BY <1>1 DEF Typed, Held, Sock
<1>3. Registered(c, r, k)
  BY <1>1, <1>2 DEF Held, Registered, Connection
<1>4. /\ r.read_len \in (-HeadLen)..0 /\ k.rx \in Nat /\ k.owed \in Nat
      /\ HeadLen \in Nat /\ BodyLen \in Nat
  BY <1>2, LengthAssumption DEF Connection, Socket
<1>5. v \in (-HeadLen)..0
  BY <1>4
<1>6. /\ p \in Connection /\ p.fd = r.fd /\ p.state = r.state /\ p.active = r.active
      /\ ~p.ready_read /\ p.read_len = v
  <2> HIDE DEF v, r
  <2> QED
    BY <1>2, <1>5 DEF Connection
<1>7. /\ q \in Socket /\ q.link = k.link /\ q.ptr = k.ptr /\ q.rx = 0
      /\ q.owed = k.owed
  <2> HIDE DEF k
  <2> QED
    BY <1>2 DEF Socket
<1>8. \/ /\ k.rx >= Missing(r) /\ headOk
         /\ AfterRequest(c, [r EXCEPT !.read_len = 0],
                         [k EXCEPT !.rx = @ - Missing(r)])
      \/ Drop(c, r)
      \/ Drop(c, p)
      \/ /\ ~(headOk /\ k.rx >= Missing(r))
         /\ Return(c, ReadEventConn(p, q), ReadEventSock(p, q, c))
  BY DEF HandleRead
<1>9. r.state = "RECVING" /\ Stream(r, k) /\ r.fd = conn[c].fd
  OBVIOUS
<1> HIDE DEF r, k, p, q
<1>10. CASE /\ k.rx >= Missing(r) /\ headOk
            /\ AfterRequest(c, [r EXCEPT !.read_len = 0],
                            [k EXCEPT !.rx = @ - Missing(r)])
  <2> DEFINE s == [r EXCEPT !.read_len = 0]
             y == [k EXCEPT !.rx = @ - Missing(r)]
  <2>1. /\ s \in Connection /\ s.fd = r.fd /\ s.active = r.active
        /\ s.ready_read = r.ready_read /\ s.ready_write = r.ready_write
    <3>1. 0 \in (-HeadLen)..0
      BY LengthAssumption
    <3> QED
      BY <1>2, <3>1 DEF Connection
  <2>2. /\ y \in Socket /\ y.link = k.link /\ y.ptr = k.ptr /\ y.mask = k.mask
        /\ y.rx = k.rx - Missing(r) /\ y.owed = k.owed
    <3>1. k.rx - Missing(r) \in Nat
      BY <1>4, <1>10 DEF Missing
    <3> QED
      BY <1>2, <3>1 DEF Socket
  <2>3. k.link \in {"syn", "up"} => y.rx = 0 /\ y.owed = 0
    <3>1. SUFFICES ASSUME k.link \in {"syn", "up"} PROVE y.rx = 0 /\ y.owed = 0
      OBVIOUS
    <3>2. k.rx + k.owed = BodyLen - r.read_len
      BY <1>9, <1>10, <3>1 DEF Stream
    <3>3. k.rx >= BodyLen - r.read_len
      BY <1>10 DEF Missing
    <3>4. k.owed = 0 /\ k.rx - (BodyLen - r.read_len) = 0
      BY <1>4, <3>2, <3>3
    <3> QED
      BY <2>2, <3>4 DEF Missing
  <2>4. AfterRequest(c, s, y)
    BY <1>10
  <2> HIDE DEF s, y
  <2>5. Registered(c, s, y)
    BY <1>3, <2>1, <2>2 DEF Registered
  <2> QED
    BY <1>1, <2>1, <2>2, <2>3, <2>4, <2>5, AfterRequestOrderly
<1>11. CASE Drop(c, r)
  BY <1>1, <1>2, <1>9, <1>11, DropOrderly
<1>12. CASE Drop(c, p)
  BY <1>1, <1>6, <1>9, <1>12, DropOrderly
<1>13. CASE /\ ~(headOk /\ k.rx >= Missing(r))
            /\ Return(c, ReadEventConn(p, q), ReadEventSock(p, q, c))
  <2> DEFINE s == ReadEventConn(p, q)
             y == ReadEventSock(p, q, c)
  <2>1. s.fd = conn[c].fd /\ s.state = "RECVING" /\ s.read_len = v
    <3>1. p.active /\ q.ptr = c /\ (p.ready_read => ~p.ready_write /\ q.mask = ReadMask)
      BY <1>3, <1>6, <1>7 DEF Registered
    <3> QED
      BY <1>6, <1>7, <1>9, <3>1, ReadEvent DEF SameButFlags
  <2>2. y.rx = 0 /\ y.owed = k.owed /\ y.link = k.link
    BY <1>7, EventsKeepStream
  <2>3. Return(c, s, y)
    BY <1>13
  <2> HIDE DEF s, y
  <2>4. Stream(s, y)
    <3>1. SUFFICES ASSUME k.link \in {"syn", "up"}
                   PROVE  IF v < 0 THEN k.owed = BodyLen - v ELSE k.owed =< BodyLen
      BY <1>4, <2>1, <2>2 DEF Stream
    <3>2. IF r.read_len < 0 THEN k.rx + k.owed = BodyLen - r.read_len
          ELSE k.rx + k.owed =< BodyLen
      BY <1>9, <3>1 DEF Stream
    <3> QED
      BY <1>4, <3>2
  <2> QED
    BY <1>1, <2>1, <2>3, <2>4, ReturnOrderly
<1> QED
  BY <1>8, <1>10, <1>11, <1>12, <1>13

LEMMA OneOutstandingIsStream ==
    OneOutstanding <=> (Running /\ "push" \notin Faults =>
                           \A c \in Conn : Live(c) => Stream(conn[c], Sock(c)))
BY DEF OneOutstanding, Stream

LEMMA OneOutstandingAfter ==
    OneOutstanding' <=> (Running' /\ "push" \notin Faults =>
                            \A c \in Conn : Live(c)' => Stream(conn'[c], Sock(c)'))
BY DEF OneOutstanding, Stream, Sock

\* The handler of one connection leaves the streams of all in order.
LEMMA OrderlyStep ==
    ASSUME OneOutstanding, Running, NEW c \in Conn, Confined(c), Orderly(c)
    PROVE  OneOutstanding'
<1> SUFFICES ASSUME Running', "push" \notin Faults, NEW d \in Conn, Live(d)'
             PROVE  Stream(conn'[d], Sock(d)')
  BY OneOutstandingAfter
<1>1. CASE d = c
  BY <1>1 DEF Orderly
<1>2. CASE d # c
  <2>1. conn'[d] = conn[d] /\ Live(d)
    BY <1>2 DEF Confined, Live
  <2>2. sock'[conn[d].fd] = sock[conn[d].fd]
    BY <1>2, <2>1 DEF Orderly
  <2>3. Stream(conn[d], Sock(d))
    BY <2>1, OneOutstandingIsStream
  <2> QED
    BY <2>1, <2>2, <2>3 DEF Sock
<1> QED
  BY <1>1, <1>2

\* A step that leaves the streams as they are, and of the connections what they
\* are waiting for.
LEMMA SilentStep ==
    ASSUME OneOutstanding, Running' => Running,
           \A c \in Conn :
               /\ conn'[c].state = conn[c].state /\ conn'[c].fd = conn[c].fd
               /\ conn'[c].read_len = conn[c].read_len
               /\ Live(c) => /\ sock'[conn[c].fd].link = sock[conn[c].fd].link
                             /\ sock'[conn[c].fd].rx = sock[conn[c].fd].rx
                             /\ sock'[conn[c].fd].owed = sock[conn[c].fd].owed
    PROVE  OneOutstanding'
<1> SUFFICES ASSUME Running', "push" \notin Faults, NEW d \in Conn, Live(d)'
             PROVE  Stream(conn'[d], Sock(d)')
  BY OneOutstandingAfter
<1>1. Live(d) /\ Stream(conn[d], Sock(d))
  BY OneOutstandingIsStream DEF Live
<1> QED
  BY <1>1 DEF Stream, Sock

LEMMA DispatchOrderly ==
    ASSUME IInv, OneOutstanding, "push" \notin Faults, NEW c \in Conn,
           DispatchClose(c) \/ DispatchRead(c) \/ DispatchSend(c)
    PROVE  Orderly(c)
<1>1. /\ Typed /\ Linked /\ loop = "dispatch" /\ Live(c) /\ conn[c] \in Connection
  BY Taken DEF DispatchClose, DispatchRead, DispatchSend
<1>2. Stream(conn[c], Sock(c))
  BY <1>1, OneOutstandingIsStream DEF Running
<1>3. CASE DispatchClose(c)
  BY <1>1, <1>3, DropOrderly DEF DispatchClose
<1>4. CASE DispatchRead(c)
  BY <1>1, <1>2, <1>4, HandleReadOrderly DEF DispatchRead, Sock
<1>5. CASE DispatchSend(c)
  <2>1. /\ conn[c].state \in {"CONNECTING", "IDLE", "SENDING"}
        /\ HandleSend(c, conn[c], Sock(c))
    BY <1>5 DEF DispatchSend, Sock
  <2>2. Registered(c, conn[c], Sock(c)) /\ Sock(c) \in Socket
    BY <1>1, HeldRegistered
  <2>3. Sock(c).link \in {"syn", "up"} => Sock(c).rx = 0 /\ Sock(c).owed = 0
    BY <1>2, <2>1 DEF Stream
  <2> QED
    BY <1>1, <2>1, <2>2, <2>3, HandleSendOrderly
<1> QED
  BY <1>3, <1>4, <1>5

LEMMA ExpireOutstanding ==
    ASSUME IInv, OneOutstanding, "push" \notin Faults, NEW c \in Conn, Expire(c)
    PROVE  OneOutstanding'
<1> DEFINE r == [conn[c] EXCEPT !.timer = "off"]
<1>1. /\ loop = "expire" /\ Typed /\ Linked
      /\ r \in Connection /\ r.state = conn[c].state /\ r.fd = conn[c].fd
  BY Expired
<1>2. r.read_len = conn[c].read_len
  BY <1>1 DEF Typed, Connection
<1>3. CASE conn[c].state = "IDLE"
  <2>1. HandleSend(c, r, Sock(c)) /\ Live(c)
    BY <1>1, <1>3 DEF Expire, Sock, Live
  <2>2. Registered(c, r, Sock(c)) /\ Sock(c) \in Socket
    BY <1>1, <2>1, HeldRegistered
  <2>3. Stream(conn[c], Sock(c))
    BY <1>1, <2>1, OneOutstandingIsStream DEF Running
  <2>4. Sock(c).link \in {"syn", "up"} => Sock(c).rx = 0 /\ Sock(c).owed = 0
    BY <1>3, <2>3 DEF Stream
  <2>5. r.state \in {"CONNECTING", "IDLE", "SENDING"}
    BY <1>1, <1>3
  <2> HIDE DEF r
  <2>6. Orderly(c)
    BY <1>1, <2>1, <2>2, <2>4, <2>5, HandleSendOrderly
  <2>7. Confined(c) /\ Running
    BY <1>1, ConnectionStep DEF Running
  <2> QED
    BY <2>6, <2>7, OrderlyStep
<1>4. CASE conn[c].state # "IDLE"
  <2>1. conn' = [conn EXCEPT ![c] = r] /\ sock' = sock /\ loop' = loop
    BY <1>1, <1>4 DEF Expire
  <2> HIDE DEF r
  <2>2. \A d \in Conn : conn'[d] = IF d = c THEN r ELSE conn[d]
    BY <1>1, <2>1 DEF Typed
  <2> QED
    BY <1>1, <1>2, <2>1, <2>2, SilentStep DEF Running
<1> QED
  BY <1>3, <1>4

LEMMA StartNextOutstanding ==
    ASSUME IInv, OneOutstanding, NEW c \in Conn, StartNext(c)
    PROVE  OneOutstanding'
<1>1. loop = "start" /\ c \in todo /\ StartConnect(c, conn[c], sock)
  BY DEF StartNext
<1>2. Typed /\ Linked /\ ~Live(c)
  BY <1>1 DEF IInv, TypeOK, Typed, Running
<1>3. Shut(conn[c]) /\ conn[c].state = "CLOSED"
  BY <1>2 DEF Linked, Live
<1>4. \A d \in Conn \ {c} : Live(d) => /\ conn[d].fd \in FD
                                       /\ sock[conn[d].fd].link # "none"
  BY <1>2, OwnDescriptors
<1>5. conn[c] \in Connection /\ sock \in [FD -> Socket]
  BY <1>2 DEF Typed
<1>6. Orderly(c)
  BY <1>1, <1>2, <1>3, <1>4, <1>5, StartConnectOrderly
<1>7. Confined(c) /\ Running
  BY <1>1, ConnectionStep DEF Running
<1> QED
  BY <1>6, <1>7, OrderlyStep

LEMMA WaitOutstanding ==
    ASSUME IInv, OneOutstanding, Wait \/ WaitTimeout PROVE OneOutstanding'
<1>1. PICK D \in SUBSET Armed : ComeDue(D)
  BY DEF Wait, WaitTimeout
<1>2. conn \in [Conn -> Connection] /\ D \in SUBSET Conn /\ sock \in [FD -> Socket]
  BY DEF IInv, TypeOK, Armed
<1>3. \A c \in Conn : conn'[c].state = conn[c].state /\ conn'[c].fd = conn[c].fd
  BY <1>1, <1>2, ComeDueConn
<1>4. \A c \in Conn : conn'[c].read_len = conn[c].read_len
  <2>1. \A c \in Conn : [conn[c] EXCEPT !.timer = "due"].read_len = conn[c].read_len
    BY <1>2 DEF Connection
  <2> QED
    BY <1>1, <1>2, <2>1 DEF ComeDue
<1>5. \A f \in FD : /\ sock'[f].link = sock[f].link /\ sock'[f].rx = sock[f].rx
                    /\ sock'[f].owed = sock[f].owed
  <2>1. \A f \in FD : /\ [sock[f] EXCEPT !.rdy = FALSE].link = sock[f].link
                      /\ [sock[f] EXCEPT !.rdy = FALSE].rx = sock[f].rx
                      /\ [sock[f] EXCEPT !.rdy = FALSE].owed = sock[f].owed
    BY <1>2 DEF Socket
  <2>2. CASE Wait
    <3>1. PICK B \in SUBSET Ready :
             sock' = [f \in FD |-> IF f \in B THEN [sock[f] EXCEPT !.rdy = FALSE]
                                   ELSE sock[f]]
      BY <2>2 DEF Wait
    <3> QED
      BY <2>1, <3>1
  <2>3. CASE WaitTimeout
    BY <2>3 DEF WaitTimeout
  <2> QED
    BY <2>2, <2>3
<1>6. Running /\ Linked
  BY DEF Wait, WaitTimeout, Running, IInv
<1>7. \A c \in Conn : Live(c) => conn[c].fd \in FD
  BY <1>6 DEF Linked, Held
<1> QED
  BY <1>3, <1>4, <1>5, <1>6, <1>7, SilentStep

\* What the server answers was owed, so that it moves and does not grow.
LEMMA EnvironmentOutstanding ==
    ASSUME IInv, OneOutstanding, "push" \notin Faults, Environment
    PROVE  OneOutstanding'
<1>1. PICK f \in FD : \/ Accept(f) \/ Refuse(f) \/ Reply(f)
                      \/ Fin(f) \/ Reset(f) \/ Drain(f)
  BY DEF Environment, Push
<1>2. sock[f] \in Socket /\ sock \in [FD -> Socket]
  BY DEF IInv, TypeOK
<1> DEFINE k == sock[f]
           Moves(q) == /\ q.link \in {"syn", "up"} => k.link \in {"syn", "up"}
                       /\ q.link \in {"syn", "up"} =>
                             /\ q.rx + q.owed = k.rx + k.owed
                             /\ k.rx = 0 /\ k.owed = 0 => q.rx = 0 /\ q.owed = 0
<1>3. /\ UNCHANGED <<conn, loop>>
      /\ \E q : Moves(q) /\ sock' = [sock EXCEPT ![f] = q]
  <2>1. \A x \in Socket : \A e :
            Edge(x, e).link = x.link /\ Edge(x, e).rx = x.rx /\ Edge(x, e).owed = x.owed
    BY DEF Edge, Socket
  <2>2. ASSUME NEW x \in Socket, NEW e, Env(f, Edge(x, e)),
               /\ x.link \in {"syn", "up"} => k.link \in {"syn", "up"}
               /\ x.link \in {"syn", "up"} =>
                     /\ x.rx + x.owed = k.rx + k.owed
                     /\ k.rx = 0 /\ k.owed = 0 => x.rx = 0 /\ x.owed = 0
        PROVE  /\ UNCHANGED <<conn, loop>>
               /\ \E q : Moves(q) /\ sock' = [sock EXCEPT ![f] = q]
    <3>1. sock' = [sock EXCEPT ![f] = Edge(x, e)] /\ UNCHANGED <<conn, loop>>
      BY <2>2 DEF Env
    <3>2. Moves(Edge(x, e))
      BY <2>1, <2>2
    <3> QED
      BY <3>1, <3>2
  <2>3. CASE Accept(f)
    <3> DEFINE x == [k EXCEPT !.link = "up"]
    <3>1. x \in Socket /\ x.link = "up" /\ x.rx = k.rx /\ x.owed = k.owed
      BY <1>2 DEF Socket, Link
    <3>2. k.link = "syn" /\ Env(f, Edge(x, {"OUT"}))
      BY <2>3 DEF Accept
    <3> HIDE DEF x
    <3> QED
      BY <2>2, <3>1, <3>2
  <2>4. CASE Refuse(f)
    <3> DEFINE x == [k EXCEPT !.link = "rst"]
    <3>1. x \in Socket /\ x.link = "rst"
      BY <1>2 DEF Socket, Link
    <3>2. Env(f, Edge(x, Event))
      BY <2>4 DEF Refuse
    <3> HIDE DEF x
    <3> QED
      BY <2>2, <3>1, <3>2
  <2>5. CASE Fin(f)
    <3> DEFINE x == [k EXCEPT !.link = "fin"]
    <3>1. x \in Socket /\ x.link = "fin"
      BY <1>2 DEF Socket, Link
    <3>2. Env(f, Edge(x, {"IN", "RDHUP"}))
      BY <2>5 DEF Fin
    <3> HIDE DEF x
    <3> QED
      BY <2>2, <3>1, <3>2
  <2>6. CASE Reset(f)
    <3> DEFINE l == IF k.link = "up" THEN "rst" ELSE "pipe"
               x == [k EXCEPT !.link = l]
    <3>1. x \in Socket /\ x.link \in {"rst", "pipe"}
      BY <1>2 DEF Socket, Link
    <3>2. Env(f, Edge(x, Event))
      BY <2>6 DEF Reset
    <3> HIDE DEF x
    <3> QED
      BY <2>2, <3>1, <3>2
  <2>7. CASE Drain(f)
    <3> DEFINE x == [k EXCEPT !.writable = TRUE]
    <3>1. x \in Socket /\ x.link = k.link /\ x.rx = k.rx /\ x.owed = k.owed
      BY <1>2 DEF Socket
    <3>2. Env(f, Edge(x, {"OUT"}))
      BY <2>7 DEF Drain
    <3> HIDE DEF x
    <3> QED
      BY <2>2, <3>1, <3>2
  <2>8. CASE Reply(f)
    <3>1. PICK n \in 1..k.owed :
             Env(f, Edge([k EXCEPT !.rx = @ + n, !.owed = @ - n], {"IN"}))
      BY <2>8 DEF Reply
    <3> DEFINE x == [k EXCEPT !.rx = @ + n, !.owed = @ - n]
    <3>2. k.rx \in Nat /\ k.owed \in Nat /\ n \in Nat /\ n > 0 /\ n =< k.owed
      BY <1>2 DEF Socket
    <3>3. k.rx + n \in Nat /\ k.owed - n \in Nat
      BY <3>2
    <3>4. /\ x \in Socket /\ x.link = k.link /\ x.rx = k.rx + n
          /\ x.owed = k.owed - n
      BY <1>2, <3>3 DEF Socket
    <3>5. Env(f, Edge(x, {"IN"}))
      BY <3>1
    <3> HIDE DEF x
    <3>6. x.rx + x.owed = k.rx + k.owed /\ k.owed # 0
      BY <3>2, <3>4
    <3> QED
      BY <2>2, <3>4, <3>5, <3>6
  <2> QED
    BY <1>1, <2>3, <2>4, <2>5, <2>6, <2>7, <2>8
<1>4. PICK q : Moves(q) /\ sock' = [sock EXCEPT ![f] = q]
  BY <1>3
<1> SUFFICES ASSUME Running', NEW d \in Conn, Live(d)'
             PROVE  Stream(conn'[d], Sock(d)')
  BY OneOutstandingAfter
<1>5. Running /\ Live(d) /\ conn'[d] = conn[d]
  BY <1>3 DEF Running, Live
<1>6. conn[d].fd \in FD /\ Stream(conn[d], Sock(d))
  BY <1>5, OneOutstandingIsStream DEF IInv, Linked, Held
<1>7. CASE conn[d].fd = f
  <2>1. Sock(d) = k /\ Sock(d)' = q
    BY <1>2, <1>4, <1>5, <1>7 DEF Sock
  <2>2. Stream(conn[d], q)
    <3> HIDE DEF k
    <3> QED
      BY <1>4, <1>6, <2>1 DEF Stream
  <2> QED
    BY <1>5, <2>1, <2>2
<1>8. CASE conn[d].fd # f
  BY <1>2, <1>4, <1>5, <1>6, <1>8 DEF Sock
<1> QED
  BY <1>7, <1>8

\* Stop and wait: while a response is awaited, what is on the way is exactly
\* what is missing of it, and nothing otherwise, unless the server pushes.
THEOREM OneOutstandingHolds == Spec => []OneOutstanding
<1>1. Init => OneOutstanding
  BY DEF Init, OneOutstanding, Live
<1>2. ASSUME IInv, OneOutstanding, [Next]_vars PROVE OneOutstanding'
  <2>1. CASE "push" \in Faults
    BY <2>1 DEF OneOutstanding
  <2>2. ASSUME NEW c \in Conn, StartNext(c) PROVE OneOutstanding'
    BY <1>2, <2>2, StartNextOutstanding
  <2>3. CASE \/ Started \/ WaitFails \/ DispatchDone \/ ExpireDone
             \/ \E c \in Conn : DispatchIgnored(c)
    <3>1. UNCHANGED <<conn, sock>> /\ Running
      BY <2>3 DEF Started, WaitFails, DispatchDone, ExpireDone, DispatchIgnored,
                  Take, Running
    <3> QED
      BY <1>2, <3>1, SilentStep
  <2>4. CASE Wait \/ WaitTimeout
    BY <1>2, <2>4, WaitOutstanding
  <2>5. ASSUME "push" \notin Faults, NEW c \in Conn,
               DispatchClose(c) \/ DispatchRead(c) \/ DispatchSend(c)
        PROVE  OneOutstanding'
    <3>1. Orderly(c)
      BY <1>2, <2>5, DispatchOrderly
    <3>2. Confined(c) /\ Running
      BY <1>2, <2>5, ConnectionStep
      DEF DispatchClose, DispatchRead, DispatchSend, Take, Running
    <3> QED
      BY <1>2, <3>1, <3>2, OrderlyStep
  <2>6. ASSUME "push" \notin Faults, NEW c \in Conn, Expire(c) PROVE OneOutstanding'
    BY <1>2, <2>6, ExpireOutstanding
  <2>7. CASE Cleanup
    BY <2>7 DEF Cleanup, OneOutstanding, Running
  <2>8. CASE "push" \notin Faults /\ Environment
    BY <1>2, <2>8, EnvironmentOutstanding
  <2>9. CASE UNCHANGED vars
    BY <1>2, <2>9, SilentStep DEF vars, Running
  <2> QED
    BY <1>2, <2>1, <2>2, <2>3, <2>4, <2>5, <2>6, <2>7, <2>8, <2>9 DEF Next, Program
<1>3. IInv /\ OneOutstanding /\ [Next]_vars => OneOutstanding'
  BY <1>2
<1> QED
  BY <1>1, <1>3, Invariance, PTL DEF Spec

-----------------------------------------------------------------------------
(***************************************************************************)
(* No lost wake-up.                                                        *)
(***************************************************************************)
\* What keeps a connection with record r, descriptor k and reported events b
\* going: a condition it waits for has been reported, or is about to be.
Awake(r, k, b) ==
    /\ b \subseteq k.mask \cup {"ERR"}
    /\ r.state # "CONNECTING" \/ b # {} => k.link # "syn"
    /\ r.state = "CONNECTING" => k.writable
    /\ k.link = "syn" => k.rx = 0
    /\ r.state \in {"CONNECTING", "SENDING"} /\ b = {} /\ "OUT" \in Poll(k) => k.rdy
    /\ r.state \in {"IDLE", "RECVING"} /\ PeerClosed(k) /\ "RDHUP" \notin b => k.rdy
    /\ r.state = "RECVING" /\ r.read_len < 0 /\ k.link = "up" =>
          /\ k.rx + k.owed >= BodyLen - r.read_len
          /\ b = {} => k.owed > 0 \/ (k.rdy /\ k.rx > 0)

AllAwake ==
    Running => \A c \in Conn : Live(c) => Awake(conn[c], Sock(c), batch[c])

\* A handler of c keeps to its own descriptor, and leaves c awake with nothing
\* reported.
Alert(c) ==
    Running' =>
        /\ \A d \in Conn \ {c} : Live(d) => sock'[conn[d].fd] = sock[conn[d].fd]
        /\ Live(c)' => Awake(conn'[c], Sock(c)', {})

\* epoll_ctl() reports at once what already holds.
LEMMA WatchReports ==
    ASSUME NEW k \in Socket, NEW c \in Conn, NEW m \in SUBSET Event
    PROVE  LET w == Watch(k, c, m)
           IN  /\ w.link = k.link /\ w.rx = k.rx /\ w.owed = k.owed
               /\ w.writable = k.writable /\ w.mask = m
               /\ Poll(w) = Poll(k)
               /\ Poll(k) \cap (m \cup {"ERR"}) # {} => w.rdy
<1> DEFINE u == [k EXCEPT !.ptr = c, !.mask = m]
           w == [u EXCEPT !.rdy = (Revents(u) # {})]
<1>1. /\ u \in Socket /\ u.link = k.link /\ u.rx = k.rx /\ u.owed = k.owed
      /\ u.writable = k.writable /\ u.mask = m
  BY DEF Socket
<1>2. w = Watch(k, c, m)
  BY DEF Watch
<1>3. Poll(u) = Poll(k)
  <2> HIDE DEF u
  <2> QED
    BY <1>1 DEF Poll, PeerClosed, Aborted, Sendable
<1>4. Revents(u) = Poll(k) \cap (m \cup {"ERR"})
  <2> HIDE DEF u
  <2> QED
    BY <1>1, <1>3 DEF Revents
<1> HIDE DEF u
<1>5. /\ w.link = u.link /\ w.rx = u.rx /\ w.owed = u.owed
      /\ w.writable = u.writable /\ w.mask = u.mask
      /\ w.rdy = (Revents(u) # {})
  BY <1>1 DEF Socket
<1> HIDE DEF w
<1>6. Poll(w) = Poll(u)
  BY <1>5 DEF Poll, PeerClosed, Aborted, Sendable
<1> QED
  BY <1>1, <1>2, <1>3, <1>4, <1>5, <1>6

LEMMA StartConnectAlert ==
    ASSUME Typed, NEW c \in Conn, NEW r \in Connection, NEW s \in [FD -> Socket],
           Shut(r), r.state = "CLOSED",
           \A d \in Conn \ {c} : Live(d) =>
               /\ conn[d].fd \in FD /\ s[conn[d].fd] = sock[conn[d].fd]
               /\ s[conn[d].fd].link # "none",
           StartConnect(c, r, s)
    PROVE  Alert(c)
<1>1. CASE conn' = [conn EXCEPT ![c] = r] /\ sock' = s
  BY <1>1 DEF Alert, Live, Typed
<1>2. ASSUME NEW f \in FD, conn' = [conn EXCEPT ![c] = [r EXCEPT !.fd = f]], sock' = s
      PROVE  Alert(c)
  <2>1. conn'[c].state = "CLOSED"
    BY <1>2 DEF Typed, Connection
  <2> QED
    BY <1>2, <2>1 DEF Alert, Live
<1>3. ASSUME NEW f \in FD, Lowest(f, s),
             conn' = [conn EXCEPT ![c] =
                         [WriteEventConn(r, Dialled) EXCEPT !.fd = f,
                                                            !.state = "CONNECTING"]],
             sock' = [s EXCEPT ![f] = WriteEventSock(r, Dialled, c)]
      PROVE  Alert(c)
  <2> DEFINE p == WriteEventConn(r, Dialled)
             y == WriteEventSock(r, Dialled, c)
  <2>1. p \in Connection
    BY FirstWriteEvent
  <2>2. y.link = "syn" /\ y.rx = 0 /\ y.writable /\ y.mask = WriteMask
    <3>1. /\ Dialled \in Socket /\ Dialled.rx = 0 /\ Dialled.link = "syn"
          /\ Dialled.writable /\ Dialled.ptr = NoConn
      BY DEF Dialled, NoSock, Socket, Link
    <3>2. CtlFits(r, Dialled) /\ ~r.ready_write
      BY <3>1 DEF CtlFits, Shut, Connection
    <3>3. y = Watch(Dialled, c, WriteMask) /\ WriteMask \in SUBSET Event
      BY <3>2 DEF WriteEventSock, WriteMask, Event
    <3> QED
      BY <3>1, <3>3, WatchReports
  <2> HIDE DEF p, y
  <2>3. /\ conn' = [conn EXCEPT ![c] = [p EXCEPT !.fd = f, !.state = "CONNECTING"]]
        /\ sock' = [s EXCEPT ![f] = y]
    BY <1>3 DEF p, y
  <2>4. conn'[c].fd = f /\ conn'[c].state = "CONNECTING" /\ sock'[f] = y
    BY <2>1, <2>3 DEF Typed, Connection
  <2>5. "OUT" \notin Poll(y)
    BY <2>2 DEF Poll, PeerClosed, Aborted, Sendable
  <2>6. Awake(conn'[c], y, {})
    BY <2>2, <2>4, <2>5 DEF Awake
  <2>7. \A d \in Conn \ {c} : Live(d) => conn[d].fd # f
    BY <1>3 DEF Lowest
  <2> QED
    BY <2>3, <2>4, <2>6, <2>7 DEF Alert, Sock
<1> QED
  BY <1>1, <1>2, <1>3 DEF StartConnect

LEMMA DropAlert ==
    ASSUME Typed, Linked, NEW c \in Conn, Live(c),
           NEW r \in Connection, r.fd = conn[c].fd, Drop(c, r)
    PROVE  Alert(c)
<1>1. r.fd \in FD /\ r.fd # NoFd
  BY FDAssumption DEF Linked, Held, NoFd
<1>2. Released(r) = [sock EXCEPT ![r.fd] = NoSock]
  BY <1>1 DEF Released
<1>3. Released(r) \in [FD -> Socket]
  BY <1>2, NoSockSocket DEF Typed
<1>4. \A d \in Conn \ {c} : Live(d) =>
         /\ conn[d].fd \in FD /\ Released(r)[conn[d].fd] = sock[conn[d].fd]
         /\ Released(r)[conn[d].fd].link # "none"
  BY <1>2, OwnDescriptors DEF Typed
<1> DEFINE p == Spend(Closed(r))
<1>5. /\ Closed(r) \in Connection /\ Closed(r).state = "CLOSED"
      /\ p \in Connection /\ Shut(p) /\ p.state = "CLOSED"
  BY ClosedConnection, SpendConnection DEF Shut
<1> HIDE DEF p
<1>6. CASE Retry /\ r.requests > 0
  <2>1. StartConnect(c, p, Released(r))
    BY <1>6 DEF Drop, p
  <2> QED
    BY <1>3, <1>4, <1>5, <2>1, StartConnectAlert
<1>7. CASE ~(Retry /\ r.requests > 0)
  <2>1. conn' = [conn EXCEPT ![c] = IF Retry THEN p ELSE Closed(r)]
        /\ sock' = Released(r)
    BY <1>7 DEF Drop, p
  <2> QED
    BY <1>4, <1>5, <2>1 DEF Alert, Live, Typed
<1> QED
  BY <1>6, <1>7

LEMMA ReturnAlert ==
    ASSUME Typed, Linked, NEW c \in Conn, Live(c), NEW p, NEW q,
           p.fd = conn[c].fd, Awake(p, q, {}), Return(c, p, q)
    PROVE  Alert(c)
<1>1. conn[c].fd \in FD
  BY DEF Linked, Held
<1>2. conn' = [conn EXCEPT ![c] = p] /\ sock' = [sock EXCEPT ![p.fd] = q]
  BY DEF Return
<1>3. conn'[c] = p /\ Sock(c)' = q
  BY <1>1, <1>2 DEF Typed, Sock
<1> QED
  BY <1>2, <1>3, OwnDescriptors DEF Alert, Typed

\* What a request that goes out leaves: the read event is armed, now or before,
\* and an established server owes a response.
LEMMA HandleSendAlert ==
    ASSUME Typed, Linked, NEW c \in Conn, Live(c),
           NEW r0 \in Connection, NEW k \in Socket, Registered(c, r0, k),
           r0.state \in {"CONNECTING", "IDLE", "SENDING"},
           k.link # "syn", r0.ready_read /\ PeerClosed(k) => k.rdy,
           HandleSend(c, r0, k)
    PROVE  Alert(c)
<1> DEFINE r == Begin(r0)
<1>1. /\ r \in Connection /\ r.state = "SENDING" /\ r.fd = conn[c].fd
      /\ r.active = r0.active /\ r.ready_read = r0.ready_read
      /\ r.ready_write = r0.ready_write
  <2>1. 0 \in 0..ReqLen /\ "SENDING" \in State
    BY LengthAssumption DEF State
  <2> QED
    BY <2>1 DEF Begin, Connection, Registered
<1>2. TrySend(c, r, k)
  BY DEF HandleSend
<1>0. r.active /\ k.ptr = c /\ c # NoConn
  BY <1>1, ConnAssumption DEF Registered
<1> HIDE DEF r
<1>3. ASSUME Sendable(k), SendAll(c, r, k)
      PROVE  Alert(c)
  <2>1. PICK w \in BOOLEAN :
           LET q == [k EXCEPT !.writable = w,
                              !.owed = IF k.link = "up" THEN @ + RespLen ELSE @]
           IN  Return(c, [ReadEventConn([r EXCEPT !.sent = ReqLen], q) EXCEPT
                             !.state = "RECVING", !.read_len = -HeadLen],
                      ReadEventSock(r, q, c))
    BY <1>3 DEF SendAll
  <2> DEFINE o == IF k.link = "up" THEN k.owed + RespLen ELSE k.owed
             q == [k EXCEPT !.writable = w,
                            !.owed = IF k.link = "up" THEN @ + RespLen ELSE @]
             s == [r EXCEPT !.sent = ReqLen]
             v == ReadEventConn(s, q)
             p == [v EXCEPT !.state = "RECVING", !.read_len = -HeadLen]
             y == ReadEventSock(r, q, c)
  <2>2. o \in Nat /\ k.rx \in Nat /\ k.owed \in Nat
    BY LengthAssumption DEF Socket, RespLen
  <2>3. q \in Socket /\ q.rx = k.rx /\ q.owed = o /\ q.link = k.link
        /\ q.ptr = k.ptr /\ q.mask = k.mask /\ q.rdy = k.rdy
    <3>1. q = [k EXCEPT !.writable = w, !.owed = o]
      BY DEF Socket
    <3> HIDE DEF o, q
    <3> QED
      BY <2>2, <3>1 DEF Socket
  <2>4. /\ s \in Connection /\ s.fd = r.fd /\ s.active = r.active
        /\ s.ready_read = r.ready_read /\ s.ready_write = r.ready_write
    BY <1>1, LengthAssumption DEF Connection
  <2> HIDE DEF q, s
  <2>5. v \in Connection /\ v.fd = r.fd
    <3>1. s.active /\ q.ptr = c /\ (s.ready_read => ~s.ready_write /\ q.mask = ReadMask)
      BY <1>1, <2>3, <2>4 DEF Registered, Connection
    <3> QED
      BY <2>3, <2>4, <3>1, ReadEvent DEF SameButFlags
  <2>6. /\ y.rx = k.rx /\ y.owed = o /\ y.link = k.link
        /\ PeerClosed(k) => y.rdy
    <3>1. CASE r.ready_read
      BY <1>1, <2>3, <3>1 DEF ReadEventSock
    <3>2. CASE ~r.ready_read
      <4>1. y = Watch(q, c, ReadMask) /\ ReadMask \in SUBSET Event
        BY <1>0, <2>3, <3>2 DEF ReadEventSock, CtlFits, ReadMask, Event
      <4>2. PeerClosed(k) => "RDHUP" \in Poll(q) \cap (ReadMask \cup {"ERR"})
        BY <2>3 DEF Poll, PeerClosed, Event, ReadMask
      <4> QED
        BY <2>3, <4>1, <4>2, WatchReports
    <3> QED
      BY <3>1, <3>2
  <2> HIDE DEF v, y
  <2>7. p.state = "RECVING" /\ p.read_len = -HeadLen /\ p.fd = conn[c].fd
    BY <1>1, <2>5 DEF Connection
  <2>8. Return(c, p, y)
    BY <2>1 DEF p, v, s, y, q
  <2> HIDE DEF p
  <2>9. Awake(p, y, {})
    <3>1. y.link = "up" => y.owed > 0 /\ y.rx + y.owed >= BodyLen - (-HeadLen)
      BY <2>2, <2>6, LengthAssumption DEF RespLen
    <3>2. PeerClosed(y) => y.rdy
      BY <2>6 DEF PeerClosed
    <3> QED
      BY <2>6, <2>7, <3>1, <3>2 DEF Awake
  <2> QED
    BY <2>7, <2>8, <2>9, ReturnAlert
<1>4. ASSUME NEW n \in Nat, r.sent + n =< ReqLen, SendSome(c, r, k, n)
      PROVE  Alert(c)
  <2> DEFINE s == [r EXCEPT !.sent = @ + n, !.ready_write = FALSE]
             q == [k EXCEPT !.writable = @ /\ n = 0]
             p == WriteEventConn(s, q)
             y == WriteEventSock(s, q, c)
  <2>1. q \in Socket /\ q.link = k.link /\ q.ptr = k.ptr
    BY DEF Socket
  <2>2. /\ s \in Connection /\ s.active = r.active /\ s.fd = r.fd
        /\ ~s.ready_write /\ s.state = r.state
    <3>1. r.sent + n \in 0..ReqLen
      BY <1>1, <1>4, LengthAssumption DEF Connection
    <3> QED
      BY <1>1, <3>1 DEF Connection
  <2> HIDE DEF q, s
  <2>3. p.state = "SENDING" /\ p.fd = conn[c].fd
    <3>1. /\ s.active /\ q.ptr = c
          /\ s.ready_write => ~s.ready_read /\ q.mask = WriteMask
      BY <1>1, <2>1, <2>2 DEF Registered
    <3> QED
      BY <1>1, <2>1, <2>2, <3>1, WriteEvent DEF SameButFlags
  <2>4. y = Watch(q, c, WriteMask) /\ WriteMask \in SUBSET Event
    BY <1>0, <2>1, <2>2 DEF WriteEventSock, CtlFits, WriteMask, Event
  <2>5. Return(c, p, y)
    BY <1>4 DEF SendSome, p, y, s, q
  <2>6. y.link = k.link /\ ("OUT" \in Poll(y) => y.rdy)
    BY <2>1, <2>4, WatchReports DEF WriteMask
  <2> HIDE DEF p, y
  <2>7. Awake(p, y, {})
    BY <2>3, <2>6 DEF Awake
  <2> QED
    BY <2>3, <2>5, <2>7, ReturnAlert
<1>5. ASSUME NEW n \in 1..(ReqLen - r.sent - 1), SendSome(c, r, k, n)
      PROVE  Alert(c)
  <2>1. n \in Nat /\ r.sent + n =< ReqLen
    BY <1>1, LengthAssumption DEF Connection
  <2> QED
    BY <1>4, <1>5, <2>1
<1>6. CASE SendSome(c, r, k, 0)
  <2>1. r.sent + 0 =< ReqLen
    BY <1>1, LengthAssumption DEF Connection
  <2> QED
    BY <1>4, <1>6, <2>1
<1>7. CASE Drop(c, r)
  BY <1>1, <1>7, DropAlert
<1>8. CASE Killed(c, r)
  BY <1>8 DEF Killed, Alert, Running
<1> QED
  BY <1>2, <1>3, <1>5, <1>6, <1>7, <1>8 DEF TrySend

LEMMA AfterRequestAlert ==
    ASSUME Typed, Linked, NEW c \in Conn, Live(c),
           NEW r \in Connection, NEW k \in Socket, Registered(c, r, k),
           k.link # "syn", PeerClosed(k) => k.rdy,
           AfterRequest(c, r, k)
    PROVE  Alert(c)
<1> DEFINE i == [Spend(r) EXCEPT !.state = "IDLE"]
<1>1. /\ i \in Connection /\ i.state = "IDLE" /\ i.fd = r.fd /\ i.active = r.active
      /\ i.ready_read = r.ready_read /\ i.ready_write = r.ready_write
  <2> DEFINE p == Spend(r)
  <2>1. /\ p \in Connection /\ p.fd = r.fd /\ p.active = r.active
        /\ p.ready_read = r.ready_read /\ p.ready_write = r.ready_write
    BY SpendConnection
  <2> HIDE DEF p
  <2>2. [p EXCEPT !.state = "IDLE"] \in Connection
    BY <2>1 DEF Connection, State
  <2> QED
    BY <2>1, <2>2 DEF Connection, p
<1>2. CASE r.requests = 0
  <2>1. Closed(Spend(r)).state = "CLOSED"
    BY SpendConnection, ClosedConnection
  <2>2. conn'[c].state = "CLOSED" /\ sock' = Released(r)
    BY <1>2, <2>1 DEF AfterRequest, Typed
  <2>3. Released(r) = [sock EXCEPT ![r.fd] = NoSock] /\ r.fd = conn[c].fd
    BY FDAssumption DEF Released, Registered, NoFd
  <2> QED
    BY <2>2, <2>3, OwnDescriptors DEF Alert, Live, Typed
<1> HIDE DEF i
<1>3. CASE r.requests # 0 /\ Sleeps
  <2>1. PICK t \in AddTimer(i) : Return(c, [i EXCEPT !.timer = t], k)
    BY <1>3 DEF AfterRequest, i
  <2>2. [i EXCEPT !.timer = t].state = "IDLE" /\ [i EXCEPT !.timer = t].fd = conn[c].fd
    BY <1>1 DEF Connection, Registered
  <2>3. Awake([i EXCEPT !.timer = t], k, {})
    BY <2>2 DEF Awake
  <2> QED
    BY <2>1, <2>2, <2>3, ReturnAlert
<1>4. CASE r.requests # 0 /\ ~Sleeps
  <2>1. HandleSend(c, i, k)
    BY <1>4 DEF AfterRequest, i
  <2>2. Registered(c, i, k)
    BY <1>1 DEF Registered
  <2> QED
    BY <1>1, <2>1, <2>2, HandleSendAlert
<1> QED
  BY <1>2, <1>3, <1>4

LEMMA HandleReadAlert ==
    ASSUME Typed, Linked, NEW c \in Conn, conn[c].state = "RECVING",
           NEW b \in SUBSET Event, "RDHUP" \notin b,
           Awake(conn[c], Sock(c), b), HandleRead(c, conn[c], Sock(c))
    PROVE  Alert(c)
<1> DEFINE r == conn[c]
           k == Sock(c)
           headOk == r.read_len < 0 /\ k.rx >= -r.read_len
           v == IF headOk \/ r.read_len = 0 THEN 0 ELSE r.read_len + k.rx
           p == [r EXCEPT !.ready_read = FALSE, !.read_len = v]
           q == [k EXCEPT !.rx = 0]
<1>1. /\ Live(c) /\ Held(c, r, k)
  BY DEF Linked, Live, State
<1>2. r \in Connection /\ k \in Socket
  BY <1>1 DEF Typed, Held, Sock
<1>3. Registered(c, r, k) /\ c # NoConn
  BY <1>1, <1>2, ConnAssumption DEF Held, Registered, Connection
<1>4. /\ r.read_len \in (-HeadLen)..0 /\ k.rx \in Nat /\ k.owed \in Nat
      /\ HeadLen \in Nat /\ BodyLen \in Nat /\ BodyLen > 0
  BY <1>2, LengthAssumption DEF Connection, Socket
<1>5. v \in (-HeadLen)..0
  BY <1>4
<1>6. /\ p \in Connection /\ p.fd = r.fd /\ p.state = r.state /\ p.active = r.active
      /\ ~p.ready_read /\ p.read_len = v
  <2> HIDE DEF v, r
  <2> QED
    BY <1>2, <1>5 DEF Connection
<1>7. /\ q \in Socket /\ q.link = k.link /\ q.ptr = k.ptr /\ q.rx = 0
      /\ q.owed = k.owed
  <2> HIDE DEF k
  <2> QED
    BY <1>2 DEF Socket
<1>8. \/ /\ k.rx >= Missing(r)
         /\ AfterRequest(c, [r EXCEPT !.read_len = 0],
                         [k EXCEPT !.rx = @ - Missing(r)])
      \/ Drop(c, r)
      \/ Drop(c, p)
      \/ /\ ~PeerClosed(k)
         /\ Return(c, ReadEventConn(p, q), ReadEventSock(p, q, c))
  BY DEF HandleRead
<1>9. /\ r.state = "RECVING" /\ r.fd = conn[c].fd /\ k.link # "none"
      /\ k.link # "syn" /\ (PeerClosed(k) => k.rdy)
      /\ r.read_len < 0 /\ k.link = "up" => k.rx + k.owed >= BodyLen - r.read_len
  BY <1>1 DEF Awake, Held
<1> HIDE DEF r, k, p, q
<1>10. CASE /\ k.rx >= Missing(r)
            /\ AfterRequest(c, [r EXCEPT !.read_len = 0],
                            [k EXCEPT !.rx = @ - Missing(r)])
  <2> DEFINE s == [r EXCEPT !.read_len = 0]
             y == [k EXCEPT !.rx = @ - Missing(r)]
  <2>1. /\ s \in Connection /\ s.fd = r.fd /\ s.active = r.active
        /\ s.ready_read = r.ready_read /\ s.ready_write = r.ready_write
    <3>1. 0 \in (-HeadLen)..0
      BY LengthAssumption
    <3> QED
      BY <1>2, <3>1 DEF Connection
  <2>2. /\ y \in Socket /\ y.link = k.link /\ y.ptr = k.ptr /\ y.mask = k.mask
        /\ y.rdy = k.rdy
    <3>1. k.rx - Missing(r) \in Nat
      BY <1>4, <1>10 DEF Missing
    <3> QED
      BY <1>2, <3>1 DEF Socket
  <2>3. AfterRequest(c, s, y)
    BY <1>10
  <2> HIDE DEF s, y
  <2>4. Registered(c, s, y)
    BY <1>3, <2>1, <2>2 DEF Registered
  <2>5. y.link # "syn" /\ (PeerClosed(y) => y.rdy)
    BY <1>9, <2>2 DEF PeerClosed
  <2> QED
    BY <1>1, <2>1, <2>2, <2>3, <2>4, <2>5, AfterRequestAlert
<1>11. CASE Drop(c, r)
  BY <1>1, <1>2, <1>9, <1>11, DropAlert
<1>12. CASE Drop(c, p)
  BY <1>1, <1>6, <1>9, <1>12, DropAlert
<1>13. CASE /\ ~PeerClosed(k)
            /\ Return(c, ReadEventConn(p, q), ReadEventSock(p, q, c))
  <2> DEFINE s == ReadEventConn(p, q)
             y == ReadEventSock(p, q, c)
  <2>1. s.fd = conn[c].fd /\ s.state = "RECVING" /\ s.read_len = v
    <3>1. p.active /\ q.ptr = c /\ (p.ready_read => ~p.ready_write /\ q.mask = ReadMask)
      BY <1>3, <1>6, <1>7 DEF Registered
    <3> QED
      BY <1>6, <1>7, <1>9, <3>1, ReadEvent DEF SameButFlags
  <2>2. y.rx = 0 /\ y.owed = k.owed /\ y.link = k.link
    BY <1>7, EventsKeepStream
  <2>3. Return(c, s, y)
    BY <1>13
  <2> HIDE DEF s, y
  <2>4. k.link = "up"
    BY <1>2, <1>9, <1>13 DEF PeerClosed, Socket, Link
  <2>5. v < 0 => k.owed >= BodyLen - v /\ k.owed > 0
    BY <1>4, <1>9, <2>4
  <2>6. ~PeerClosed(y)
    BY <2>2, <2>4 DEF PeerClosed
  <2>7. Awake(s, y, {})
    BY <1>4, <2>1, <2>2, <2>4, <2>5, <2>6 DEF Awake
  <2> QED
    BY <1>1, <2>1, <2>3, <2>7, ReturnAlert
<1> QED
  BY <1>8, <1>10, <1>11, <1>12, <1>13

LEMMA AllAwakeAfter ==
    AllAwake' <=> (Running' => \A c \in Conn :
                                  Live(c)' => Awake(conn'[c], Sock(c)', batch'[c]))
BY DEF AllAwake, Awake, Poll, PeerClosed, Aborted, Sendable, Sock

\* The handler of one connection, which takes what was reported of it, leaves
\* all of them awake.
LEMMA AlertStep ==
    ASSUME AllAwake, Running, NEW c \in Conn, Confined(c), Alert(c), batch'[c] = {},
           \A d \in Conn \ {c} : batch'[d] = batch[d]
    PROVE  AllAwake'
<1> SUFFICES ASSUME Running', NEW d \in Conn, Live(d)'
             PROVE  Awake(conn'[d], Sock(d)', batch'[d])
  BY AllAwakeAfter
<1>1. CASE d = c
  BY <1>1 DEF Alert
<1>2. CASE d # c
  <2>1. conn'[d] = conn[d] /\ Live(d) /\ batch'[d] = batch[d]
    BY <1>2 DEF Confined, Live
  <2>2. sock'[conn[d].fd] = sock[conn[d].fd]
    BY <1>2, <2>1 DEF Alert
  <2>3. Awake(conn[d], Sock(d), batch[d])
    BY <2>1 DEF AllAwake
  <2> QED
    BY <2>1, <2>2, <2>3 DEF Sock
<1> QED
  BY <1>1, <1>2

LEMMA DispatchAlert ==
    ASSUME IInv, AllAwake, NEW c \in Conn,
           DispatchClose(c) \/ DispatchRead(c) \/ DispatchSend(c)
    PROVE  Alert(c)
<1>1. /\ Typed /\ Linked /\ loop = "dispatch" /\ Live(c) /\ conn[c] \in Connection
      /\ batch[c] # {} /\ batch[c] \in SUBSET Event
  BY Taken DEF DispatchClose, DispatchRead, DispatchSend, Take, TypeOK
<1>2. Awake(conn[c], Sock(c), batch[c])
  BY <1>1 DEF AllAwake, Running
<1>3. CASE DispatchClose(c)
  BY <1>1, <1>3, DropAlert DEF DispatchClose
<1>4. CASE DispatchRead(c)
  <2>1. /\ "RDHUP" \notin batch[c] /\ conn[c].state = "RECVING"
        /\ HandleRead(c, conn[c], Sock(c))
    BY <1>4 DEF DispatchRead, WantsRead, WantsClose, Sock
  <2> QED
    BY <1>1, <1>2, <2>1, HandleReadAlert
<1>5. CASE DispatchSend(c)
  <2>1. /\ conn[c].state \in {"CONNECTING", "IDLE", "SENDING"}
        /\ HandleSend(c, conn[c], Sock(c)) /\ "RDHUP" \notin batch[c]
    BY <1>5 DEF DispatchSend, WantsSend, WantsClose, Sock
  <2>2. Registered(c, conn[c], Sock(c)) /\ Sock(c) \in Socket
    BY <1>1, HeldRegistered
  <2>3. Sock(c).link # "syn"
    BY <1>1, <1>2 DEF Awake
  <2>4. conn[c].ready_read /\ PeerClosed(Sock(c)) => Sock(c).rdy
    BY <1>1, <1>2, <2>1 DEF Awake, Linked, Held
  <2> QED
    BY <1>1, <2>1, <2>2, <2>3, <2>4, HandleSendAlert
<1> QED
  BY <1>3, <1>4, <1>5

\* An event is ignored only when it came for a wait that is over: it is none
\* the connection waits for now.
LEMMA DispatchIgnoredAwake ==
    ASSUME IInv, AllAwake, NEW c \in Conn, DispatchIgnored(c)
    PROVE  AllAwake'
<1>1. /\ Typed /\ Linked /\ Live(c) /\ loop = "dispatch"
      /\ batch[c] # {} /\ batch[c] \in SUBSET Event
      /\ batch \in [Conn -> SUBSET Event] /\ batch' = [batch EXCEPT ![c] = {}]
      /\ UNCHANGED <<conn, sock, loop>>
  BY Taken DEF DispatchIgnored, Take, TypeOK
<1>2. Awake(conn[c], Sock(c), batch[c]) /\ Held(c, conn[c], Sock(c))
  BY <1>1 DEF AllAwake, Running, Linked
<1>3. /\ conn[c].state \notin (IF WantsRead(c) THEN {"RECVING"}
                               ELSE {"CONNECTING", "IDLE", "SENDING"})
      /\ ~WantsClose(c)
  BY DEF DispatchIgnored
<1>4. ReadMask = {"IN", "RDHUP"} /\ WriteMask = {"OUT"}
  BY DEF ReadMask, WriteMask
<1>5. conn[c].state = "IDLE" /\ WantsRead(c)
  <2>1. conn[c].state \in {"CONNECTING", "IDLE", "SENDING", "RECVING"}
    BY <1>1 DEF Typed, Connection, State, Live
  <2>2. CASE WantsRead(c)
    <3>1. "IN" \in Sock(c).mask
      BY <1>2, <2>2 DEF Awake, WantsRead
    <3>2. conn[c].ready_read
      BY <1>2, <1>4, <3>1 DEF Held
    <3> QED
      BY <1>2, <1>3, <2>2, <3>2 DEF Held
  <2>3. CASE ~WantsRead(c)
    <3>1. conn[c].state = "RECVING" /\ "OUT" \in batch[c]
      BY <1>3, <2>1, <2>3 DEF WantsRead, WantsClose
    <3>2. "OUT" \in Sock(c).mask /\ conn[c].ready_read
      BY <1>2, <3>1 DEF Awake, Held
    <3> QED
      BY <1>2, <1>4, <3>2 DEF Held
  <2> QED
    BY <2>2, <2>3
<1>6. "RDHUP" \notin batch[c]
  BY <1>3 DEF WantsClose
<1>7. Awake(conn[c], Sock(c), {})
  BY <1>1, <1>2, <1>5, <1>6 DEF Awake
<1> SUFFICES ASSUME Running', NEW d \in Conn, Live(d)'
             PROVE  Awake(conn'[d], Sock(d)', batch'[d])
  BY AllAwakeAfter
<1>8. conn'[d] = conn[d] /\ Sock(d)' = Sock(d) /\ Live(d)
  BY <1>1 DEF Live, Sock
<1>9. CASE d = c
  BY <1>1, <1>7, <1>8, <1>9
<1>10. CASE d # c
  BY <1>1, <1>8, <1>10 DEF AllAwake, Running
<1> QED
  BY <1>9, <1>10

LEMMA ExpireAwake ==
    ASSUME IInv, AllAwake, NEW c \in Conn, Expire(c)
    PROVE  AllAwake'
<1> DEFINE r == [conn[c] EXCEPT !.timer = "off"]
<1>1. /\ loop = "expire" /\ Typed /\ Linked
      /\ r \in Connection /\ r.state = conn[c].state /\ r.fd = conn[c].fd
  BY Expired
<1>2. r.read_len = conn[c].read_len /\ r.ready_read = conn[c].ready_read
  BY <1>1 DEF Typed, Connection
<1>3. batch' = batch /\ Running /\ \A d \in Conn : batch[d] = {}
  BY <1>1 DEF Expire, IInv, Running
<1>4. CASE conn[c].state = "IDLE"
  <2>1. HandleSend(c, r, Sock(c)) /\ Live(c)
    BY <1>1, <1>4 DEF Expire, Sock, Live
  <2>2. Registered(c, r, Sock(c)) /\ Sock(c) \in Socket
    BY <1>1, <2>1, HeldRegistered
  <2>3. Awake(conn[c], Sock(c), {})
    BY <1>3, <2>1 DEF AllAwake
  <2>4. Sock(c).link # "syn" /\ (PeerClosed(Sock(c)) => Sock(c).rdy)
    BY <1>4, <2>3 DEF Awake
  <2>5. r.state \in {"CONNECTING", "IDLE", "SENDING"}
    BY <1>1, <1>4
  <2> HIDE DEF r
  <2>6. Alert(c)
    BY <1>1, <2>1, <2>2, <2>4, <2>5, HandleSendAlert
  <2>7. Confined(c)
    BY ConnectionStep
  <2> QED
    BY <1>3, <2>6, <2>7, AlertStep
<1>5. CASE conn[c].state # "IDLE"
  <2>1. conn' = [conn EXCEPT ![c] = r] /\ sock' = sock /\ loop' = loop
    BY <1>1, <1>5 DEF Expire
  <2> HIDE DEF r
  <2>2. \A d \in Conn : /\ conn'[d].state = conn[d].state
                        /\ conn'[d].fd = conn[d].fd
                        /\ conn'[d].read_len = conn[d].read_len
    BY <1>1, <1>2, <2>1 DEF Typed
  <2> SUFFICES ASSUME NEW d \in Conn, Live(d)'
               PROVE  Awake(conn'[d], Sock(d)', batch'[d])
    BY AllAwakeAfter
  <2>3. Live(d) /\ Sock(d)' = Sock(d)
    BY <2>1, <2>2 DEF Live, Sock
  <2>4. Awake(conn[d], Sock(d), batch[d])
    BY <1>3, <2>3 DEF AllAwake
  <2> QED
    BY <1>3, <2>2, <2>3, <2>4 DEF Awake
<1> QED
  BY <1>4, <1>5

LEMMA StartNextAwake ==
    ASSUME IInv, AllAwake, NEW c \in Conn, StartNext(c)
    PROVE  AllAwake'
<1>1. loop = "start" /\ c \in todo /\ StartConnect(c, conn[c], sock) /\ batch' = batch
  BY DEF StartNext
<1>2. /\ Typed /\ Linked /\ ~Live(c) /\ Running
      /\ \A d \in Conn : batch[d] = {}
  BY <1>1 DEF IInv, TypeOK, Typed, Running
<1>3. Shut(conn[c]) /\ conn[c].state = "CLOSED"
  BY <1>2 DEF Linked, Live
<1>4. \A d \in Conn \ {c} : Live(d) => /\ conn[d].fd \in FD
                                       /\ sock[conn[d].fd].link # "none"
  BY <1>2, OwnDescriptors
<1>5. conn[c] \in Connection /\ sock \in [FD -> Socket]
  BY <1>2 DEF Typed
<1>6. Alert(c)
  BY <1>1, <1>2, <1>3, <1>4, <1>5, StartConnectAlert
<1>7. Confined(c)
  BY ConnectionStep
<1> QED
  BY <1>1, <1>2, <1>6, <1>7, AlertStep

\* A connection's report is of its own descriptor, and takes it off the list.
LEMMA WaitAwake ==
    ASSUME IInv, AllAwake, Wait PROVE AllAwake'
<1>1. PICK B \in SUBSET Ready, D \in SUBSET Armed :
         /\ ComeDue(D)
         /\ batch' = [c \in Conn |->
               UNION {Revents(sock[f]) : f \in {g \in B : sock[g].ptr = c}}]
         /\ sock' = [f \in FD |-> IF f \in B THEN [sock[f] EXCEPT !.rdy = FALSE]
                                  ELSE sock[f]]
  BY DEF Wait
<1>2. /\ conn \in [Conn -> Connection] /\ D \in SUBSET Conn
      /\ sock \in [FD -> Socket] /\ loop = "wait" /\ Linked /\ Running
      /\ \A d \in Conn : batch[d] = {}
  BY DEF IInv, TypeOK, Armed, Wait, Running
<1>3. \A c \in Conn : conn'[c].state = conn[c].state /\ conn'[c].fd = conn[c].fd
  BY <1>1, <1>2, ComeDueConn
<1>4. \A c \in Conn : conn'[c].read_len = conn[c].read_len
  <2>1. \A c \in Conn : [conn[c] EXCEPT !.timer = "due"].read_len = conn[c].read_len
    BY <1>2 DEF Connection
  <2> QED
    BY <1>1, <1>2, <2>1 DEF ComeDue
<1> SUFFICES ASSUME NEW d \in Conn, Live(d)'
             PROVE  Awake(conn'[d], Sock(d)', batch'[d])
  BY AllAwakeAfter
<1> DEFINE k == Sock(d)
<1>5. Live(d) /\ Held(d, conn[d], k) /\ k \in Socket
  BY <1>2, <1>3 DEF Live, Linked, Held, Sock
<1>6. Awake(conn[d], k, {})
  BY <1>2, <1>5 DEF AllAwake
<1>7. {g \in B : sock[g].ptr = d} = {conn[d].fd} \cap B
  <2>1. B \subseteq FD /\ \A g \in B : sock[g].link # "none"
    BY DEF Ready
  <2>2. \A g \in B : sock[g].ptr = d => conn[d].fd = g
    BY <1>2, <2>1 DEF Linked
  <2>3. sock[conn[d].fd].ptr = d
    BY <1>5 DEF Held, Sock
  <2> QED
    BY <2>2, <2>3
<1>8. CASE conn[d].fd \in B
  <2>1. Revents(k) # {}
    BY <1>8 DEF Ready, Sock
  <2>2. batch'[d] = Revents(k)
    <3>1. {g \in B : sock[g].ptr = d} = {conn[d].fd}
      BY <1>7, <1>8
    <3>2. UNION {Revents(sock[f]) : f \in {conn[d].fd}} = Revents(k)
      BY DEF Sock
    <3> QED
      BY <1>1, <3>1, <3>2
  <2> DEFINE q == [k EXCEPT !.rdy = FALSE]
  <2>3. Sock(d)' = q
    <3>1. sock'[conn[d].fd] = q
      BY <1>1, <1>5, <1>8 DEF Held, Sock
    <3> QED
      BY <1>3, <3>1 DEF Sock
  <2> HIDE DEF k
  <2>4. /\ q.link = k.link /\ q.rx = k.rx /\ q.owed = k.owed
        /\ q.writable = k.writable /\ q.mask = k.mask
    BY <1>5 DEF Socket
  <2> HIDE DEF q
  <2>5. Revents(k) \subseteq k.mask \cup {"ERR"}
    BY DEF Revents
  <2>6. k.link # "syn"
    <3>1. k.link = "syn" => Poll(k) = {}
      BY <1>5, <1>6 DEF Awake, Poll, PeerClosed, Aborted, Sendable, Socket
    <3> QED
      BY <2>1, <3>1 DEF Revents
  <2>7. conn[d].state \in {"IDLE", "RECVING"} /\ PeerClosed(k) =>
            "RDHUP" \in Revents(k)
    BY <1>5 DEF Held, Revents, Poll, ReadMask, Event
  <2>8. Awake(conn'[d], q, Revents(k))
    BY <1>3, <1>4, <1>6, <2>1, <2>4, <2>5, <2>6, <2>7 DEF Awake, PeerClosed
  <2> QED
    BY <2>2, <2>3, <2>8
<1>9. CASE conn[d].fd \notin B
  <2>1. batch'[d] = {}
    <3>1. {g \in B : sock[g].ptr = d} = {}
      BY <1>7, <1>9
    <3> QED
      BY <1>1, <3>1
  <2>2. Sock(d)' = k
    BY <1>1, <1>3, <1>5, <1>9 DEF Held, Sock
  <2> HIDE DEF k
  <2> QED
    BY <1>3, <1>4, <1>6, <2>1, <2>2 DEF Awake
<1> QED
  BY <1>8, <1>9

LEMMA WaitTimeoutAwake ==
    ASSUME IInv, AllAwake, WaitTimeout PROVE AllAwake'
<1>1. PICK D \in SUBSET Armed : ComeDue(D)
  BY DEF WaitTimeout
<1>2. conn \in [Conn -> Connection] /\ D \in SUBSET Conn /\ Running
  BY DEF IInv, TypeOK, Armed, WaitTimeout, Running
<1>3. \A c \in Conn : conn'[c].state = conn[c].state /\ conn'[c].fd = conn[c].fd
  BY <1>1, <1>2, ComeDueConn
<1>4. \A c \in Conn : conn'[c].read_len = conn[c].read_len
  <2>1. \A c \in Conn : [conn[c] EXCEPT !.timer = "due"].read_len = conn[c].read_len
    BY <1>2 DEF Connection
  <2> QED
    BY <1>1, <1>2, <2>1 DEF ComeDue
<1>5. UNCHANGED <<sock, batch>>
  BY DEF WaitTimeout
<1> SUFFICES ASSUME NEW d \in Conn, Live(d)'
             PROVE  Awake(conn'[d], Sock(d)', batch'[d])
  BY AllAwakeAfter
<1>6. Awake(conn[d], Sock(d), batch[d])
  BY <1>2, <1>3 DEF AllAwake, Live
<1>7. Sock(d)' = Sock(d) /\ batch'[d] = batch[d]
  BY <1>3, <1>5 DEF Sock
<1> QED
  BY <1>3, <1>4, <1>6, <1>7 DEF Awake

\* An edge reports a change that is watched, and forgets no earlier one.
LEMMA EdgeReports ==
    ASSUME NEW x \in Socket, NEW e
    PROVE  LET y == Edge(x, e)
           IN  /\ y.link = x.link /\ y.rx = x.rx /\ y.owed = x.owed
               /\ y.writable = x.writable /\ y.mask = x.mask
               /\ x.rdy \/ e \cap (x.mask \cup {"ERR"}) # {} => y.rdy
BY DEF Edge, Socket

\* What happens to the stream of a waiting connection joins the ready list if
\* it is what the connection waits for.
LEMMA EnvironmentAwake ==
    ASSUME IInv, AllAwake, Environment
    PROVE  AllAwake'
<1>1. PICK f \in FD : \/ Accept(f) \/ Refuse(f) \/ Reply(f) \/ Push(f)
                      \/ Fin(f) \/ Reset(f) \/ Drain(f)
  BY DEF Environment
<1>2. sock[f] \in Socket /\ sock \in [FD -> Socket]
  BY DEF IInv, TypeOK
<1> DEFINE k == sock[f]
           Kept(q) == \A c \in Conn, b \in SUBSET Event :
                         Held(c, conn[c], k) /\ Awake(conn[c], k, b)
                             => Awake(conn[c], q, b)
<1>3. ReadMask = {"IN", "RDHUP"} /\ WriteMask = {"OUT"}
  BY DEF ReadMask, WriteMask
<1>4. k.rx \in Nat /\ k.owed \in Nat /\ BodyLen \in Nat /\ BodyLen > 0
  BY <1>2, LengthAssumption DEF Socket
<1>5. \A x : "OUT" \in Poll(x) <=> \/ x.link \in {"rst", "pipe"}
                                   \/ x.link \in {"up", "fin"} /\ x.writable
  BY DEF Poll, Aborted, Sendable, Event
<1>6. \A c \in Conn : Held(c, conn[c], k) =>
         /\ conn[c].state \in {"CONNECTING", "SENDING"} => k.mask = WriteMask
         /\ conn[c].state \in {"IDLE", "RECVING"} => k.mask = ReadMask
  BY DEF Held
<1>7. /\ UNCHANGED <<conn, loop, batch>>
      /\ \E q : Kept(q) /\ sock' = [sock EXCEPT ![f] = q]
  <2>1. ASSUME NEW q, Env(f, q), Kept(q)
        PROVE  /\ UNCHANGED <<conn, loop, batch>>
               /\ \E y : Kept(y) /\ sock' = [sock EXCEPT ![f] = y]
    BY <2>1 DEF Env
  <2>2. CASE Accept(f)
    <3> DEFINE x == [k EXCEPT !.link = "up"]
               y == Edge(x, {"OUT"})
    <3>1. /\ x \in Socket /\ x.link = "up" /\ x.rx = k.rx /\ x.owed = k.owed
          /\ x.writable = k.writable /\ x.mask = k.mask /\ x.rdy = k.rdy
      BY <1>2 DEF Socket, Link
    <3>2. k.link = "syn" /\ Env(f, y)
      BY <2>2 DEF Accept
    <3> HIDE DEF x
    <3>3. /\ y.link = x.link /\ y.rx = x.rx /\ y.owed = x.owed
          /\ y.writable = x.writable /\ y.mask = x.mask
          /\ x.rdy \/ {"OUT"} \cap (x.mask \cup {"ERR"}) # {} => y.rdy
      BY <3>1, EdgeReports
    <3> HIDE DEF y, k
    <3>4. Kept(y)
      BY <1>3, <1>6, <3>1, <3>2, <3>3 DEF Awake, PeerClosed
    <3> QED
      BY <2>1, <3>2, <3>4
  <2>3. CASE Refuse(f)
    <3> DEFINE x == [k EXCEPT !.link = "rst"]
               y == Edge(x, Event)
    <3>1. /\ x \in Socket /\ x.link = "rst" /\ x.rx = k.rx /\ x.owed = k.owed
          /\ x.writable = k.writable /\ x.mask = k.mask /\ x.rdy = k.rdy
      BY <1>2 DEF Socket, Link
    <3>2. k.link = "syn" /\ Env(f, y)
      BY <2>3 DEF Refuse
    <3> HIDE DEF x
    <3>3. /\ y.link = x.link /\ y.rx = x.rx /\ y.owed = x.owed
          /\ y.writable = x.writable /\ y.mask = x.mask
          /\ x.rdy \/ Event \cap (x.mask \cup {"ERR"}) # {} => y.rdy
      BY <3>1, EdgeReports
    <3>4. y.rdy
      BY <3>3 DEF Event
    <3> HIDE DEF y, k
    <3>5. Kept(y)
      BY <3>1, <3>2, <3>3, <3>4 DEF Awake, PeerClosed
    <3> QED
      BY <2>1, <3>2, <3>5
  <2>4. CASE Reply(f)
    <3>1. PICK n \in 1..k.owed :
             Env(f, Edge([k EXCEPT !.rx = @ + n, !.owed = @ - n], {"IN"}))
      BY <2>4 DEF Reply
    <3> DEFINE x == [k EXCEPT !.rx = @ + n, !.owed = @ - n]
               y == Edge(x, {"IN"})
    <3>2. /\ k.rx + n \in Nat /\ k.owed - n \in Nat /\ k.rx + n > 0
          /\ (k.rx + n) + (k.owed - n) = k.rx + k.owed
      BY <1>4
    <3>3. /\ x \in Socket /\ x.link = k.link /\ x.rx = k.rx + n
          /\ x.owed = k.owed - n
          /\ x.writable = k.writable /\ x.mask = k.mask /\ x.rdy = k.rdy
      BY <1>2, <3>2 DEF Socket
    <3>4. k.link = "up" /\ Env(f, y)
      BY <2>4, <3>1 DEF Reply
    <3> HIDE DEF x
    <3>5. /\ y.link = x.link /\ y.rx = x.rx /\ y.owed = x.owed
          /\ y.writable = x.writable /\ y.mask = x.mask
          /\ x.rdy \/ {"IN"} \cap (x.mask \cup {"ERR"}) # {} => y.rdy
      BY <3>3, EdgeReports
    <3> HIDE DEF y, k
    <3>6. y.rx + y.owed = k.rx + k.owed /\ y.rx > 0
      BY <3>2, <3>3, <3>5
    <3>7. Kept(y)
      BY <1>3, <1>5, <1>6, <3>3, <3>4, <3>5, <3>6 DEF Awake, PeerClosed
    <3> QED
      BY <2>1, <3>4, <3>7
  <2>5. CASE Push(f)
    <3> DEFINE x == [k EXCEPT !.rx = RespLen]
               y == Edge(x, {"IN"})
    <3>1. RespLen \in Nat
      BY LengthAssumption DEF RespLen
    <3>2. /\ x \in Socket /\ x.link = k.link /\ x.owed = k.owed
          /\ x.writable = k.writable /\ x.mask = k.mask /\ x.rdy = k.rdy
      BY <1>2, <3>1 DEF Socket
    <3>3. k.link = "up" /\ k.rx = 0 /\ k.owed = 0 /\ Env(f, y)
      BY <2>5 DEF Push
    <3> HIDE DEF x
    <3>4. /\ y.link = x.link /\ y.owed = x.owed
          /\ y.writable = x.writable /\ y.mask = x.mask
          /\ x.rdy \/ {"IN"} \cap (x.mask \cup {"ERR"}) # {} => y.rdy
      BY <3>2, EdgeReports
    <3> HIDE DEF y, k
    <3>5. \A c \in Conn : Held(c, conn[c], k) =>
             conn[c].state # "RECVING" \/ conn[c].read_len \in Int
      BY DEF IInv, TypeOK, Connection
    <3>6. Kept(y)
      BY <1>4, <1>5, <3>2, <3>3, <3>4, <3>5 DEF Awake, PeerClosed
    <3> QED
      BY <2>1, <3>3, <3>6
  <2>6. CASE Fin(f)
    <3> DEFINE x == [k EXCEPT !.link = "fin"]
               y == Edge(x, {"IN", "RDHUP"})
    <3>1. /\ x \in Socket /\ x.link = "fin" /\ x.rx = k.rx /\ x.owed = k.owed
          /\ x.writable = k.writable /\ x.mask = k.mask /\ x.rdy = k.rdy
      BY <1>2 DEF Socket, Link
    <3>2. k.link = "up" /\ Env(f, y)
      BY <2>6 DEF Fin
    <3> HIDE DEF x
    <3>3. /\ y.link = x.link /\ y.rx = x.rx /\ y.owed = x.owed
          /\ y.writable = x.writable /\ y.mask = x.mask
          /\ x.rdy \/ {"IN", "RDHUP"} \cap (x.mask \cup {"ERR"}) # {} => y.rdy
      BY <3>1, EdgeReports
    <3> HIDE DEF y, k
    <3>4. Kept(y)
      BY <1>3, <1>5, <1>6, <3>1, <3>2, <3>3 DEF Awake, PeerClosed
    <3> QED
      BY <2>1, <3>2, <3>4
  <2>7. CASE Reset(f)
    <3> DEFINE l == IF k.link = "up" THEN "rst" ELSE "pipe"
               x == [k EXCEPT !.link = l]
               y == Edge(x, Event)
    <3>1. /\ x \in Socket /\ x.link \in {"rst", "pipe"} /\ x.rx = k.rx
          /\ x.owed = k.owed /\ x.writable = k.writable /\ x.mask = k.mask
      BY <1>2 DEF Socket, Link
    <3>2. k.link \in {"up", "fin"} /\ Env(f, y)
      BY <2>7 DEF Reset
    <3> HIDE DEF x
    <3>3. /\ y.link = x.link /\ y.rx = x.rx /\ y.owed = x.owed
          /\ y.writable = x.writable /\ y.mask = x.mask
          /\ x.rdy \/ Event \cap (x.mask \cup {"ERR"}) # {} => y.rdy
      BY <3>1, EdgeReports
    <3>4. y.rdy
      BY <3>3 DEF Event
    <3> HIDE DEF y, k
    <3>5. Kept(y)
      BY <3>1, <3>2, <3>3, <3>4 DEF Awake
    <3> QED
      BY <2>1, <3>2, <3>5
  <2>8. CASE Drain(f)
    <3> DEFINE x == [k EXCEPT !.writable = TRUE]
               y == Edge(x, {"OUT"})
    <3>1. /\ x \in Socket /\ x.link = k.link /\ x.rx = k.rx /\ x.owed = k.owed
          /\ x.writable /\ x.mask = k.mask /\ x.rdy = k.rdy
      BY <1>2 DEF Socket
    <3>2. k.link \in {"up", "fin"} /\ Env(f, y)
      BY <2>8 DEF Drain
    <3> HIDE DEF x
    <3>3. /\ y.link = x.link /\ y.rx = x.rx /\ y.owed = x.owed
          /\ y.writable = x.writable /\ y.mask = x.mask
          /\ x.rdy \/ {"OUT"} \cap (x.mask \cup {"ERR"}) # {} => y.rdy
      BY <3>1, EdgeReports
    <3> HIDE DEF y, k
    <3>4. Kept(y)
      BY <1>3, <1>6, <3>1, <3>2, <3>3 DEF Awake, PeerClosed
    <3> QED
      BY <2>1, <3>2, <3>4
  <2> QED
    BY <1>1, <2>2, <2>3, <2>4, <2>5, <2>6, <2>7, <2>8
<1>8. PICK q : Kept(q) /\ sock' = [sock EXCEPT ![f] = q]
  BY <1>7
<1> SUFFICES ASSUME Running', NEW d \in Conn, Live(d)'
             PROVE  Awake(conn'[d], Sock(d)', batch'[d])
  BY AllAwakeAfter
<1>9. Running /\ Live(d) /\ conn'[d] = conn[d] /\ batch'[d] = batch[d]
  BY <1>7 DEF Running, Live
<1>10. /\ conn[d].fd \in FD /\ Held(d, conn[d], Sock(d))
       /\ Awake(conn[d], Sock(d), batch[d]) /\ batch[d] \in SUBSET Event
  BY <1>9 DEF IInv, TypeOK, Linked, Held, AllAwake
<1>11. CASE conn[d].fd = f
  <2>1. Sock(d) = k /\ Sock(d)' = q
    BY <1>2, <1>8, <1>9, <1>11 DEF Sock
  <2>2. Awake(conn[d], q, batch[d])
    BY <1>8, <1>10, <2>1
  <2> QED
    BY <1>9, <2>1, <2>2
<1>12. CASE conn[d].fd # f
  BY <1>2, <1>8, <1>9, <1>10, <1>12 DEF Sock
<1> QED
  BY <1>11, <1>12

\* Awake connections are those nobody forgets.
LEMMA AwakeNotForgotten ==
    ASSUME IInv, AllAwake PROVE NoLostWakeup
<1> SUFFICES ASSUME Running, NEW c \in Conn, batch[c] = {}, conn[c].fd \notin Ready,
                    Live(c)
             PROVE  /\ conn[c].state = "CONNECTING" => Sock(c).link = "syn"
                    /\ conn[c].state = "SENDING" => /\ Sock(c).link \in {"up", "fin"}
                                                    /\ ~Sock(c).writable
                    /\ conn[c].state = "IDLE" => conn[c].timer # "off"
                    /\ conn[c].state = "RECVING" /\ conn[c].read_len < 0 =>
                          Sock(c).link = "up" /\ Sock(c).owed > 0
  BY DEF NoLostWakeup, Live
<1> DEFINE k == Sock(c)
<1>1. Held(c, conn[c], k) /\ Awake(conn[c], k, {})
  BY DEF IInv, Linked, AllAwake
<1>2. k \in Socket /\ k.link \in Link \ {"none"}
  BY <1>1 DEF IInv, TypeOK, Held, Sock, Socket
<1>3. k.rdy => Revents(k) = {}
  BY <1>1 DEF Ready, Held, Sock
<1> HIDE DEF k
<1>4. CASE conn[c].state \in {"CONNECTING", "SENDING"}
  <2>1. "OUT" \in k.mask
    BY <1>1, <1>4 DEF Held, WriteMask
  <2>2. "OUT" \notin Poll(k)
    BY <1>1, <1>3, <1>4, <2>1 DEF Awake, Revents
  <2>3. /\ k.link \notin {"rst", "pipe"}
        /\ k.link \in {"up", "fin"} => ~k.writable
    BY <2>2 DEF Poll, Aborted, Sendable, Event
  <2> QED
    BY <1>1, <1>2, <1>4, <2>3 DEF Awake, Link, k
<1>5. CASE conn[c].state = "IDLE"
  BY <1>1, <1>5 DEF Held
<1>6. CASE conn[c].state = "RECVING" /\ conn[c].read_len < 0
  <2>1. {"IN", "RDHUP"} \subseteq k.mask
    BY <1>1, <1>6 DEF Held, ReadMask
  <2>2. ~PeerClosed(k)
    <3>1. PeerClosed(k) => "RDHUP" \in Poll(k)
      BY DEF Poll, Event
    <3> QED
      BY <1>1, <1>3, <1>6, <2>1, <3>1 DEF Awake, Revents
  <2>3. k.link = "up"
    BY <1>1, <1>2, <1>6, <2>2 DEF Awake, PeerClosed, Link
  <2>4. ~(k.rdy /\ k.rx > 0)
    <3>1. k.rx > 0 => "IN" \in Poll(k)
      BY DEF Poll, Event
    <3> QED
      BY <1>3, <2>1, <3>1 DEF Revents
  <2> QED
    BY <1>1, <1>6, <2>3, <2>4 DEF Awake, k
<1> QED
  BY <1>4, <1>5, <1>6

\* A connection nobody is about to wake waits for something the server or the
\* clock still has to do, although every edge is reported once.
THEOREM NoLostWakeupHolds == Spec => []NoLostWakeup
<1>1. Init => AllAwake
  BY DEF Init, AllAwake, Live
<1>2. ASSUME IInv, AllAwake, [Next]_vars PROVE AllAwake'
  <2>1. ASSUME NEW c \in Conn, StartNext(c) PROVE AllAwake'
    BY <1>2, <2>1, StartNextAwake
  <2>2. CASE \/ Started \/ WaitFails \/ DispatchDone \/ ExpireDone \/ UNCHANGED vars
    <3>1. UNCHANGED <<conn, sock, batch>> /\ (Running' => Running)
      BY <2>2 DEF Started, WaitFails, DispatchDone, ExpireDone, vars, Running
    <3>2. \A d \in Conn : /\ conn'[d] = conn[d] /\ batch'[d] = batch[d]
                          /\ Live(d)' = Live(d) /\ Sock(d)' = Sock(d)
      BY <3>1 DEF Live, Sock
    <3> QED
      BY <1>2, <3>1, <3>2, AllAwakeAfter DEF AllAwake
  <2>3. CASE Wait
    BY <1>2, <2>3, WaitAwake
  <2>4. CASE WaitTimeout
    BY <1>2, <2>4, WaitTimeoutAwake
  <2>5. ASSUME NEW c \in Conn, DispatchClose(c) \/ DispatchRead(c) \/ DispatchSend(c)
        PROVE  AllAwake'
    <3>1. Alert(c)
      BY <1>2, <2>5, DispatchAlert
    <3>2. Confined(c) /\ Running /\ batch' = [batch EXCEPT ![c] = {}]
      BY <1>2, <2>5, ConnectionStep
      DEF DispatchClose, DispatchRead, DispatchSend, Take, Running
    <3>3. batch'[c] = {} /\ \A d \in Conn \ {c} : batch'[d] = batch[d]
      BY <1>2, <3>2 DEF IInv, TypeOK
    <3> QED
      BY <1>2, <3>1, <3>2, <3>3, AlertStep
  <2>6. ASSUME NEW c \in Conn, DispatchIgnored(c) PROVE AllAwake'
    BY <1>2, <2>6, DispatchIgnoredAwake
  <2>7. ASSUME NEW c \in Conn, Expire(c) PROVE AllAwake'
    BY <1>2, <2>7, ExpireAwake
  <2>8. CASE Cleanup
    BY <2>8 DEF Cleanup, AllAwake, Running
  <2>9. CASE Environment
    BY <1>2, <2>9, EnvironmentAwake
  <2> QED
    BY <1>2, <2>1, <2>2, <2>3, <2>4, <2>5, <2>6, <2>7, <2>8, <2>9 DEF Next, Program
<1>3. IInv /\ AllAwake /\ [Next]_vars => AllAwake'
  BY <1>2
<1>4. IInv /\ AllAwake => NoLostWakeup
  BY AwakeNotForgotten
<1> QED
  BY <1>1, <1>3, <1>4, Invariance, PTL DEF Spec

-----------------------------------------------------------------------------
(***************************************************************************)
(* The budget: TcpClient implements RequestBudget, and what the budget     *)
(* promises is then true of the client.                                    *)
(***************************************************************************)
\* What c's account shows after a step that changes no other.
OnlyAccount(c) ==
    /\ \A d \in Conn \ {c} : /\ Live(d)' <=> Live(d)
                             /\ d \in todo' <=> d \in todo
                             /\ answered'[d] = answered[d]
                             /\ redialled'[d] = redialled[d]
    /\ c \notin todo'

LEMMA AccountMapped ==
    ASSUME IInv, IInv', NEW c \in Conn, OnlyAccount(c),
           NEW a \in {0, 1}, NEW b \in {0, 1},
           answered'[c] = answered[c] + a, redialled'[c] = redialled[c] + b
    PROVE  /\ Live(c)' => Budget!Account(c, a, b, "open")
           /\ ~Live(c)' => Budget!Account(c, a, b, "closed")
<1>1. /\ answered \in [Conn -> Nat] /\ answered' \in [Conn -> Nat]
      /\ redialled \in [Conn -> Nat] /\ redialled' \in [Conn -> Nat]
  BY DEF IInv, TypeOK
<1>2. answered' = [answered EXCEPT ![c] = @ + a]
  BY <1>1 DEF OnlyAccount
<1>3. redialled' = [redialled EXCEPT ![c] = @ + b]
  BY <1>1 DEF OnlyAccount
<1>4. \A d \in Conn \ {c} : PhaseOf(d)' = PhaseOf(d)
  BY DEF OnlyAccount, PhaseOf
<1>5. PhaseOf(c)' = IF Live(c)' THEN "open" ELSE "closed"
  BY DEF OnlyAccount, PhaseOf
<1> QED
  BY <1>2, <1>3, <1>4, <1>5 DEF Budget!Account

LEMMA StutterMapped ==
    ASSUME \A d \in Conn : Live(d)' <=> Live(d),
           UNCHANGED <<todo, answered, redialled>>
    PROVE  UNCHANGED Budget!budgetVars
BY DEF PhaseOf, Budget!budgetVars

\* A handler's way of settling c's account is an action of RequestBudget.
LEMMA SettledMapped ==
    ASSUME IInv, IInv', NEW c \in Conn, Live(c), todo = {}, todo' = {},
           NEW t, Outcome(c, answered'[c], t),
           \A d \in Conn \ {c} : answered'[d] = answered[d],
           answered'[c] \in {answered[c], answered[c] + 1}
    PROVE  [Budget!Next]_Budget!budgetVars
<1>1. OnlyAccount(c)
  BY DEF Outcome, OnlyAccount, Live
<1>2. /\ answered[c] \in Nat /\ redialled[c] \in Nat
      /\ answered'[c] \in Nat /\ redialled'[c] \in Nat
      /\ conn[c].requests \in Nat /\ conn'[c].requests \in Nat
  BY RequestsAssumption DEF IInv, TypeOK, Connection
<1>3. answered[c] + redialled[c] + conn[c].requests = Requests
  BY LiveBalance
<1>4. PhaseOf(c) = "open" /\ Budget!Used(c) = answered[c] + redialled[c]
  BY DEF PhaseOf, Budget!Used
<1>5. PICK a \in {0, 1} : answered'[c] = answered[c] + a
  BY <1>2
<1>6. Settled(c, answered'[c])
  BY DEF Outcome
<1>7. CASE Live(c)' /\ redialled'[c] = redialled[c]
  <2>1. answered'[c] + redialled'[c] + conn'[c].requests = Requests
    BY <1>7 DEF IInv, Balanced, Live
  <2>2. CASE a = 0
    <3>1. answered' = answered /\ redialled' = redialled
      BY <1>1, <1>2, <1>5, <1>7, <2>2 DEF IInv, TypeOK, OnlyAccount
    <3>2. \A d \in Conn : Live(d)' <=> Live(d)
      BY <1>1, <1>7 DEF OnlyAccount
    <3> QED
      BY <3>1, <3>2, StutterMapped
  <2>3. CASE a = 1
    <3>1. Budget!Account(c, 1, 0, "open")
      BY <1>1, <1>2, <1>5, <1>7, <2>3, AccountMapped
    <3>2. Budget!Used(c) < Requests
      BY <1>2, <1>4, <1>5, <1>7, <2>1, <2>3
    <3> QED
      BY <1>4, <3>1, <3>2 DEF Budget!Answer, Budget!Next
  <2> QED
    BY <2>2, <2>3
<1>8. CASE /\ Retry /\ answered'[c] + redialled[c] < Requests
           /\ redialled'[c] = redialled[c] + 1
           /\ Live(c)' \/ CanFailLocally
  <2>1. PICK p \in {"open", "closed"} :
           Budget!Dialled(p) /\ Budget!Account(c, a, 1, p)
    BY <1>1, <1>5, <1>8, AccountMapped DEF Budget!Dialled
  <2>2. Budget!Used(c) + a < Requests
    BY <1>2, <1>4, <1>5, <1>8
  <2> QED
    BY <1>4, <1>8, <2>1, <2>2 DEF Budget!Redial, Budget!Next
<1>9. CASE /\ ~Live(c)' /\ redialled'[c] = redialled[c]
           /\ ~Retry \/ answered'[c] + redialled[c] >= Requests
  <2>1. Budget!Account(c, a, 0, "closed")
    BY <1>1, <1>2, <1>5, <1>9, AccountMapped
  <2>2. CASE Budget!Used(c) + a =< Requests
    <3>1. ~Retry \/ Budget!Used(c) + a = Requests
      BY <1>2, <1>4, <1>5, <1>9, <2>2, RequestsAssumption
    <3> QED
      BY <1>4, <2>1, <2>2, <3>1 DEF Budget!GiveUp, Budget!Next
  <2>3. CASE ~(Budget!Used(c) + a =< Requests)
    <3>1. a = 1 /\ Budget!Used(c) = Requests
      BY <1>2, <1>3, <1>4, <2>3, RequestsAssumption
    <3> QED
      BY <1>4, <2>1, <3>1 DEF Budget!LastAnswer, Budget!Next
  <2> QED
    BY <2>2, <2>3
<1> QED
  BY <1>6, <1>7, <1>8, <1>9 DEF Settled

LEMMA StartNextMapped ==
    ASSUME IInv, IInv', NEW c \in Conn, StartNext(c)
    PROVE  [Budget!Next]_Budget!budgetVars
<1>1. /\ c \in todo /\ todo' = todo \ {c}
      /\ UNCHANGED <<answered, redialled>>
  BY DEF StartNext
<1>2. /\ \A d \in Conn \ {c} : conn'[d] = conn[d]
      /\ Live(c)' \/ CanFailLocally
  BY StartNextOutcome
<1>3. OnlyAccount(c)
  BY <1>1, <1>2 DEF OnlyAccount, Live
<1>4. answered[c] \in Nat /\ redialled[c] \in Nat
  BY DEF IInv, TypeOK
<1>5. PICK p \in {"open", "closed"} :
         Budget!Dialled(p) /\ Budget!Account(c, 0, 0, p)
  BY <1>1, <1>2, <1>3, <1>4, AccountMapped DEF Budget!Dialled
<1>6. PhaseOf(c) = "new"
  BY <1>1 DEF PhaseOf
<1> QED
  BY <1>5, <1>6 DEF Budget!Open, Budget!Next

LEMMA StepMapped ==
    ASSUME IInv, IInv', [Next]_vars
    PROVE  [Budget!Next]_Budget!budgetVars
<1>1. CASE \E c \in Conn : StartNext(c)
  BY <1>1, StartNextMapped
<1>2. ASSUME NEW c \in Conn,
             DispatchClose(c) \/ DispatchRead(c) \/ DispatchSend(c)
      PROVE  [Budget!Next]_Budget!budgetVars
  <2>1. Live(c) /\ todo' = todo /\ loop = "dispatch"
    BY <1>2, Taken DEF DispatchClose, DispatchRead, DispatchSend
  <2>2. todo = {} /\ todo' = {}
    BY <2>1 DEF IInv
  <2>3. /\ \A d \in Conn \ {c} : answered'[d] = answered[d]
        /\ answered'[c] \in {answered[c], answered[c] + 1}
        /\ Outcome(c, answered'[c], conn[c].timer)
    BY <1>2, DispatchOutcome
  <2> QED
    BY <2>1, <2>2, <2>3, SettledMapped
<1>3. ASSUME NEW c \in Conn, Expire(c)
      PROVE  [Budget!Next]_Budget!budgetVars
  <2> DEFINE r == [conn[c] EXCEPT !.timer = "off"]
  <2>1. /\ answered' = answered /\ todo' = todo /\ todo = {} /\ Typed
        /\ r.state = conn[c].state
    BY <1>3, Expired
  <2>2. CASE conn[c].state = "IDLE"
    <3>0. Live(c)
      BY <2>2 DEF Live
    <3>1. Outcome(c, answered'[c], "off")
      BY <1>3, <2>1, <2>2, ExpireOutcome
    <3>2. \A d \in Conn \ {c} : answered'[d] = answered[d]
      BY <2>1
    <3> QED
      BY <2>1, <3>0, <3>1, <3>2, SettledMapped
  <2>3. CASE conn[c].state # "IDLE"
    <3>1. conn' = [conn EXCEPT ![c] = r] /\ redialled' = redialled
      BY <1>3, <2>1, <2>3 DEF Expire
    <3> HIDE DEF r
    <3>2. \A d \in Conn : Live(d)' <=> Live(d)
      BY <2>1, <3>1 DEF Live, Typed
    <3> QED
      BY <2>1, <3>1, <3>2, StutterMapped
  <2> QED
    BY <2>2, <2>3
<1>4. CASE Wait \/ WaitTimeout
  <2>1. PICK D \in SUBSET Armed : ComeDue(D)
    BY <1>4 DEF Wait, WaitTimeout
  <2>2. conn \in [Conn -> Connection] /\ D \in SUBSET Conn
    BY DEF IInv, TypeOK, Armed
  <2>3. \A d \in Conn : Live(d)' <=> Live(d)
    BY <2>1, <2>2, ComeDueConn DEF Live
  <2> QED
    BY <1>4, <2>3, StutterMapped DEF Wait, WaitTimeout
<1>5. CASE \/ Started \/ WaitFails \/ DispatchDone \/ ExpireDone \/ Cleanup
           \/ \E c \in Conn : DispatchIgnored(c)
  <2>1. UNCHANGED <<conn, todo, answered, redialled>>
    BY <1>5 DEF Started, WaitFails, DispatchDone, ExpireDone, Cleanup,
                DispatchIgnored, Take
  <2> QED
    BY <2>1, StutterMapped DEF Live
<1>6. CASE Environment
  <2>1. UNCHANGED <<conn, todo, answered, redialled>>
    BY <1>6 DEF Environment, Env, Accept, Refuse, Reply, Push, Fin, Reset, Drain
  <2> QED
    BY <2>1, StutterMapped DEF Live
<1>7. CASE UNCHANGED vars
  BY <1>7, StutterMapped DEF vars, Live
<1> QED
  BY <1>1, <1>2, <1>3, <1>4, <1>5, <1>6, <1>7 DEF Next, Program

\* Every step of the client is, for the budgets, an answer, a paid retry, the
\* end of one connection, or nothing.
THEOREM ImplementsBudgetHolds == Spec => ImplementsBudget
<1>1. Init => Budget!Init
  BY DEF Init, Budget!Init, PhaseOf
<1>2. IInv /\ IInv' /\ [Next]_vars => [Budget!Next]_Budget!budgetVars
  BY StepMapped
<1> QED
  BY <1>1, <1>2, Invariance, PTL DEF Spec, ImplementsBudget, Budget!Spec

\* With retries, enough descriptors and no local failure, a connection is given
\* up only when handle_after_request() and the error exits have spent all of
\* conf->requests on answers and retries.
THEOREM GivesUpOnlyWhenSpentHolds == Spec => []GivesUpOnlyWhenSpent
<1>1. Requests \in Nat
  BY RequestsAssumption
<1>2. Budget!Spec => []Budget!BudgetInvariant
  BY <1>1, Budget!BudgetKept
<1>3. Budget!BudgetInvariant => GivesUpOnlyWhenSpent
  BY DEF Budget!BudgetInvariant, Budget!Persistent, GivesUpOnlyWhenSpent,
         PhaseOf, Budget!Used, Used
<1> QED
  BY <1>2, <1>3, ImplementsBudgetHolds, PTL DEF ImplementsBudget
=============================================================================
