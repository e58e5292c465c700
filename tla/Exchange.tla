------------------------------- MODULE Exchange --------------------------------
(***************************************************************************)
(* What one connection of src/common.c sends and receives, byte by byte:   *)
(* which request of the test data is next, how much of it the socket has   *)
(* taken, and how the four bytes of a response's head are put together     *)
(* from the pieces that arrive.  TcpClient has the connections' states,    *)
(* events and descriptors and counts units; here the bytes have names, and *)
(* events come whenever there is something to do.                          *)
(*                                                                         *)
(* recv() takes what has arrived, and more may arrive before it is called  *)
(* again, so that each turn of the loop of handle_read_event() is a step.  *)
(* The bytes of a body are counted only: nothing in the program looks at   *)
(* them.                                                                   *)
(***************************************************************************)
EXTENDS Integers, SequencesExt

CONSTANTS
    Length,         \* the length of each request of the test data
    Requests,       \* conf->requests
    ReqMod,         \* 2^32, the modulus of that counter
    MaxBuf          \* read_max_buf_len

test_data_n == Len(Length)
Datum == 0..(test_data_n - 1)

ASSUME ExchangeAssumption ==
    /\ Length \in Seq(Nat \ {0}) /\ Len(Length) > 0
    /\ Requests \in Nat /\ ReqMod \in Nat /\ Requests < ReqMod
    /\ MaxBuf \in Nat /\ MaxBuf > 5

VARIABLES
    conf,       \* the retry, random and sleep_min of this connection
    c,          \* the rest of its connection_t
    size,       \* how much handle_read_event() asks for; 0 outside of it
    stream,     \* external: the TCP stream
    begun,      \* history: the requests begun, in order
    mark        \* history: how many of them on earlier streams

exVars == <<conf, c, size, stream, begun, mark>>

State == {"ST_CLOSED", "ST_CONNECTING", "ST_IDLE", "ST_SENDING", "ST_RECVING"}

\* Byte j of request d, and byte j of the response to the b-th request begun.
Request(d) == [j \in 1..Length[d + 1] |-> <<d, j>>]
Response(b, n) == [j \in 1..n |-> <<b, j>>]

Stale == <<0, 0>>

\* A stream nobody has used: what the server got, how long its answer is, what
\* of it has arrived and what has not, whether it has closed.
Fresh == [sent |-> <<>>, len |-> 0, in |-> <<>>, due |-> <<>>,
          replies |-> 0, fin |-> FALSE]

Init ==
    /\ conf \in [retry : BOOLEAN, random : BOOLEAN, sleeps : BOOLEAN]
    /\ c = [state |-> "ST_CONNECTING", requests |-> Requests,
            test_data_index |-> 0, datum |-> 0, pos |-> 0,
            read_len |-> 0, head |-> [j \in 1..4 |-> Stale]]
    /\ size = 0
    /\ stream = Fresh
    /\ begun = <<>> /\ mark = 0

-----------------------------------------------------------------------------
\* conf->requests--, on an unsigned int.
Spend(r) ==
    [r EXCEPT !.requests = IF @ = 0 THEN ReqMod - 1 ELSE @ - 1]

\* The error exits: close_connection(), and start_connect() if the budget pays
\* for it, which may fail.
Drop(r) ==
    /\ \/ /\ conf.retry /\ r.requests > 0
          /\ c' = [Spend(r) EXCEPT !.state = "ST_CONNECTING"]
       \/ c' = [(IF conf.retry THEN Spend(r) ELSE r) EXCEPT
                    !.state = "ST_CLOSED"]
    /\ stream' = Fresh
    /\ mark' = Len(begun')
    /\ size' = 0

\* Mutant: the wrap of the index is looked for one too late.
NextIndex_Late(r) ==
    IF r.test_data_index = test_data_n THEN 0 ELSE r.test_data_index + 1

NextIndex(r) ==
    IF r.test_data_index + 1 = test_data_n THEN 0 ELSE r.test_data_index + 1

\* Mutant: a retry starts again with the first request.
MakeRequest_Restarts(r) ==
    IF conf.random
    THEN {[r EXCEPT !.datum = d, !.pos = 0] : d \in Datum}
    ELSE IF r.state = "ST_CONNECTING"
    THEN {[r EXCEPT !.datum = 0, !.pos = 0, !.test_data_index = 0]}
    ELSE {[r EXCEPT !.datum = r.test_data_index, !.pos = 0,
                    !.test_data_index = NextIndex(r)]}

\* make_request().
MakeRequest(r) ==
    IF conf.random
    THEN {[r EXCEPT !.datum = d, !.pos = 0] : d \in Datum}
    ELSE {[r EXCEPT !.datum = r.test_data_index, !.pos = 0,
                    !.test_data_index = NextIndex(r)]}

\* Mutant: a new connection goes on with what the old one had left to send.
Begin_Resumes(r) ==
    CASE r.state = "ST_CONNECTING" /\ begun # <<>> ->
            {[r EXCEPT !.state = "ST_SENDING"]}
      [] r.state = "ST_SENDING" -> {r}
      [] OTHER -> {[q EXCEPT !.state = "ST_SENDING"] : q \in MakeRequest(r)}

Begin(r) ==
    IF r.state = "ST_SENDING" THEN {r}
    ELSE {[q EXCEPT !.state = "ST_SENDING"] : q \in MakeRequest(r)}

\* Mutant: read_len is left as it was.
Sent_KeepsReadLen(r, n) ==
    IF r.pos + n = Length[r.datum + 1]
    THEN [r EXCEPT !.pos = @ + n, !.state = "ST_RECVING"]
    ELSE [r EXCEPT !.pos = @ + n]

\* send() has taken n bytes.
Sent(r, n) ==
    IF r.pos + n = Length[r.datum + 1]
    THEN [r EXCEPT !.pos = @ + n, !.state = "ST_RECVING", !.read_len = -4]
    ELSE [r EXCEPT !.pos = @ + n]

\* handle_send_event(): some of the request is taken, none of it (EAGAIN), or
\* send() fails because the server has closed.  k is what recv() has left.
HandleSend(r, k) ==
    \E q \in Begin(r) :
        /\ begun' = IF r.state = "ST_SENDING" THEN begun
                    ELSE Append(begun, q.datum)
        /\ \/ \E n \in 0..(Length[q.datum + 1] - q.pos) :
                 /\ c' = Sent(q, n)
                 /\ stream' = [k EXCEPT !.sent = @ \o
                        SubSeq(Request(q.datum), q.pos + 1, q.pos + n)]
                 /\ size' = 0
                 /\ UNCHANGED mark
           \/ k.fin /\ Drop(q)

\* handle_after_request(): the budget is spent, or the connection sleeps, or
\* goes on at once.
AfterRequest(r, k) ==
    IF r.requests = 0
    THEN /\ c' = [Spend(r) EXCEPT !.state = "ST_CLOSED"]
         /\ stream' = Fresh
         /\ mark' = Len(begun) /\ size' = 0
         /\ UNCHANGED begun
    ELSE IF conf.sleeps
    THEN /\ c' = [Spend(r) EXCEPT !.state = "ST_IDLE"]
         /\ stream' = k /\ size' = 0
         /\ UNCHANGED <<begun, mark>>
    ELSE HandleSend([Spend(r) EXCEPT !.state = "ST_IDLE"], k)

-----------------------------------------------------------------------------
\* EPOLLOUT while connecting or sending, the timer while sleeping.
SendEvent ==
    /\ size = 0
    /\ c.state \in {"ST_CONNECTING", "ST_SENDING", "ST_IDLE"}
    /\ HandleSend(c, stream)
    /\ UNCHANGED conf

\* EPOLLRDHUP or an error.
CloseEvent ==
    /\ size = 0 /\ c.state # "ST_CLOSED" /\ stream.fin
    /\ begun' = begun
    /\ Drop(c)
    /\ UNCHANGED conf

\* More than recv() ever returns: what a body that was interrupted is resumed
\* with, read_buf.end being NULL.
Endless == 2 * MaxBuf

\* EPOLLIN: handle_read_event() up to its loop.
ReadEvent ==
    /\ size = 0 /\ c.state = "ST_RECVING"
    /\ stream.in # <<>> \/ stream.fin
    /\ size' = IF c.read_len < 0 THEN -c.read_len ELSE Endless
    /\ UNCHANGED <<conf, c, stream, begun, mark>>

\* The head with n more bytes at its unread end.
Filled(n) ==
    LET got == 4 + c.read_len
    IN  [j \in 1..4 |-> IF j \in (got + 1)..(got + n) THEN stream.in[j - got]
                        ELSE c.head[j]]

\* What the head says.  Bytes of different responses make no sense together.
Decoded(head) ==
    IF \A j \in 1..4 : head[j] = <<head[1][1], j>> THEN stream.len ELSE 0

Rest(n) == SubSeq(stream.in, n + 1, Len(stream.in))

\* recv() returns less than it was asked for.
RecvSome ==
    LET n == Len(stream.in)
    IN  /\ size > n /\ n > 0
        /\ c' = IF c.read_len < 0
                THEN [c EXCEPT !.read_len = @ + n, !.head = Filled(n)]
                ELSE [c EXCEPT !.read_len = @ - n]
        /\ size' = IF size = Endless THEN size ELSE size - n
        /\ stream' = [stream EXCEPT !.in = <<>>]
        /\ UNCHANGED <<conf, begun, mark>>

\* Mutant: one byte less, as if the body had to end in a byte of its own.
BodySize_Short(len) == len - 5

\* The length in the head counts the head.
BodySize(len) == len - 4

\* The head is complete.
RecvHead ==
    LET head == Filled(size)
        len == Decoded(head)
    IN  /\ size > 0 /\ c.read_len < 0 /\ size <= Len(stream.in)
        /\ begun' = begun
        /\ IF len <= 4 \/ len >= MaxBuf
           THEN Drop([c EXCEPT !.head = head])
           ELSE /\ c' = [c EXCEPT !.head = head, !.read_len = len]
                /\ size' = BodySize(len)
                /\ stream' = [stream EXCEPT !.in = Rest(size)]
                /\ UNCHANGED mark
        /\ UNCHANGED conf

\* The body is complete.
RecvBody ==
    /\ size > 0 /\ c.read_len >= 0 /\ size <= Len(stream.in)
    /\ AfterRequest(c, [stream EXCEPT !.in = Rest(size)])
    /\ UNCHANGED conf

\* EAGAIN, the server's close, or an error.
RecvNone ==
    /\ size > 0 /\ stream.in = <<>>
    /\ \/ /\ ~stream.fin /\ size' = 0
          /\ UNCHANGED <<c, stream, begun, mark>>
       \/ /\ stream.fin
          /\ begun' = begun
          /\ Drop(c)
    /\ UNCHANGED conf

-----------------------------------------------------------------------------
(***************************************************************************)
(* The server.                                                             *)
(***************************************************************************)
\* It answers each request once it has the whole of it, with a length that may
\* be out of range.
Reply ==
    /\ c.state \notin {"ST_CLOSED", "ST_CONNECTING"} /\ ~stream.fin
    /\ c.pos = Length[c.datum + 1]
    /\ stream.replies < Len(begun) - mark
    /\ \E len \in 4..MaxBuf :
          stream' = [stream EXCEPT !.len = len, !.replies = @ + 1,
                                   !.due = @ \o Response(Len(begun), len)]
    /\ UNCHANGED <<conf, c, size, begun, mark>>

Arrive ==
    /\ stream.due # <<>> /\ ~stream.fin
    /\ stream' = [stream EXCEPT !.in = Append(@, Head(stream.due)),
                                !.due = Tail(@)]
    /\ UNCHANGED <<conf, c, size, begun, mark>>

Fin ==
    /\ c.state # "ST_CLOSED" /\ ~stream.fin
    /\ stream' = [stream EXCEPT !.fin = TRUE]
    /\ UNCHANGED <<conf, c, size, begun, mark>>

Next ==
    \/ SendEvent \/ CloseEvent \/ ReadEvent
    \/ RecvSome \/ RecvHead \/ RecvBody \/ RecvNone
    \/ Reply \/ Arrive \/ Fin

Spec == Init /\ [][Next]_exVars

-----------------------------------------------------------------------------
Byte == (0..(Requests + 1)) \X (0..MaxBuf)

\* Every variable has its type; the index stays inside the test data.
ExchangeTypeOK ==
    /\ conf \in [retry : BOOLEAN, random : BOOLEAN, sleeps : BOOLEAN]
    /\ c \in [state : State, requests : 0..(ReqMod - 1),
              test_data_index : Datum, datum : Datum, pos : Nat,
              read_len : Int, head : [1..4 -> Byte]]
    /\ size \in 0..Endless
    /\ begun \in Seq(Datum) /\ mark \in 0..Len(begun)
    /\ stream.in \in Seq(Byte) /\ stream.due \in Seq(Byte)
    /\ stream.len \in 0..MaxBuf /\ stream.fin \in BOOLEAN

\* What the server of this stream has got is whole requests, one after the
\* other, the last one up to where the buffer's pos stands: nothing of a request
\* that an earlier stream cut off is sent again or continued, nothing is sent
\* twice or left out.  A response is awaited only when its request is out.
WholeRequests ==
    LET mine == SubSeq(begun, mark + 1, Len(begun))
    IN  /\ stream.sent =
              IF mine = <<>> THEN <<>>
              ELSE FlattenSeq([j \in 1..(Len(mine) - 1) |-> Request(mine[j])])
                      \o SubSeq(Request(Last(mine)), 1, c.pos)
        /\ c.state \in {"ST_RECVING", "ST_IDLE"} => c.pos = Length[c.datum + 1]
        /\ c.state \in {"ST_RECVING", "ST_IDLE", "ST_SENDING"} =>
              mine # <<>> /\ c.datum = Last(mine)

\* Unless requests are chosen at random, each is followed by the next one of the
\* data, and the last by the first, over errors and retries too: one whose
\* exchange failed is tried again only in its turn.
InTurn ==
    ~conf.random =>
        \A j \in 1..Len(begun) :
            begun[j] = IF j = 1 \/ begun[j - 1] = test_data_n - 1 THEN 0
                       ELSE begun[j - 1] + 1

\* The part of the head that has been read is the front of the response to the
\* current request, byte by byte, in however many pieces it came and whatever
\* an earlier exchange or stream had left there.
HeadWhole ==
    c.state = "ST_RECVING" =>
        \A j \in 1..(IF c.read_len < 0 THEN 4 + c.read_len ELSE 4) :
            c.head[j] = <<Len(begun), j>>

\* What is still to be read belongs to the current request: while a response is
\* awaited its next byte is the one the connection stands at, and when a request
\* starts nothing of an earlier response is left.
InStep ==
    LET left == stream.in \o stream.due
    IN  CASE c.state \in {"ST_CONNECTING", "ST_IDLE", "ST_SENDING"} -> left = <<>>
          [] c.state = "ST_RECVING" /\ c.read_len < 0 /\ left # <<>> ->
                Head(left) = <<Len(begun), 5 + c.read_len>>
          [] c.state = "ST_RECVING" /\ c.read_len >= 0 /\ size \in 1..MaxBuf ->
                size = Len(left)
          [] OTHER -> TRUE
=============================================================================
