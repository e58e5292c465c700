---------------------------- MODULE ExchangeProofs -----------------------------
(***************************************************************************)
(* Theorems about Exchange, for any test data, budget and sizes.           *)
(***************************************************************************)
EXTENDS Exchange, SequenceTheorems, WellFoundedInduction, TLAPS

-----------------------------------------------------------------------------
(***************************************************************************)
(* The inductive invariant.                                                *)
(***************************************************************************)
Tag == Nat \X Nat

Client == [state : State, requests : Nat, test_data_index : Datum,
           datum : Datum, pos : Nat, read_len : Int, head : [1..4 -> Tag]]

Stream == [sent : Seq(Tag), len : 0..MaxBuf, in : Seq(Tag), due : Seq(Tag),
           replies : Nat, fin : BOOLEAN]

\* What the steps rely on of the types.
Types ==
    /\ c \in Client
    /\ stream \in Stream
    /\ size \in Nat
    /\ begun \in Seq(Datum) /\ mark \in Nat /\ mark <= Len(begun)

\* The request after the last one of b.
NextAfter(b) ==
    IF b = <<>> \/ b[Len(b)] = test_data_n - 1 THEN 0 ELSE b[Len(b)] + 1

Turn == ~conf.random => c.test_data_index = NextAfter(begun)

\* A request that is being sent has something left to send.
Unsent(r) ==
    r.state = "ST_SENDING" =>
        r.pos <= Length[r.datum + 1] /\ r.pos # Length[r.datum + 1]

\* What is to be read of stream k, in order, are the bytes of the response to
\* request b from the one after number at.
Numbered(k, b, at) ==
    /\ \A j \in 1..Len(k.in) : k.in[j] = <<b, at + j>>
    /\ \A j \in 1..Len(k.due) : k.due[j] = <<b, at + Len(k.in) + j>>

Left(k) == Len(k.in) + Len(k.due)

\* Requests on this stream the server has not started to answer.
Owed == Len(begun) - mark - stream.replies

\* No response is on its way, or wanted.
Quiet ==
    /\ size = 0 /\ Left(stream) = 0
    /\ c.state = "ST_IDLE" => Owed = 0
    /\ c.state = "ST_SENDING" => Owed = 1
    /\ c.state \in {"ST_CLOSED", "ST_CONNECTING"} =>
          mark = Len(begun) /\ stream.replies = 0

\* The first part of the head has been read.
InHead ==
    LET got == 4 + c.read_len
    IN  /\ got \in 0..3
        /\ size \in {0, -c.read_len}
        /\ \A j \in 1..got : c.head[j] = <<Len(begun), j>>
        /\ \/ Owed = 1 /\ got = 0 /\ Left(stream) = 0
           \/ /\ Owed = 0 /\ Numbered(stream, Len(begun), got)
              /\ got + Left(stream) = stream.len

\* The head has been read, and what is left is less than it says.
InBody ==
    /\ Owed = 0
    /\ size \in {0, Endless, Left(stream)}
    /\ Left(stream) <= c.read_len /\ c.read_len < MaxBuf
    /\ \A j \in 1..4 : c.head[j] = <<Len(begun), j>>

Awaited ==
    IF c.state # "ST_RECVING" THEN Quiet
    ELSE IF c.read_len < 0 THEN InHead ELSE InBody

XInv == Types /\ InTurn /\ Turn /\ Unsent(c) /\ Awaited

-----------------------------------------------------------------------------
(***************************************************************************)
(* The operators.                                                          *)
(***************************************************************************)
LEMMA Constants ==
    /\ test_data_n \in Nat \ {0} /\ 0 \in Datum /\ Datum \subseteq Nat
    /\ \A d \in Datum : Length[d + 1] \in Nat \ {0}
    /\ MaxBuf \in Nat /\ MaxBuf > 5 /\ Endless = 2 * MaxBuf
<1>1. Length \in Seq(Nat \ {0}) /\ Len(Length) > 0
  BY ExchangeAssumption
<1>2. Len(Length) \in Nat /\ Length \in [1..Len(Length) -> Nat \ {0}]
  BY <1>1, LenProperties
<1>3. ASSUME NEW d \in Datum PROVE d + 1 \in 1..Len(Length)
  BY <1>2 DEF Datum, test_data_n
<1>4. \A d \in Datum : Length[d + 1] \in Nat \ {0}
  BY <1>2, <1>3
<1>5. test_data_n \in Nat \ {0} /\ 0 \in Datum /\ Datum \subseteq Nat
  BY <1>1, <1>2 DEF Datum, test_data_n
<1>6. QED
  BY <1>4, <1>5, ExchangeAssumption DEF Endless

LEMMA SpendClient ==
    ASSUME NEW r \in Client
    PROVE  /\ Spend(r) \in Client
           /\ Spend(r).test_data_index = r.test_data_index
<1> DEFINE v == IF r.requests = 0 THEN ReqMod - 1 ELSE r.requests - 1
<1>1. v \in Nat
  BY ExchangeAssumption DEF Client
<1>2. Spend(r) = [r EXCEPT !.requests = v]
  BY DEF Spend, Client
<1> HIDE DEF v
<1>3. QED
  BY <1>1, <1>2 DEF Client

LEMMA NextIndexTurns ==
    ASSUME NEW r \in Client
    PROVE  /\ NextIndex(r) \in Datum
           /\ NextIndex(r) = IF r.test_data_index = test_data_n - 1 THEN 0
                             ELSE r.test_data_index + 1
<1>1. r.test_data_index \in Datum
  BY DEF Client
<1>2. QED
  BY <1>1, Constants DEF NextIndex, Datum

\* A request that is begun is sent from its start, and in turn.
LEMMA BeginSends ==
    ASSUME NEW r \in Client, NEW q \in Begin(r)
    PROVE  /\ q \in Client /\ q.state = "ST_SENDING"
           /\ r.state = "ST_SENDING" => q = r
           /\ r.state # "ST_SENDING" => q.pos = 0
           /\ r.state # "ST_SENDING" /\ ~conf.random =>
                 /\ q.datum = r.test_data_index
                 /\ q.test_data_index =
                       IF r.test_data_index = test_data_n - 1 THEN 0
                       ELSE r.test_data_index + 1
<1>1. CASE r.state = "ST_SENDING"
  BY <1>1 DEF Begin
<1>2. CASE r.state # "ST_SENDING"
  <2>1. PICK p \in MakeRequest(r) : q = [p EXCEPT !.state = "ST_SENDING"]
    BY <1>2 DEF Begin
  <2>2. CASE conf.random
    <3>1. PICK d \in Datum : p = [r EXCEPT !.datum = d, !.pos = 0]
      BY <2>1, <2>2 DEF MakeRequest
    <3>2. QED
      BY <1>2, <2>1, <2>2, <3>1 DEF Client, State
  <2>3. CASE ~conf.random
    <3>1. p = [r EXCEPT !.datum = r.test_data_index, !.pos = 0,
                        !.test_data_index = NextIndex(r)]
      BY <2>1, <2>3 DEF MakeRequest
    <3>2. r.test_data_index \in Datum
      BY DEF Client
    <3>3. p \in Client /\ p.pos = 0 /\ p.datum = r.test_data_index
            /\ p.test_data_index = NextIndex(r)
      BY <3>1, <3>2, NextIndexTurns DEF Client
    <3>4. q \in Client /\ q.state = "ST_SENDING" /\ q.pos = p.pos
            /\ q.datum = p.datum /\ q.test_data_index = p.test_data_index
      BY <2>1, <3>3 DEF Client, State
    <3>5. QED
      BY <1>2, <3>3, <3>4, NextIndexTurns
  <2>4. QED
    BY <2>2, <2>3
<1>3. QED
  BY <1>1, <1>2

LEMMA RequestIsSeq ==
    ASSUME NEW d \in Datum
    PROVE  Request(d) \in Seq(Tag)
<1> DEFINE n == Length[d + 1]
           e(j) == <<d, j>>
<1>1. n \in Nat /\ d \in Nat
  BY Constants
<1>2. \A j \in 1..n : e(j) \in Tag
  BY <1>1 DEF Tag
<1>3. [j \in 1..n |-> e(j)] \in Seq(Tag)
  <2> HIDE DEF n, e
  <2> QED
    BY <1>1, <1>2, IsASeq
<1>4. QED
  BY <1>3 DEF Request

LEMMA FreshStream ==
    /\ Fresh \in Stream /\ Left(Fresh) = 0
    /\ Fresh.replies = 0 /\ ~Fresh.fin
<1>1. <<>> \in Seq(Tag) /\ Len(<<>>) = 0
  BY EmptySeq
<1>2. 0 \in 0..MaxBuf
  BY Constants
<1>3. QED
  BY <1>1, <1>2 DEF Fresh, Stream, Left

LEMMA AppendInTurn ==
    ASSUME Types, InTurn, NEW d \in Datum, begun' = Append(begun, d),
           conf' = conf, ~conf.random => d = NextAfter(begun)
    PROVE  /\ InTurn'
           /\ begun' \in Seq(Datum) /\ Len(begun') = Len(begun) + 1
           /\ NextAfter(begun') = IF d = test_data_n - 1 THEN 0 ELSE d + 1
<1>1. /\ begun' \in Seq(Datum) /\ Len(begun') = Len(begun) + 1
      /\ begun' # <<>> /\ begun'[Len(begun) + 1] = d
      /\ \A j \in 1..Len(begun) : begun'[j] = begun[j]
  BY AppendProperties DEF Types
<1>2. Len(begun) \in Nat /\ (begun = <<>> => Len(begun) = 0)
        /\ (begun # <<>> => Len(begun) \in Nat \ {0})
  BY EmptySeq, LenProperties DEF Types
<1>3. NextAfter(begun') = IF d = test_data_n - 1 THEN 0 ELSE d + 1
  BY <1>1 DEF NextAfter
<1>4. InTurn'
  <2> SUFFICES ASSUME ~conf.random, NEW j \in 1..(Len(begun) + 1)
               PROVE  begun'[j] = IF j = 1 \/ begun'[j - 1] = test_data_n - 1
                                  THEN 0 ELSE begun'[j - 1] + 1
    BY <1>1 DEF InTurn
  <2>1. CASE j \in 1..Len(begun)
    <3>1. j = 1 \/ j - 1 \in 1..Len(begun)
      BY <2>1, <1>2
    <3>2. QED
      BY <1>1, <2>1, <3>1 DEF InTurn
  <2>2. CASE j = Len(begun) + 1
    <3>1. CASE begun = <<>>
      BY <1>1, <1>2, <2>2, <3>1 DEF NextAfter
    <3>2. CASE begun # <<>>
      <4>1. j # 1 /\ j - 1 = Len(begun) /\ Len(begun) \in 1..Len(begun)
        BY <1>2, <2>2, <3>2
      <4>2. QED
        BY <1>1, <2>2, <3>2, <4>1 DEF NextAfter
    <3>3. QED
      BY <3>1, <3>2
  <2>3. QED
    BY <1>2, <2>1, <2>2
<1>5. QED
  BY <1>1, <1>3, <1>4

\* An error exit leaves a connection of which nothing is wanted.
LEMMA DropKeeps ==
    ASSUME NEW r \in Client, Drop(r), begun' \in Seq(Datum), InTurn',
           ~conf.random => r.test_data_index = NextAfter(begun'), conf' = conf
    PROVE  XInv'
<1> DEFINE q == IF conf.retry THEN Spend(r) ELSE r
<1>1. q \in Client /\ q.test_data_index = r.test_data_index
  BY SpendClient
<1>2. PICK st \in {"ST_CONNECTING", "ST_CLOSED"} :
         c' = [q EXCEPT !.state = st]
  BY DEF Drop
<1>3. stream' = Fresh /\ mark' = Len(begun') /\ size' = 0
  BY DEF Drop
<1> HIDE DEF q
<1>4. /\ c' \in Client /\ c'.test_data_index = r.test_data_index
      /\ c'.state \in {"ST_CONNECTING", "ST_CLOSED"}
  BY <1>1, <1>2 DEF Client, State
<1>5. Len(begun') \in Nat
  BY LenProperties
<1>6. Types'
  BY <1>3, <1>4, <1>5, FreshStream DEF Types
<1>7. Turn' /\ Unsent(c)'
  BY <1>4 DEF Turn, NextAfter, Unsent
<1>8. Awaited'
  BY <1>3, <1>4, FreshStream DEF Awaited, Quiet, Left
<1>9. QED
  BY <1>6, <1>7, <1>8 DEF XInv
\* send() has taken some of the request: either all of it, and a head is
\* awaited, or there is more to send.
LEMMA SentIs ==
    ASSUME NEW q \in Client, q.state = "ST_SENDING",
           NEW n \in 0..(Length[q.datum + 1] - q.pos)
    PROVE  LET z == Sent(q, n)
           IN  /\ z \in Client /\ z.test_data_index = q.test_data_index
               /\ Unsent(z)
               /\ \/ z.state = "ST_RECVING" /\ z.read_len = -4
                  \/ z.state = "ST_SENDING"
<1> DEFINE L == Length[q.datum + 1]
           w == q.pos + n
<1>0. q.datum \in Datum /\ q.pos \in Nat
  BY DEF Client
<1>1. L \in Nat /\ q.pos \in Nat /\ w \in Nat /\ w <= L
  <2>1. L \in Nat
    BY <1>0, Constants, Zenon
  <2>2. n \in 0..(L - q.pos)
    OBVIOUS
  <2> HIDE DEF L
  <2>3. QED
    BY <1>0, <2>1, <2>2
<1>2. Sent(q, n) = IF w = L
                   THEN [q EXCEPT !.pos = w, !.state = "ST_RECVING",
                                  !.read_len = -4]
                   ELSE [q EXCEPT !.pos = w]
  BY DEF Sent, Client
<1>3. Length[q.datum + 1] = L
  OBVIOUS
<1> HIDE DEF L, w
<1>4. CASE w = L
  <2>1. Sent(q, n) = [q EXCEPT !.pos = w, !.state = "ST_RECVING",
                              !.read_len = -4]
    BY <1>2, <1>4
  <2>2. -4 \in Int
    OBVIOUS
  <2>3. QED
    BY <1>1, <2>1, <2>2 DEF Client, State, Unsent
<1>5. CASE w # L
  BY <1>1, <1>2, <1>3, <1>5 DEF Client, State, Unsent
<1>6. QED
  BY <1>4, <1>5

LEMMA HandleSendKeeps ==
    ASSUME Types, InTurn, Turn,
           NEW r \in Client, Unsent(r),
           r.state \in {"ST_CONNECTING", "ST_SENDING", "ST_IDLE"},
           r.test_data_index = c.test_data_index,
           NEW k \in Stream, Left(k) = 0,
           Len(begun) - mark - k.replies =
               IF r.state = "ST_SENDING" THEN 1 ELSE 0,
           HandleSend(r, k), conf' = conf
    PROVE  XInv'
<1>1. PICK q \in Begin(r) :
        /\ begun' = IF r.state = "ST_SENDING" THEN begun
                    ELSE Append(begun, q.datum)
        /\ \/ \E n \in 0..(Length[q.datum + 1] - q.pos) :
                 /\ c' = Sent(q, n)
                 /\ stream' = [k EXCEPT !.sent = @ \o
                        SubSeq(Request(q.datum), q.pos + 1, q.pos + n)]
                 /\ size' = 0
                 /\ UNCHANGED mark
           \/ k.fin /\ Drop(q)
  BY DEF HandleSend
<1>2. /\ q \in Client /\ q.state = "ST_SENDING" /\ q.datum \in Datum
      /\ r.state = "ST_SENDING" => q = r
  BY BeginSends DEF Client
<1>3. Len(begun) \in Nat /\ mark \in Nat /\ k.replies \in Nat
  BY LenProperties DEF Types, Stream
<1>4. /\ begun' \in Seq(Datum) /\ InTurn'
      /\ ~conf.random => q.test_data_index = NextAfter(begun')
      /\ Len(begun') - mark - k.replies = 1
      /\ mark <= Len(begun')
  <2>1. CASE r.state = "ST_SENDING"
    <3>1. begun' = begun /\ q = r
      BY <1>1, <1>2, <2>1
    <3>2. QED
      BY <2>1, <3>1 DEF Types, InTurn, Turn
  <2>2. CASE r.state # "ST_SENDING"
    <3>1. begun' = Append(begun, q.datum)
      BY <1>1, <2>2
    <3>2. ~conf.random => q.datum = NextAfter(begun)
      BY <2>2, BeginSends DEF Turn
    <3>3. /\ InTurn'
          /\ begun' \in Seq(Datum) /\ Len(begun') = Len(begun) + 1
          /\ NextAfter(begun') = IF q.datum = test_data_n - 1 THEN 0
                                 ELSE q.datum + 1
      BY <1>2, <3>1, <3>2, AppendInTurn
    <3>4. ~conf.random => q.test_data_index = NextAfter(begun')
      BY <2>2, <3>3, BeginSends
    <3>5. QED
      BY <1>3, <2>2, <3>3, <3>4 DEF Types
  <2>3. QED
    BY <2>1, <2>2
<1>5. CASE k.fin /\ Drop(q)
  BY <1>2, <1>4, <1>5, DropKeeps
<1>6. ASSUME NEW n \in 0..(Length[q.datum + 1] - q.pos),
             c' = Sent(q, n),
             stream' = [k EXCEPT !.sent = @ \o
                          SubSeq(Request(q.datum), q.pos + 1, q.pos + n)],
             size' = 0, mark' = mark
      PROVE  XInv'
  <2> DEFINE R == Request(q.datum)
             more == SubSeq(R, q.pos + 1, q.pos + n)
  <2>1. q.pos \in Nat /\ Length[q.datum + 1] \in Nat /\ n \in Nat
    <3>1. q.pos \in Nat
      BY <1>2 DEF Client
    <3>2. Length[q.datum + 1] \in Nat
      BY <1>2, Constants, Zenon
    <3>3. QED
      BY <3>1, <3>2
  <2>2. R \in Seq(Tag) /\ Len(R) = Length[q.datum + 1]
    BY <1>2, <2>1, RequestIsSeq DEF Request
  <2>3. \A j \in (q.pos + 1)..(q.pos + n) : R[j] \in Tag
    <3> HIDE DEF R
    <3> QED
      BY <2>1, <2>2, LenProperties
  <2>4. more \in Seq(Tag)
    <3> HIDE DEF R
    <3>1. q.pos + 1 \in Int /\ q.pos + n \in Int
      BY <2>1
    <3>2. QED
      BY <2>3, <3>1, SubSeqProperties
  <2>5. k.sent \o more \in Seq(Tag)
    <3> HIDE DEF more
    <3> QED
      BY <2>4, ConcatProperties DEF Stream
  <2>6. stream' = [k EXCEPT !.sent = k.sent \o more]
    BY <1>6 DEF Stream
  <2>7. /\ stream' \in Stream /\ Left(stream') = 0
        /\ stream'.replies = k.replies
    <3> HIDE DEF more
    <3> QED
      BY <2>5, <2>6 DEF Stream, Left
  <2>8. /\ c' \in Client /\ c'.test_data_index = q.test_data_index
        /\ Unsent(c')
        /\ \/ c'.state = "ST_RECVING" /\ c'.read_len = -4
           \/ c'.state = "ST_SENDING"
    BY <1>2, <1>6, SentIs
  <2>9. Types' /\ Turn' /\ Unsent(c)'
    BY <1>3, <1>4, <1>6, <2>7, <2>8 DEF Types, Turn, NextAfter, Unsent
  <2>10. Owed' = 1 /\ Left(stream)' = 0 /\ size' = 0
    BY <1>4, <1>6, <2>7 DEF Owed, Left
  <2>11. Awaited'
    BY <2>8, <2>10 DEF Awaited, Quiet, InHead
  <2>12. QED
    BY <1>4, <2>9, <2>11 DEF XInv
<1>7. QED
  BY <1>1, <1>5, <1>6

-----------------------------------------------------------------------------
(***************************************************************************)
(* The steps.                                                              *)
(***************************************************************************)
LEMMA StreamLens ==
    ASSUME NEW k \in Stream
    PROVE  /\ Len(k.in) \in Nat /\ Len(k.due) \in Nat /\ Left(k) \in Nat
           /\ k.in # <<>> => Len(k.in) > 0
           /\ k.due # <<>> => Len(k.due) > 0
           /\ k.len \in Nat /\ k.len <= MaxBuf /\ k.replies \in Nat
<1>1. k.in \in Seq(Tag) /\ k.due \in Seq(Tag) /\ k.len \in 0..MaxBuf
        /\ k.replies \in Nat
  BY DEF Stream
<1>2. Len(k.in) \in Nat /\ (k.in # <<>> => Len(k.in) \in Nat \ {0})
  BY <1>1, EmptySeq, LenProperties
<1>3. Len(k.due) \in Nat /\ (k.due # <<>> => Len(k.due) \in Nat \ {0})
  BY <1>1, EmptySeq, LenProperties
<1>4. Left(k) \in Nat
  <2>1. \A a, b \in Nat : a + b \in Nat
    OBVIOUS
  <2>2. QED
    BY <1>2, <1>3, <2>1, Zenon DEF Left
<1>5. \A a \in Nat \ {0} : a > 0
  OBVIOUS
<1>6. k.len \in Nat /\ k.len <= MaxBuf
  BY <1>1, Constants
<1>7. QED
  BY <1>1, <1>2, <1>3, <1>4, <1>5, <1>6, Zenon

\* What arrives goes to the unread end of the head.
LEMMA FilledIs ==
    ASSUME XInv, c.state = "ST_RECVING", c.read_len < 0,
           NEW n \in Nat, n > 0, n <= Len(stream.in), n <= -c.read_len
    PROVE  /\ Filled(n) \in [1..4 -> Tag]
           /\ \A j \in 1..(4 + c.read_len + n) : Filled(n)[j] = <<Len(begun), j>>
           /\ Owed = 0
           /\ Numbered(stream, Len(begun), 4 + c.read_len)
           /\ 4 + c.read_len + Left(stream) = stream.len
<1> DEFINE got == 4 + c.read_len
<1>1. InHead /\ Types
  BY DEF XInv, Awaited
<1>2. /\ c.read_len \in Int /\ got \in 0..3
      /\ c.head \in [1..4 -> Tag] /\ stream.in \in Seq(Tag)
      /\ Len(stream.in) \in Nat /\ Len(stream.due) \in Nat
  BY <1>1, StreamLens DEF Types, Client, Stream, InHead
<1>3. Owed = 0 /\ Numbered(stream, Len(begun), got)
        /\ got + Left(stream) = stream.len
  <2>1. \A a, b \in Nat : n <= a => a + b # 0
    OBVIOUS
  <2>2. Left(stream) # 0
    BY <1>2, <2>1, Zenon DEF Left
  <2>3. QED
    BY <1>1, <2>2 DEF InHead
<1>4. Filled(n) = [j \in 1..4 |-> IF j \in (got + 1)..(got + n)
                                THEN stream.in[j - got] ELSE c.head[j]]
  BY DEF Filled
<1>5. \A j \in (got + 1)..(got + n) :
         j - got \in 1..Len(stream.in) /\ got + (j - got) = j
  BY <1>2
<1>6. \A j \in 1..Len(stream.in) : stream.in[j] \in Tag
  BY <1>2, LenProperties
<1>7. \A j \in 1..got : c.head[j] = <<Len(begun), j>>
  BY <1>1 DEF InHead
<1>8. \A j \in 1..(got + n) : j \in (got + 1)..(got + n) \/ j \in 1..got
  BY <1>2
<1>9. got + n \in 1..4
  BY <1>2
<1>10. Filled(n) \in [1..4 -> Tag]
  BY <1>2, <1>4, <1>5, <1>6
<1>11. ASSUME NEW j \in 1..(got + n) PROVE Filled(n)[j] = <<Len(begun), j>>
  <2>1. j \in 1..4
    BY <1>9
  <2>2. CASE j \in (got + 1)..(got + n)
    <3>1. Filled(n)[j] = stream.in[j - got]
      BY <1>4, <2>1, <2>2
    <3>2. stream.in[j - got] = <<Len(begun), got + (j - got)>>
      BY <1>3, <1>5, <2>2 DEF Numbered
    <3>3. QED
      BY <1>5, <2>2, <3>1, <3>2
  <2>3. CASE j \notin (got + 1)..(got + n)
    <3>1. Filled(n)[j] = c.head[j] /\ j \in 1..got
      BY <1>4, <1>8, <2>1, <2>3
    <3>2. QED
      BY <1>7, <3>1
  <2>4. QED
    BY <2>2, <2>3
<1>12. QED
  BY <1>3, <1>10, <1>11

LEMMA RestIs ==
    ASSUME Types, NEW n \in Nat, n <= Len(stream.in)
    PROVE  /\ Rest(n) \in Seq(Tag) /\ Len(Rest(n)) = Len(stream.in) - n
<1> DEFINE s == stream.in
           m == Len(s)
<1>1. s \in Seq(Tag) /\ m \in Nat
  BY LenProperties DEF Types, Stream
<1>2. \A j \in (n + 1)..m : s[j] \in Tag
  BY <1>1, LenProperties
<1>3. n + 1 \in Int /\ m \in Int
  BY <1>1
<1> HIDE DEF s, m
<1>4. /\ SubSeq(s, n + 1, m) \in Seq(Tag)
      /\ Len(SubSeq(s, n + 1, m)) = IF n + 1 <= m THEN m - (n + 1) + 1 ELSE 0
  BY <1>2, <1>3, SubSeqProperties
<1>5. QED
  BY <1>1, <1>4 DEF s, m, Rest

LEMMA InitXInv == Init => XInv
<1> SUFFICES ASSUME Init PROVE XInv
  OBVIOUS
<1>1. begun = <<>> /\ begun \in Seq(Datum) /\ Len(begun) = 0
  BY EmptySeq DEF Init
<1>2. c \in Client /\ c.state = "ST_CONNECTING" /\ c.test_data_index = 0
  BY Constants, ExchangeAssumption DEF Init, Client, State, Tag, Stale
<1>3. stream \in Stream /\ Left(stream) = 0 /\ stream.replies = 0
  BY FreshStream DEF Init
<1>4. Types
  BY <1>1, <1>2, <1>3 DEF Init, Types
<1>5. InTurn /\ Turn /\ Unsent(c)
  BY <1>1, <1>2 DEF InTurn, Turn, NextAfter, Unsent
<1>6. Awaited
  BY <1>1, <1>2, <1>3 DEF Init, Awaited, Quiet
<1>7. QED
  BY <1>4, <1>5, <1>6 DEF XInv

LEMMA SendEventKeeps == XInv /\ SendEvent => XInv'
<1> SUFFICES ASSUME XInv, SendEvent PROVE XInv'
  OBVIOUS
<1>1. Types /\ InTurn /\ Turn /\ Unsent(c) /\ Quiet
  BY DEF XInv, Awaited, SendEvent
<1>2. c \in Client /\ stream \in Stream /\ Left(stream) = 0
  BY <1>1 DEF Types, Quiet
<1>3. Len(begun) \in Nat
  BY <1>1, LenProperties DEF Types
<1>4. c.state \in {"ST_CONNECTING", "ST_SENDING", "ST_IDLE"}
        /\ HandleSend(c, stream) /\ conf' = conf
  BY DEF SendEvent
<1>5. Len(begun) - mark - stream.replies =
         IF c.state = "ST_SENDING" THEN 1 ELSE 0
  BY <1>1, <1>3, <1>4 DEF Quiet, Owed
<1>6. QED
  BY <1>1, <1>2, <1>4, <1>5, HandleSendKeeps

LEMMA DropFrom ==
    ASSUME XInv, NEW r \in Client, r.test_data_index = c.test_data_index,
           Drop(r), begun' = begun, conf' = conf
    PROVE  XInv'
<1>1. begun' \in Seq(Datum) /\ InTurn'
  BY DEF XInv, Types, InTurn
<1>2. ~conf.random => r.test_data_index = NextAfter(begun')
  BY DEF XInv, Turn
<1>3. QED
  BY <1>1, <1>2, DropKeeps

LEMMA CloseEventKeeps == XInv /\ CloseEvent => XInv'
BY DropFrom DEF CloseEvent, XInv, Types

LEMMA ReadEventKeeps == XInv /\ ReadEvent => XInv'
<1> SUFFICES ASSUME XInv, ReadEvent PROVE XInv'
  OBVIOUS
<1> USE DEF ReadEvent
<1>1. c.read_len \in Int
  BY DEF XInv, Types, Client
<1>2. size' \in Nat
  BY <1>1, Constants
<1>3. Types' /\ InTurn' /\ Turn' /\ Unsent(c)'
  BY <1>2 DEF XInv, Types, InTurn, Turn, NextAfter, Unsent
<1>4. Owed' = Owed /\ Left(stream)' = Left(stream)
  BY DEF Owed, Left
<1>5. Awaited'
  <2>1. CASE c.read_len < 0
    BY <1>4, <2>1 DEF XInv, Awaited, InHead, Numbered
  <2>2. CASE ~(c.read_len < 0)
    BY <1>4, <2>2 DEF XInv, Awaited, InBody
  <2>3. QED
    BY <2>1, <2>2
<1>6. QED
  BY <1>3, <1>5 DEF XInv
\* While handle_read_event() runs a response is awaited.
LEMMA ReadingAwaits ==
    ASSUME XInv, size > 0
    PROVE  /\ c.state = "ST_RECVING"
           /\ c \in Client /\ stream \in Stream /\ c.read_len \in Int
           /\ c.read_len < 0 => InHead
           /\ ~(c.read_len < 0) => InBody
BY DEF XInv, Types, Client, Awaited, Quiet

LEMMA RecvSomeKeeps == XInv /\ RecvSome => XInv'
<1> SUFFICES ASSUME XInv, RecvSome PROVE XInv'
  OBVIOUS
<1> DEFINE n == Len(stream.in)
           m == Len(stream.due)
<1>1. /\ size > n /\ n > 0 /\ size \in Nat
      /\ n \in Nat /\ m \in Nat /\ Left(stream) = n + m
      /\ begun' = begun /\ mark' = mark /\ conf' = conf
      /\ size' = IF size = Endless THEN size ELSE size - n
      /\ stream' = [stream EXCEPT !.in = <<>>]
  BY StreamLens DEF XInv, Types, RecvSome, Left
<1>2. /\ c.state = "ST_RECVING" /\ c \in Client /\ stream \in Stream
      /\ c.read_len \in Int
      /\ c.read_len < 0 => InHead
      /\ ~(c.read_len < 0) => InBody
  BY <1>1, ReadingAwaits
<1>3. /\ stream' \in Stream /\ stream'.in = <<>> /\ Len(stream'.in) = 0
      /\ stream'.due = stream.due /\ stream'.len = stream.len
      /\ stream'.replies = stream.replies
  BY <1>1, <1>2, EmptySeq DEF Stream
<1>4. Left(stream') = m
  BY <1>1, <1>3 DEF Left
<1>5. Owed' = Owed
  BY <1>1, <1>3 DEF Owed
<1> HIDE DEF n, m
<1>6. size' \in Nat
  BY <1>1
<1>7. CASE c.read_len < 0
  <2>1. size = -c.read_len
    BY <1>1, <1>2, <1>7 DEF InHead
  <2>2. c' = [c EXCEPT !.read_len = @ + n, !.head = Filled(n)]
    BY <1>7 DEF RecvSome, n
  <2>3. /\ Filled(n) \in [1..4 -> Tag]
        /\ \A j \in 1..(4 + c.read_len + n) : Filled(n)[j] = <<Len(begun), j>>
        /\ Owed = 0
        /\ Numbered(stream, Len(begun), 4 + c.read_len)
        /\ 4 + c.read_len + Left(stream) = stream.len
    <3>1. n <= Len(stream.in) /\ n <= -c.read_len
      BY <1>1, <1>2, <2>1 DEF n
    <3>2. QED
      BY <1>1, <1>2, <1>7, <3>1, FilledIs
  <2>4. /\ c' \in Client /\ c'.state = "ST_RECVING"
        /\ c'.test_data_index = c.test_data_index
        /\ c'.read_len = c.read_len + n /\ c'.head = Filled(n)
    <3> DEFINE v == c.read_len + n
               f == Filled(n)
    <3>1. v \in Int /\ f \in [1..4 -> Tag]
      BY <1>1, <1>2, <2>3
    <3>2. c' = [c EXCEPT !.read_len = v, !.head = f]
      BY <1>2, <2>2 DEF Client
    <3> HIDE DEF v, f
    <3>3. /\ c' \in Client /\ c'.state = c.state
          /\ c'.test_data_index = c.test_data_index
          /\ c'.read_len = v /\ c'.head = f
      BY <1>2, <3>1, <3>2 DEF Client
    <3>4. QED
      BY <1>2, <3>3 DEF v, f
  <2>5. c'.read_len < 0 /\ 4 + c'.read_len \in 0..3
    <3>1. 4 + c.read_len \in 0..3
      BY <1>2, <1>7 DEF InHead
    <3>2. QED
      BY <1>1, <1>2, <2>1, <2>4, <3>1
  <2>6. size' = -c'.read_len
    <3>1. size # Endless
      <4>1. 4 + c.read_len \in 0..3
        BY <1>2, <1>7 DEF InHead
      <4>2. QED
        BY <1>2, <2>1, <4>1, Constants
    <3>2. QED
      BY <1>1, <1>2, <2>1, <2>4, <3>1
  <2>7. Numbered(stream', Len(begun), 4 + c'.read_len)
    <3>1. \A j \in 1..m : stream.due[j] = <<Len(begun), 4 + c.read_len + n + j>>
      BY <2>3, Zenon DEF Numbered, n, m
    <3>2. \A j \in 1..m : 4 + c'.read_len + 0 + j = 4 + c.read_len + n + j
      BY <1>1, <1>2, <2>4
    <3>3. \A j \in 1..m : stream'.due[j] = <<Len(begun), 4 + c'.read_len + 0 + j>>
      BY <1>3, <3>1, <3>2, Zenon
    <3>4. \A j : j \notin 1..0
      OBVIOUS
    <3>5. QED
      BY <1>3, <3>3, <3>4, Zenon DEF Numbered, m
  <2>8. 4 + c'.read_len + Left(stream') = stream'.len
    BY <1>1, <1>2, <1>3, <1>4, <2>3, <2>4
  <2>9. \A j \in 1..(4 + c'.read_len) : c'.head[j] = <<Len(begun), j>>
    <3>1. 4 + c'.read_len = 4 + c.read_len + n
      BY <1>1, <1>2, <2>4
    <3>2. QED
      BY <2>3, <2>4, <3>1
  <2>10. InHead'
    BY <1>1, <1>5, <2>3, <2>5, <2>6, <2>7, <2>8, <2>9 DEF InHead, Numbered, Left
  <2>11. Types' /\ InTurn' /\ Turn' /\ Unsent(c)'
    BY <1>1, <1>3, <1>6, <2>4
       DEF XInv, Types, InTurn, Turn, NextAfter, Unsent
  <2>12. QED
    BY <2>4, <2>5, <2>10, <2>11 DEF XInv, Awaited
<1>8. CASE ~(c.read_len < 0)
  <2>1. c' = [c EXCEPT !.read_len = @ - n]
    BY <1>8 DEF RecvSome, n
  <2>2. /\ size \in {Endless, n + m} /\ n + m <= c.read_len
        /\ c.read_len < MaxBuf /\ Owed = 0
        /\ \A j \in 1..4 : c.head[j] = <<Len(begun), j>>
    BY <1>1, <1>2, <1>8 DEF InBody
  <2>3. /\ c' \in Client /\ c'.state = "ST_RECVING"
        /\ c'.test_data_index = c.test_data_index
        /\ c'.read_len = c.read_len - n /\ c'.head = c.head
    BY <1>1, <1>2, <2>1 DEF Client
  <2>4. /\ ~(c'.read_len < 0) /\ m <= c'.read_len /\ c'.read_len < MaxBuf
    BY <1>1, <1>2, <2>2, <2>3, Constants
  <2>5. size' \in {Endless, m}
    BY <1>1, <2>2
  <2>6. InBody'
    BY <1>1, <1>4, <1>5, <2>2, <2>3, <2>4, <2>5 DEF InBody, Left, Endless
  <2>7. Types' /\ InTurn' /\ Turn' /\ Unsent(c)'
    BY <1>1, <1>3, <1>6, <2>3
       DEF XInv, Types, InTurn, Turn, NextAfter, Unsent
  <2>8. QED
    BY <2>3, <2>4, <2>6, <2>7 DEF XInv, Awaited
<1>9. QED
  BY <1>7, <1>8

LEMMA RecvHeadKeeps == XInv /\ RecvHead => XInv'
<1> SUFFICES ASSUME XInv, RecvHead PROVE XInv'
  OBVIOUS
<1> DEFINE n == Len(stream.in)
           m == Len(stream.due)
           head == Filled(size)
           len == Decoded(head)
<1>1. /\ size > 0 /\ c.read_len < 0 /\ size <= n /\ size \in Nat
      /\ n \in Nat /\ m \in Nat /\ Left(stream) = n + m
      /\ begun' = begun /\ conf' = conf
      /\ IF len <= 4 \/ len >= MaxBuf
         THEN Drop([c EXCEPT !.head = head])
         ELSE /\ c' = [c EXCEPT !.head = head, !.read_len = len]
              /\ size' = BodySize(len)
              /\ stream' = [stream EXCEPT !.in = Rest(size)]
              /\ mark' = mark
  BY StreamLens DEF XInv, Types, RecvHead, Left
<1>2. /\ c.state = "ST_RECVING" /\ c \in Client /\ stream \in Stream
      /\ c.read_len \in Int /\ InHead
  BY <1>1, ReadingAwaits
<1>3. size = -c.read_len /\ 4 + c.read_len + size = 4
  BY <1>1, <1>2 DEF InHead
<1> HIDE DEF m
<1>4. /\ head \in [1..4 -> Tag]
      /\ \A j \in 1..4 : head[j] = <<Len(begun), j>>
      /\ Owed = 0
      /\ 4 + c.read_len + (n + m) = stream.len
  <2>1. size <= -c.read_len /\ size <= Len(stream.in)
    BY <1>1, <1>2, <1>3
  <2>2. /\ Filled(size) \in [1..4 -> Tag]
        /\ \A j \in 1..(4 + c.read_len + size) :
              Filled(size)[j] = <<Len(begun), j>>
        /\ Owed = 0
        /\ 4 + c.read_len + Left(stream) = stream.len
    BY <1>1, <1>2, <2>1, FilledIs
  <2> HIDE DEF n
  <2>3. QED
    BY <1>1, <1>3, <2>2, Zenon
<1>5. len = stream.len /\ len \in Nat
  <2>1. \A j \in 1..4 : head[j] = <<head[1][1], j>>
    BY <1>4
  <2> HIDE DEF head
  <2>2. QED
    BY <1>2, <2>1, StreamLens DEF Decoded
<1> HIDE DEF head, len, n
<1>6. CASE len <= 4 \/ len >= MaxBuf
  <2>1. [c EXCEPT !.head = head] \in Client
    BY <1>2, <1>4 DEF Client
  <2>2. [c EXCEPT !.head = head].test_data_index = c.test_data_index
    BY <1>2 DEF Client
  <2>3. QED
    BY <1>1, <1>6, <2>1, <2>2, DropFrom
<1>7. CASE ~(len <= 4 \/ len >= MaxBuf)
  <2>1. /\ c' = [c EXCEPT !.head = head, !.read_len = len]
        /\ size' = len - 4
        /\ stream' = [stream EXCEPT !.in = Rest(size)]
        /\ mark' = mark
    BY <1>1, <1>7 DEF BodySize
  <2>2. len > 4 /\ len < MaxBuf /\ size' \in Nat
    BY <1>5, <1>7, <2>1, Constants
  <2>3. /\ c' \in Client /\ c'.state = "ST_RECVING"
        /\ c'.test_data_index = c.test_data_index
        /\ c'.read_len = len /\ c'.head = head
    <3>1. len \in Int
      BY <1>5
    <3>2. QED
      BY <1>2, <1>4, <2>1, <3>1 DEF Client
  <2>4. Rest(size) \in Seq(Tag) /\ Len(Rest(size)) = n - size
    BY <1>1, RestIs DEF XInv, n
  <2>5. /\ stream' \in Stream /\ stream'.in = Rest(size)
        /\ stream'.due = stream.due /\ stream'.replies = stream.replies
    BY <1>2, <2>1, <2>4 DEF Stream
  <2>6. Left(stream') = (n - size) + m
    BY <2>4, <2>5 DEF Left, m
  <2>7. Left(stream') = len - 4
    <3>1. 4 + c.read_len + (n + m) = len
      BY <1>4, <1>5
    <3>2. QED
      BY <1>1, <1>2, <1>3, <1>5, <2>6, <3>1
  <2>8. Owed' = 0
    BY <1>1, <1>4, <2>1, <2>5 DEF Owed
  <2>9. InBody'
    BY <1>1, <1>4, <1>5, <2>1, <2>2, <2>3, <2>7, <2>8
       DEF InBody, Left, Endless
  <2>10. Types' /\ InTurn' /\ Turn' /\ Unsent(c)'
    BY <1>1, <2>1, <2>2, <2>3, <2>5
       DEF XInv, Types, InTurn, Turn, NextAfter, Unsent
  <2>11. QED
    BY <1>5, <2>2, <2>3, <2>9, <2>10 DEF XInv, Awaited
<1>8. QED
  BY <1>6, <1>7

LEMMA RecvBodyKeeps == XInv /\ RecvBody => XInv'
<1> SUFFICES ASSUME XInv, RecvBody PROVE XInv'
  OBVIOUS
<1> DEFINE n == Len(stream.in)
           m == Len(stream.due)
           k == [stream EXCEPT !.in = Rest(size)]
           r == Spend(c)
<1>1. /\ size > 0 /\ ~(c.read_len < 0) /\ size <= n /\ size \in Nat
      /\ n \in Nat /\ m \in Nat /\ Left(stream) = n + m
      /\ AfterRequest(c, k) /\ conf' = conf
  <2>1. c.read_len >= 0 /\ size > 0 /\ size <= n /\ AfterRequest(c, k)
          /\ conf' = conf
    BY DEF RecvBody
  <2>2. c.read_len \in Int /\ size \in Nat /\ stream \in Stream
    BY DEF XInv, Types, Client
  <2>3. n \in Nat /\ m \in Nat /\ Left(stream) = n + m
    BY <2>2, StreamLens DEF Left
  <2>4. ~(c.read_len < 0)
    <3> HIDE DEF n, m, k
    <3> QED
      BY <2>1, <2>2
  <2>5. QED
    BY <2>1, <2>2, <2>3, <2>4, Zenon
<1>2. /\ c.state = "ST_RECVING" /\ c \in Client /\ stream \in Stream
      /\ c.read_len \in Int /\ InBody
  BY <1>1, ReadingAwaits, Zenon
<1>3. /\ Rest(size) \in Seq(Tag) /\ Len(Rest(size)) = n - size
  BY <1>1, RestIs DEF XInv
<1>4. /\ k \in Stream /\ k.in = Rest(size) /\ k.due = stream.due
      /\ k.replies = stream.replies
  BY <1>2, <1>3 DEF Stream
<1>5. Left(k) = (n - size) + m
  <2> HIDE DEF k
  <2> QED
    BY <1>3, <1>4 DEF Left
<1> HIDE DEF n, m, k
<1>6. Left(k) = 0
  <2>1. size \in {0, Endless, n + m} /\ n + m <= c.read_len
          /\ c.read_len < MaxBuf
    BY <1>1, <1>2 DEF InBody
  <2>2. size = n + m
    BY <1>1, <1>2, <2>1, Constants
  <2>3. QED
    BY <1>1, <1>5, <2>2
<1>7. Owed = 0
  BY <1>2 DEF InBody
<1>8. /\ r \in Client /\ r.test_data_index = c.test_data_index
  BY <1>2, SpendClient
<1>9. Len(begun) \in Nat
  BY LenProperties DEF XInv, Types
<1> HIDE DEF r
<1>10. CASE c.requests = 0
  <2>1. /\ c' = [r EXCEPT !.state = "ST_CLOSED"]
        /\ stream' = Fresh /\ mark' = Len(begun) /\ size' = 0
        /\ begun' = begun
    BY <1>1, <1>10 DEF AfterRequest, r
  <2>2. /\ c' \in Client /\ c'.state = "ST_CLOSED"
        /\ c'.test_data_index = c.test_data_index
    BY <1>8, <2>1 DEF Client, State
  <2>3. Types' /\ InTurn' /\ Turn' /\ Unsent(c)'
    BY <1>1, <1>9, <2>1, <2>2, FreshStream
       DEF XInv, Types, InTurn, Turn, NextAfter, Unsent
  <2>4. Awaited'
    BY <2>1, <2>2, FreshStream DEF Awaited, Quiet, Left
  <2>5. QED
    BY <2>3, <2>4 DEF XInv
<1>11. CASE c.requests # 0 /\ conf.sleeps
  <2>1. /\ c' = [r EXCEPT !.state = "ST_IDLE"]
        /\ stream' = k /\ size' = 0
        /\ begun' = begun /\ mark' = mark
    BY <1>1, <1>11 DEF AfterRequest, r
  <2>2. /\ c' \in Client /\ c'.state = "ST_IDLE"
        /\ c'.test_data_index = c.test_data_index
    BY <1>8, <2>1 DEF Client, State
  <2>3. Types' /\ InTurn' /\ Turn' /\ Unsent(c)'
    BY <1>1, <1>4, <2>1, <2>2
       DEF XInv, Types, InTurn, Turn, NextAfter, Unsent
  <2>4. Owed' = 0
    BY <1>4, <1>7, <2>1 DEF Owed
  <2>5. Awaited'
    BY <1>6, <2>1, <2>2, <2>4 DEF Awaited, Quiet, Left
  <2>6. QED
    BY <2>3, <2>5 DEF XInv
<1>12. CASE c.requests # 0 /\ ~conf.sleeps
  <2> DEFINE q == [r EXCEPT !.state = "ST_IDLE"]
  <2>1. HandleSend(q, k)
    BY <1>1, <1>12 DEF AfterRequest, r
  <2>2. /\ q \in Client /\ q.state = "ST_IDLE"
        /\ q.test_data_index = c.test_data_index
    BY <1>8 DEF Client, State
  <2> HIDE DEF q
  <2>3. Unsent(q)
    BY <2>2 DEF Unsent
  <2>4. Len(begun) - mark - k.replies = 0
    BY <1>4, <1>7 DEF Owed
  <2>5. Types /\ InTurn /\ Turn
    BY DEF XInv
  <2>6. QED
    BY <1>1, <1>4, <1>6, <2>1, <2>2, <2>3, <2>4, <2>5, HandleSendKeeps
<1>13. QED
  BY <1>10, <1>11, <1>12

LEMMA RecvNoneKeeps == XInv /\ RecvNone => XInv'
<1> SUFFICES ASSUME XInv, RecvNone PROVE XInv'
  OBVIOUS
<1>1. size > 0 /\ conf' = conf
  BY DEF RecvNone
<1>2. CASE begun' = begun /\ Drop(c)
  BY <1>1, <1>2, DropFrom DEF XInv, Types
<1>3. CASE size' = 0 /\ UNCHANGED <<c, stream, begun, mark>>
  <2>1. Types' /\ InTurn' /\ Turn' /\ Unsent(c)'
    BY <1>1, <1>3 DEF XInv, Types, InTurn, Turn, NextAfter, Unsent
  <2>2. Owed' = Owed /\ Left(stream)' = Left(stream)
    BY <1>3 DEF Owed, Left
  <2>3. c.read_len < 0 => InHead'
    BY <1>1, <1>3, <2>2, ReadingAwaits DEF InHead, Numbered
  <2>4. ~(c.read_len < 0) => InBody'
    BY <1>1, <1>3, <2>2, ReadingAwaits DEF InBody
  <2>5. Awaited'
    BY <1>1, <1>3, <2>3, <2>4, ReadingAwaits DEF Awaited
  <2>6. QED
    BY <2>1, <2>5 DEF XInv
<1>4. QED
  BY <1>2, <1>3 DEF RecvNone

LEMMA FinKeeps == XInv /\ Fin => XInv'
<1> SUFFICES ASSUME XInv, Fin PROVE XInv'
  OBVIOUS
<1>1. /\ stream \in Stream
      /\ stream' = [stream EXCEPT !.fin = TRUE]
      /\ UNCHANGED <<conf, c, size, begun, mark>>
  BY DEF XInv, Types, Fin
<1>2. /\ stream' \in Stream /\ stream'.in = stream.in
      /\ stream'.due = stream.due /\ stream'.len = stream.len
      /\ stream'.replies = stream.replies
  BY <1>1 DEF Stream
<1>3. Types' /\ InTurn' /\ Turn' /\ Unsent(c)'
  BY <1>1, <1>2 DEF XInv, Types, InTurn, Turn, NextAfter, Unsent
<1>4. Owed' = Owed /\ Left(stream)' = Left(stream)
  BY <1>1, <1>2 DEF Owed, Left
<1>5. Quiet => Quiet'
  BY <1>1, <1>2, <1>4 DEF Quiet
<1>6. InHead => InHead'
  BY <1>1, <1>2, <1>4 DEF InHead, Numbered
<1>7. InBody => InBody'
  BY <1>1, <1>2, <1>4 DEF InBody
<1>8. Awaited'
  BY <1>1, <1>5, <1>6, <1>7 DEF XInv, Awaited
<1>9. QED
  BY <1>3, <1>8 DEF XInv

LEMMA ArriveKeeps == XInv /\ Arrive => XInv'
<1> SUFFICES ASSUME XInv, Arrive PROVE XInv'
  OBVIOUS
<1> DEFINE n == Len(stream.in)
           m == Len(stream.due)
           x == Append(stream.in, Head(stream.due))
           y == Tail(stream.due)
<1>1. /\ stream \in Stream /\ stream.due # <<>>
      /\ stream.in \in Seq(Tag) /\ stream.due \in Seq(Tag)
      /\ stream' = [stream EXCEPT !.in = x, !.due = y]
      /\ UNCHANGED <<conf, c, size, begun, mark>>
  BY DEF XInv, Types, Arrive, Stream
<1>2. n \in Nat /\ m \in Nat /\ Left(stream) = n + m /\ m > 0
  BY <1>1, StreamLens DEF Left
<1>3. /\ Head(stream.due) \in Tag /\ Head(stream.due) = stream.due[1]
      /\ y \in Seq(Tag) /\ Len(y) = m - 1
      /\ \A j \in 1..(m - 1) : y[j] = stream.due[j + 1]
  BY <1>1, HeadTailProperties
<1>4. /\ x \in Seq(Tag) /\ Len(x) = n + 1
      /\ \A j \in 1..n : x[j] = stream.in[j]
      /\ x[n + 1] = stream.due[1]
  BY <1>1, <1>3, AppendProperties
<1> HIDE DEF x, y
<1>5. /\ stream' \in Stream /\ stream'.in = x /\ stream'.due = y
      /\ stream'.len = stream.len /\ stream'.replies = stream.replies
  BY <1>1, <1>3, <1>4 DEF Stream
<1>6. Left(stream') = Left(stream)
  <2>1. Left(stream') = (n + 1) + (m - 1)
    BY <1>3, <1>4, <1>5 DEF Left
  <2> HIDE DEF n, m
  <2>2. QED
    BY <1>2, <2>1
<1>7. Owed' = Owed
  BY <1>1, <1>5 DEF Owed
<1> HIDE DEF n, m
<1>8. c.state = "ST_RECVING" /\ c.read_len \in Int
  BY <1>2 DEF XInv, Awaited, Quiet, Types, Client
<1>9. ASSUME NEW b \in Nat, NEW at \in Int, Numbered(stream, b, at)
      PROVE  Numbered(stream', b, at)
  <2>1. /\ \A j \in 1..n : stream.in[j] = <<b, at + j>>
        /\ \A j \in 1..m : stream.due[j] = <<b, at + n + j>>
    BY <1>9, Zenon DEF Numbered, n, m
  <2>2. ASSUME NEW j \in 1..(n + 1) PROVE x[j] = <<b, at + j>>
    <3>1. CASE j \in 1..n
      BY <1>4, <2>1, <3>1
    <3>2. CASE j = n + 1
      <4>1. 1 \in 1..m /\ at + n + 1 = at + j
        BY <1>2, <3>2
      <4>2. QED
        BY <1>4, <2>1, <3>2, <4>1
    <3>3. QED
      BY <1>2, <3>1, <3>2
  <2>3. ASSUME NEW j \in 1..(m - 1)
        PROVE  y[j] = <<b, at + (n + 1) + j>>
    <3>1. j + 1 \in 1..m /\ at + n + (j + 1) = at + (n + 1) + j
      BY <1>2
    <3>2. QED
      BY <1>3, <2>1, <3>1
  <2>4. Len(x) = n + 1 /\ Len(y) = m - 1
    BY <1>3, <1>4
  <2>5. QED
    BY <1>5, <2>2, <2>3, <2>4, Zenon DEF Numbered
<1>10. CASE c.read_len < 0
  <2>1. InHead
    BY <1>8, <1>10 DEF XInv, Awaited
  <2>2. /\ Owed = 0 /\ Numbered(stream, Len(begun), 4 + c.read_len)
        /\ 4 + c.read_len + Left(stream) = stream.len
    <3>1. Left(stream) # 0
      BY <1>2
    <3>2. QED
      BY <2>1, <3>1 DEF InHead
  <2>3. Len(begun) \in Nat /\ 4 + c.read_len \in Int
    BY <1>8, LenProperties DEF XInv, Types
  <2>4. Numbered(stream', Len(begun), 4 + c.read_len)
    BY <1>9, <2>2, <2>3
  <2>5. c' = c /\ begun' = begun /\ size' = size
    BY <1>1
  <2>6. Numbered(stream, Len(begun), 4 + c.read_len)'
    BY <2>4, <2>5 DEF Numbered
  <2>7. Left(stream)' = Left(stream)
    BY <1>6 DEF Left
  <2>8. InHead'
    BY <1>5, <1>7, <2>1, <2>2, <2>5, <2>6, <2>7 DEF InHead
  <2>9. QED
    BY <1>1, <1>5, <1>8, <1>10, <2>8
       DEF XInv, Types, InTurn, Turn, NextAfter, Unsent, Awaited
<1>11. CASE ~(c.read_len < 0)
  <2>1. InBody
    BY <1>8, <1>11 DEF XInv, Awaited
  <2>2. Left(stream)' = Left(stream)
    BY <1>6 DEF Left
  <2>3. InBody'
    BY <1>1, <1>7, <2>1, <2>2 DEF InBody
  <2>4. QED
    BY <1>1, <1>5, <1>8, <1>11, <2>3
       DEF XInv, Types, InTurn, Turn, NextAfter, Unsent, Awaited
<1>12. QED
  BY <1>10, <1>11

LEMMA ReplyKeeps == XInv /\ Reply => XInv'
<1> SUFFICES ASSUME XInv, Reply PROVE XInv'
  OBVIOUS
<1> DEFINE b == Len(begun)
<1>1. PICK len \in 4..MaxBuf :
         stream' = [stream EXCEPT !.len = len, !.replies = @ + 1,
                                  !.due = @ \o Response(Len(begun), len)]
  BY DEF Reply
<1>2. /\ stream \in Stream /\ c \in Client /\ b \in Nat /\ mark \in Nat
      /\ UNCHANGED <<conf, c, size, begun, mark>>
  BY LenProperties DEF XInv, Types, Reply
<1>3. /\ stream.in \in Seq(Tag) /\ stream.due \in Seq(Tag)
      /\ stream.replies \in Nat
      /\ Len(stream.in) \in Nat /\ Len(stream.due) \in Nat
  BY <1>2, StreamLens DEF Stream
<1>4. Owed > 0
  BY <1>2, <1>3 DEF Reply, Owed
<1>5. c.state = "ST_RECVING" /\ c.read_len < 0
  <2>1. c.state \in {"ST_IDLE", "ST_SENDING", "ST_RECVING"}
    BY <1>2 DEF Reply, Client, State
  <2>2. c.state # "ST_IDLE"
    BY <1>4 DEF XInv, Awaited, Quiet
  <2>3. c.state # "ST_SENDING"
    BY DEF XInv, Unsent, Reply
  <2>4. c.state = "ST_RECVING"
    BY <2>1, <2>2, <2>3
  <2>5. QED
    BY <1>4, <2>4 DEF XInv, Awaited, InBody
<1>6. InHead /\ Owed = 1 /\ 4 + c.read_len = 0 /\ Left(stream) = 0
  <2>1. InHead
    BY <1>5 DEF XInv, Awaited
  <2>2. QED
    BY <1>4, <2>1 DEF InHead
<1>7. Len(stream.in) = 0 /\ stream.due = <<>>
  <2>1. \A u, v \in Nat : u + v = 0 => u = 0 /\ v = 0
    OBVIOUS
  <2>2. Len(stream.in) = 0 /\ Len(stream.due) = 0
    BY <1>3, <1>6, <2>1, Zenon DEF Left
  <2>3. QED
    BY <1>3, <2>2, EmptySeq
<1>8. len \in Nat /\ len \in 0..MaxBuf
  BY <1>1, Constants
<1> DEFINE e(j) == <<b, j>>
           R == [j \in 1..len |-> e(j)]
<1>9. R \in Seq(Tag) /\ Len(R) = len /\ \A j \in 1..len : R[j] = <<b, j>>
  <2>1. \A j \in 1..len : e(j) \in Tag
    BY <1>2, <1>8 DEF Tag
  <2>2. R \in Seq(Tag)
    <3> HIDE DEF e
    <3> QED
      BY <1>8, <2>1, IsASeq
  <2>3. QED
    BY <1>8, <2>2
<1>10. stream.due \o Response(Len(begun), len) = R
  <2>1. Response(Len(begun), len) = R
    BY DEF Response
  <2> HIDE DEF R
  <2>2. QED
    BY <1>7, <1>9, <2>1, ConcatEmptySeq
<1> HIDE DEF R, e, b
<1>11. stream' = [stream EXCEPT !.len = len, !.replies = stream.replies + 1,
                                !.due = R]
  BY <1>1, <1>2, <1>10 DEF Stream
<1>12. /\ stream' \in Stream /\ stream'.in = stream.in /\ stream'.due = R
       /\ stream'.len = len /\ stream'.replies = stream.replies + 1
  <2> DEFINE n == stream.replies + 1
  <2>1. n \in Nat /\ stream' = [stream EXCEPT !.len = len, !.replies = n,
                                              !.due = R]
    BY <1>3, <1>11
  <2> HIDE DEF n
  <2>2. /\ stream' \in Stream /\ stream'.in = stream.in /\ stream'.due = R
        /\ stream'.len = len /\ stream'.replies = n
    BY <1>2, <1>8, <1>9, <2>1 DEF Stream
  <2>3. QED
    BY <2>2 DEF n
<1>13. Owed' = 0
  BY <1>2, <1>3, <1>6, <1>12 DEF Owed, b
<1>14. Numbered(stream', b, 0)
  <2>1. \A j : j \notin 1..0
    OBVIOUS
  <2>2. ASSUME NEW j \in 1..len PROVE R[j] = <<b, 0 + 0 + j>>
    BY <1>8, <1>9
  <2>3. QED
    BY <1>7, <1>9, <1>12, <2>1, <2>2, Zenon DEF Numbered
<1>15. Left(stream') = len
  <2>1. 0 + len = len
    BY <1>8
  <2>2. QED
    BY <1>7, <1>9, <1>12, <2>1, Zenon DEF Left
<1>16. InHead'
  <2>1. c' = c /\ begun' = begun /\ size' = size
    BY <1>2
  <2>2. (4 + c.read_len)' = 0 /\ Numbered(stream, Len(begun), 0)'
    BY <1>6, <1>14, <2>1 DEF Numbered, b
  <2>3. (0 + Left(stream) = stream.len)'
    BY <1>8, <1>12, <1>15 DEF Left
  <2>4. QED
    BY <1>6, <1>13, <2>1, <2>2, <2>3 DEF InHead
<1>17. QED
  BY <1>2, <1>5, <1>12, <1>16
     DEF XInv, Types, InTurn, Turn, NextAfter, Unsent, Awaited

-----------------------------------------------------------------------------
LEMMA NextXInv == XInv /\ [Next]_exVars => XInv'
<1> SUFFICES ASSUME XInv, [Next]_exVars PROVE XInv'
  OBVIOUS
<1>1. CASE SendEvent BY <1>1, SendEventKeeps
<1>2. CASE CloseEvent BY <1>2, CloseEventKeeps
<1>3. CASE ReadEvent BY <1>3, ReadEventKeeps
<1>4. CASE RecvSome BY <1>4, RecvSomeKeeps
<1>5. CASE RecvHead BY <1>5, RecvHeadKeeps
<1>6. CASE RecvBody BY <1>6, RecvBodyKeeps
<1>7. CASE RecvNone BY <1>7, RecvNoneKeeps
<1>8. CASE Reply BY <1>8, ReplyKeeps
<1>9. CASE Arrive BY <1>9, ArriveKeeps
<1>10. CASE Fin BY <1>10, FinKeeps
<1>11. CASE UNCHANGED exVars
  BY <1>11 DEF exVars, XInv, Types, InTurn, Turn, NextAfter, Unsent, Awaited,
               Quiet, InHead, InBody, Numbered, Left, Owed
<1>12. QED
  BY <1>1, <1>2, <1>3, <1>4, <1>5, <1>6, <1>7, <1>8, <1>9, <1>10, <1>11
     DEF Next

LEMMA XInvHolds == Spec => []XInv
BY InitXInv, NextXInv, PTL DEF Spec

\* The requests of make_request(), over retries and sleeps, go round the test
\* data, whatever its size and the budget.
THEOREM InTurnHolds == Spec => []InTurn
<1>1. XInv => InTurn
  BY DEF XInv
<1>2. QED
  BY <1>1, XInvHolds, PTL

\* handle_read_event() never mixes the heads of two responses, into however
\* many pieces they are cut.
THEOREM HeadWholeHolds == Spec => []HeadWhole
<1>1. XInv => HeadWhole
  <2> SUFFICES ASSUME XInv, c.state = "ST_RECVING"
               PROVE  \A j \in 1..(IF c.read_len < 0 THEN 4 + c.read_len ELSE 4) :
                         c.head[j] = <<Len(begun), j>>
    BY DEF HeadWhole
  <2>1. CASE c.read_len < 0
    BY <2>1 DEF XInv, Awaited, InHead
  <2>2. CASE ~(c.read_len < 0)
    BY <2>2 DEF XInv, Awaited, InBody
  <2>3. QED
    BY <2>1, <2>2
<1>2. QED
  BY <1>1, XInvHolds, PTL

\* What is still to be read is the rest of the response to the current request,
\* and nothing when a request starts: the sizes handle_read_event() asks for
\* keep the connection in step with the stream.
THEOREM InStepHolds == Spec => []InStep
<1>1. XInv => InStep
  <2> SUFFICES ASSUME XInv PROVE InStep
    OBVIOUS
  <2> DEFINE left == stream.in \o stream.due
             n == Len(stream.in)
             m == Len(stream.due)
  <2>1. /\ stream.in \in Seq(Tag) /\ stream.due \in Seq(Tag)
        /\ n \in Nat /\ m \in Nat /\ Left(stream) = n + m
        /\ c.read_len \in Int
    BY StreamLens DEF XInv, Types, Stream, Client, Left
  <2>2. /\ left \in Seq(Tag) /\ Len(left) = n + m
        /\ \A j \in 1..(n + m) : left[j] = IF j <= n THEN stream.in[j]
                                         ELSE stream.due[j - n]
    BY <2>1, ConcatProperties
  <2> HIDE DEF left, n, m
  <2>3. Left(stream) = 0 => left = <<>>
    BY <2>1, <2>2, EmptySeq
  <2>4. c.state \in {"ST_CONNECTING", "ST_IDLE", "ST_SENDING"} => left = <<>>
    BY <2>3 DEF XInv, Awaited, Quiet
  <2>5. ASSUME c.state = "ST_RECVING", c.read_len < 0, left # <<>>
        PROVE  Head(left) = <<Len(begun), 5 + c.read_len>>
    <3>1. InHead
      BY <2>5 DEF XInv, Awaited
    <3>2. Numbered(stream, Len(begun), 4 + c.read_len) /\ n + m # 0
      BY <2>1, <2>3, <2>5, <3>1 DEF InHead
    <3>3. /\ \A j \in 1..n : stream.in[j] = <<Len(begun), 4 + c.read_len + j>>
          /\ \A j \in 1..m :
                stream.due[j] = <<Len(begun), 4 + c.read_len + n + j>>
      BY <3>2, Zenon DEF Numbered, n, m
    <3>4. Head(left) = left[1] /\ 1 \in 1..(n + m)
      BY <2>1, <2>2, <2>5, <3>2, HeadTailProperties
    <3>5. 4 + c.read_len + 1 = 5 + c.read_len
      BY <2>1
    <3>6. CASE n = 0
      <4>1. left[1] = stream.due[1 - n] /\ 1 - n = 1 /\ 1 \in 1..m
        BY <2>1, <2>2, <3>2, <3>4, <3>6
      <4>2. 4 + c.read_len + n + 1 = 5 + c.read_len
        BY <2>1, <3>6
      <4>3. QED
        BY <3>3, <3>4, <4>1, <4>2
    <3>7. CASE n # 0
      <4>1. left[1] = stream.in[1] /\ 1 \in 1..n
        BY <2>1, <2>2, <3>4, <3>7
      <4>2. QED
        BY <3>3, <3>4, <3>5, <4>1
    <3>8. QED
      BY <3>6, <3>7
  <2>6. ASSUME c.state = "ST_RECVING", ~(c.read_len < 0), size \in 1..MaxBuf
        PROVE  size = Len(left)
    <3>1. size \in {0, Endless, n + m}
      BY <2>1, <2>6 DEF XInv, Awaited, InBody
    <3>2. QED
      BY <2>2, <2>6, <3>1, Constants
  <2>7. c.read_len >= 0 => ~(c.read_len < 0)
    BY <2>1
  <2>8. QED
    BY <2>4, <2>5, <2>6, <2>7 DEF InStep, left
<1>2. QED
  BY <1>1, XInvHolds, PTL

-----------------------------------------------------------------------------
(***************************************************************************)
(* What a stream's server has got: requests one after the other.           *)
(* FlattenSeq is a recursive function: that it is there, and adds the last *)
(* piece, is an induction on the number of pieces, by NatSubset.           *)
(***************************************************************************)
\* Induction on the naturals, of a set that has 0 and all successors.
LEMMA NatSubset ==
    ASSUME NEW S, 0 \in S, \A n \in Nat : n \in S => n + 1 \in S
    PROVE  Nat \subseteq S
<1> DEFINE R == {ss \in Nat \X Nat : ss[1] < ss[2]}
<1>1. IsWellFoundedOn(R, Nat)
  BY NatLessThanWellFounded, Zenon DEF OpToRel
<1>2. \A x, y \in Nat : <<y, x>> \in R <=> y < x
  OBVIOUS
<1> HIDE DEF R
<1>3. SUFFICES ASSUME Nat \ S # {} PROVE FALSE
  OBVIOUS
<1>4. \E x \in Nat \ S : \A y \in Nat \ S : ~(<<y, x>> \in R)
  BY <1>1, <1>3, WFMin
<1>5. PICK m \in Nat \ S : \A n \in Nat \ S : ~(n < m)
  BY <1>2, <1>4
<1>6. m # 0 /\ m - 1 \in Nat /\ m - 1 < m /\ (m - 1) + 1 = m
  BY <1>5
<1>7. m - 1 \in S
  BY <1>5, <1>6
<1> QED
  BY <1>5, <1>6, <1>7

\* The first i members of s, one after the other, by those before.
Joined(s, f, i) == IF i = 1 THEN s[i] ELSE f[i - 1] \o s[i]

\* The function that FlattenSeq recurs by exists.
LEMMA JoinedExists ==
    ASSUME NEW s, NEW N \in Nat
    PROVE  \E f : f = [i \in 1..N |-> Joined(s, f, i)]
<1> DEFINE Some(k) == \E f : f = [i \in 1..k |-> Joined(s, f, i)]
           S == {k \in Nat : Some(k)}
<1>1. Some(0)
  <2> DEFINE g == [i \in 1..0 |-> 0]
  <2>1. \A i \in 1..0 : g[i] = Joined(s, g, i)
    OBVIOUS
  <2>2. g = [i \in 1..0 |-> Joined(s, g, i)]
    BY <2>1
  <2> HIDE DEF g
  <2> QED
    BY <2>2
<1>2. ASSUME NEW k \in Nat, Some(k) PROVE Some(k + 1)
  <2>1. PICK f : f = [i \in 1..k |-> Joined(s, f, i)]
    BY <1>2
  <2> DEFINE g == [i \in 1..(k + 1) |-> IF i \in 1..k THEN f[i] ELSE Joined(s, f, i)]
  <2>2. \A i \in 1..k : g[i] = f[i]
    OBVIOUS
  <2>3. ASSUME NEW i \in 1..(k + 1) PROVE Joined(s, g, i) = Joined(s, f, i)
    <3>1. i = 1 \/ i - 1 \in 1..k
      OBVIOUS
    <3> HIDE DEF g
    <3> QED
      BY <2>2, <3>1 DEF Joined
  <2>4. \A i \in 1..k : f[i] = Joined(s, f, i)
    BY <2>1
  <2>5. g = [i \in 1..(k + 1) |-> Joined(s, g, i)]
    <3>1. \A i \in 1..(k + 1) : g[i] = Joined(s, g, i)
      BY <2>3, <2>4
    <3> HIDE DEF Joined
    <3> QED
      BY <3>1, Zenon
  <2> HIDE DEF g
  <2> QED
    BY <2>5
<1> HIDE DEF Some
<1>3. Nat \subseteq S
  <2>1. 0 \in S
    BY <1>1
  <2>2. \A k \in Nat : k \in S => k + 1 \in S
    BY <1>2
  <2> HIDE DEF S
  <2> QED
    BY <2>1, <2>2, NatSubset
<1> QED
  BY <1>3 DEF Some

\* What FlattenSeq returns of a sequence that is not empty.
LEMMA FlattenIs ==
    ASSUME NEW s, NEW N \in Nat \ {0}, Len(s) = N
    PROVE  \E f : /\ \A i \in 1..N : f[i] = Joined(s, f, i)
                  /\ FlattenSeq(s) = f[N]
<1>1. \E f : f = [i \in 1..N |-> Joined(s, f, i)]
  BY JoinedExists
<1> DEFINE h == CHOOSE f : f = [i \in 1..N |-> Joined(s, f, i)]
<1>2. h = [i \in 1..N |-> Joined(s, h, i)]
  BY <1>1
<1>3. FlattenSeq(s) = h[N]
  BY DEF FlattenSeq, Joined
<1> HIDE DEF h
<1>4. \A i \in 1..N : h[i] = Joined(s, h, i)
  BY <1>2, Zenon
<1> QED
  BY <1>3, <1>4

\* One more member goes to the end.
LEMMA FlattenLonger ==
    ASSUME NEW s, NEW t, NEW N \in Nat \ {0}, Len(s) = N, Len(t) = N + 1,
           \A i \in 1..N : t[i] = s[i]
    PROVE  FlattenSeq(t) = FlattenSeq(s) \o t[N + 1]
<1>1. PICK f : (\A i \in 1..N : f[i] = Joined(s, f, i)) /\ FlattenSeq(s) = f[N]
  BY FlattenIs
<1>2. PICK g : /\ \A i \in 1..(N + 1) : g[i] = Joined(t, g, i)
               /\ FlattenSeq(t) = g[N + 1]
  <2>1. N + 1 \in Nat \ {0}
    OBVIOUS
  <2> QED
    BY <2>1, FlattenIs
<1>0. /\ \A i : i \in 1..N /\ i # 1 => f[i] = f[i - 1] \o s[i] /\ t[i] = s[i]
      /\ \A i : i \in 1..(N + 1) /\ i # 1 => g[i] = g[i - 1] \o t[i]
  BY <1>1, <1>2, Zenon DEF Joined
<1> DEFINE S == {k \in Nat : k + 1 \in 1..N => g[k + 1] = f[k + 1]}
<1>3. Nat \subseteq S
  <2>1. 0 \in S
    <3>1. 1 \in 1..N /\ 1 \in 1..(N + 1)
      OBVIOUS
    <3>2. f[1] = s[1] /\ g[1] = t[1]
      BY <1>1, <1>2, <3>1 DEF Joined
    <3> QED
      BY <3>1, <3>2
  <2>2. ASSUME NEW k \in Nat, k \in S PROVE k + 1 \in S
    <3>1. CASE k + 1 + 1 \in 1..N
      <4>1. PICK i : i = k + 1 + 1
        OBVIOUS
      <4>2. /\ k + 1 \in 1..N /\ i \in 1..N /\ i \in 1..(N + 1)
            /\ i # 1 /\ i - 1 = k + 1
        BY <3>1, <4>1
      <4>3. g[k + 1] = f[k + 1]
        BY <2>2, <4>2
      <4>4. f[i] = f[i - 1] \o s[i] /\ g[i] = g[i - 1] \o t[i] /\ t[i] = s[i]
        BY <1>0, <4>2, Zenon
      <4>5. g[i] = f[i]
        BY <4>2, <4>3, <4>4
      <4> QED
        BY <4>1, <4>5
    <3> QED
      BY <3>1
  <2> HIDE DEF S
  <2> QED
    BY <2>1, <2>2, NatSubset
<1>4. g[N] = f[N]
  <2>1. N - 1 \in Nat /\ N - 1 + 1 = N /\ N \in 1..N
    OBVIOUS
  <2> QED
    BY <1>3, <2>1
<1>5. PICK m : m = N + 1
  OBVIOUS
<1>6. m \in 1..(N + 1) /\ m # 1 /\ m - 1 = N
  BY <1>5
<1>7. g[m] = g[m - 1] \o t[m]
  BY <1>0, <1>6
<1>8. g[m] = g[N] \o t[m]
  BY <1>6, <1>7
<1> QED
  BY <1>1, <1>2, <1>4, <1>5, <1>8

\* The requests of b after the first m, k of them, one after the other.
Out(b, m, k) == FlattenSeq([j \in 1..k |-> Request(b[m + j])])

\* They are the same in b and d.
Agree(b, d, m, k) == \A j \in 1..k : d[m + j] = b[m + j]

\* The same requests are the same bytes.
LEMMA OutSame ==
    ASSUME NEW b, NEW d, NEW m, NEW k, Agree(b, d, m, k)
    PROVE  Out(d, m, k) = Out(b, m, k)
<1>1. [j \in 1..k |-> Request(d[m + j])] = [j \in 1..k |-> Request(b[m + j])]
  BY DEF Agree
<1> QED
  BY <1>1 DEF Out

\* No requests are no bytes, and each request adds its own.
LEMMA OutGrows ==
    ASSUME NEW b \in Seq(Datum), NEW m \in Nat, NEW k \in Nat, m + k <= Len(b)
    PROVE  /\ Out(b, m, 0) = <<>>
           /\ \A d : d = m + k + 1 /\ d <= Len(b) =>
                 /\ b[d] \in Datum /\ Request(b[d]) \in Seq(Tag)
                 /\ Out(b, m, k) \in Seq(Tag) =>
                       Out(b, m, k + 1) = Out(b, m, k) \o Request(b[d])
<1> DEFINE s(i) == [j \in 1..i |-> Request(b[m + j])]
<1>1. Out(b, m, 0) = <<>>
  <2>1. s(0) = <<>> /\ Len(s(0)) = 0
    OBVIOUS
  <2>2. FlattenSeq(s(0)) = s(0)
    <3> HIDE DEF s
    <3> QED
      BY <2>1 DEF FlattenSeq
  <2> QED
    BY <2>1, <2>2 DEF Out
<1>2. ASSUME NEW d, d = m + k + 1, d <= Len(b)
      PROVE  /\ b[d] \in Datum /\ Request(b[d]) \in Seq(Tag)
             /\ Out(b, m, k) \in Seq(Tag) =>
                   Out(b, m, k + 1) = Out(b, m, k) \o Request(b[d])
  <2>1. Len(b) \in Nat /\ d \in 1..Len(b)
    BY <1>2, LenProperties
  <2>2. b[d] \in Datum
    BY <2>1, ElementOfSeq
  <2>3. Request(b[d]) \in Seq(Tag)
    BY <2>2, RequestIsSeq
  <2>4. /\ \A i \in Nat : Len(s(i)) = i
        /\ \A i, j : i \in Nat /\ j \in 1..i => s(i)[j] = Request(b[m + j])
    OBVIOUS
  <2>5. /\ Out(b, m, k) = FlattenSeq(s(k))
        /\ Out(b, m, k + 1) = FlattenSeq(s(k + 1))
    BY DEF Out
  <2> HIDE DEF s
  <2>6. k + 1 \in Nat /\ k + 1 \in 1..(k + 1) /\ m + (k + 1) = d
    BY <1>2
  <2>7. s(k + 1)[k + 1] = Request(b[d])
    BY <2>4, <2>6
  <2>8. CASE k = 0
    <3>1. PICK f : /\ \A i \in 1..1 : f[i] = Joined(s(k + 1), f, i)
                   /\ FlattenSeq(s(k + 1)) = f[1]
      <4>1. Len(s(k + 1)) = k + 1
        BY <2>4, <2>6
      <4>2. k + 1 = 1 /\ 1 \in Nat \ {0}
        BY <2>8
      <4>3. Len(s(k + 1)) = 1
        BY <4>1, <4>2, Zenon
      <4> QED
        BY <4>2, <4>3, FlattenIs
    <3>2. 1 \in 1..1 /\ k + 1 = 1
      BY <2>8
    <3>3. f[1] = s(k + 1)[1]
      BY <3>1, <3>2 DEF Joined
    <3>4. Out(b, m, k + 1) = Request(b[d])
      BY <2>5, <2>7, <3>1, <3>2, <3>3
    <3>5. <<>> \o Request(b[d]) = Request(b[d])
      BY <2>3, ConcatEmptySeq
    <3> QED
      BY <1>1, <2>2, <2>3, <2>8, <3>4, <3>5
  <2>9. CASE k # 0
    <3>1. k \in Nat \ {0} /\ Len(s(k)) = k /\ Len(s(k + 1)) = k + 1
      BY <2>4, <2>6, <2>9
    <3>2. \A i \in 1..k : s(k + 1)[i] = s(k)[i]
      <4>1. \A i \in 1..k : i \in 1..(k + 1)
        OBVIOUS
      <4> QED
        BY <2>4, <2>6, <4>1
    <3>3. PICK u, v : u = s(k) /\ v = s(k + 1)
      OBVIOUS
    <3>4. FlattenSeq(v) = FlattenSeq(u) \o v[k + 1]
      BY <3>1, <3>2, <3>3, FlattenLonger
    <3> QED
      BY <2>2, <2>3, <2>5, <2>7, <3>3, <3>4
  <2> QED
    BY <2>8, <2>9
<1> QED
  BY <1>1, <1>2

\* Requests one after the other are bytes.
LEMMA OutIsSeq ==
    ASSUME NEW b \in Seq(Datum), NEW m \in Nat, NEW k \in Nat, m + k <= Len(b)
    PROVE  Out(b, m, k) \in Seq(Tag)
<1> DEFINE S == {i \in Nat : m + i <= Len(b) => Out(b, m, i) \in Seq(Tag)}
<1>0. Len(b) \in Nat
  BY LenProperties
<1>1. 0 \in S
  <2>1. m + 0 <= Len(b)
    BY <1>0
  <2>2. Out(b, m, 0) = <<>>
    BY <2>1, OutGrows
  <2> QED
    BY <2>2, EmptySeq
<1>2. ASSUME NEW i \in Nat, i \in S PROVE i + 1 \in S
  <2>1. CASE m + (i + 1) <= Len(b)
    <3>1. m + i <= Len(b) /\ m + i + 1 <= Len(b)
      BY <1>0, <2>1
    <3>2. PICK d : d = m + i + 1
      OBVIOUS
    <3>3. Out(b, m, i) \in Seq(Tag)
      BY <1>2, <3>1
    <3>4. /\ Request(b[d]) \in Seq(Tag)
          /\ Out(b, m, i + 1) = Out(b, m, i) \o Request(b[d])
      BY <3>1, <3>2, <3>3, OutGrows
    <3>5. Out(b, m, i + 1) \in Seq(Tag)
      BY <3>3, <3>4, ConcatProperties
    <3> QED
      BY <3>5
  <2> QED
    BY <2>1
<1> HIDE DEF S
<1>3. k \in S
  BY <1>1, <1>2, NatSubset
<1> QED
  BY <1>3 DEF S

\* What the server of stream k has got, of a connection r that has begun b, the
\* first m of them on earlier streams.
Wired(r, k, b, m) ==
    IF r.state \in {"ST_CLOSED", "ST_CONNECTING"} THEN m = Len(b) /\ k.sent = <<>>
    ELSE /\ m < Len(b) /\ r.datum = b[Len(b)]
         /\ r.pos <= Length[r.datum + 1]
         /\ r.state # "ST_SENDING" => r.pos = Length[r.datum + 1]
         /\ k.sent = Out(b, m, Len(b) - m - 1)
                \o SubSeq(Request(r.datum), 1, r.pos)

\* A request's bytes.
LEMMA RequestLen ==
    ASSUME NEW d \in Datum
    PROVE  /\ Request(d) \in Seq(Tag) /\ Len(Request(d)) = Length[d + 1]
           /\ Length[d + 1] \in Nat
           /\ SubSeq(Request(d), 1, 0) = <<>>
           /\ SubSeq(Request(d), 1, Length[d + 1]) = Request(d)
<1> DEFINE n == Length[d + 1]
<1>1. n \in Nat
  BY Constants
<1>2. Request(d) \in Seq(Tag)
  BY RequestIsSeq
<1>3. Len(Request(d)) = n
  <2> HIDE DEF n
  <2>1. Request(d) = [j \in 1..n |-> <<d, j>>]
    BY DEF Request, n
  <2> QED
    BY <1>1, <2>1
<1>4. SubSeq(Request(d), 1, 0) = <<>>
  BY SubSeqEmpty
<1>5. SubSeq(Request(d), 1, Len(Request(d))) = Request(d)
  BY <1>2, SubSeqFull
<1> QED
  BY <1>1, <1>2, <1>3, <1>4, <1>5

\* A request that is begun has sent nothing, behind those that have gone out.
LEMMA BeginWired ==
    ASSUME NEW r \in Client, NEW k, NEW b \in Seq(Datum), NEW m \in Nat,
           Wired(r, k, b, m),
           r.state \in {"ST_CONNECTING", "ST_SENDING", "ST_IDLE"},
           NEW q \in Begin(r),
           NEW d, d = IF r.state = "ST_SENDING" THEN b ELSE Append(b, q.datum)
    PROVE  Wired(q, k, d, m) /\ d \in Seq(Datum) /\ m <= Len(d)
<1>1. /\ q \in Client /\ q.state = "ST_SENDING" /\ q.datum \in Datum
      /\ q.pos \in Nat
      /\ r.state = "ST_SENDING" => q = r
      /\ r.state # "ST_SENDING" => q.pos = 0
  BY BeginSends DEF Client
<1>2. Len(b) \in Nat
  BY LenProperties
<1>3. CASE r.state = "ST_SENDING"
  BY <1>1, <1>2, <1>3 DEF Wired
<1>4. CASE r.state # "ST_SENDING"
  <2>1. d = Append(b, q.datum)
    BY <1>4
  <2>2. /\ d \in Seq(Datum) /\ Len(d) = Len(b) + 1 /\ d[Len(b) + 1] = q.datum
        /\ \A j \in 1..Len(b) : d[j] = b[j]
    BY <1>1, <2>1, AppendProperties
  <2>3. m <= Len(b)
    BY <1>2, <1>4 DEF Wired
  <2>4. q.pos = 0 /\ 0 <= Length[q.datum + 1]
    BY <1>1, <1>4, RequestLen
  <2>5. PICK n : n = Len(b) - m
    OBVIOUS
  <2>6. n \in Nat /\ m + n = Len(b) /\ Len(d) - m - 1 = n /\ m < Len(d)
    BY <1>2, <2>2, <2>3, <2>5
  <2>7. Out(d, m, n) = Out(b, m, n)
    <3>1. Agree(b, d, m, n)
      <4> SUFFICES ASSUME NEW j \in 1..n PROVE d[m + j] = b[m + j]
        BY DEF Agree
      <4>1. PICK i : i = m + j
        OBVIOUS
      <4>2. i \in 1..Len(b)
        BY <1>2, <2>6, <4>1
      <4> QED
        BY <2>2, <4>1, <4>2
    <3> QED
      BY <3>1, OutSame
  <2>8. Out(b, m, n) \in Seq(Tag)
    BY <2>6, OutIsSeq
  <2>9. k.sent = Out(b, m, n)
    <3>1. CASE r.state = "ST_CONNECTING"
      <4>1. n = 0 /\ k.sent = <<>>
        BY <1>2, <2>5, <3>1 DEF Wired
      <4>2. Out(b, m, 0) = <<>>
        BY <2>6, OutGrows
      <4> QED
        BY <4>1, <4>2
    <3>2. CASE r.state = "ST_IDLE"
      <4>1. /\ m < Len(b) /\ r.datum = b[Len(b)] /\ r.pos = Length[r.datum + 1]
            /\ k.sent = Out(b, m, Len(b) - m - 1)
                   \o SubSeq(Request(r.datum), 1, r.pos)
        BY <1>4, <3>2 DEF Wired
      <4>2. PICK i : i = Len(b) - m - 1
        OBVIOUS
      <4>3. /\ i \in Nat /\ m + i <= Len(b) /\ Len(b) = m + i + 1
            /\ Len(b) <= Len(b) /\ n = i + 1
        BY <1>2, <2>5, <4>1, <4>2
      <4>4. Out(b, m, i) \in Seq(Tag)
        BY <4>3, OutIsSeq
      <4>5. Out(b, m, i + 1) = Out(b, m, i) \o Request(b[Len(b)])
        BY <4>3, <4>4, OutGrows
      <4>6. r.datum \in Datum
        BY DEF Client
      <4>7. SubSeq(Request(r.datum), 1, r.pos) = Request(r.datum)
        BY <4>1, <4>6, RequestLen
      <4> QED
        BY <4>1, <4>2, <4>3, <4>5, <4>7
    <3> QED
      BY <1>4, <3>1, <3>2
  <2>10. k.sent = Out(d, m, n) \o SubSeq(Request(q.datum), 1, q.pos)
    <3>1. SubSeq(Request(q.datum), 1, q.pos) = <<>>
      BY <1>1, <2>4, RequestLen
    <3>2. Out(b, m, n) \o <<>> = Out(b, m, n)
      BY <2>8, ConcatEmptySeq
    <3> QED
      BY <2>7, <2>9, <3>1, <3>2
  <2>11. q.datum = d[Len(d)]
    BY <2>2
  <2> QED
    BY <1>1, <2>2, <2>4, <2>6, <2>10, <2>11 DEF Wired
<1> QED
  BY <1>3, <1>4

\* What send() takes follows what it has taken.
LEMMA SentWired ==
    ASSUME NEW q \in Client, NEW k \in Stream, NEW b \in Seq(Datum), NEW m \in Nat,
           Wired(q, k, b, m), q.state = "ST_SENDING",
           NEW n \in 0..(Length[q.datum + 1] - q.pos), NEW j,
           j = [k EXCEPT !.sent = @ \o
                    SubSeq(Request(q.datum), q.pos + 1, q.pos + n)]
    PROVE  Wired(Sent(q, n), j, b, m)
<1> DEFINE R == Request(q.datum)
           L == Length[q.datum + 1]
<1>1. q.datum \in Datum /\ q.pos \in Nat
  BY DEF Client
<1>2. R \in Seq(Tag) /\ Len(R) = L /\ L \in Nat
  BY <1>1, RequestLen
<1>3. /\ m < Len(b) /\ q.datum = b[Len(b)] /\ q.pos <= L
      /\ k.sent = Out(b, m, Len(b) - m - 1) \o SubSeq(R, 1, q.pos)
  BY DEF Wired
<1>4. /\ j.sent = k.sent \o SubSeq(R, q.pos + 1, q.pos + n)
  BY DEF Stream
<1> HIDE DEF R
<1>5. PICK w : w = q.pos + n
  OBVIOUS
<1>6. n \in Nat /\ w \in Nat /\ q.pos <= w /\ w <= L
  <2>1. n \in 0..(L - q.pos)
    OBVIOUS
  <2> HIDE DEF L
  <2> QED
    BY <1>1, <1>2, <1>5, <2>1
<1> HIDE DEF L
<1>7. SubSeq(R, 1, q.pos) \o SubSeq(R, q.pos + 1, w) = SubSeq(R, 1, w)
  <2>1. /\ 1 \in 1..(Len(R) + 1) /\ q.pos \in (1 - 1)..Len(R)
        /\ w \in q.pos..Len(R)
    BY <1>1, <1>2, <1>3, <1>6
  <2> QED
    BY <1>2, <2>1, ConcatAdjacentSubSeq
<1>8. SubSeq(R, 1, q.pos) \in Seq(Tag) /\ SubSeq(R, q.pos + 1, w) \in Seq(Tag)
  <2>1. \A i \in 1..L : R[i] \in Tag
    BY <1>2, ElementOfSeq
  <2>2. (\A i \in 1..q.pos : R[i] \in Tag) /\ (\A i \in (q.pos + 1)..w : R[i] \in Tag)
    <3>1. \A i \in 1..q.pos : i \in 1..L
      BY <1>1, <1>2, <1>3
    <3>2. \A i \in (q.pos + 1)..w : i \in 1..L
      BY <1>1, <1>2, <1>6
    <3> QED
      BY <2>1, <3>1, <3>2
  <2>3. q.pos \in Int /\ w \in Int /\ q.pos + 1 \in Int /\ 1 \in Int
    BY <1>1, <1>6
  <2>4. SubSeq(R, 1, q.pos) \in Seq(Tag)
    BY <2>2, <2>3, SubSeqProperties
  <2>5. SubSeq(R, q.pos + 1, w) \in Seq(Tag)
    BY <2>2, <2>3, SubSeqProperties
  <2> QED
    BY <2>4, <2>5
<1>9. Out(b, m, Len(b) - m - 1) \in Seq(Tag)
  <2>1. PICK i : i = Len(b) - m - 1
    OBVIOUS
  <2>2. i \in Nat /\ m + i <= Len(b)
    <3>1. Len(b) \in Nat /\ m < Len(b)
      BY <1>3, LenProperties
    <3>2. PICK l : l = Len(b)
      OBVIOUS
    <3>3. l \in Nat /\ m < l /\ i = l - m - 1
      BY <2>1, <3>1, <3>2
    <3>4. i \in Nat /\ m + i <= l
      BY <3>3
    <3> QED
      BY <3>2, <3>4
  <2> QED
    BY <2>1, <2>2, OutIsSeq
<1>10. j.sent = Out(b, m, Len(b) - m - 1) \o SubSeq(R, 1, w)
  <2>1. PICK x, y, z : /\ x = Out(b, m, Len(b) - m - 1)
                       /\ y = SubSeq(R, 1, q.pos) /\ z = SubSeq(R, q.pos + 1, w)
    OBVIOUS
  <2>2. x \in Seq(Tag) /\ y \in Seq(Tag) /\ z \in Seq(Tag)
    BY <1>8, <1>9, <2>1
  <2>3. (x \o y) \o z = x \o (y \o z)
    BY <2>2, ConcatAssociative
  <2>4. y \o z = SubSeq(R, 1, w) /\ k.sent = x \o y /\ j.sent = k.sent \o z
    BY <1>3, <1>4, <1>5, <1>7, <2>1
  <2> QED
    BY <2>1, <2>3, <2>4
<1>11. PICK z : z = Sent(q, n)
  OBVIOUS
<1>12. /\ z.datum = q.datum /\ z.pos = w
       /\ z.state = IF w = L THEN "ST_RECVING" ELSE "ST_SENDING"
  BY <1>5, <1>11 DEF Sent, Client, L
<1>13. z.state \notin {"ST_CLOSED", "ST_CONNECTING"} /\ (z.state # "ST_SENDING" => w = L)
  BY <1>12
<1> QED
  BY <1>3, <1>6, <1>10, <1>11, <1>12, <1>13 DEF Wired, R, L

-----------------------------------------------------------------------------
(***************************************************************************)
(* The second invariant, kept together with XInv: what the budget pays     *)
(* for, what bytes are held, and what the stream's server has got.         *)
(***************************************************************************)
\* Each request begun was paid for out of the budget, the first one aside, and
\* so is each connection that is opened again.
Paid(r, n) ==
    /\ r.requests < ReqMod /\ n <= Requests + 1
    /\ r.state \in {"ST_CONNECTING", "ST_IDLE"} => n + r.requests <= Requests
    /\ r.state \in {"ST_SENDING", "ST_RECVING"} => n + r.requests <= Requests + 1

\* Every byte that is held is one that the server may send.
Known(r, k) ==
    /\ r.head \in [1..4 -> Byte]
    /\ k.in \in Seq(Byte) /\ k.due \in Seq(Byte)

YInv ==
    /\ conf \in [retry : BOOLEAN, random : BOOLEAN, sleeps : BOOLEAN]
    /\ Paid(c, Len(begun)) /\ Known(c, stream) /\ Wired(c, stream, begun, mark)

\* The budget wraps only where nothing is left of it.
LEMMA SpendIs ==
    ASSUME NEW r \in Client
    PROVE  /\ Spend(r) \in Client
           /\ \A f \in {"state", "test_data_index", "datum", "pos",
                          "read_len", "head"} :
                 Spend(r)[f] = r[f]
           /\ r.requests > 0 => Spend(r).requests = r.requests - 1
           /\ r.requests < ReqMod => Spend(r).requests < ReqMod
<1> DEFINE v == IF r.requests = 0 THEN ReqMod - 1 ELSE r.requests - 1
<1>1. /\ v \in Nat /\ (r.requests > 0 => v = r.requests - 1)
      /\ r.requests < ReqMod => v < ReqMod
  BY ExchangeAssumption DEF Client
<1>2. Spend(r) = [r EXCEPT !.requests = v]
  BY DEF Spend, Client
<1> HIDE DEF v
<1> QED
  BY <1>1, <1>2 DEF Client

\* What a request that is begun leaves alone.
LEMMA BeginLeaves ==
    ASSUME NEW r \in Client, NEW q \in Begin(r)
    PROVE  q.requests = r.requests /\ q.head = r.head
<1>1. CASE r.state = "ST_SENDING"
  BY <1>1 DEF Begin
<1>2. CASE r.state # "ST_SENDING"
  <2>1. PICK p \in MakeRequest(r) : q = [p EXCEPT !.state = "ST_SENDING"]
    BY <1>2 DEF Begin
  <2>2. p \in Client /\ p.requests = r.requests /\ p.head = r.head
    <3>1. CASE conf.random
      <4>1. PICK d \in Datum : p = [r EXCEPT !.datum = d, !.pos = 0]
        BY <2>1, <3>1 DEF MakeRequest
      <4> QED
        BY <4>1 DEF Client
    <3>2. CASE ~conf.random
      <4>1. p = [r EXCEPT !.datum = r.test_data_index, !.pos = 0,
                          !.test_data_index = NextIndex(r)]
        BY <2>1, <3>2 DEF MakeRequest
      <4>2. r.test_data_index \in Datum /\ NextIndex(r) \in Datum
        BY NextIndexTurns DEF Client
      <4> QED
        BY <4>1, <4>2 DEF Client
    <3> QED
      BY <3>1, <3>2
  <2> QED
    BY <2>1, <2>2 DEF Client
<1> QED
  BY <1>1, <1>2

\* A stream nobody has used.
LEMMA FreshKnown ==
    Fresh.sent = <<>> /\ Fresh.in \in Seq(Byte) /\ Fresh.due \in Seq(Byte)
<1>1. <<>> \in Seq(Byte)
  BY EmptySeq
<1> QED
  BY <1>1 DEF Fresh

\* An error exit.
LEMMA DropAccounts ==
    ASSUME conf \in [retry : BOOLEAN, random : BOOLEAN, sleeps : BOOLEAN],
           conf' = conf, NEW r \in Client, r.state # "ST_CLOSED",
           begun' \in Seq(Datum), Paid(r, Len(begun')), r.head \in [1..4 -> Byte],
           Drop(r)
    PROVE  YInv'
<1>1. stream' = Fresh /\ mark' = Len(begun')
  BY DEF Drop
<1>2. PICK n : n = Len(begun')
  OBVIOUS
<1>3. n \in Nat
  BY <1>2, LenProperties
<1>4. /\ c'.head = r.head /\ c'.state \in {"ST_CLOSED", "ST_CONNECTING"}
      /\ Paid(c', n)
  <2>1. r.requests \in Nat /\ r.requests < ReqMod /\ Paid(r, n)
    BY <1>2 DEF Client, Paid
  <2>2. n + r.requests <= Requests + 1
    <3>1. r.state \in {"ST_CONNECTING", "ST_IDLE", "ST_SENDING", "ST_RECVING"}
      BY DEF Client, State
    <3> QED
      BY <1>3, <2>1, <3>1, ExchangeAssumption DEF Paid
  <2>3. CASE /\ conf.retry /\ r.requests > 0
             /\ c' = [Spend(r) EXCEPT !.state = "ST_CONNECTING"]
    <3>1. PICK z : z = Spend(r)
      OBVIOUS
    <3>2. /\ z \in Client /\ z.head = r.head /\ z.requests = r.requests - 1
          /\ z.requests < ReqMod
      BY <2>1, <2>3, <3>1, SpendIs
    <3>3. /\ c'.state = "ST_CONNECTING" /\ c'.head = r.head
          /\ c'.requests = r.requests - 1 /\ c'.requests < ReqMod
      BY <2>3, <3>1, <3>2 DEF Client
    <3>4. n + (r.requests - 1) <= Requests /\ n <= Requests + 1
      BY <1>3, <2>1, <2>2, <2>3, ExchangeAssumption
    <3> QED
      BY <3>3, <3>4 DEF Paid
  <2>4. CASE c' = [(IF conf.retry THEN Spend(r) ELSE r) EXCEPT
                       !.state = "ST_CLOSED"]
    <3>1. PICK z : z = IF conf.retry THEN Spend(r) ELSE r
      OBVIOUS
    <3>2. z \in Client /\ z.head = r.head /\ z.requests < ReqMod
      BY <2>1, <3>1, SpendIs
    <3>3. c'.state = "ST_CLOSED" /\ c'.head = r.head /\ c'.requests < ReqMod
      BY <2>4, <3>1, <3>2 DEF Client
    <3> QED
      BY <2>1, <3>3 DEF Paid
  <2> QED
    BY <2>3, <2>4 DEF Drop
<1>5. Known(c', stream')
  BY <1>1, <1>4, FreshKnown DEF Known
<1>6. Wired(c', stream', begun', mark')
  BY <1>1, <1>4, FreshKnown DEF Wired
<1> QED
  BY <1>2, <1>4, <1>5, <1>6 DEF YInv

\* A request that is begun, or goes on.
LEMMA HandleSendAccounts ==
    ASSUME conf \in [retry : BOOLEAN, random : BOOLEAN, sleeps : BOOLEAN],
           conf' = conf, begun \in Seq(Datum), mark \in Nat,
           NEW r \in Client,
           r.state \in {"ST_CONNECTING", "ST_SENDING", "ST_IDLE"},
           NEW k \in Stream,
           Paid(r, Len(begun)), Known(r, k), Wired(r, k, begun, mark),
           HandleSend(r, k)
    PROVE  YInv'
<1>1. PICK q \in Begin(r) :
        /\ begun' = IF r.state = "ST_SENDING" THEN begun
                    ELSE Append(begun, q.datum)
        /\ \/ \E n \in 0..(Length[q.datum + 1] - q.pos) :
                 /\ c' = Sent(q, n)
                 /\ stream' = [k EXCEPT !.sent = @ \o
                        SubSeq(Request(q.datum), q.pos + 1, q.pos + n)]
                 /\ size' = 0
                 /\ UNCHANGED mark
           \/ k.fin /\ Drop(q)
  BY DEF HandleSend
<1>2. /\ q \in Client /\ q.state = "ST_SENDING" /\ q.datum \in Datum
      /\ q.requests = r.requests /\ q.head = r.head
  BY BeginSends, BeginLeaves DEF Client
<1>3. begun' \in Seq(Datum) /\ Wired(q, k, begun', mark)
  BY <1>1, BeginWired
<1>4. Paid(q, Len(begun'))
  <2>1. PICK m, n : m = Len(begun) /\ n = Len(begun')
    OBVIOUS
  <2>2. m \in Nat /\ n = IF r.state = "ST_SENDING" THEN m ELSE m + 1
    BY <1>1, <1>2, <2>1, AppendProperties, LenProperties
  <2>3. r.requests \in Nat /\ Paid(r, m)
    BY <2>1 DEF Client
  <2>4. n + r.requests <= Requests + 1 /\ r.requests < ReqMod
    BY <2>2, <2>3, ExchangeAssumption DEF Paid
  <2>5. n <= Requests + 1
    BY <2>2, <2>3, <2>4, ExchangeAssumption
  <2> QED
    BY <1>2, <2>1, <2>4, <2>5 DEF Paid
<1>5. CASE k.fin /\ Drop(q)
  BY <1>2, <1>3, <1>4, <1>5, DropAccounts DEF Known
<1>6. ASSUME NEW n \in 0..(Length[q.datum + 1] - q.pos),
             c' = Sent(q, n),
             stream' = [k EXCEPT !.sent = @ \o
                          SubSeq(Request(q.datum), q.pos + 1, q.pos + n)],
             mark' = mark
      PROVE  YInv'
  <2>1. Wired(c', stream', begun', mark')
    BY <1>2, <1>3, <1>6, SentWired
  <2>2. /\ c'.head = q.head /\ c'.requests = q.requests
        /\ c'.state \in {"ST_SENDING", "ST_RECVING"}
    BY <1>2, <1>6 DEF Sent, Client
  <2>3. stream'.in = k.in /\ stream'.due = k.due
    BY <1>6 DEF Stream
  <2>4. Known(c', stream')
    BY <1>2, <2>2, <2>3 DEF Known
  <2>5. Paid(c', Len(begun'))
    BY <1>2, <1>4, <2>2 DEF Paid
  <2> QED
    BY <2>1, <2>4, <2>5 DEF YInv
<1> QED
  BY <1>1, <1>5, <1>6

\* At the start the whole budget is left, and nothing is sent.
LEMMA InitAccounts == Init => YInv
<1> SUFFICES ASSUME Init PROVE YInv
  OBVIOUS
<1>1. begun = <<>> /\ Len(begun) = 0 /\ mark = 0 /\ stream = Fresh
  BY EmptySeq DEF Init
<1>2. c.state = "ST_CONNECTING" /\ c.requests = Requests
  BY DEF Init
<1>3. c.head \in [1..4 -> Byte]
  BY Constants, ExchangeAssumption DEF Init, Byte, Stale
<1>4. Paid(c, Len(begun))
  BY <1>1, <1>2, ExchangeAssumption DEF Paid
<1>5. Known(c, stream)
  BY <1>1, <1>3, FreshKnown DEF Known
<1>6. Wired(c, stream, begun, mark)
  BY <1>1, <1>2, FreshKnown DEF Wired
<1> QED
  BY <1>4, <1>5, <1>6 DEF Init, YInv

\* What a step needs to leave alone.
LEMMA Untouched ==
    ASSUME YInv, conf' = conf, begun' = begun, mark' = mark,
           c'.state = c.state, c'.requests = c.requests, c'.datum = c.datum,
           c'.pos = c.pos, stream'.sent = stream.sent, Known(c', stream')
    PROVE  YInv'
<1>1. Paid(c', Len(begun'))
  BY DEF YInv, Paid
<1>2. Wired(c', stream', begun', mark')
  <2>1. Wired(c, stream, begun, mark)
    BY DEF YInv
  <2> QED
    BY <2>1 DEF Wired
<1> QED
  BY <1>1, <1>2 DEF YInv

\* The rest of a sequence.
LEMMA RestOf ==
    ASSUME NEW S, NEW s \in Seq(S), NEW n \in Nat
    PROVE  SubSeq(s, n + 1, Len(s)) \in Seq(S)
<1>1. Len(s) \in Nat /\ \A j \in 1..Len(s) : s[j] \in S
  BY LenProperties, ElementOfSeq
<1>2. PICK m : m = Len(s)
  OBVIOUS
<1>3. \A j \in (n + 1)..m : s[j] \in S
  BY <1>1, <1>2
<1>4. n + 1 \in Int /\ m \in Int
  BY <1>1, <1>2
<1>5. SubSeq(s, n + 1, m) \in Seq(S)
  BY <1>3, <1>4, SubSeqProperties
<1> QED
  BY <1>2, <1>5

\* The head is put together of bytes that have arrived.
LEMMA FilledBytes ==
    ASSUME NEW n \in Nat, n <= Len(stream.in), c.read_len \in Int, Known(c, stream)
    PROVE  Filled(n) \in [1..4 -> Byte]
<1>1. /\ c.head \in [1..4 -> Byte]
      /\ stream.in \in Seq(Byte) /\ Len(stream.in) \in Nat
  BY LenProperties DEF Known
<1>2. \A j \in 1..Len(stream.in) : stream.in[j] \in Byte
  BY <1>1, ElementOfSeq
<1> DEFINE got == 4 + c.read_len
<1>3. ASSUME NEW j \in (got + 1)..(got + n) PROVE j - got \in 1..Len(stream.in)
  BY <1>1
<1>4. Filled(n) = [j \in 1..4 |-> IF j \in (got + 1)..(got + n)
                                THEN stream.in[j - got] ELSE c.head[j]]
  BY DEF Filled
<1> HIDE DEF got
<1> QED
  BY <1>1, <1>2, <1>3, <1>4

\* What the state is made of.
LEMMA Parts ==
    ASSUME XInv, YInv
    PROVE  /\ c \in Client /\ stream \in Stream /\ size \in Nat
           /\ begun \in Seq(Datum) /\ mark \in Nat /\ c.read_len \in Int
           /\ conf \in [retry : BOOLEAN, random : BOOLEAN, sleeps : BOOLEAN]
           /\ Paid(c, Len(begun)) /\ Known(c, stream)
           /\ Wired(c, stream, begun, mark)
           /\ c.head \in [1..4 -> Byte]
           /\ stream.in \in Seq(Byte) /\ stream.due \in Seq(Byte)
           /\ Len(stream.in) \in Nat
BY LenProperties DEF XInv, YInv, Types, Client, Known

\* Each step keeps it.
LEMMA SendEventAccounts == XInv /\ YInv /\ SendEvent => YInv'
<1> SUFFICES ASSUME XInv, YInv, SendEvent PROVE YInv'
  OBVIOUS
<1>1. /\ c.state \in {"ST_CONNECTING", "ST_SENDING", "ST_IDLE"}
      /\ HandleSend(c, stream) /\ conf' = conf
  BY DEF SendEvent
<1> QED
  BY <1>1, Parts, HandleSendAccounts

\* An error exit of the connection as it is.
LEMMA DropsHere ==
    ASSUME XInv, YInv, conf' = conf, begun' = begun, Drop(c), c.state # "ST_CLOSED"
    PROVE  YInv'
BY Parts, DropAccounts

LEMMA CloseEventAccounts == XInv /\ YInv /\ CloseEvent => YInv'
BY DropsHere DEF CloseEvent

LEMMA ReadEventAccounts == XInv /\ YInv /\ ReadEvent => YInv'
<1> SUFFICES ASSUME XInv, YInv, ReadEvent PROVE YInv'
  OBVIOUS
<1>1. /\ c' = c /\ stream' = stream /\ begun' = begun /\ mark' = mark
      /\ conf' = conf
  BY DEF ReadEvent
<1> QED
  BY <1>1, Parts, Untouched

LEMMA RecvSomeAccounts == XInv /\ YInv /\ RecvSome => YInv'
<1> SUFFICES ASSUME XInv, YInv, RecvSome PROVE YInv'
  OBVIOUS
<1>1. PICK n : n = Len(stream.in)
  OBVIOUS
<1>2. n \in Nat /\ n <= Len(stream.in)
  BY <1>1, Parts
<1>3. /\ c' = IF c.read_len < 0
              THEN [c EXCEPT !.read_len = @ + n, !.head = Filled(n)]
              ELSE [c EXCEPT !.read_len = @ - n]
      /\ stream' = [stream EXCEPT !.in = <<>>]
      /\ begun' = begun /\ mark' = mark /\ conf' = conf
  BY <1>1 DEF RecvSome
<1>4. Filled(n) \in [1..4 -> Byte]
  BY <1>2, Parts, FilledBytes
<1>5. PICK h : h = Filled(n)
  OBVIOUS
<1>6. /\ c'.state = c.state /\ c'.requests = c.requests /\ c'.datum = c.datum
      /\ c'.pos = c.pos /\ c'.head \in {c.head, h}
  BY <1>3, <1>5, Parts DEF Client
<1>7. /\ stream'.in = <<>> /\ stream'.due = stream.due
      /\ stream'.sent = stream.sent
  BY <1>3, Parts DEF Stream
<1>8. Known(c', stream')
  BY <1>4, <1>5, <1>6, <1>7, Parts, EmptySeq DEF Known
<1> QED
  BY <1>3, <1>6, <1>7, <1>8, Untouched

LEMMA RecvHeadAccounts == XInv /\ YInv /\ RecvHead => YInv'
<1> SUFFICES ASSUME XInv, YInv, RecvHead PROVE YInv'
  OBVIOUS
<1>1. PICK h : h = Filled(size)
  OBVIOUS
<1>2. /\ size > 0 /\ size <= Len(stream.in) /\ size \in Nat
      /\ begun' = begun /\ conf' = conf
  BY Parts DEF RecvHead
<1>3. h \in [1..4 -> Byte] /\ h \in [1..4 -> Tag]
  <2>1. c.state = "ST_RECVING" /\ (c.read_len < 0 => InHead) /\ c.read_len < 0
    BY <1>2, ReadingAwaits DEF RecvHead
  <2>2. size <= -c.read_len
    BY <1>2, <2>1 DEF InHead
  <2> QED
    BY <1>1, <1>2, <2>1, <2>2, Parts, FilledIs, FilledBytes
<1>4. c.state = "ST_RECVING"
  BY <1>2, ReadingAwaits
<1>5. PICK len : len = Decoded(h)
  OBVIOUS
<1>6. CASE Drop([c EXCEPT !.head = h])
  <2>1. PICK r : r = [c EXCEPT !.head = h]
    OBVIOUS
  <2>2. /\ r \in Client /\ r.state = c.state /\ r.requests = c.requests
        /\ r.head = h
    BY <1>3, <2>1, Parts DEF Client
  <2>3. Paid(r, Len(begun'))
    BY <1>2, <2>2, Parts DEF Paid
  <2> QED
    BY <1>2, <1>3, <1>4, <1>6, <2>1, <2>2, <2>3, Parts, DropAccounts
<1>7. CASE /\ c' = [c EXCEPT !.head = h, !.read_len = len]
           /\ stream' = [stream EXCEPT !.in = Rest(size)]
           /\ UNCHANGED mark
  <2>1. /\ c'.state = c.state /\ c'.requests = c.requests /\ c'.datum = c.datum
        /\ c'.pos = c.pos /\ c'.head = h
    BY <1>7, Parts DEF Client
  <2>2. PICK s : s = Rest(size)
    OBVIOUS
  <2>3. stream'.in = s /\ stream'.due = stream.due /\ stream'.sent = stream.sent
    BY <1>7, <2>2, Parts DEF Stream
  <2>4. s \in Seq(Byte)
    BY <1>2, <2>2, Parts, RestOf DEF Rest
  <2>5. Known(c', stream')
    BY <1>3, <2>1, <2>3, <2>4, Parts DEF Known
  <2> QED
    BY <1>2, <1>7, <2>1, <2>3, <2>5, Untouched
<1> QED
  BY <1>1, <1>5, <1>6, <1>7 DEF RecvHead

LEMMA RecvBodyAccounts == XInv /\ YInv /\ RecvBody => YInv'
<1> SUFFICES ASSUME XInv, YInv, RecvBody PROVE YInv'
  OBVIOUS
<1>1. PICK k : k = [stream EXCEPT !.in = Rest(size)]
  OBVIOUS
<1>2. size > 0 /\ size \in Nat /\ conf' = conf /\ AfterRequest(c, k)
  BY <1>1, Parts DEF RecvBody
<1>3. c.state = "ST_RECVING"
  BY <1>2, ReadingAwaits
<1>4. Rest(size) \in Seq(Byte) /\ Rest(size) \in Seq(Tag)
  <2>1. stream.in \in Seq(Tag)
    BY Parts DEF Stream
  <2> QED
    BY <1>2, <2>1, Parts, RestOf DEF Rest
<1>5. /\ k \in Stream /\ k.sent = stream.sent /\ k.due = stream.due
      /\ k.in \in Seq(Byte)
  BY <1>1, <1>4, Parts DEF Stream
<1>6. Known(c, k) /\ Wired(c, k, begun, mark)
  <2>1. Known(c, k)
    BY <1>5, Parts DEF Known
  <2>2. Wired(c, stream, begun, mark)
    BY Parts
  <2> QED
    BY <1>5, <2>1, <2>2 DEF Wired
<1>7. PICK z : z = Spend(c)
  OBVIOUS
<1>8. /\ z \in Client /\ z.state = c.state /\ z.datum = c.datum /\ z.pos = c.pos
      /\ z.head = c.head /\ z.requests < ReqMod
      /\ c.requests > 0 => z.requests = c.requests - 1
  BY <1>7, Parts, SpendIs DEF Paid
<1>9. c.requests \in Nat
  BY Parts DEF Client
<1>10. CASE c.requests = 0
  <2>1. /\ c' = [z EXCEPT !.state = "ST_CLOSED"] /\ stream' = Fresh
        /\ mark' = Len(begun) /\ begun' = begun
    BY <1>2, <1>7, <1>10 DEF AfterRequest
  <2>2. c'.state = "ST_CLOSED" /\ c'.head = c.head /\ c'.requests < ReqMod
    BY <1>8, <2>1 DEF Client
  <2>3. Paid(c', Len(begun'))
    BY <2>1, <2>2, Parts DEF Paid
  <2>4. Known(c', stream')
    BY <2>1, <2>2, Parts, FreshKnown DEF Known
  <2>5. Wired(c', stream', begun', mark')
    BY <2>1, <2>2, FreshKnown DEF Wired
  <2> QED
    BY <1>2, <2>3, <2>4, <2>5, Parts DEF YInv
<1>11. CASE c.requests # 0
  <2>1. PICK r : r = [z EXCEPT !.state = "ST_IDLE"]
    OBVIOUS
  <2>2. /\ r \in Client /\ r.state = "ST_IDLE" /\ r.datum = c.datum
        /\ r.pos = c.pos
        /\ r.head = c.head /\ r.requests = c.requests - 1 /\ r.requests < ReqMod
    BY <1>8, <1>9, <1>11, <2>1 DEF Client, State
  <2>3. PICK n : n = Len(begun)
    OBVIOUS
  <2>4. n \in Nat /\ Paid(c, n)
    BY <2>3, Parts, LenProperties
  <2>5. n + c.requests <= Requests + 1 /\ n <= Requests + 1
    BY <1>3, <2>4 DEF Paid
  <2>6. n + (c.requests - 1) <= Requests
    BY <1>9, <2>4, <2>5, ExchangeAssumption
  <2>7. Paid(r, n)
    BY <2>2, <2>5, <2>6 DEF Paid
  <2>8. Known(r, k)
    BY <1>6, <2>2 DEF Known
  <2>9. Wired(r, k, begun, mark)
    BY <1>3, <1>6, <2>2 DEF Wired
  <2>10. CASE conf.sleeps
    <3>1. c' = r /\ stream' = k /\ begun' = begun /\ mark' = mark
      BY <1>2, <1>7, <1>11, <2>1, <2>10 DEF AfterRequest
    <3> QED
      BY <1>2, <2>3, <2>7, <2>8, <2>9, <3>1, Parts DEF YInv
  <2>11. CASE ~conf.sleeps
    <3>1. HandleSend(r, k)
      BY <1>2, <1>7, <1>11, <2>1, <2>11 DEF AfterRequest
    <3> QED
      BY <1>2, <1>5, <2>2, <2>3, <2>7, <2>8, <2>9, <3>1, Parts, HandleSendAccounts
  <2> QED
    BY <2>10, <2>11
<1> QED
  BY <1>10, <1>11

LEMMA RecvNoneAccounts == XInv /\ YInv /\ RecvNone => YInv'
<1> SUFFICES ASSUME XInv, YInv, RecvNone PROVE YInv'
  OBVIOUS
<1>1. conf' = conf /\ size > 0
  BY DEF RecvNone
<1>2. c.state = "ST_RECVING"
  BY <1>1, ReadingAwaits
<1>3. CASE begun' = begun /\ Drop(c)
  BY <1>1, <1>2, <1>3, DropsHere
<1>4. CASE UNCHANGED <<c, stream, begun, mark>>
  BY <1>1, <1>4, Parts, Untouched
<1> QED
  BY <1>3, <1>4 DEF RecvNone

\* The bytes of an answer.
LEMMA ReplyAccounts == XInv /\ YInv /\ Reply => YInv'
<1> SUFFICES ASSUME XInv, YInv, Reply PROVE YInv'
  OBVIOUS
<1>1. PICK len \in 4..MaxBuf :
         stream' = [stream EXCEPT !.len = len, !.replies = @ + 1,
                                  !.due = @ \o Response(Len(begun), len)]
  BY DEF Reply
<1>2. c' = c /\ begun' = begun /\ mark' = mark /\ conf' = conf
  BY DEF Reply
<1>3. PICK b : b = Len(begun)
  OBVIOUS
<1>4. b \in 0..(Requests + 1) /\ len \in Nat /\ len <= MaxBuf
  <2>1. b \in Nat /\ b <= Requests + 1
    BY <1>3, Parts, LenProperties DEF Paid
  <2> QED
    BY <1>1, <2>1, Constants, ExchangeAssumption
<1>5. Response(b, len) \in Seq(Byte)
  <2> DEFINE e(j) == <<b, j>>
  <2>1. \A j \in 1..len : e(j) \in Byte
    BY <1>4, Constants DEF Byte
  <2>2. [j \in 1..len |-> e(j)] \in Seq(Byte)
    <3> HIDE DEF e
    <3> QED
      BY <1>4, <2>1, IsASeq
  <2> QED
    BY <2>2 DEF Response
<1>6. PICK s : s = stream.due \o Response(b, len)
  OBVIOUS
<1>7. s \in Seq(Byte)
  BY <1>5, <1>6, Parts, ConcatProperties
<1>8. stream' = [stream EXCEPT !.len = len,
                               !.replies = stream.replies + 1, !.due = s]
  BY <1>1, <1>3, <1>6, Parts DEF Stream
<1>9. stream'.in = stream.in /\ stream'.due = s /\ stream'.sent = stream.sent
  BY <1>8, Parts DEF Stream
<1>10. Known(c', stream')
  BY <1>2, <1>7, <1>9, Parts DEF Known
<1> QED
  BY <1>2, <1>9, <1>10, Untouched

LEMMA ArriveAccounts == XInv /\ YInv /\ Arrive => YInv'
<1> SUFFICES ASSUME XInv, YInv, Arrive PROVE YInv'
  OBVIOUS
<1>1. /\ stream.due # <<>> /\ c' = c /\ begun' = begun /\ mark' = mark
      /\ conf' = conf
      /\ stream' = [stream EXCEPT !.in = Append(@, Head(stream.due)),
                                  !.due = Tail(@)]
  BY DEF Arrive
<1>2. PICK x, y : x = Append(stream.in, Head(stream.due)) /\ y = Tail(stream.due)
  OBVIOUS
<1>3. Head(stream.due) \in Byte /\ y \in Seq(Byte)
  BY <1>1, <1>2, Parts, HeadTailProperties
<1>4. x \in Seq(Byte)
  BY <1>2, <1>3, Parts, AppendProperties
<1>5. stream' = [stream EXCEPT !.in = x, !.due = y]
  BY <1>1, <1>2, Parts DEF Stream
<1>6. stream'.in = x /\ stream'.due = y /\ stream'.sent = stream.sent
  BY <1>5, Parts DEF Stream
<1>7. Known(c', stream')
  BY <1>1, <1>3, <1>4, <1>6, Parts DEF Known
<1> QED
  BY <1>1, <1>6, <1>7, Untouched

LEMMA FinAccounts == XInv /\ YInv /\ Fin => YInv'
<1> SUFFICES ASSUME XInv, YInv, Fin PROVE YInv'
  OBVIOUS
<1>1. /\ c' = c /\ begun' = begun /\ mark' = mark /\ conf' = conf
      /\ stream' = [stream EXCEPT !.fin = TRUE]
  BY DEF Fin
<1>2. /\ stream'.in = stream.in /\ stream'.due = stream.due
      /\ stream'.sent = stream.sent
  BY <1>1, Parts DEF Stream
<1>3. Known(c', stream')
  BY <1>1, <1>2, Parts DEF Known
<1> QED
  BY <1>1, <1>2, <1>3, Untouched

LEMMA NextAccounts == XInv /\ YInv /\ [Next]_exVars => YInv'
<1> SUFFICES ASSUME XInv, YInv, [Next]_exVars PROVE YInv'
  OBVIOUS
<1>1. CASE SendEvent BY <1>1, SendEventAccounts
<1>2. CASE CloseEvent BY <1>2, CloseEventAccounts
<1>3. CASE ReadEvent BY <1>3, ReadEventAccounts
<1>4. CASE RecvSome BY <1>4, RecvSomeAccounts
<1>5. CASE RecvHead BY <1>5, RecvHeadAccounts
<1>6. CASE RecvBody BY <1>6, RecvBodyAccounts
<1>7. CASE RecvNone BY <1>7, RecvNoneAccounts
<1>8. CASE Reply BY <1>8, ReplyAccounts
<1>9. CASE Arrive BY <1>9, ArriveAccounts
<1>10. CASE Fin BY <1>10, FinAccounts
<1>11. CASE UNCHANGED exVars
  BY <1>11 DEF exVars, YInv, Paid, Known, Wired
<1>12. QED
  BY <1>1, <1>2, <1>3, <1>4, <1>5, <1>6, <1>7, <1>8, <1>9, <1>10, <1>11
     DEF Next

LEMMA YInvHolds == Spec => [](XInv /\ YInv)
BY InitXInv, NextXInv, InitAccounts, NextAccounts, PTL DEF Spec

-----------------------------------------------------------------------------
(***************************************************************************)
(* What follows.                                                           *)
(***************************************************************************)
\* handle_read_event() never asks for more than a whole buffer.
LEMMA SizeBound == XInv => size \in 0..Endless
<1> SUFFICES ASSUME XInv PROVE size \in 0..Endless
  OBVIOUS
<1>1. size \in Nat /\ Endless \in Nat /\ Endless > MaxBuf /\ MaxBuf > 5
  BY Constants DEF XInv, Types
<1>2. CASE size = 0
  BY <1>1, <1>2
<1>3. CASE size # 0
  <2>1. /\ c.read_len \in Int /\ (c.read_len < 0 => InHead)
        /\ ~(c.read_len < 0) => InBody
    BY <1>1, <1>3, ReadingAwaits
  <2>2. CASE c.read_len < 0
    <3>1. size = -c.read_len /\ 4 + c.read_len \in 0..3
      BY <1>3, <2>1, <2>2 DEF InHead
    <3> QED
      BY <1>1, <2>1, <3>1, Constants
  <2>3. CASE ~(c.read_len < 0)
    <3>1. size = Endless \/ (size <= c.read_len /\ c.read_len < MaxBuf)
      BY <1>3, <2>1, <2>3 DEF InBody
    <3> QED
      BY <1>1, <2>1, <3>1, Constants
  <2> QED
    BY <2>2, <2>3
<1> QED
  BY <1>2, <1>3

\* Every variable keeps its type: the budget never leaves its width, the index
\* stays inside the test data, and handle_read_event() never asks for more than
\* the buffer's size.
THEOREM ExchangeTypeOKHolds == Spec => []ExchangeTypeOK
<1>1. XInv /\ YInv => ExchangeTypeOK
  <2> SUFFICES ASSUME XInv, YInv PROVE ExchangeTypeOK
    OBVIOUS
  <2>1. c.requests \in 0..(ReqMod - 1)
    <3>1. c.requests \in Nat /\ c.requests < ReqMod
      BY Parts DEF Client, Paid
    <3> QED
      BY <3>1, ExchangeAssumption
  <2>2. c \in [state : State, requests : 0..(ReqMod - 1), test_data_index : Datum,
               datum : Datum, pos : Nat, read_len : Int, head : [1..4 -> Byte]]
    BY <2>1, Parts DEF Client
  <2>3. mark \in 0..Len(begun)
    BY Parts, LenProperties DEF XInv, Types
  <2>4. stream.len \in 0..MaxBuf /\ stream.fin \in BOOLEAN
    BY Parts DEF Stream
  <2> QED
    BY <2>2, <2>3, <2>4, Parts, SizeBound DEF ExchangeTypeOK
<1> QED
  BY <1>1, YInvHolds, PTL

\* The requests of this stream, counted from its own start.
LEMMA MineIs ==
    ASSUME NEW b \in Seq(Datum), NEW m \in Nat, m <= Len(b)
    PROVE  LET mine == SubSeq(b, m + 1, Len(b))
           IN  /\ m = Len(b) => mine = <<>>
               /\ m < Len(b) =>
                     /\ mine # <<>> /\ Len(mine) = Len(b) - m
                     /\ \A j \in 1..(Len(b) - m) : mine[j] = b[m + j]
                     /\ Last(mine) = b[Len(b)]
<1>1. PICK n, p : n = Len(b) /\ p = SubSeq(b, m + 1, Len(b))
  OBVIOUS
<1>2. n \in Nat /\ m <= n /\ \A j \in 1..n : b[j] \in Datum
  BY <1>1, LenProperties, ElementOfSeq
<1>3. m + 1 \in Int /\ n \in Int /\ p = SubSeq(b, m + 1, n)
  BY <1>1, <1>2
<1>4. \A j \in (m + 1)..n : b[j] \in Datum
  BY <1>2
<1>5. /\ p \in Seq(Datum)
      /\ Len(p) = IF m + 1 <= n THEN n - (m + 1) + 1 ELSE 0
      /\ \A j \in 1..(n - (m + 1) + 1) : p[j] = b[(m + 1) + j - 1]
  BY <1>3, <1>4, SubSeqProperties
<1>6. CASE m = n
  <2>1. Len(p) = 0
    BY <1>2, <1>5, <1>6
  <2>2. p = <<>>
    BY <1>5, <2>1, EmptySeq
  <2> QED
    BY <1>1, <1>2, <1>6, <2>2
<1>7. CASE m < n
  <2>1. Len(p) = n - m /\ n - (m + 1) + 1 = n - m /\ n - m \in Nat \ {0}
    BY <1>2, <1>5, <1>7
  <2>2. p # <<>>
    BY <2>1, EmptySeq
  <2>3. \A j \in 1..(n - m) : p[j] = b[m + j]
    <3> SUFFICES ASSUME NEW j \in 1..(n - m) PROVE p[j] = b[m + j]
      OBVIOUS
    <3>1. (m + 1) + j - 1 = m + j
      BY <1>2
    <3> QED
      BY <1>5, <2>1, <3>1
  <2>4. p[Len(p)] = b[n]
    <3>1. PICK l : l = n - m
      OBVIOUS
    <3>2. l \in 1..(n - m) /\ m + l = n /\ Len(p) = l
      BY <1>2, <1>7, <2>1, <3>1
    <3> QED
      BY <2>3, <3>2
  <2> QED
    <3>1. Last(p) = b[n]
      BY <2>4 DEF Last
    <3>2. /\ m < n /\ m # n /\ p # <<>> /\ Len(p) = n - m
          /\ \A j \in 1..(n - m) : p[j] = b[m + j]
      BY <1>2, <1>7, <2>1, <2>2, <2>3
    <3> QED
      BY <1>1, <3>1, <3>2, Zenon
<1> QED
  BY <1>1, <1>2, <1>6, <1>7

\* What the server of a stream has got is whole requests, up to where the
\* current one's buffer stands: nothing of a request that an earlier stream cut
\* off is sent again or continued, nothing is sent twice or left out, and a
\* response is awaited only when its request is out.
THEOREM WholeRequestsHolds == Spec => []WholeRequests
<1>1. XInv /\ YInv => WholeRequests
  <2> SUFFICES ASSUME XInv, YInv PROVE WholeRequests
    OBVIOUS
  <2> DEFINE mine == SubSeq(begun, mark + 1, Len(begun))
             front == FlattenSeq([j \in 1..(Len(mine) - 1) |-> Request(mine[j])])
  <2>1. /\ c \in Client /\ begun \in Seq(Datum) /\ mark \in Nat
        /\ mark <= Len(begun)
        /\ Wired(c, stream, begun, mark) /\ Len(begun) \in Nat
    BY Parts, LenProperties DEF XInv, Types
  <2>2. CASE c.state \in {"ST_CLOSED", "ST_CONNECTING"}
    <3>1. mark = Len(begun) /\ stream.sent = <<>>
      BY <2>1, <2>2 DEF Wired
    <3>2. mine = <<>>
      BY <2>1, <3>1, MineIs
    <3> QED
      BY <2>2, <3>1, <3>2 DEF WholeRequests
  <2>3. CASE c.state \notin {"ST_CLOSED", "ST_CONNECTING"}
    <3>1. /\ mark < Len(begun) /\ c.datum = begun[Len(begun)]
          /\ c.state # "ST_SENDING" => c.pos = Length[c.datum + 1]
          /\ stream.sent = Out(begun, mark, Len(begun) - mark - 1)
                              \o SubSeq(Request(c.datum), 1, c.pos)
      BY <2>1, <2>3 DEF Wired
    <3>2. /\ mine # <<>> /\ Len(mine) = Len(begun) - mark
          /\ \A j \in 1..(Len(begun) - mark) : mine[j] = begun[mark + j]
          /\ Last(mine) = begun[Len(begun)]
      BY <2>1, <3>1, MineIs
    <3> HIDE DEF mine
    <3>3. PICK k : k = Len(mine) - 1
      OBVIOUS
    <3>4. k = Len(begun) - mark - 1 /\ \A j \in 1..k : mine[j] = begun[mark + j]
      BY <2>1, <3>1, <3>2, <3>3
    <3>5. [j \in 1..k |-> Request(mine[j])] =
             [j \in 1..k |-> Request(begun[mark + j])]
      BY <3>4
    <3>6. front = Out(begun, mark, k)
      BY <3>3, <3>5 DEF Out
    <3> HIDE DEF front
    <3>7. stream.sent = front \o SubSeq(Request(Last(mine)), 1, c.pos)
      BY <3>1, <3>2, <3>4, <3>6
    <3> QED
      BY <2>3, <3>1, <3>2, <3>7 DEF WholeRequests, mine, front
  <2> QED
    BY <2>2, <2>3
<1> QED
  BY <1>1, YInvHolds, PTL
===============================================================================
