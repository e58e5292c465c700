---------------------------- MODULE RequestBudget -----------------------------
(***************************************************************************)
(* What a pool of connections promises about its requests, with nothing of *)
(* sockets, events and timers.  Every connection has a budget of Requests. *)
(* An answer takes one of it, and so does a connection that has to be      *)
(* opened again; when the budget is spent one more answer is taken at      *)
(* most, and a connection that is closed then, or for want of a retry, is  *)
(* closed for good.  TcpClient implements this: see TcpClientBudget.       *)
(***************************************************************************)
EXTENDS Integers, TLAPS

CONSTANTS
    Conn,       \* the connections
    Requests,   \* the budget of each
    Retry,      \* whether a lost connection is opened again
    DialFails   \* whether opening may fail on the client's side

VARIABLES
    phase,      \* of each connection: not opened yet, open, closed
    answers,    \* responses taken
    retries     \* times it was opened again

budgetVars == <<phase, answers, retries>>

Used(c) == answers[c] + retries[c]

Init ==
    /\ phase = [c \in Conn |-> "new"]
    /\ answers = [c \in Conn |-> 0]
    /\ retries = [c \in Conn |-> 0]

\* c takes a answers and pays for b retries, and is then in phase p.
Account(c, a, b, p) ==
    /\ phase' = [phase EXCEPT ![c] = p]
    /\ answers' = [answers EXCEPT ![c] = @ + a]
    /\ retries' = [retries EXCEPT ![c] = @ + b]

\* A dial that fails leaves the connection closed.
Dialled(p) == p = "open" \/ (p = "closed" /\ DialFails)

Open(c) ==
    /\ phase[c] = "new"
    /\ \E p \in {"open", "closed"} : Dialled(p) /\ Account(c, 0, 0, p)

\* The budget pays for an answer.
Answer(c) ==
    /\ phase[c] = "open"
    /\ Used(c) < Requests
    /\ Account(c, 1, 0, "open")

\* The connection is lost, possibly just after an answer, and the budget pays
\* for opening it again.
Redial(c) ==
    /\ phase[c] = "open"
    /\ Retry
    /\ \E a \in {0, 1}, p \in {"open", "closed"} :
          /\ Used(c) + a < Requests
          /\ Dialled(p)
          /\ Account(c, a, 1, p)

\* It is lost, possibly just after an answer, and nothing pays for a retry.
GiveUp(c) ==
    /\ phase[c] = "open"
    /\ \E a \in {0, 1} :
          /\ Used(c) + a =< Requests
          /\ ~Retry \/ Used(c) + a = Requests
          /\ Account(c, a, 0, "closed")

\* The one answer beyond the budget, the connection's last.
LastAnswer(c) ==
    /\ phase[c] = "open"
    /\ Used(c) = Requests
    /\ Account(c, 1, 0, "closed")

Next == \E c \in Conn : \/ Open(c) \/ Answer(c) \/ Redial(c)
                        \/ GiveUp(c) \/ LastAnswer(c)

Spec == Init /\ [][Next]_budgetVars

-----------------------------------------------------------------------------
BudgetTypeOK ==
    /\ phase \in [Conn -> {"new", "open", "closed"}]
    /\ answers \in [Conn -> Nat]
    /\ retries \in [Conn -> Nat]

\* A budget of N bounds the retries by N and everything by N + 1.
Bounded ==
    \A c \in Conn : /\ Used(c) =< Requests + 1
                    /\ retries[c] =< Requests
                    /\ phase[c] # "closed" => Used(c) =< Requests

\* With retries, and dials that do not fail, nobody is closed too early.
Persistent ==
    Retry /\ ~DialFails =>
        \A c \in Conn : phase[c] = "closed" => Used(c) >= Requests

BudgetInvariant ==
    /\ BudgetTypeOK
    /\ Bounded
    /\ Persistent
    /\ \A c \in Conn : phase[c] = "new" => Used(c) = 0

-----------------------------------------------------------------------------
\* One step of c's account, seen from the others.
LEMMA AccountStep ==
    ASSUME BudgetTypeOK, NEW c \in Conn, NEW a \in {0, 1}, NEW b \in {0, 1},
           NEW p \in {"open", "closed"}, Account(c, a, b, p)
    PROVE  /\ BudgetTypeOK'
           /\ phase'[c] = p /\ retries'[c] = retries[c] + b
           /\ Used(c)' = Used(c) + a + b /\ Used(c) \in Nat
           /\ \A d \in Conn \ {c} : /\ phase'[d] = phase[d]
                                    /\ retries'[d] = retries[d]
                                    /\ Used(d)' = Used(d)
BY DEF BudgetTypeOK, Account, Used

LEMMA BudgetStep ==
    ASSUME Requests \in Nat, BudgetInvariant, [Next]_budgetVars
    PROVE  BudgetInvariant'
<1>1. CASE UNCHANGED budgetVars
  BY <1>1 DEF budgetVars, BudgetInvariant, BudgetTypeOK, Bounded, Persistent, Used
<1>2. ASSUME NEW c \in Conn, NEW a \in {0, 1}, NEW b \in {0, 1},
             NEW p \in {"open", "closed"}, Account(c, a, b, p),
             Used(c) + a + b =< Requests + 1,
             b = 1 => Used(c) + a + b =< Requests,
             p = "open" => Used(c) + a + b =< Requests,
             p = "closed" /\ Retry /\ ~DialFails => Used(c) + a + b >= Requests
      PROVE  BudgetInvariant'
  <2>1. /\ BudgetTypeOK'
        /\ phase'[c] = p /\ retries'[c] = retries[c] + b
        /\ Used(c)' = Used(c) + a + b /\ Used(c) \in Nat
        /\ \A d \in Conn \ {c} : /\ phase'[d] = phase[d]
                                 /\ retries'[d] = retries[d]
                                 /\ Used(d)' = Used(d)
    BY <1>2, AccountStep DEF BudgetInvariant
  <2>2. retries'[c] =< Requests
    BY <1>2, <2>1 DEF BudgetInvariant, BudgetTypeOK, Bounded, Used
  <2>3. Bounded'
    BY <1>2, <2>1, <2>2 DEF BudgetInvariant, Bounded
  <2>4. Persistent'
    BY <1>2, <2>1 DEF BudgetInvariant, Persistent
  <2> QED
    BY <2>1, <2>3, <2>4 DEF BudgetInvariant
<1>3. ASSUME NEW c \in Conn, Open(c)
      PROVE  BudgetInvariant'
  <2>1. PICK p \in {"open", "closed"} : Dialled(p) /\ Account(c, 0, 0, p)
    BY <1>3 DEF Open
  <2>2. Used(c) = 0
    BY <1>3 DEF Open, BudgetInvariant
  <2> QED
    BY <1>2, <2>1, <2>2 DEF Dialled
<1>4. ASSUME NEW c \in Conn, Answer(c)
      PROVE  BudgetInvariant'
  <2>1. Used(c) \in Nat
    BY DEF BudgetInvariant, BudgetTypeOK, Used
  <2> QED
    BY <1>2, <1>4, <2>1 DEF Answer
<1>5. ASSUME NEW c \in Conn, Redial(c)
      PROVE  BudgetInvariant'
  <2>1. Used(c) \in Nat
    BY DEF BudgetInvariant, BudgetTypeOK, Used
  <2>2. PICK a \in {0, 1}, p \in {"open", "closed"} :
           Used(c) + a < Requests /\ Dialled(p) /\ Account(c, a, 1, p)
    BY <1>5 DEF Redial
  <2> QED
    BY <1>2, <2>1, <2>2 DEF Dialled
<1>6. ASSUME NEW c \in Conn, GiveUp(c)
      PROVE  BudgetInvariant'
  <2>1. Used(c) \in Nat
    BY DEF BudgetInvariant, BudgetTypeOK, Used
  <2>2. PICK a \in {0, 1} : /\ Used(c) + a =< Requests
                            /\ ~Retry \/ Used(c) + a = Requests
                            /\ Account(c, a, 0, "closed")
    BY <1>6 DEF GiveUp
  <2> QED
    BY <1>2, <2>1, <2>2
<1>7. ASSUME NEW c \in Conn, LastAnswer(c)
      PROVE  BudgetInvariant'
  BY <1>2, <1>7 DEF LastAnswer
<1> QED
  BY <1>1, <1>3, <1>4, <1>5, <1>6, <1>7 DEF Next

\* The account of every connection stays within its budget, and with retries
\* and dials that succeed it is closed only when the budget is spent.
THEOREM BudgetKept ==
    ASSUME Requests \in Nat
    PROVE  Spec => []BudgetInvariant
<1>1. Init => BudgetInvariant
  BY DEF Init, BudgetInvariant, BudgetTypeOK, Bounded, Persistent, Used
<1>2. BudgetInvariant /\ [Next]_budgetVars => BudgetInvariant'
  BY BudgetStep
<1> QED
  BY <1>1, <1>2, PTL DEF Spec
=============================================================================
