--------------------------- MODULE TcpClientBudget ----------------------------
(***************************************************************************)
(* The handlers of src/common.c keep the promise of RequestBudget: the     *)
(* unsigned counter conf->requests, decremented by handle_after_request()  *)
(* and by the test of every error exit, amounts to the count of answers    *)
(* and retries against a fixed budget.                                     *)
(***************************************************************************)
EXTENDS TcpClient

\* A connection start_all_connection() has not reached is new; what is closed
\* afterwards has been given up.
PhaseOf(c) ==
    IF c \in todo THEN "new" ELSE IF Live(c) THEN "open" ELSE "closed"

Budget == INSTANCE RequestBudget
    WITH phase <- [c \in Conn |-> PhaseOf(c)],
         answers <- answered, retries <- redialled,
         DialFails <- CanFailLocally

\* Whatever the server, the descriptors and the timers do, each step of the
\* client is, for the budgets, an answer, a paid retry, the end of one
\* connection, or nothing.
ImplementsBudget == Budget!Spec
=============================================================================
