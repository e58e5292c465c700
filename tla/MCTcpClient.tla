----------------------------- MODULE MCTcpClient -----------------------------
(* Model-checking instances of TcpClient.  The connections of the pool run   *)
(* the same code with the same configuration, so they are interchangeable.   *)
EXTENDS TcpClientBudget, TLC

Symmetry == Permutations(Conn)
=============================================================================
