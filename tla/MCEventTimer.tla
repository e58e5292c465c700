---------------------------- MODULE MCEventTimer -----------------------------
(* Model-checking instances of EventTimer, with interchangeable connections. *)
EXTENDS EventTimer, TLC

Symmetry == Permutations(Conn)
=============================================================================
