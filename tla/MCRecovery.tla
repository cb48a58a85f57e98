------------------------------ MODULE MCRecovery ------------------------------
(* Model values and constant functions for the runs of RunRecovery.        *)
EXTENDS RunRecovery

CONSTANTS a, b, c, t

MCNamed == [r \in Runs |-> IF r = b THEN t ELSE NoTodo]
=============================================================================
