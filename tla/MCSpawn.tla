------------------------------- MODULE MCSpawn -------------------------------
(* Model values and constant functions for the runs of SpawnSubagent.      *)
EXTENDS SpawnSubagent

CONSTANTS a, b, c, x, t

MCNamed == [r \in Runs |-> IF r \in {a} \cup Phase /\ t \in Linked THEN t ELSE NoTodo]
=============================================================================
