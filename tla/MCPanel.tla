------------------------------- MODULE MCPanel -------------------------------
(* Model values for the runs of Panel.                                     *)
EXTENDS Panel, TLC

CONSTANTS a, b,   \* runs
          tier, k \* a tier and a schedule

(* One run to follow; the other only moves it in the lists.                *)
MCMaxEvents == [r \in Runs |-> IF r = b THEN 0 ELSE 2]
=============================================================================
