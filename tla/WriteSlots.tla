----------------------------- MODULE WriteSlots -----------------------------
(***************************************************************************)
(* What the foreground lock promises to the dispatches that write: at most *)
(* Cap of them are at work in the working directory at any time, and each  *)
(* enters and leaves on its own.  Queues, rejections, registries and child *)
(* sessions are not mentioned; SpawnSubagent implements this specification.*)
(***************************************************************************)
EXTENDS Naturals, FiniteSets

CONSTANTS Writers,  \* the runs that may edit files in place
          Cap       \* how many may do so at once

VARIABLE inside  \* the writers at work

Init == inside = {}

Enter(w) == /\ w \notin inside
            /\ Cardinality(inside) < Cap
            /\ inside' = inside \cup {w}

Leave(w) == /\ w \in inside
            /\ inside' = inside \ {w}

Next == \E w \in Writers : Enter(w) \/ Leave(w)

Spec == Init /\ [][Next]_inside
=============================================================================
