----------------------------- MODULE MCWorkflow -----------------------------
(* Scripts for the runs of Workflow.                                       *)
EXTENDS Workflow

CONSTANTS s, f, e

call(kind, prompt) == [kind |-> kind, prompt |-> prompt]

(* An isolated agent beside a question; an unattended script for which the *)
(* tool waits; the edited script spawns again and then runs a lifecycle.   *)
MCScript == s :> << <<call("isolated", "w")>>, <<call("checkpoint", "q")>> >>
         @@ f :> << <<call("agent", "p"), call("checkpoint", "q")>> >>
         @@ e :> << <<call("retry", "p"), call("lifecycle", "l")>> >>
=============================================================================
