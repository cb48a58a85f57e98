-------------------------- MODULE LifecyclePromise --------------------------
(* What a lifecycle promises: its phases are accepted one after another,   *)
(* each on the strength of an attempt that succeeded, and it has completed *)
(* when all are accepted and not before.                                   *)
EXTENDS Naturals

CONSTANT Runs

VARIABLES state,    \* idle, working, worked, flawed, completed, stopped
          accepted, \* the phases accepted
          length    \* of how many

promiseVars == <<state, accepted, length>>

Init == /\ state = [r \in Runs |-> "idle"]
        /\ accepted = [r \in Runs |-> 0]
        /\ length \in [Runs -> Nat]

To(r, s) == state' = [state EXCEPT ![r] = s]

Begin(r) == /\ state[r] = "idle" /\ (To(r, "working") \/ To(r, "stopped"))
            /\ length'[r] \in Nat \ {0}
            /\ length' = [length EXCEPT ![r] = length'[r]]
            /\ UNCHANGED accepted

Work(r) == /\ state[r] = "working"
           /\ To(r, "worked") \/ To(r, "flawed")
           /\ UNCHANGED <<accepted, length>>

Redo(r) == /\ state[r] \in {"worked", "flawed"} /\ To(r, "working")
           /\ UNCHANGED <<accepted, length>>

Accept(r) == /\ state[r] = "worked"
             /\ accepted' = [accepted EXCEPT ![r] = @ + 1]
             /\ To(r, IF accepted[r] + 1 = length[r] THEN "completed" ELSE "working")
             /\ UNCHANGED length

Stop(r) == /\ state[r] \notin {"idle", "completed", "stopped"} /\ To(r, "stopped")
           /\ UNCHANGED <<accepted, length>>

Next == \E r \in Runs : Begin(r) \/ Work(r) \/ Redo(r) \/ Accept(r) \/ Stop(r)

Spec == Init /\ [][Next]_promiseVars
=============================================================================
