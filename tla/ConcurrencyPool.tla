--------------------------- MODULE ConcurrencyPool ---------------------------
(***************************************************************************)
(* withSlot of src/runtime/concurrency-pool.ts: Cap slots, and a queue for *)
(* the callers that find them taken.                                       *)
(*                                                                         *)
(* A session has one pool at a time, but session_start may fire again and  *)
(* build another while runs of the first still hold its slots: Pools are   *)
(* the pools that a process builds.                                        *)
(***************************************************************************)
EXTENDS Naturals, Sequences, FiniteSets

CONSTANTS Runs,  \* the background runs
          Pools, \* the pools a process may build
          Cap    \* the slots of a pool

ASSUME PoolAssumption == IsFiniteSet(Pools) /\ Cap \in Nat \ {0}

VARIABLES active,  \* the count of taken slots of each pool
          queue,   \* the callers of each pool that wait, first in first out
          woken    \* the callers whose wait is over and that run next

poolVars == <<active, queue, woken>>

PoolInit == /\ active = [p \in Pools |-> 0]
            /\ queue  = [p \in Pools |-> <<>>]
            /\ woken  = {}

(* A caller that finds a slot takes it and runs at once.                   *)
Enter(p) == /\ active[p] < Cap
            /\ active' = [active EXCEPT ![p] = @ + 1]
            /\ UNCHANGED <<queue, woken>>

Wait(p, r) == /\ active[p] >= Cap
              /\ queue' = [queue EXCEPT ![p] = Append(@, r)]
              /\ UNCHANGED <<active, woken>>

(* Mutated form: the woken caller takes its slot for granted.              *)
EnterUncounted(p, r) == /\ r \in woken
                        /\ woken' = woken \ {r}
                        /\ UNCHANGED <<active, queue>>

(* A woken caller runs after the code that woke it, and whatever was due   *)
(* before: it takes a slot without looking whether there is one.           *)
EnterWoken(p, r) == /\ r \in woken
                    /\ woken' = woken \ {r}
                    /\ active' = [active EXCEPT ![p] = @ + 1]
                    /\ UNCHANGED queue

(* Mutated form: the slot is given back and nobody is told.                *)
LeaveSilently(p) == /\ active' = [active EXCEPT ![p] = @ - 1]
                    /\ UNCHANGED <<queue, woken>>

(* The finally block: the slot is free before its next user takes it.      *)
Leave(p) ==
    /\ active' = [active EXCEPT ![p] = @ - 1]
    /\ \/ /\ queue[p] = <<>>
          /\ UNCHANGED <<queue, woken>>
       \/ /\ queue[p] # <<>>
          /\ woken' = woken \cup {Head(queue[p])}
          /\ queue' = [queue EXCEPT ![p] = Tail(@)]
=============================================================================
