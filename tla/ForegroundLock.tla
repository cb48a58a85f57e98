--------------------------- MODULE ForegroundLock ---------------------------
(***************************************************************************)
(* The foreground concurrency lock, ForegroundLockImpl of                  *)
(* src/engine/concurrency-lock.ts: a semaphore of Cap slots shared by all  *)
(* write dispatches of one pi session.  With Cap = 1 a second dispatch is  *)
(* rejected; with Cap > 1 it waits in FIFO order, and the run that         *)
(* releases a slot hands it directly to the first waiter.                  *)
(*                                                                         *)
(* A run id is minted per dispatch, so no id is acquired twice and the     *)
(* holders, an array in the code, are a set here.  A waiter, a closure in  *)
(* the code, is the run id it would push.                                  *)
(***************************************************************************)
EXTENDS Naturals, Sequences, FiniteSets

CONSTANTS Runs,  \* the run ids a session mints
          Cap    \* ARMORY_FLEET_FOREGROUND_CONCURRENCY

ASSUME RunsAssumption == IsFiniteSet(Runs)
ASSUME CapAssumption  == Cap \in Nat \ {0}

VARIABLES active,  \* the runs that hold a slot
          waiters  \* the queued runs, first in first out

lockVars == <<active, waiters>>

LockInit == /\ active = {}
            /\ waiters = <<>>

(* Mutated form: the comparison lets one run too many in.                  *)
FullOffByOne == Cardinality(active) > Cap

Full == Cardinality(active) >= Cap

(* acquire(runId), its three outcomes. *)
Acquire(r) == /\ ~Full
              /\ active' = active \cup {r}
              /\ UNCHANGED waiters

Enqueue(r) == /\ Full
              /\ Cap > 1
              /\ waiters' = Append(waiters, r)
              /\ UNCHANGED active

Reject(r) == /\ Full
             /\ Cap = 1
             /\ UNCHANGED lockVars

(* Mutated forms of release: it frees the slot without waking the first    *)
(* waiter; it wakes the first waiter but leaves it in the queue.           *)
ReleaseWakesNobody(r) == /\ active' = active \ {r}
                         /\ UNCHANGED waiters

ReleaseKeepsWaiter(r) ==
    /\ active' = (active \ {r}) \cup (IF waiters = <<>> THEN {} ELSE {Head(waiters)})
    /\ UNCHANGED waiters

(* release(runId): nothing if the run holds no slot, otherwise the slot    *)
(* goes to the first waiter without ever being free in between.            *)
Release(r) ==
    \/ /\ r \notin active
       /\ UNCHANGED lockVars
    \/ /\ r \in active
       /\ waiters = <<>>
       /\ active' = active \ {r}
       /\ UNCHANGED waiters
    \/ /\ r \in active
       /\ waiters # <<>>
       /\ active' = (active \ {r}) \cup {Head(waiters)}
       /\ waiters' = Tail(waiters)
=============================================================================
