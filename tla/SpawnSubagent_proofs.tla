------------------------ MODULE SpawnSubagent_proofs ------------------------
(***************************************************************************)
(* Theorems about SpawnSubagent, for every number of runs and every cap.   *)
(***************************************************************************)
EXTENDS SpawnSubagent, FiniteSetTheorems, TLAPS

-----------------------------------------------------------------------------
(* Type correctness. *)

(* The initial state is typed.                                             *)
LEMMA TypeInit == Init => TypeOK
  BY NamedAssumption, KindsAssumption, NamesAssumption, MaxTurnsAssumption
     DEF Init, LockInit, TypeOK, Todos, Working, Terminal, OpenStates

(* Releasing a slot keeps the lock's variables typed.                      *)
LEMMA TypeRelease ==
    ASSUME active \subseteq Runs, waiters \in Seq(Runs), NEW r \in Runs, ReleaseSlot(r)
    PROVE  active' \subseteq Runs /\ waiters' \in Seq(Runs)
  BY DEF ReleaseSlot, Release, lockVars

(* finishRun writes a terminal status, a terminal journal entry and a todo *)
(* status that some todo may have.                                         *)
LEMMA TypeFinish ==
    ASSUME TypeOK, NEW r \in Runs, NEW v \in Terminal, FinishRun(r, v),
           UNCHANGED <<lockVars, callVars, signal>>
    PROVE  TypeOK'
  <1>1. todo' \in [Todos -> {"absent", "open", "in_progress", "done"}]
    BY DEF TypeOK, FinishRun, Settle, OpenStates
  <1>2. runLog' \in [Runs -> Seq({"meta"} \cup Terminal)]
    <2>1. Append(runLog[r], v) \in Seq({"meta"} \cup Terminal)
      BY DEF TypeOK
    <2> QED BY <2>1 DEF TypeOK, FinishRun
  <1> QED
    BY <1>1, <1>2, MaxTurnsAssumption
       DEF TypeOK, FinishRun, Discard, Suspend, Working, Terminal,
           lockVars, callVars

(* The call up to its first await keeps the types.                         *)
LEMMA TypeBegin ==
    ASSUME TypeOK, NEW r \in Runs, Begin(r),
           link' \in [Runs -> Todos \cup {NoTodo}],
           retryOf' \in [Runs -> Runs \cup {NoRun}]
    PROVE  TypeOK'
  <1>1. active' \subseteq Runs /\ waiters' \in Seq(Runs)
    <2>1. Append(waiters, r) \in Seq(Runs)
      BY DEF TypeOK
    <2>2. \/ UNCHANGED lockVars
          \/ Acquire(r)
          \/ Enqueue(r)
      BY DEF Begin, Reject
    <2> QED BY <2>1, <2>2 DEF TypeOK, Acquire, Enqueue, lockVars
  <1>2. pc' \in [Runs -> {"idle", "acquiring", "done"} \cup Working]
    <2>1. Suspend(r, "acquiring") \/ Suspend(r, "done")
      BY DEF Begin, Fail
    <2> QED BY <2>1 DEF TypeOK, Suspend
  <1>3. result' \in [Runs -> {"none"} \cup Terminal]
    BY DEF TypeOK, Begin, Fail, Terminal
  <1> QED
    BY <1>1, <1>2, <1>3 DEF TypeOK, Begin, childVars, todoVars

(* Linking or creating a todo keeps the types: a run is linked only to a   *)
(* todo that is open or in progress.                                       *)
LEMMA TypeResolveOk ==
    ASSUME TypeOK, NEW r \in Runs, ResolveOk(r)
    PROVE  TypeOK'
  <1>1. /\ pc' \in [Runs -> {"idle", "acquiring", "done"} \cup Working]
        /\ todoId' \in [Runs -> Todos \cup {NoTodo}]
        /\ prior' \in [Runs -> {"none"} \cup OpenStates]
        /\ todo' \in [Todos -> {"absent", "open", "in_progress", "done"}]
    <2>1. CanLink(r) => link[r] \in Todos /\ todo[link[r]] \in OpenStates
      BY DEF TypeOK, CanLink
    <2>2. Suspend(r, "creating") \/ Suspend(r, "linking")
      BY DEF ResolveOk, LinkOrCreate
    <2>3. pc' \in [Runs -> {"idle", "acquiring", "done"} \cup Working]
      BY <2>2 DEF TypeOK, Suspend, Working
    <2>4. CASE UNCHANGED todoVars
      BY <2>3, <2>4 DEF TypeOK, todoVars
    <2>5. CASE /\ CanLink(r)
               /\ todoId' = [todoId EXCEPT ![r] = link[r]]
               /\ prior'  = [prior EXCEPT ![r] = todo[link[r]]]
               /\ todo'   = [todo EXCEPT ![link[r]] = "in_progress"]
      BY <2>1, <2>3, <2>5 DEF TypeOK
    <2>6. CASE /\ todoId' = [todoId EXCEPT ![r] = r]
               /\ todo'   = [todo EXCEPT ![r] = "in_progress"]
               /\ UNCHANGED prior
      BY <2>3, <2>6 DEF TypeOK, Todos
    <2> QED
      BY <2>4, <2>5, <2>6 DEF ResolveOk, LinkOrCreate
  <1>2. status' \in [Runs -> {"none", "running"} \cup Terminal]
    BY DEF TypeOK, ResolveOk
  <1> QED
    BY <1>1, <1>2 DEF TypeOK, ResolveOk, lockVars, childVars, callVars

(* Every step keeps the types, one step of the proof per action.           *)
LEMMA TypeNext == TypeOK /\ [Next]_vars => TypeOK'
  <1> SUFFICES ASSUME TypeOK, [Next]_vars PROVE TypeOK'
    OBVIOUS
  <1>1. ASSUME NEW r \in Runs, Dispatch(r) PROVE TypeOK'
    BY <1>1, TypeBegin DEF Dispatch, callVars, TypeOK
  <1>2. ASSUME NEW r \in Runs, ResolveFails(r) PROVE TypeOK'
    <2>1. active' \subseteq Runs /\ waiters' \in Seq(Runs)
      BY <1>2, TypeRelease DEF ResolveFails, TypeOK
    <2> QED
      BY <1>2, <2>1 DEF ResolveFails, TypeOK, Fail, Suspend, Terminal,
                        childVars, todoVars, callVars
  <1>3. ASSUME NEW r \in Runs, ResolveOk(r) PROVE TypeOK'
    BY <1>3, TypeResolveOk
  <1>4. ASSUME NEW r \in Runs, LinkRefused(r) PROVE TypeOK'
    BY <1>4, TypeFinish DEF LinkRefused, Terminal
  <1>5. ASSUME NEW r \in Runs, CreateFails(r) PROVE TypeOK'
    BY <1>5, TypeFinish DEF CreateFails, Terminal
  <1>6. ASSUME NEW r \in Runs, CreateOk(r) PROVE TypeOK'
    <2>1. Append(runLog[r], "meta") \in Seq({"meta"} \cup Terminal)
      BY DEF TypeOK
    <2> QED
      BY <1>6, <2>1 DEF CreateOk, TypeOK, Suspend, Working, lockVars, childVars,
                        todoVars, callVars
  <1>7. ASSUME NEW r \in Runs, SessionInit(r) PROVE TypeOK'
    <2>1. Append(runLog[r], "meta") \in Seq({"meta"} \cup Terminal)
      BY DEF TypeOK
    <2> QED
      BY <1>7, <2>1 DEF SessionInit, TypeOK, lockedVars, lockVars, childVars,
                        todoVars, callVars
  <1>8. ASSUME NEW r \in Runs, TurnEnd(r) PROVE TypeOK'
    <2>1. turns' \in [Runs -> 0..MaxTurns]
      BY <1>8, MaxTurnsAssumption DEF TurnEnd, TypeOK
    <2> QED
      BY <1>8, <2>1 DEF TurnEnd, TypeOK, lockedVars, lockVars, recordVars,
                        todoVars, callVars
  <1>9. ASSUME NEW r \in Runs, AssistantMessage(r) PROVE TypeOK'
    <2>1. saw' \in [Runs -> BOOLEAN]
      BY <1>9 DEF AssistantMessage, TypeOK
    <2>2. PICK error, overCap \in BOOLEAN :
             /\ modelErr' = [modelErr EXCEPT ![r] = @ \/ error]
             /\ aborted'  = [aborted EXCEPT ![r] = @ \/ overCap]
      BY <1>9 DEF AssistantMessage
    <2>3. (modelErr[r] \/ error) \in BOOLEAN /\ (aborted[r] \/ overCap) \in BOOLEAN
      OBVIOUS
    <2>4. modelErr' \in [Runs -> BOOLEAN] /\ aborted' \in [Runs -> BOOLEAN]
      BY <2>2, <2>3, Zenon DEF TypeOK
    <2> QED
      BY <1>9, <2>1, <2>4 DEF AssistantMessage, TypeOK, lockedVars, lockVars,
                              recordVars, todoVars, callVars
  <1>10. ASSUME NEW r \in Runs, Stop(r) PROVE TypeOK'
    BY <1>10 DEF Stop, TypeOK, lockedVars, lockVars, recordVars, todoVars, callVars
  <1>11. ASSUME NEW r \in Runs, AbortSignal(r) PROVE TypeOK'
    <2>1. signal' \in [Runs -> BOOLEAN]
      BY <1>11 DEF AbortSignal, TypeOK
    <2>2. aborted' \in [Runs -> BOOLEAN]
      <3>1. (aborted[r] \/ pc[r] = "prompting") \in BOOLEAN
        OBVIOUS
      <3> QED BY <1>11, <3>1, Zenon DEF AbortSignal, TypeOK
    <2> QED
      BY <1>11, <2>1, <2>2 DEF AbortSignal, TypeOK, lockedVars, lockVars,
                               recordVars, todoVars, callVars
  <1>12. ASSUME NEW r \in Runs, PromptSettles(r) PROVE TypeOK'
    <2>1. PICK threw \in BOOLEAN : FinishRun(r, Verdict(r, threw))
      BY <1>12 DEF PromptSettles
    <2>2. Verdict(r, threw) \in Terminal
      BY DEF Verdict, Terminal
    <2> QED
      BY <1>12, <2>1, <2>2, TypeFinish DEF PromptSettles
  <1>13. ASSUME NEW r \in Runs, Return(r) PROVE TypeOK'
    <2>1. active' \subseteq Runs /\ waiters' \in Seq(Runs)
      BY <1>13, TypeRelease DEF Return, TypeOK
    <2> QED
      BY <1>13, <2>1 DEF Return, TypeOK, Suspend, recordVars, childVars, todoVars,
                         callVars
  <1>14. ASSUME NEW p \in Runs, NEW r \in Runs, Retry(p, r) PROVE TypeOK'
    <2>1. /\ link' \in [Runs -> Todos \cup {NoTodo}]
          /\ retryOf' \in [Runs -> Runs \cup {NoRun}]
      BY <1>14 DEF Retry, TypeOK
    <2> QED
      BY <1>14, <2>1, TypeBegin DEF Retry
  <1>15. ASSUME NEW t \in Linked, UserCloses(t) PROVE TypeOK'
    BY <1>15 DEF UserCloses, TypeOK, Todos, lockedVars, lockVars, recordVars,
                 childVars, callVars
  <1>16. CASE UNCHANGED vars
    BY <1>16 DEF vars, TypeOK, lockedVars, lockVars, recordVars, childVars,
                 todoVars, callVars
  <1> QED
    BY <1>1, <1>2, <1>3, <1>4, <1>5, <1>6, <1>7, <1>8, <1>9, <1>10, <1>11,
       <1>12, <1>13, <1>14, <1>15, <1>16 DEF Next, Terminating

(* Every variable keeps its type: in particular no journal holds anything  *)
(* but a meta entry and verdicts, and a prior status is always one that a  *)
(* todo may be linked in, so nothing but the user closes a linked todo.    *)
THEOREM TypeCorrect == Spec => []TypeOK
  BY TypeInit, TypeNext, PTL DEF Spec

-----------------------------------------------------------------------------
(* The lock. *)

(* The inductive invariant of the lock.  LockMatchesRuns and NoIdleSlot    *)
(* alone are not inductive: an admission must know that the slots are not  *)
(* overrun already, and a hand-off that the waiter holds nothing yet.      *)
HoldersWork == \A r \in active : r \in Writers /\ pc[r] \in Working \cup {"acquiring"}
WorkersHold == \A r \in Writers : pc[r] \in Working => r \in active
WaitersWait == \A i \in 1..Len(waiters) : /\ waiters[i] \in Writers \ active
                                          /\ pc[waiters[i]] = "acquiring"
WaitersOnce == \A i, j \in 1..Len(waiters) : waiters[i] = waiters[j] => i = j
NobodyLost  == \A r \in Writers \ active :
                  pc[r] = "acquiring" => \E i \in 1..Len(waiters) : waiters[i] = r
Bounded     == Cardinality(active) <= Cap

LockInv == /\ HoldersWork /\ WorkersHold
           /\ WaitersWait /\ WaitersOnce /\ NobodyLost
           /\ Bounded /\ NoIdleSlot

(* The holders are finitely many, so that counting them makes sense.       *)
LEMMA FiniteActive ==
    ASSUME TypeOK
    PROVE  IsFiniteSet(active) /\ Cardinality(active) \in Nat
  BY FS_Subset, FS_CardinalityType, RunsAssumption DEF TypeOK

(* At the start nobody holds and nobody waits.                             *)
LEMMA LockInvInit == Init => LockInv
  BY FS_EmptySet, CapAssumption
     DEF Init, LockInit, LockInv, HoldersWork, WorkersHold, WaitersWait,
         WaitersOnce, NobodyLost, Bounded, NoIdleSlot, Writers, Working

(* A dispatch that is past acquire moves on without touching the lock.     *)
LEMMA LockMove ==
    ASSUME TypeOK, LockInv, NEW r \in Runs, pc[r] \in Working \/ Admitted(r),
           NEW w \in Working, pc' = [pc EXCEPT ![r] = w], UNCHANGED lockVars
    PROVE  LockInv'
  <1>1. HoldersWork' /\ WorkersHold'
    BY DEF TypeOK, LockInv, HoldersWork, WorkersHold, Admitted, Writers, lockVars
  <1>2. \A i \in 1..Len(waiters) : waiters[i] # r
    BY DEF LockInv, WaitersWait, Admitted, Writers, Working
  <1>3. WaitersWait' /\ WaitersOnce'
    BY <1>2 DEF TypeOK, LockInv, WaitersWait, WaitersOnce, Writers, lockVars
  <1>4. NobodyLost'
    BY DEF TypeOK, LockInv, NobodyLost, Writers, Working, lockVars
  <1> QED
    BY <1>1, <1>3, <1>4 DEF LockInv, Bounded, NoIdleSlot, lockVars

(* A new dispatch bypasses the lock, takes a slot, queues or is rejected.  *)
LEMMA LockBegin ==
    ASSUME TypeOK, LockInv, NEW r \in Runs, Begin(r)
    PROVE  LockInv'
  <1>1. pc[r] = "idle" /\ r \notin active /\ \A i \in 1..Len(waiters) : waiters[i] # r
    BY DEF Begin, LockInv, HoldersWork, WaitersWait, Working
  <1>2. CASE /\ UNCHANGED lockVars
             /\ \/ r \in ReadOnly /\ pc' = [pc EXCEPT ![r] = "acquiring"]
                \/ pc' = [pc EXCEPT ![r] = "done"]
    <2>1. HoldersWork' /\ WorkersHold'
      BY <1>1, <1>2 DEF TypeOK, LockInv, HoldersWork, WorkersHold, Writers,
                        Working, lockVars
    <2>2. WaitersWait' /\ WaitersOnce'
      BY <1>1, <1>2 DEF TypeOK, LockInv, WaitersWait, WaitersOnce, Writers, lockVars
    <2>3. NobodyLost'
      BY <1>1, <1>2 DEF TypeOK, LockInv, NobodyLost, Writers, lockVars
    <2> QED
      BY <1>2, <2>1, <2>2, <2>3 DEF LockInv, Bounded, NoIdleSlot, lockVars
  <1>3. CASE r \in Writers /\ Acquire(r) /\ pc' = [pc EXCEPT ![r] = "acquiring"]
    <2>1. Cardinality(active) < Cap /\ waiters = <<>>
      BY <1>3, FiniteActive, CapAssumption DEF Acquire, Full, LockInv, NoIdleSlot
    <2>2. Cardinality(active') <= Cap
      <3>1. Cardinality(active \cup {r}) = Cardinality(active) + 1
        BY <1>1, FiniteActive, FS_AddElement
      <3> QED BY <1>3, <2>1, <3>1, FiniteActive, CapAssumption DEF Acquire
    <2>3. HoldersWork' /\ WorkersHold'
      BY <1>1, <1>3 DEF Acquire, TypeOK, LockInv, HoldersWork, WorkersHold,
                        Writers, Working
    <2>4. WaitersWait' /\ WaitersOnce'
      BY <1>3, <2>1 DEF Acquire, WaitersWait, WaitersOnce
    <2>5. NobodyLost'
      BY <1>1, <1>3, <2>1 DEF Acquire, TypeOK, LockInv, NobodyLost, Writers
    <2> QED
      BY <1>3, <2>1, <2>2, <2>3, <2>4, <2>5
         DEF Acquire, LockInv, Bounded, NoIdleSlot
  <1>4. CASE r \in Writers /\ Enqueue(r) /\ pc' = [pc EXCEPT ![r] = "acquiring"]
    <2>1. Cardinality(active) = Cap
      BY <1>4, FiniteActive, CapAssumption DEF Enqueue, Full, LockInv, Bounded
    <2>2. /\ Len(waiters') = Len(waiters) + 1
          /\ waiters'[Len(waiters) + 1] = r
          /\ \A i \in 1..Len(waiters) : waiters'[i] = waiters[i]
          /\ Len(waiters) \in Nat
      BY <1>4 DEF Enqueue, TypeOK
    <2>3. HoldersWork' /\ WorkersHold'
      BY <1>1, <1>4 DEF Enqueue, TypeOK, LockInv, HoldersWork, WorkersHold,
                        Writers, Working
    <2>4. WaitersWait'
      BY <1>1, <1>4, <2>2 DEF Enqueue, TypeOK, LockInv, WaitersWait, Writers
    <2>5. WaitersOnce'
      BY <1>1, <2>2 DEF LockInv, WaitersOnce
    <2>6. NobodyLost'
      <3> SUFFICES ASSUME NEW q \in Writers, q \notin active', pc'[q] = "acquiring"
                   PROVE  \E i \in 1..Len(waiters') : waiters'[i] = q
        BY DEF NobodyLost
      <3>1. CASE q = r
        BY <2>2, <3>1
      <3>2. CASE q # r
        <4>1. PICK i \in 1..Len(waiters) : waiters[i] = q
          BY <1>4, <3>2 DEF Enqueue, TypeOK, LockInv, NobodyLost, Writers
        <4> QED BY <2>2, <4>1
      <3> QED BY <3>1, <3>2
    <2> QED
      BY <1>4, <2>1, <2>3, <2>4, <2>5, <2>6 DEF Enqueue, LockInv, Bounded, NoIdleSlot
  <1> QED
    BY <1>2, <1>3, <1>4 DEF Begin, Suspend, Fail, Reject

(* A dispatch that ends frees its slot or hands it to the first waiter.    *)
LEMMA LockRelease ==
    ASSUME TypeOK, LockInv, NEW r \in Runs, pc[r] \in Working \/ Admitted(r),
           ReleaseSlot(r), pc' = [pc EXCEPT ![r] = "done"]
    PROVE  LockInv'
  <1>1. \A i \in 1..Len(waiters) : waiters[i] # r
    BY DEF LockInv, WaitersWait, Admitted, Writers, Working
  <1>2. r \in Writers <=> r \in active
    BY DEF LockInv, HoldersWork, WorkersHold, Admitted, Writers
  <1>3. CASE r \notin active
    <2>1. UNCHANGED lockVars
      BY <1>3 DEF ReleaseSlot, Release
    <2>2. HoldersWork' /\ WorkersHold'
      BY <1>3, <2>1 DEF TypeOK, LockInv, HoldersWork, WorkersHold, Writers,
                        Working, lockVars
    <2>3. WaitersWait' /\ WaitersOnce'
      BY <1>1, <2>1 DEF TypeOK, LockInv, WaitersWait, WaitersOnce, Writers, lockVars
    <2>4. NobodyLost'
      BY <2>1 DEF TypeOK, LockInv, NobodyLost, Writers, lockVars
    <2> QED
      BY <2>1, <2>2, <2>3, <2>4 DEF LockInv, Bounded, NoIdleSlot, lockVars
  <1>4. CASE r \in active /\ waiters = <<>>
    <2>1. active' = active \ {r} /\ waiters' = <<>>
      BY <1>2, <1>4 DEF ReleaseSlot, Release, Writers
    <2>2. Cardinality(active') <= Cap
      <3>1. Cardinality(active \ {r}) = Cardinality(active) - 1
        BY <1>4, FiniteActive, FS_RemoveElement
      <3> QED BY <2>1, <3>1, FiniteActive, CapAssumption DEF LockInv, Bounded
    <2> QED
      BY <1>4, <2>1, <2>2
         DEF TypeOK, LockInv, HoldersWork, WorkersHold, WaitersWait, WaitersOnce,
             NobodyLost, Bounded, NoIdleSlot, Writers, Working
  <1>5. CASE r \in active /\ waiters # <<>>
    <2> DEFINE h == Head(waiters)
    <2>1. active' = (active \ {r}) \cup {h} /\ waiters' = Tail(waiters)
      BY <1>2, <1>5 DEF ReleaseSlot, Release, Writers
    <2>2. /\ h = waiters[1] /\ 1 \in 1..Len(waiters) /\ Len(waiters) \in Nat
          /\ Len(waiters') = Len(waiters) - 1
          /\ \A i \in 1..Len(waiters') : waiters'[i] = waiters[i + 1]
      BY <1>5, <2>1 DEF TypeOK
    <2>3. h \in Writers /\ h \notin active /\ pc[h] = "acquiring" /\ h # r
      BY <1>5, <2>2 DEF LockInv, WaitersWait
    <2>4. Cardinality(active') = Cardinality(active)
      <3>1. /\ IsFiniteSet(active \ {r})
            /\ Cardinality(active \ {r}) = Cardinality(active) - 1
        BY <1>5, FiniteActive, FS_RemoveElement
      <3>2. Cardinality(active') = Cardinality(active \ {r}) + 1
        BY <2>1, <2>3, <3>1, FS_AddElement
      <3> QED BY <3>1, <3>2, FiniteActive
    <2>5. HoldersWork' /\ WorkersHold'
      BY <2>1, <2>3 DEF TypeOK, LockInv, HoldersWork, WorkersHold, Writers, Working
    <2>6. WaitersWait' /\ WaitersOnce'
      <3>1. ASSUME NEW i \in 1..Len(waiters')
            PROVE  i + 1 \in 1..Len(waiters) /\ waiters[i + 1] # h
        BY <2>2 DEF LockInv, WaitersOnce
      <3>2. ASSUME NEW i \in 1..Len(waiters')
            PROVE  waiters'[i] \in Writers \ active' /\ pc'[waiters'[i]] = "acquiring"
        <4>1. /\ waiters'[i] = waiters[i + 1] /\ waiters[i + 1] # h
              /\ waiters[i + 1] \in Writers \ active /\ pc[waiters[i + 1]] = "acquiring"
          BY <2>2, <3>1 DEF LockInv, WaitersWait
        <4> QED
          BY <1>1, <1>5, <2>1, <4>1 DEF TypeOK, LockInv, Writers
      <3>3. ASSUME NEW i \in 1..Len(waiters'), NEW j \in 1..Len(waiters'),
                   waiters'[i] = waiters'[j]
            PROVE  i = j
        <4>1. /\ i + 1 \in 1..Len(waiters) /\ j + 1 \in 1..Len(waiters)
              /\ waiters[i + 1] = waiters[j + 1]
          BY <2>2, <3>1, <3>3
        <4>2. i + 1 = j + 1
          BY <4>1 DEF LockInv, WaitersOnce
        <4> QED
          BY <4>2
      <3> QED
        BY <3>2, <3>3 DEF WaitersWait, WaitersOnce
    <2>7. NobodyLost'
      <3> SUFFICES ASSUME NEW q \in Writers, q \notin active', pc'[q] = "acquiring"
                   PROVE  \E i \in 1..Len(waiters') : waiters'[i] = q
        BY DEF NobodyLost
      <3>1. q # r /\ q # h /\ q \notin active /\ pc[q] = "acquiring"
        BY <2>1 DEF TypeOK, Writers
      <3>2. PICK i \in 1..Len(waiters) : waiters[i] = q
        BY <3>1 DEF LockInv, NobodyLost
      <3>3. i - 1 \in 1..Len(waiters') /\ waiters'[i - 1] = q
        BY <2>2, <3>1, <3>2
      <3> QED BY <3>3
    <2> QED
      BY <1>5, <2>4, <2>5, <2>6, <2>7 DEF LockInv, Bounded, NoIdleSlot
  <1> QED
    BY <1>3, <1>4, <1>5

(* Every step of a dispatch keeps the lock consistent.                     *)
LEMMA LockInvNext == TypeOK /\ LockInv /\ [Next]_vars => LockInv'
  <1> SUFFICES ASSUME TypeOK, LockInv, [Next]_vars PROVE LockInv'
    OBVIOUS
  <1>1. CASE UNCHANGED lockedVars
    BY <1>1 DEF lockedVars, lockVars, LockInv, HoldersWork, WorkersHold,
                WaitersWait, WaitersOnce, NobodyLost, Bounded, NoIdleSlot
  <1>2. ASSUME NEW r \in Runs, Dispatch(r) PROVE LockInv'
    BY <1>2, LockBegin DEF Dispatch
  <1>3. ASSUME NEW r \in Runs, ResolveFails(r) PROVE LockInv'
    BY <1>3, LockRelease DEF ResolveFails, Fail, Suspend
  <1>4. ASSUME NEW r \in Runs, ResolveOk(r) PROVE LockInv'
    <2>1. \E w \in Working : pc' = [pc EXCEPT ![r] = w]
      BY <1>4 DEF ResolveOk, LinkOrCreate, Suspend, Working
    <2> QED BY <1>4, <2>1, LockMove DEF ResolveOk
  <1>5. ASSUME NEW r \in Runs, NEW v \in Terminal, pc[r] \in Working,
               FinishRun(r, v), UNCHANGED lockVars
        PROVE  LockInv'
    BY <1>5, LockMove DEF FinishRun, Suspend, Working
  <1>6. ASSUME NEW r \in Runs, LinkRefused(r) \/ CreateFails(r) PROVE LockInv'
    BY <1>5, <1>6 DEF LinkRefused, CreateFails, Working, Terminal
  <1>7. ASSUME NEW r \in Runs, CreateOk(r) PROVE LockInv'
    BY <1>7, LockMove DEF CreateOk, Suspend, Working
  <1>8. ASSUME NEW r \in Runs, PromptSettles(r) PROVE LockInv'
    <2>1. PICK threw \in BOOLEAN : FinishRun(r, Verdict(r, threw))
      BY <1>8 DEF PromptSettles
    <2>2. Verdict(r, threw) \in Terminal
      BY DEF Verdict, Terminal
    <2> QED BY <1>5, <1>8, <2>1, <2>2 DEF PromptSettles, Working
  <1>9. ASSUME NEW r \in Runs, Return(r) PROVE LockInv'
    BY <1>9, LockRelease DEF Return, Suspend, Working
  <1>10. ASSUME NEW p \in Runs, NEW r \in Runs, Retry(p, r) PROVE LockInv'
    BY <1>10, LockBegin DEF Retry
  <1>11. ASSUME NEW r \in Runs,
                \/ SessionInit(r) \/ TurnEnd(r) \/ AssistantMessage(r)
                \/ Stop(r) \/ AbortSignal(r)
         PROVE  UNCHANGED lockedVars
    BY <1>11 DEF SessionInit, TurnEnd, AssistantMessage, Stop, AbortSignal
  <1>12. (\E t \in Linked : UserCloses(t)) \/ UNCHANGED vars => UNCHANGED lockedVars
    BY DEF UserCloses, vars
  <1> QED
    BY <1>1, <1>2, <1>3, <1>4, <1>6, <1>7, <1>8, <1>9, <1>10, <1>11, <1>12
       DEF Next, Terminating

(* The invariant of the lock holds in every reachable state.               *)
THEOREM LockInvariant == Spec => [](TypeOK /\ LockInv)
  <1>1. Init => TypeOK /\ LockInv
    BY TypeInit, LockInvInit
  <1>2. (TypeOK /\ LockInv) /\ [Next]_vars => (TypeOK /\ LockInv)'
    BY TypeNext, LockInvNext
  <1> QED BY <1>1, <1>2, PTL DEF Spec

(* Then holders and waiters are those that LockMatchesRuns names.          *)
LEMMA LockMatches ==
    ASSUME TypeOK, LockInv
    PROVE  LockMatchesRuns
  <1>1. DOMAIN waiters = 1..Len(waiters) /\ Len(waiters) \in Nat
    BY DEF TypeOK
  <1>2. ToSet(waiters) = {waiters[i] : i \in 1..Len(waiters)}
    BY <1>1 DEF ToSet
  <1>3. ToSet(waiters) \subseteq {r \in Writers \ active : pc[r] = "acquiring"}
    BY <1>2 DEF LockInv, WaitersWait
  <1>4. {r \in Writers \ active : pc[r] = "acquiring"} \subseteq ToSet(waiters)
    BY <1>2 DEF LockInv, NobodyLost
  <1>5. active = {r \in Writers : \/ pc[r] \in Working
                                  \/ pc[r] = "acquiring" /\ r \notin ToSet(waiters)}
    BY <1>3, <1>4 DEF LockInv, HoldersWork, WorkersHold
  <1> QED
    BY <1>1, <1>3, <1>5 DEF LockMatchesRuns, LockInv, WaitersOnce

(* The holders and waiters are exactly the writing dispatches that should  *)
(* be holding and waiting.                                                 *)
THEOREM LockMatchesRunsHolds == Spec => []LockMatchesRuns
  BY LockMatches, LockInvariant, PTL

(* No wake-up is ever lost: while a dispatch waits, all slots are taken.   *)
THEOREM NoIdleSlotHolds == Spec => []NoIdleSlot
  <1>1. LockInv => NoIdleSlot
    BY DEF LockInv
  <1> QED BY <1>1, LockInvariant, PTL

-----------------------------------------------------------------------------
(* SpawnSubagent implements WriteSlots. *)

(* A step of a reader, or one that stays on one side of the working part   *)
(* of a dispatch, is not seen by WriteSlots.                               *)
LEMMA InsideSame ==
    ASSUME TypeOK, NEW r \in Runs, NEW v, pc' = [pc EXCEPT ![r] = v],
           r \in ReadOnly \/ (pc[r] \in Working <=> v \in Working)
    PROVE  Inside' = Inside
  BY DEF TypeOK, Inside, Writers

(* A writer enters only while it holds a slot that no writer inside has.   *)
LEMMA EnterSlot ==
    ASSUME TypeOK, LockInv, NEW r \in Writers, Admitted(r),
           NEW v \in Working, pc' = [pc EXCEPT ![r] = v]
    PROVE  Slots!Enter(r)
  <1>1. r \in active /\ r \notin Inside /\ Inside' = Inside \cup {r}
    BY DEF TypeOK, Admitted, Inside, Writers, Working
  <1>2. Inside \in SUBSET (active \ {r})
    BY <1>1 DEF Inside, LockInv, WorkersHold
  <1>3. /\ IsFiniteSet(active \ {r})
        /\ Cardinality(active \ {r}) = Cardinality(active) - 1
    BY <1>1, FiniteActive, FS_RemoveElement
  <1>4. IsFiniteSet(Inside) /\ Cardinality(Inside) <= Cardinality(active \ {r})
    BY <1>2, <1>3, FS_Subset
  <1>5. Cardinality(Inside) \in Nat
    BY <1>4, FS_CardinalityType
  <1>6. Cardinality(Inside) < Cap
    BY <1>3, <1>4, <1>5, FiniteActive, CapAssumption DEF LockInv, Bounded
  <1>7. Slots!Cardinality(Inside) = Cardinality(Inside)
    BY DEF Slots!Cardinality, Cardinality
  <1> QED BY <1>1, <1>6, <1>7 DEF Slots!Enter

(* Every step of a dispatch is a step of WriteSlots or invisible to it.    *)
LEMMA SlotsNext == TypeOK /\ LockInv /\ [Next]_vars => [Slots!Next]_Inside
  <1> SUFFICES ASSUME TypeOK, LockInv, [Next]_vars
               PROVE  Slots!Next \/ Inside' = Inside
    OBVIOUS
  <1>1. CASE UNCHANGED lockedVars
    BY <1>1 DEF lockedVars, Inside
  <1>2. ASSUME NEW r \in Runs, Begin(r) PROVE Inside' = Inside
    BY <1>2, InsideSame DEF Begin, Fail, Suspend, Working
  <1>3. ASSUME NEW r \in Runs, ResolveFails(r) PROVE Inside' = Inside
    BY <1>3, InsideSame DEF ResolveFails, Admitted, Fail, Suspend, Working
  <1>4. ASSUME NEW r \in Runs, ResolveOk(r) PROVE Slots!Next \/ Inside' = Inside
    <2>1. PICK v \in Working : pc' = [pc EXCEPT ![r] = v]
      BY <1>4 DEF ResolveOk, LinkOrCreate, Suspend, Working
    <2>2. CASE r \in ReadOnly
      BY <2>1, <2>2, InsideSame
    <2>3. CASE r \in Writers
      BY <1>4, <2>1, <2>3, EnterSlot DEF ResolveOk, Slots!Next
    <2> QED BY <2>2, <2>3 DEF Writers
  <1>5. ASSUME NEW r \in Runs, LinkRefused(r) \/ CreateFails(r) \/ CreateOk(r)
        PROVE  Inside' = Inside
    BY <1>5, InsideSame DEF LinkRefused, CreateFails, CreateOk, FinishRun, Suspend, Working
  <1>6. ASSUME NEW r \in Runs, PromptSettles(r) PROVE Inside' = Inside
    BY <1>6, InsideSame DEF PromptSettles, FinishRun, Suspend, Working
  <1>7. ASSUME NEW r \in Runs, Return(r) PROVE Slots!Next \/ Inside' = Inside
    <2>1. pc[r] \in Working /\ pc' = [pc EXCEPT ![r] = "done"]
      BY <1>7 DEF Return, Suspend, Working
    <2>2. CASE r \in ReadOnly
      BY <2>1, <2>2, InsideSame
    <2>3. CASE r \in Writers
      BY <2>1, <2>3 DEF TypeOK, Inside, Writers, Working, Slots!Next, Slots!Leave
    <2> QED BY <2>2, <2>3 DEF Writers
  <1>8. ASSUME NEW r \in Runs,
               \/ SessionInit(r) \/ TurnEnd(r) \/ AssistantMessage(r)
               \/ Stop(r) \/ AbortSignal(r)
        PROVE  UNCHANGED lockedVars
    BY <1>8 DEF SessionInit, TurnEnd, AssistantMessage, Stop, AbortSignal
  <1>9. (\E t \in Linked : UserCloses(t)) \/ UNCHANGED vars => UNCHANGED lockedVars
    BY DEF UserCloses, vars
  <1> QED
    BY <1>1, <1>2, <1>3, <1>4, <1>5, <1>6, <1>7, <1>8, <1>9
       DEF Next, Terminating, Dispatch, Retry

(* At most Cap dispatches that may write are at work at any time, whatever *)
(* is dispatched, stopped, retried or fails, and read-only dispatches take *)
(* no part in it.                                                          *)
THEOREM WriteSlotsImplemented == Spec => SlotsRefined
  <1>1. Init => Slots!Init
    BY DEF Init, Inside, Working, Slots!Init, Writers
  <1>2. TypeOK /\ LockInv /\ [Next]_vars => [Slots!Next]_Inside
    BY SlotsNext
  <1> QED
    BY <1>1, <1>2, LockInvariant, PTL DEF Spec, SlotsRefined, Slots!Spec

-----------------------------------------------------------------------------
(* The order of admissions. *)

(* A release admits the first waiter and nobody else.                      *)
LEMMA ReleaseAdmitsFirst ==
    ASSUME NEW r \in Runs, ReleaseSlot(r), NEW q \in active' \ active
    PROVE  waiters # <<>> /\ q = Head(waiters)
  BY DEF ReleaseSlot, Release, lockVars

(* Slots are handed on in the order of arrival.                            *)
THEOREM NoOvertakingHolds == Spec => NoOvertaking
  <1>1. ASSUME TypeOK, LockInv, [Next]_vars, NEW q \in active' \ active,
               waiters # <<>>
        PROVE  q = Head(waiters)
    <2>1. ~Full => waiters = <<>>
      BY <1>1, FiniteActive, CapAssumption DEF LockInv, NoIdleSlot, Full
    <2>2. ASSUME NEW r \in Runs, Begin(r) PROVE FALSE
      BY <1>1, <2>1, <2>2 DEF Begin, Acquire, Enqueue, Reject, lockVars
    <2>3. CASE UNCHANGED lockVars
      BY <1>1, <2>3 DEF lockVars
    <2>4. ASSUME NEW r \in Runs,
                 \/ ResolveOk(r) \/ LinkRefused(r) \/ CreateFails(r) \/ CreateOk(r)
                 \/ SessionInit(r) \/ TurnEnd(r) \/ AssistantMessage(r)
                 \/ Stop(r) \/ AbortSignal(r) \/ PromptSettles(r)
          PROVE  UNCHANGED lockVars
      BY <2>4 DEF ResolveOk, LinkRefused, CreateFails, CreateOk, SessionInit, TurnEnd,
                  AssistantMessage, Stop, AbortSignal, PromptSettles, lockedVars
    <2>5. (\E t \in Linked : UserCloses(t)) \/ UNCHANGED vars => UNCHANGED lockVars
      BY DEF UserCloses, vars, lockedVars
    <2>6. ASSUME NEW r \in Runs, ResolveFails(r) \/ Return(r) PROVE q = Head(waiters)
      BY <1>1, <2>6, ReleaseAdmitsFirst DEF ResolveFails, Return
    <2> QED
      BY <1>1, <2>2, <2>3, <2>4, <2>5, <2>6 DEF Next, Terminating, Dispatch, Retry
  <1>2. TypeOK /\ LockInv /\ [Next]_vars
        => [\A r \in active' \ active : waiters # <<>> => r = Head(waiters)]_vars
    BY <1>1
  <1> QED BY <1>2, LockInvariant, PTL DEF Spec, NoOvertaking

-----------------------------------------------------------------------------
(* The live handle. *)

(* One dispatch: what the record shows follows from where it is suspended. *)
Shows(p, s, h) == /\ h <=> p = "prompting"
                  /\ s = "running" <=> p \in Working \ {"finishing"}

(* A step that moves one dispatch, and leaves its record in step with it,  *)
(* leaves all records in step.                                             *)
LEMMA ShowsStep ==
    ASSUME TypeOK, HandleMeansRunning, NEW r \in Runs, NEW p, NEW s, NEW h \in BOOLEAN,
           pc' = [pc EXCEPT ![r] = p], status' = [status EXCEPT ![r] = s],
           session' = [session EXCEPT ![r] = h], Shows(p, s, h)
    PROVE  HandleMeansRunning'
  BY DEF TypeOK, HandleMeansRunning, Shows

(* The same, for a step that does not write the record.                    *)
LEMMA ShowsMove ==
    ASSUME TypeOK, HandleMeansRunning, NEW r \in Runs, NEW p,
           pc' = [pc EXCEPT ![r] = p], UNCHANGED <<status, session>>,
           Shows(p, status[r], session[r])
    PROVE  HandleMeansRunning'
  BY DEF TypeOK, HandleMeansRunning, Shows

(* The handle is in the record exactly while the child works, and the      *)
(* record says "running" from its creation to the verdict.                 *)
THEOREM HandleMeansRunningHolds == Spec => []HandleMeansRunning
  <1>1. Init => HandleMeansRunning
    BY DEF Init, HandleMeansRunning, Working
  <1>2. ASSUME TypeOK, HandleMeansRunning, [Next]_vars PROVE HandleMeansRunning'
    <2>1. CASE UNCHANGED <<pc, status, session>>
      BY <1>2, <2>1 DEF HandleMeansRunning
    <2>2. ASSUME NEW r \in Runs, Begin(r) PROVE HandleMeansRunning'
      BY <1>2, <2>2, ShowsMove DEF Begin, Fail, Suspend, HandleMeansRunning, Shows, Working
    <2>3. ASSUME NEW r \in Runs, ResolveFails(r) PROVE HandleMeansRunning'
      BY <1>2, <2>3, ShowsMove
         DEF ResolveFails, Admitted, Fail, Suspend, HandleMeansRunning, Shows, Working
    <2>4. ASSUME NEW r \in Runs, ResolveOk(r) PROVE HandleMeansRunning'
      <3>1. pc[r] = "acquiring" /\ ~session[r]
        BY <1>2, <2>4 DEF ResolveOk, Admitted, HandleMeansRunning
      <3>2. PICK p \in {"creating", "linking"} : pc' = [pc EXCEPT ![r] = p]
        BY <2>4 DEF ResolveOk, LinkOrCreate, Suspend
      <3>3. /\ status' = [status EXCEPT ![r] = "running"]
            /\ session' = [session EXCEPT ![r] = FALSE]
        BY <2>4, <3>1, <1>2 DEF ResolveOk, TypeOK
      <3> QED
        BY <1>2, <3>2, <3>3, ShowsStep DEF Shows, Working
    <2>5. ASSUME NEW r \in Runs, NEW v \in Terminal, FinishRun(r, v)
          PROVE  HandleMeansRunning'
      <3>1. Shows("finishing", v, FALSE)
        BY DEF Shows, Working, Terminal
      <3> QED BY <1>2, <2>5, <3>1, ShowsStep DEF FinishRun, Suspend
    <2>6. ASSUME NEW r \in Runs, LinkRefused(r) \/ CreateFails(r) PROVE HandleMeansRunning'
      BY <2>5, <2>6 DEF LinkRefused, CreateFails, Terminal
    <2>7. ASSUME NEW r \in Runs, CreateOk(r) PROVE HandleMeansRunning'
      <3>1. status[r] = "running" /\ status' = [status EXCEPT ![r] = "running"]
        BY <1>2, <2>7 DEF CreateOk, HandleMeansRunning, TypeOK, Working
      <3> QED
        BY <1>2, <2>7, <3>1, ShowsStep DEF CreateOk, Suspend, Shows, Working
    <2>8. ASSUME NEW r \in Runs, PromptSettles(r) PROVE HandleMeansRunning'
      <3>1. PICK threw \in BOOLEAN : FinishRun(r, Verdict(r, threw))
        BY <2>8 DEF PromptSettles
      <3>2. Verdict(r, threw) \in Terminal
        BY DEF Verdict, Terminal
      <3> QED BY <2>5, <3>1, <3>2
    <2>9. ASSUME NEW r \in Runs, Return(r) PROVE HandleMeansRunning'
      BY <1>2, <2>9, ShowsMove
         DEF Return, Suspend, recordVars, HandleMeansRunning, Shows, Working
    <2>10. ASSUME NEW r \in Runs,
                  \/ SessionInit(r) \/ TurnEnd(r) \/ AssistantMessage(r)
                  \/ Stop(r) \/ AbortSignal(r)
           PROVE  UNCHANGED <<pc, status, session>>
      BY <2>10 DEF SessionInit, TurnEnd, AssistantMessage, Stop, AbortSignal,
                   lockedVars, recordVars
    <2>11. (\E t \in Linked : UserCloses(t)) \/ UNCHANGED vars
           => UNCHANGED <<pc, status, session>>
      BY DEF UserCloses, vars, lockedVars, recordVars
    <2> QED
      BY <1>2, <2>1, <2>2, <2>3, <2>4, <2>6, <2>7, <2>8, <2>9, <2>10, <2>11
         DEF Next, Terminating, Dispatch, Retry
  <1>3. TypeOK /\ HandleMeansRunning /\ [Next]_vars => HandleMeansRunning'
    BY <1>2
  <1> QED BY <1>1, <1>3, TypeCorrect, PTL DEF Spec
-----------------------------------------------------------------------------
(* The journal. *)

(* What the record, journal, result and todo link of one dispatch are like *)
(* at each await; a dispatch not yet admitted has no record.               *)
Recorded(p, s, l, res, td) ==
    /\ p \in {"finishing", "done"} /\ s # "none" =>
           l # <<>> /\ Last(l) = s /\ res = s /\ s \in Terminal
    /\ \A i \in DOMAIN l : l[i] \in Terminal => i = Len(l) /\ s \in Terminal
    /\ s = "none" => l = <<>> /\ td = NoTodo
    /\ p \in {"idle", "acquiring"} => s = "none"

AllRecorded ==
    \A r \in Runs : Recorded(pc[r], status[r], runLog[r], result[r], todoId[r])

recordedVars == <<pc, status, runLog, result, todoId>>

(* Only the dispatch that steps has to be looked at.                       *)
LEMMA RecordedStep ==
    ASSUME AllRecorded, NEW r \in Runs,
           \A q \in Runs \ {r} :
              /\ pc'[q] = pc[q] /\ status'[q] = status[q] /\ runLog'[q] = runLog[q]
              /\ result'[q] = result[q] /\ todoId'[q] = todoId[q],
           Recorded(pc'[r], status'[r], runLog'[r], result'[r], todoId'[r])
    PROVE  AllRecorded'
  BY DEF AllRecorded, Recorded

(* The journal of a dispatch that has no verdict yet gets one entry more.  *)
LEMMA JournalAppend ==
    ASSUME TypeOK, HandleMeansRunning, AllRecorded, NEW r \in Runs,
           pc[r] \in Working \ {"finishing"}, NEW e \in {"meta"} \cup Terminal
    PROVE  /\ Append(runLog[r], e) # <<>> /\ Last(Append(runLog[r], e)) = e
           /\ \A i \in DOMAIN Append(runLog[r], e) :
                 Append(runLog[r], e)[i] \in Terminal
                 => i = Len(Append(runLog[r], e)) /\ e \in Terminal
  <1>1. runLog[r] \in Seq({"meta"} \cup Terminal) /\ status[r] = "running"
    BY DEF TypeOK, HandleMeansRunning
  <1>2. \A i \in DOMAIN runLog[r] : runLog[r][i] \notin Terminal
    BY <1>1 DEF AllRecorded, Recorded, Terminal
  <1> QED BY <1>1, <1>2 DEF Last

LEMMA RecordedBegin ==
    ASSUME TypeOK, AllRecorded, NEW r \in Runs, Begin(r)
    PROVE  AllRecorded'
  <1>1. PICK p \in {"acquiring", "done"} : pc' = [pc EXCEPT ![r] = p]
    BY DEF Begin, Suspend, Fail
  <1>2. /\ UNCHANGED <<status, runLog, todoId>>
        /\ result' = result \/ result' = [result EXCEPT ![r] = "failed"]
        /\ pc[r] = "idle"
    BY DEF Begin, Fail, todoVars
  <1> QED BY <1>1, <1>2, RecordedStep DEF TypeOK, AllRecorded, Recorded

LEMMA RecordedFinish ==
    ASSUME TypeOK, HandleMeansRunning, AllRecorded, NEW r \in Runs,
           pc[r] \in Working \ {"finishing"}, NEW v \in Terminal, FinishRun(r, v)
    PROVE  AllRecorded'
  <1>1. /\ pc' = [pc EXCEPT ![r] = "finishing"] /\ status' = [status EXCEPT ![r] = v]
        /\ runLog' = [runLog EXCEPT ![r] = Append(runLog[r], v)]
        /\ result' = [result EXCEPT ![r] = v] /\ todoId' = todoId
    BY DEF FinishRun, Suspend
  <1>2. Recorded("finishing", v, Append(runLog[r], v), v, todoId[r])
    BY JournalAppend DEF Recorded, Terminal
  <1> QED BY <1>1, <1>2, RecordedStep DEF TypeOK

LEMMA RecordedNext ==
    TypeOK /\ HandleMeansRunning /\ AllRecorded /\ [Next]_vars => AllRecorded'
  <1> SUFFICES ASSUME TypeOK, HandleMeansRunning, AllRecorded, [Next]_vars
               PROVE  AllRecorded'
    OBVIOUS
  <1>1. CASE UNCHANGED recordedVars
    BY <1>1 DEF recordedVars, AllRecorded, Recorded
  <1>2. ASSUME NEW r \in Runs, ResolveFails(r) PROVE AllRecorded'
    <2>1. /\ pc[r] = "acquiring" /\ pc' = [pc EXCEPT ![r] = "done"]
          /\ result' = [result EXCEPT ![r] = "failed"]
          /\ UNCHANGED <<status, runLog, todoId>>
      BY <1>2 DEF ResolveFails, Admitted, Fail, Suspend, todoVars
    <2> QED BY <2>1, RecordedStep DEF TypeOK, AllRecorded, Recorded
  <1>3. ASSUME NEW r \in Runs, ResolveOk(r) PROVE AllRecorded'
    <2>1. PICK p \in {"creating", "linking"} : pc' = [pc EXCEPT ![r] = p]
      BY <1>3 DEF ResolveOk, LinkOrCreate, Suspend
    <2>2. PICK t : todoId' = [todoId EXCEPT ![r] = t]
      <3>1. CASE UNCHANGED todoVars
        BY <3>1 DEF TypeOK, todoVars
      <3> QED BY <1>3, <3>1 DEF ResolveOk, LinkOrCreate
    <2>3. /\ pc[r] = "acquiring" /\ status' = [status EXCEPT ![r] = "running"]
          /\ UNCHANGED <<runLog, result>>
      BY <1>3 DEF ResolveOk, Admitted
    <2>4. Recorded(p, "running", runLog[r], result[r], t)
      BY <2>3 DEF AllRecorded, Recorded
    <2> QED BY <2>1, <2>2, <2>3, <2>4, RecordedStep DEF TypeOK
  <1>4. ASSUME NEW r \in Runs, LinkRefused(r) \/ CreateFails(r) PROVE AllRecorded'
    BY <1>4, RecordedFinish DEF LinkRefused, CreateFails, Working, Terminal
  <1>5. ASSUME NEW r \in Runs, PromptSettles(r) PROVE AllRecorded'
    <2>1. PICK threw \in BOOLEAN : FinishRun(r, Verdict(r, threw))
      BY <1>5 DEF PromptSettles
    <2>2. Verdict(r, threw) \in Terminal
      BY DEF Verdict, Terminal
    <2> QED BY <1>5, <2>1, <2>2, RecordedFinish DEF PromptSettles, Working
  <1>6. ASSUME NEW r \in Runs, CreateOk(r) PROVE AllRecorded'
    <2>1. /\ pc[r] = "creating" /\ pc' = [pc EXCEPT ![r] = "prompting"]
          /\ runLog' = runLog \/ runLog' = [runLog EXCEPT ![r] = Append(runLog[r], "meta")]
          /\ UNCHANGED <<status, result, todoId>>
      BY <1>6 DEF CreateOk, Suspend, todoVars
    <2>2. status[r] = "running"
      BY <2>1 DEF HandleMeansRunning, Working
    <2>3. /\ Recorded("prompting", status[r], runLog[r], result[r], todoId[r])
          /\ Recorded("prompting", status[r], Append(runLog[r], "meta"), result[r], todoId[r])
      BY <2>1, <2>2, JournalAppend DEF AllRecorded, Recorded, Working, Terminal
    <2>4. Recorded(pc'[r], status'[r], runLog'[r], result'[r], todoId'[r])
      BY <2>1, <2>3 DEF TypeOK
    <2>5. \A q \in Runs \ {r} :
             /\ pc'[q] = pc[q] /\ status'[q] = status[q] /\ runLog'[q] = runLog[q]
             /\ result'[q] = result[q] /\ todoId'[q] = todoId[q]
      BY <2>1 DEF TypeOK
    <2> QED BY <2>4, <2>5, RecordedStep
  <1>7. ASSUME NEW r \in Runs, SessionInit(r) PROVE AllRecorded'
    <2>1. /\ pc[r] = "prompting"
          /\ runLog' = [runLog EXCEPT ![r] = Append(runLog[r], "meta")]
          /\ UNCHANGED <<pc, status, result, todoId>>
      BY <1>7 DEF SessionInit, lockedVars, todoVars
    <2>2. status[r] = "running"
      BY <2>1 DEF HandleMeansRunning, Working
    <2>3. Recorded(pc[r], status[r], Append(runLog[r], "meta"), result[r], todoId[r])
      BY <2>1, <2>2, JournalAppend DEF AllRecorded, Recorded, Working, Terminal
    <2>4. Recorded(pc'[r], status'[r], runLog'[r], result'[r], todoId'[r])
      BY <2>1, <2>3 DEF TypeOK
    <2>5. \A q \in Runs \ {r} :
             /\ pc'[q] = pc[q] /\ status'[q] = status[q] /\ runLog'[q] = runLog[q]
             /\ result'[q] = result[q] /\ todoId'[q] = todoId[q]
      BY <2>1 DEF TypeOK
    <2> QED BY <2>4, <2>5, RecordedStep
  <1>8. ASSUME NEW r \in Runs, Return(r) PROVE AllRecorded'
    <2>1. /\ pc[r] = "finishing" /\ pc' = [pc EXCEPT ![r] = "done"]
          /\ UNCHANGED <<status, runLog, result, todoId>>
      BY <1>8 DEF Return, Suspend, recordVars, todoVars
    <2> QED BY <2>1, RecordedStep DEF TypeOK, AllRecorded, Recorded
  <1>9. ASSUME NEW r \in Runs,
               TurnEnd(r) \/ AssistantMessage(r) \/ Stop(r) \/ AbortSignal(r)
        PROVE  UNCHANGED recordedVars
    BY <1>9 DEF TurnEnd, AssistantMessage, Stop, AbortSignal,
                lockedVars, recordVars, todoVars, recordedVars
  <1>10. (\E t \in Linked : UserCloses(t)) \/ UNCHANGED vars => UNCHANGED recordedVars
    BY DEF UserCloses, vars, lockedVars, recordVars, todoVars, recordedVars
  <1> QED
    BY <1>1, <1>2, <1>3, <1>4, <1>5, <1>6, <1>7, <1>8, <1>9, <1>10, RecordedBegin
       DEF Next, Terminating, Dispatch, Retry

(* The record, the journal and the result tell the same story.             *)
THEOREM RecordsAgreeHolds == Spec => []RecordsAgree
  <1>1. Init => AllRecorded
    BY DEF Init, AllRecorded, Recorded
  <1>2. AllRecorded => RecordsAgree
    BY DEF AllRecorded, Recorded, RecordsAgree
  <1> QED
    BY <1>1, <1>2, RecordedNext, TypeCorrect, HandleMeansRunningHolds, PTL DEF Spec

-----------------------------------------------------------------------------
(* The todos of the user. *)

(* A run linked to a todo that existed before it remembers how it stood.   *)
PriorKnown == \A r \in Runs : todoId[r] \in Linked => prior[r] \in OpenStates

LEMMA PriorNext == TypeOK /\ PriorKnown /\ [Next]_vars => PriorKnown'
  <1> SUFFICES ASSUME TypeOK, PriorKnown, [Next]_vars PROVE PriorKnown'
    OBVIOUS
  <1>1. CASE UNCHANGED <<todoId, prior>>
    BY <1>1 DEF PriorKnown
  <1>2. ASSUME NEW r \in Runs, ResolveOk(r) PROVE PriorKnown'
    <2>1. CASE UNCHANGED todoVars
      BY <2>1 DEF PriorKnown, todoVars
    <2>2. CASE /\ CanLink(r)
               /\ todoId' = [todoId EXCEPT ![r] = link[r]]
               /\ prior'  = [prior EXCEPT ![r] = todo[link[r]]]
      BY <2>2 DEF CanLink, PriorKnown, TypeOK
    <2>3. CASE todoId' = [todoId EXCEPT ![r] = r] /\ UNCHANGED prior
      BY <2>3, NamesAssumption DEF PriorKnown, TypeOK
    <2> QED BY <1>2, <2>1, <2>2, <2>3 DEF ResolveOk, LinkOrCreate
  <1>3. ASSUME NEW r \in Runs,
               \/ Begin(r) \/ ResolveFails(r) \/ LinkRefused(r)
               \/ CreateFails(r) \/ CreateOk(r) \/ SessionInit(r) \/ TurnEnd(r)
               \/ AssistantMessage(r) \/ Stop(r) \/ AbortSignal(r)
               \/ PromptSettles(r) \/ Return(r)
        PROVE  UNCHANGED <<todoId, prior>>
    BY <1>3 DEF Begin, ResolveFails, LinkRefused, CreateFails, CreateOk, SessionInit,
                TurnEnd, AssistantMessage, Stop, AbortSignal, PromptSettles, Return,
                FinishRun, todoVars
  <1>4. (\E t \in Linked : UserCloses(t)) \/ UNCHANGED vars => UNCHANGED <<todoId, prior>>
    BY DEF UserCloses, vars, todoVars
  <1> QED BY <1>1, <1>2, <1>3, <1>4 DEF Next, Terminating, Dispatch, Retry

(* The end of a run closes no todo that existed before it.                 *)
LEMMA FinishCloses ==
    ASSUME TypeOK, PriorKnown, NEW r \in Runs, NEW v, FinishRun(r, v),
           NEW t \in Linked, todo[t] # "done"
    PROVE  todo'[t] # "done"
  <1>1. CASE todoId[r] = t
    BY <1>1 DEF FinishRun, Settle, TypeOK, PriorKnown, OpenStates, Todos
  <1>2. CASE todoId[r] # t
    BY <1>2 DEF FinishRun, Settle, TypeOK, Todos
  <1> QED BY <1>1, <1>2

(* A todo that existed before the runs is closed by its user, or by nobody. *)
LEMMA CloseIsUsers ==
    ASSUME TypeOK, PriorKnown, [Next]_vars, NEW t \in Linked,
           todo[t] # "done", todo'[t] = "done"
    PROVE  UserCloses(t)
  <1>1. CASE UNCHANGED todo
    BY <1>1
  <1>2. ASSUME NEW r \in Runs, ResolveOk(r) PROVE FALSE
    <2>1. todo' = todo \/ \E s \in Todos : todo' = [todo EXCEPT ![s] = "in_progress"]
      BY <1>2 DEF ResolveOk, LinkOrCreate, CanLink, todoVars, TypeOK, Todos
    <2> QED BY <2>1 DEF TypeOK, Todos
  <1>3. ASSUME NEW r \in Runs, LinkRefused(r) \/ CreateFails(r) \/ PromptSettles(r)
        PROVE  FALSE
    BY <1>3, FinishCloses DEF LinkRefused, CreateFails, PromptSettles
  <1>4. ASSUME NEW r \in Runs,
               \/ Begin(r) \/ ResolveFails(r) \/ CreateOk(r) \/ SessionInit(r)
               \/ TurnEnd(r) \/ AssistantMessage(r) \/ Stop(r) \/ AbortSignal(r)
               \/ Return(r)
        PROVE  UNCHANGED todo
    BY <1>4 DEF Begin, ResolveFails, CreateOk, SessionInit, TurnEnd,
                AssistantMessage, Stop, AbortSignal, Return, todoVars
  <1>5. ASSUME NEW s \in Linked, UserCloses(s) PROVE UserCloses(t)
    <2>1. s = t
      BY <1>5 DEF UserCloses, TypeOK, Todos
    <2> QED BY <1>5, <2>1
  <1>6. UNCHANGED vars => UNCHANGED todo
    BY DEF vars, todoVars
  <1> QED
    BY <1>1, <1>2, <1>3, <1>4, <1>5, <1>6 DEF Next, Terminating, Dispatch, Retry

(* No step but the user's own closes a todo that existed before the runs.  *)
THEOREM OnlyUserClosesHolds == Spec => OnlyUserCloses
  <1>1. Init => PriorKnown
    BY NamesAssumption DEF Init, PriorKnown
  <1>2. TypeOK /\ PriorKnown /\ [Next]_vars
        => [\A t \in Linked : todo[t] # "done" /\ todo'[t] = "done" => UserCloses(t)]_vars
    BY CloseIsUsers
  <1> QED BY <1>1, <1>2, PriorNext, TypeCorrect, PTL DEF Spec, OnlyUserCloses
-----------------------------------------------------------------------------
(* No todo left in progress. *)

(* Where a dispatch gets its todo from: a call names one of the user's, a  *)
(* retry the one of its primary; a run that names none gets its own.       *)
Calls(r) ==
    /\ r \notin Retries => link[r] = Named[r]
    /\ link[r] \in Runs => retryOf[r] = link[r]
    /\ retryOf[r] # r
    /\ pc[r] = "idle" => retryOf[r] = NoRun
    /\ todoId[r] \in {NoTodo, r, link[r]}
    /\ todoId[r] \in {NoTodo, r} => prior[r] = "none"
    /\ todoId[r] = r => r \notin Phase

CallInv == \A r \in Runs : Calls(r)

(* The todo that a call which is not a retry ends up with is the user's or *)
(* its own.                                                                *)
LEMMA PrimaryTodo ==
    ASSUME CallInv, NEW p \in Runs \ Retries, todoId[p] \in Runs
    PROVE  todoId[p] = p
  BY NamedAssumption, NamesAssumption DEF CallInv, Calls

(* A dispatch that has no record has no todo.                              *)
LEMMA NotYetLinked ==
    ASSUME AllRecorded, NEW r \in Runs, pc[r] \in {"idle", "acquiring"}
    PROVE  todoId[r] = NoTodo
  BY DEF AllRecorded, Recorded

LEMMA CallKeep ==
    ASSUME CallInv, UNCHANGED <<link, retryOf, todoId, prior>>,
           \A r \in Runs : pc'[r] = "idle" => pc[r] = "idle"
    PROVE  CallInv'
  BY DEF CallInv, Calls

LEMMA CallNext == TypeOK /\ AllRecorded /\ CallInv /\ [Next]_vars => CallInv'
  <1> SUFFICES ASSUME TypeOK, AllRecorded, CallInv, [Next]_vars PROVE CallInv'
    OBVIOUS
  <1>1. CASE UNCHANGED <<pc, callVars, todoVars>>
    BY <1>1, CallKeep DEF callVars, todoVars
  <1>2. ASSUME NEW r \in Runs, Dispatch(r) PROVE CallInv'
    BY <1>2, CallKeep DEF Dispatch, Begin, Suspend, Fail, callVars, todoVars, TypeOK
  <1>3. ASSUME NEW r \in Runs, ResolveOk(r) PROVE CallInv'
    <2>1. /\ pc[r] = "acquiring" /\ UNCHANGED <<link, retryOf>>
          /\ \A q \in Runs : pc'[q] = "idle" => pc[q] = "idle"
      BY <1>3 DEF ResolveOk, Admitted, LinkOrCreate, Suspend, callVars, TypeOK
    <2>2. todoId[r] = NoTodo
      BY <2>1, NotYetLinked
    <2>3. CASE UNCHANGED todoVars
      BY <2>1, <2>3, CallKeep DEF todoVars
    <2>4. CASE /\ CanLink(r)
               /\ todoId' = [todoId EXCEPT ![r] = link[r]]
               /\ prior'  = [prior EXCEPT ![r] = todo[link[r]]]
      <3>1. link[r] # r /\ link[r] # NoTodo
        BY <2>4 DEF CanLink, CallInv, Calls
      <3> QED BY <2>1, <2>4, <3>1 DEF CallInv, Calls, TypeOK
    <2>5. CASE /\ link[r] = NoTodo
               /\ todoId' = [todoId EXCEPT ![r] = r] /\ UNCHANGED prior
      <3>1. r \notin Phase
        BY <2>5, NamedAssumption DEF CallInv, Calls
      <3> QED BY <2>1, <2>2, <2>5, <3>1 DEF CallInv, Calls, TypeOK
    <2> QED BY <1>3, <2>3, <2>4, <2>5 DEF ResolveOk, LinkOrCreate
  <1>4. ASSUME NEW r \in Runs,
               \/ ResolveFails(r) \/ LinkRefused(r) \/ CreateFails(r) \/ CreateOk(r)
               \/ PromptSettles(r) \/ Return(r)
        PROVE  CallInv'
    BY <1>4, CallKeep
       DEF ResolveFails, LinkRefused, CreateFails, CreateOk, PromptSettles, Return,
           FinishRun, Fail, Suspend, callVars, todoVars, TypeOK
  <1>5. ASSUME NEW r \in Runs,
               \/ SessionInit(r) \/ TurnEnd(r) \/ AssistantMessage(r)
               \/ Stop(r) \/ AbortSignal(r)
        PROVE  UNCHANGED <<pc, callVars, todoVars>>
    BY <1>5 DEF SessionInit, TurnEnd, AssistantMessage, Stop, AbortSignal, lockedVars
  <1>6. ASSUME NEW t \in Linked, UserCloses(t) PROVE CallInv'
    BY <1>6, CallKeep DEF UserCloses, lockedVars, callVars
  <1>7. UNCHANGED vars => UNCHANGED <<pc, callVars, todoVars>>
    BY DEF vars, lockedVars
  <1>8. ASSUME NEW p \in Runs, NEW r \in Runs, Retry(p, r) PROVE CallInv'
    <2>1. /\ pc[r] = "idle" /\ pc[p] = "done" /\ p \notin Retries /\ r \in Retries
          /\ link' = [link EXCEPT ![r] = todoId[p]]
          /\ retryOf' = [retryOf EXCEPT ![r] = p] /\ UNCHANGED <<todoId, prior>>
      BY <1>8 DEF Retry, Begin, todoVars
    <2>2. pc'[r] # "idle" /\ \A q \in Runs : pc'[q] = "idle" => pc[q] = "idle"
      BY <1>8 DEF Retry, Begin, Suspend, Fail, TypeOK
    <2>3. todoId[r] = NoTodo
      BY <2>1, NotYetLinked
    <2>4. todoId[p] \in Runs => todoId[p] = p
      BY <2>1, PrimaryTodo
    <2> QED BY <2>1, <2>2, <2>3, <2>4 DEF CallInv, Calls, TypeOK
  <1> QED BY <1>1, <1>2, <1>3, <1>4, <1>5, <1>6, <1>7, <1>8 DEF Next, Terminating

(* TodoSettled, strengthened: a run no longer holds its todo once its      *)
(* verdict is written, though it still holds its slot.                     *)
Holds(r, t) == /\ todoId[r] = t
               /\ \/ pc[r] \in Working \ {"finishing"}
                  \/ r \in Phase
                  \/ prior[r] = "in_progress"

SettledInv ==
    /\ \A t \in Todos : todo[t] = "in_progress" =>
          \/ t \in Linked /\ \A r \in Runs : todoId[r] # t
          \/ \E r \in Runs : Holds(r, t)
    /\ \A r \in Runs :
          pc[r] \in {"finishing", "done"} /\ todoId[r] = r /\ ~Retried(r) =>
             todo[r] = IF result[r] = "completed" THEN "done" ELSE "open"

(* A step that writes no todo.                                             *)
LEMMA SettledMove ==
    ASSUME SettledInv, NEW r \in Runs, UNCHANGED todoVars,
           \A q \in Runs \ {r} : pc'[q] = pc[q] /\ result'[q] = result[q],
           \A q \in Runs : Retried(q) => Retried(q)',
           todoId[r] # NoTodo =>
               /\ result'[r] = result[r]
               /\ pc[r] \in Working \ {"finishing"} => pc'[r] \in Working \ {"finishing"}
               /\ pc'[r] \in {"finishing", "done"} => pc[r] \in {"finishing", "done"}
    PROVE  SettledInv'
  <1>1. \A q \in Runs, t \in Todos : Holds(q, t) => Holds(q, t)'
    BY NamesAssumption DEF Holds, todoVars, Todos
  <1>2. ASSUME NEW t \in Todos, todo'[t] = "in_progress"
        PROVE  \/ t \in Linked /\ \A q \in Runs : todoId'[q] # t
               \/ \E q \in Runs : Holds(q, t)'
    BY <1>1, <1>2 DEF SettledInv, todoVars
  <1>3. ASSUME NEW q \in Runs, pc'[q] \in {"finishing", "done"}, todoId'[q] = q,
               ~Retried(q)'
        PROVE  todo'[q] = IF result'[q] = "completed" THEN "done" ELSE "open"
    BY <1>3, NamesAssumption DEF SettledInv, todoVars
  <1> QED BY <1>2, <1>3 DEF SettledInv

(* No other run writes the todo that the fleet created for a run which     *)
(* nobody retried.                                                         *)
LEMMA OwnTodo ==
    ASSUME CallInv, NEW q \in Runs, NEW r \in Runs \ {q}, ~Retried(q)
    PROVE  todoId[r] # q /\ link[r] # q
  BY NamesAssumption DEF CallInv, Calls, Retried

LEMMA SettledFinish ==
    ASSUME TypeOK, CallInv, SettledInv, NEW r \in Runs, NEW v \in Terminal,
           FinishRun(r, v), UNCHANGED callVars
    PROVE  SettledInv'
  <1>1. /\ pc' = [pc EXCEPT ![r] = "finishing"] /\ result' = [result EXCEPT ![r] = v]
        /\ todo' = Settle(r, v) /\ UNCHANGED <<todoId, prior, retryOf>>
    BY DEF FinishRun, Suspend, callVars
  <1>2. \A q \in Runs \ {r}, t \in Todos : Holds(q, t) => Holds(q, t)'
    BY <1>1 DEF Holds, TypeOK
  <1>3. \A t \in Todos : todoId[r] # t => todo'[t] = todo[t]
    BY <1>1 DEF Settle, TypeOK, Todos
  <1>4. ASSUME NEW t \in Todos, todo'[t] = "in_progress"
        PROVE  \/ t \in Linked /\ \A q \in Runs : todoId'[q] # t
               \/ \E q \in Runs : Holds(q, t)'
    <2>1. CASE todoId[r] = t
      <3>1. r \in Phase \/ prior[r] = "in_progress"
        BY <1>1, <1>4, <2>1, NamesAssumption DEF Settle, TypeOK, Todos
      <3> QED BY <1>1, <2>1, <3>1 DEF Holds
    <2>2. CASE todoId[r] # t
      BY <1>1, <1>2, <1>3, <1>4, <2>2 DEF SettledInv, Holds
    <2> QED BY <2>1, <2>2
  <1>5. ASSUME NEW q \in Runs, pc'[q] \in {"finishing", "done"}, todoId'[q] = q,
               ~Retried(q)'
        PROVE  todo'[q] = IF result'[q] = "completed" THEN "done" ELSE "open"
    <2>1. ~Retried(q) /\ todoId[q] = q
      BY <1>1, <1>5 DEF Retried
    <2>2. CASE q = r
      <3>1. prior[r] = "none" /\ r \notin Phase /\ r # NoTodo
        BY <2>1, <2>2, NamesAssumption DEF CallInv, Calls
      <3> QED BY <1>1, <2>1, <2>2, <3>1 DEF Settle, TypeOK, Todos
    <2>3. CASE q # r
      <3>1. todo'[q] = todo[q]
        BY <1>3, <2>1, <2>3, OwnTodo DEF Todos
      <3> QED BY <1>1, <1>5, <2>1, <2>3, <3>1 DEF SettledInv, TypeOK
    <2> QED BY <2>2, <2>3
  <1> QED BY <1>4, <1>5 DEF SettledInv

LEMMA SettledResolve ==
    ASSUME TypeOK, AllRecorded, CallInv, SettledInv, NEW r \in Runs, ResolveOk(r)
    PROVE  SettledInv'
  <1>1. PICK p \in {"creating", "linking"} : pc' = [pc EXCEPT ![r] = p]
    BY DEF ResolveOk, LinkOrCreate, Suspend
  <1>2. pc[r] = "acquiring" /\ UNCHANGED <<result, retryOf>>
    BY DEF ResolveOk, Admitted, callVars
  <1>3. todoId[r] = NoTodo
    BY <1>2, NotYetLinked
  <1>4. CASE UNCHANGED todoVars
    BY <1>1, <1>2, <1>3, <1>4, SettledMove DEF Retried, TypeOK
  <1>5. ASSUME NEW s \in Todos, s = r \/ s = link[r], p = "creating",
               todoId' = [todoId EXCEPT ![r] = s],
               todo' = [todo EXCEPT ![s] = "in_progress"],
               \A q \in Runs \ {r} : prior'[q] = prior[q]
        PROVE  SettledInv'
    <2>1. \A q \in Runs \ {r}, t \in Todos : Holds(q, t) => Holds(q, t)'
      BY <1>1, <1>5 DEF Holds, TypeOK
    <2>2. \A t \in Todos : ~Holds(r, t)
      BY <1>3, NamesAssumption DEF Holds, Todos
    <2>3. ASSUME NEW t \in Todos, todo'[t] = "in_progress"
          PROVE  \/ t \in Linked /\ \A q \in Runs : todoId'[q] # t
                 \/ \E q \in Runs : Holds(q, t)'
      <3>1. CASE t = s
        <4>1. Holds(r, s)'
          BY <1>1, <1>5 DEF Holds, TypeOK, Working
        <4> QED BY <3>1, <4>1
      <3>2. CASE t # s
        <4>1. todo[t] = "in_progress"
          BY <1>5, <2>3, <3>2 DEF TypeOK
        <4>2. CASE \E q \in Runs : Holds(q, t)
          BY <2>1, <2>2, <4>2
        <4>3. CASE t \in Linked /\ \A q \in Runs : todoId[q] # t
          BY <1>5, <3>2, <4>3 DEF TypeOK
        <4> QED BY <4>1, <4>2, <4>3 DEF SettledInv
      <3> QED BY <3>1, <3>2
    <2>4. ASSUME NEW q \in Runs, pc'[q] \in {"finishing", "done"}, todoId'[q] = q,
                 ~Retried(q)'
          PROVE  todo'[q] = IF result'[q] = "completed" THEN "done" ELSE "open"
      <3>1. q # r
        BY <1>1, <2>4 DEF TypeOK
      <3>2. ~Retried(q) /\ todoId[q] = q /\ pc[q] \in {"finishing", "done"}
        BY <1>1, <1>2, <1>5, <2>4, <3>1 DEF Retried, TypeOK
      <3>3. s # q
        BY <1>5, <3>1, <3>2, OwnTodo
      <3> QED BY <1>2, <1>5, <3>2, <3>3 DEF SettledInv, TypeOK, Todos
    <2> QED BY <2>3, <2>4 DEF SettledInv
  <1>6. CASE /\ CanLink(r)
             /\ todoId' = [todoId EXCEPT ![r] = link[r]]
             /\ prior'  = [prior EXCEPT ![r] = todo[link[r]]]
             /\ todo'   = [todo EXCEPT ![link[r]] = "in_progress"]
             /\ Suspend(r, "creating")
    <2>1. link[r] \in Todos /\ p = "creating"
      BY <1>1, <1>6 DEF CanLink, TypeOK, Suspend
    <2> QED BY <1>5, <1>6, <2>1 DEF TypeOK
  <1>7. CASE /\ todoId' = [todoId EXCEPT ![r] = r]
             /\ todo'   = [todo EXCEPT ![r] = "in_progress"]
             /\ UNCHANGED prior
             /\ Suspend(r, "creating")
    <2>1. r \in Todos /\ p = "creating"
      BY <1>1, <1>7 DEF Todos, TypeOK, Suspend
    <2> QED BY <1>5, <1>7, <2>1
  <1> QED BY <1>4, <1>6, <1>7 DEF ResolveOk, LinkOrCreate

LEMMA SettledNext ==
    TypeOK /\ AllRecorded /\ CallInv /\ SettledInv /\ [Next]_vars => SettledInv'
  <1> SUFFICES ASSUME TypeOK, AllRecorded, CallInv, SettledInv, [Next]_vars
               PROVE  SettledInv'
    OBVIOUS
  <1>1. CASE UNCHANGED <<pc, result, callVars, todoVars>>
    BY <1>1 DEF SettledInv, Holds, Retried, callVars, todoVars
  <1>2. ASSUME NEW r \in Runs, Begin(r), \A q \in Runs : Retried(q) => Retried(q)'
        PROVE  SettledInv'
    <2>1. pc[r] = "idle" /\ UNCHANGED todoVars
      BY <1>2 DEF Begin
    <2>2. \A q \in Runs \ {r} : pc'[q] = pc[q] /\ result'[q] = result[q]
      BY <1>2 DEF Begin, Suspend, Fail, TypeOK
    <2> QED BY <1>2, <2>1, <2>2, NotYetLinked, SettledMove
  <1>3. ASSUME NEW r \in Runs, Dispatch(r) PROVE SettledInv'
    BY <1>2, <1>3 DEF Dispatch, callVars, Retried
  <1>4. ASSUME NEW p \in Runs, NEW r \in Runs, Retry(p, r) PROVE SettledInv'
    <2>1. pc[r] = "idle" /\ retryOf' = [retryOf EXCEPT ![r] = p]
      BY <1>4 DEF Retry, Begin
    <2>2. retryOf[r] \notin Runs
      BY <2>1, NamesAssumption DEF CallInv, Calls
    <2>3. \A q \in Runs : Retried(q) => Retried(q)'
      BY <2>1, <2>2 DEF Retried, TypeOK
    <2> QED BY <1>2, <1>4, <2>3 DEF Retry
  <1>5. ASSUME NEW r \in Runs, ResolveFails(r) PROVE SettledInv'
    <2>1. /\ pc[r] = "acquiring" /\ UNCHANGED <<todoVars, retryOf>>
          /\ \A q \in Runs \ {r} : pc'[q] = pc[q] /\ result'[q] = result[q]
      BY <1>5 DEF ResolveFails, Admitted, Fail, Suspend, callVars, TypeOK
    <2> QED BY <2>1, NotYetLinked, SettledMove DEF Retried
  <1>6. ASSUME NEW r \in Runs, CreateOk(r) \/ Return(r) PROVE SettledInv'
    BY <1>6, SettledMove
       DEF CreateOk, Return, Suspend, recordVars, callVars, Retried, TypeOK, Working
  <1>7. ASSUME NEW r \in Runs, LinkRefused(r) \/ CreateFails(r) PROVE SettledInv'
    BY <1>7, SettledFinish DEF LinkRefused, CreateFails, Terminal
  <1>8. ASSUME NEW r \in Runs, PromptSettles(r) PROVE SettledInv'
    <2>1. PICK threw \in BOOLEAN : FinishRun(r, Verdict(r, threw))
      BY <1>8 DEF PromptSettles
    <2>2. Verdict(r, threw) \in Terminal /\ UNCHANGED callVars
      BY <1>8 DEF PromptSettles, Verdict, Terminal
    <2> QED BY <2>1, <2>2, SettledFinish
  <1>9. ASSUME NEW r \in Runs,
               \/ SessionInit(r) \/ TurnEnd(r) \/ AssistantMessage(r)
               \/ Stop(r) \/ AbortSignal(r)
        PROVE  UNCHANGED <<pc, result, callVars, todoVars>>
    BY <1>9 DEF SessionInit, TurnEnd, AssistantMessage, Stop, AbortSignal,
                lockedVars, recordVars
  <1>10. ASSUME NEW s \in Linked, UserCloses(s) PROVE SettledInv'
    <2>1. /\ todo' = [todo EXCEPT ![s] = "done"]
          /\ UNCHANGED <<pc, result, callVars, todoId, prior>>
      BY <1>10 DEF UserCloses, lockedVars, recordVars
    <2> QED
      BY <2>1, NamesAssumption DEF SettledInv, Holds, Retried, callVars, TypeOK, Todos
  <1>11. UNCHANGED vars => UNCHANGED <<pc, result, callVars, todoVars>>
    BY DEF vars, lockedVars, recordVars
  <1>12. (\E r \in Runs : Continue(r)) => SettledInv'
    BY <1>5, <1>6, <1>7, <1>8, SettledResolve DEF Continue, Resolve, Create
  <1> QED
    BY <1>1, <1>3, <1>4, <1>9, <1>10, <1>11, <1>12
       DEF Next, Terminating, Continue, Resolve, Create

(* No todo stays in progress behind a run that is over, and the todo the   *)
(* fleet created for it says how it ended.                                 *)
THEOREM TodoSettledHolds == Spec => []TodoSettled
  <1>1. Init => AllRecorded
    BY DEF Init, AllRecorded, Recorded
  <1>2. Init => CallInv
    BY NamedAssumption, NamesAssumption DEF Init, CallInv, Calls
  <1>3. Init => SettledInv
    BY NamesAssumption DEF Init, SettledInv, Todos
  <1>4. SettledInv => TodoSettled
    <2> SUFFICES ASSUME SettledInv PROVE TodoSettled
      OBVIOUS
    <2>1. ASSUME NEW t \in Todos, todo[t] = "in_progress"
          PROVE  \/ t \in Linked /\ \A r \in Runs : todoId[r] # t
                 \/ \E r \in Runs : /\ todoId[r] = t
                                    /\ \/ pc[r] \in Working
                                       \/ r \in Phase
                                       \/ prior[r] = "in_progress"
      BY <2>1 DEF SettledInv, Holds
    <2> QED BY <2>1 DEF SettledInv, TodoSettled
  <1> QED
    BY <1>1, <1>2, <1>3, <1>4, RecordedNext, CallNext, SettledNext, TypeCorrect,
       HandleMeansRunningHolds, PTL DEF Spec
=============================================================================
