-------------------------- MODULE RunRecovery_proofs --------------------------
(***************************************************************************)
(* Theorems about RunRecovery: the dispatches of SpawnSubagent while pi    *)
(* crashes and starts again, for every number of runs and of crashes.  The *)
(* theorems of SpawnSubagent_proofs speak of a process that never crashes; *)
(* of its lemmas those that look at one step are used here.                *)
(***************************************************************************)
EXTENDS RunRecovery, SpawnSubagent_proofs

-----------------------------------------------------------------------------
(* Types, and the lock. *)

LEMMA ReconcileTyped ==
    ASSUME TypeOK, Reconcile
    PROVE  TypeOK'
  <1>1. \A r \in Runs : Append(runLog[r], "aborted") \in Seq({"meta"} \cup Terminal)
    BY DEF TypeOK, Terminal
  <1>2. runLog' \in [Runs -> Seq({"meta"} \cup Terminal)]
    BY <1>1 DEF TypeOK, Reconcile
  <1>3. status' \in [Runs -> {"none", "running"} \cup Terminal]
    BY DEF TypeOK, Reconcile, Terminal
  <1>4. todo' \in [Todos -> {"absent", "open", "in_progress", "done"}]
    BY DEF TypeOK, Reconcile
  <1> QED
    BY <1>2, <1>3, <1>4
       DEF TypeOK, Reconcile, lockedVars, lockVars, childVars, callVars

LEMMA CrashTyped ==
    ASSUME TypeOK, Crash
    PROVE  TypeOK'
  <1>1. waiters' \in Seq(Runs) /\ active' \subseteq Runs
    BY DEF Crash
  <1>2. pc' \in [Runs -> {"idle", "acquiring", "done"} \cup Working]
    BY DEF Crash
  <1>3. turns' \in [Runs -> 0..MaxTurns]
    BY MaxTurnsAssumption DEF Crash
  <1>4. status' \in [Runs -> {"none", "running"} \cup Terminal]
    BY DEF Crash
  <1>5. /\ session' \in [Runs -> BOOLEAN] /\ aborted' \in [Runs -> BOOLEAN]
        /\ saw' \in [Runs -> BOOLEAN] /\ modelErr' \in [Runs -> BOOLEAN]
        /\ retryable' \in [Runs -> BOOLEAN]
    BY DEF Crash
  <1>6. UNCHANGED <<runLog, result, signal, link, todoId, prior, todo, retryOf>>
    BY DEF Crash, todoVars, callVars
  <1> QED
    BY <1>1, <1>2, <1>3, <1>4, <1>5, <1>6 DEF TypeOK

(* No slot survives the process that held it.                              *)
LEMMA CrashFreesLock ==
    ASSUME Crash
    PROVE  LockInv'
  <1>1. /\ active' = {} /\ waiters' = <<>>
        /\ \A r \in Runs : pc'[r] \in {"idle", "done"}
    BY DEF Crash
  <1>2. Cardinality({}) = 0 /\ 0 <= Cap
    BY FS_EmptySet, CapAssumption
  <1>3. HoldersWork' /\ WaitersWait' /\ WaitersOnce' /\ NoIdleSlot'
    BY <1>1 DEF HoldersWork, WaitersWait, WaitersOnce, NoIdleSlot
  <1>4. WorkersHold' /\ NobodyLost'
    BY <1>1 DEF WorkersHold, NobodyLost, Writers, Working
  <1>5. Bounded'
    BY <1>1, <1>2 DEF Bounded
  <1> QED
    BY <1>3, <1>4, <1>5 DEF LockInv

LEMMA LockUnmoved ==
    ASSUME LockInv, UNCHANGED lockedVars
    PROVE  LockInv'
  BY DEF lockedVars, lockVars, LockInv, HoldersWork, WorkersHold,
         WaitersWait, WaitersOnce, NobodyLost, Bounded, NoIdleSlot

(* The steps of RunRecovery that are none of a dispatch, one by one.       *)
LEMMA RecoveryStep ==
    ASSUME [RecoveryNext]_allVars
    PROVE  \/ DispatchStep \/ SessionStart \/ ProbeTick \/ Crash
           \/ /\ UNCHANGED vars /\ UNCHANGED <<up, crashes, reentries, lost, probeTimer>>
              /\ living' \subseteq living
              /\ \/ UNCHANGED aged
                 \/ \E r \in Runs : aged' = aged \cup {r}
  <1>1. ASSUME NEW r \in Runs, GraceElapses(r) \/ ChildDies(r)
        PROVE  /\ UNCHANGED vars /\ UNCHANGED <<up, crashes, reentries, lost, probeTimer>>
               /\ living' \subseteq living
               /\ UNCHANGED aged \/ aged' = aged \cup {r}
    BY <1>1 DEF GraceElapses, ChildDies
  <1>2. UNCHANGED allVars => /\ UNCHANGED vars
                             /\ UNCHANGED <<up, crashes, reentries, lost, aged, living, probeTimer>>
    BY DEF allVars, recoveryVars
  <1> QED
    BY <1>1, <1>2 DEF RecoveryNext

LEMMA RecoveryTypeInit == RecoveryInit => RecoveryTypeOK
  <1> SUFFICES ASSUME RecoveryInit PROVE RecoveryTypeOK
    OBVIOUS
  <1>1. TypeOK
    BY TypeInit DEF RecoveryInit
  <1>2. crashes \in 0..MaxCrashes /\ reentries \in 0..MaxReentries
    BY RecoveryAssumption DEF RecoveryInit
  <1> QED
    BY <1>1, <1>2 DEF RecoveryInit, RecoveryTypeOK

LEMMA RecoveryTypeNext == RecoveryTypeOK /\ [RecoveryNext]_allVars => RecoveryTypeOK'
  <1> SUFFICES ASSUME RecoveryTypeOK, [RecoveryNext]_allVars PROVE RecoveryTypeOK'
    OBVIOUS
  <1>0. TypeOK
    BY DEF RecoveryTypeOK
  <1>1. CASE DispatchStep
    <2>1. TypeOK'
      BY <1>0, <1>1, TypeNext DEF DispatchStep
    <2>2. living' \subseteq Claude
      BY <1>1 DEF DispatchStep, RecoveryTypeOK
    <2>3. probeTimer' \in BOOLEAN
      BY <1>1, Zenon DEF DispatchStep
    <2> QED
      BY <1>1, <2>1, <2>2, <2>3 DEF DispatchStep, RecoveryTypeOK
  <1>2. ASSUME Reconcile, probeTimer' = HasActive', UNCHANGED <<lost, aged, living, crashes>>,
               reentries' \in 0..MaxReentries, up' \in BOOLEAN
        PROVE  RecoveryTypeOK'
    <2>1. TypeOK'
      BY <1>0, <1>2, ReconcileTyped
    <2>2. probeTimer' \in BOOLEAN
      BY <1>2, Zenon DEF HasActive
    <2> QED
      BY <1>2, <2>1, <2>2 DEF RecoveryTypeOK
  <1>3. CASE SessionStart
    <2>1. reentries' \in 0..MaxReentries
      BY <1>3, RecoveryAssumption DEF SessionStart, RecoveryTypeOK
    <2> QED
      BY <1>2, <1>3, <2>1 DEF SessionStart
  <1>4. CASE ProbeTick
    BY <1>2, <1>4 DEF ProbeTick, RecoveryTypeOK
  <1>5. CASE Crash
    <2>1. TypeOK'
      BY <1>0, <1>5, CrashTyped
    <2>2. crashes' \in 0..MaxCrashes /\ lost' \subseteq Runs
      BY <1>5, RecoveryAssumption DEF Crash, RecoveryTypeOK
    <2> QED
      BY <1>5, <2>1, <2>2 DEF Crash, RecoveryTypeOK
  <1>6. CASE /\ UNCHANGED vars /\ UNCHANGED <<up, crashes, reentries, lost, probeTimer>>
             /\ living' \subseteq living
             /\ \/ UNCHANGED aged
                \/ \E r \in Runs : aged' = aged \cup {r}
    <2>1. TypeOK'
      BY <1>0, <1>6, TypeNext
    <2> QED
      BY <1>6, <2>1 DEF RecoveryTypeOK
  <1> QED
    BY <1>1, <1>3, <1>4, <1>5, <1>6, RecoveryStep

(* The types hold with crashes, restarts and passes too: a pass writes to  *)
(* registry, log and todos what a dispatch could have written.             *)
THEOREM RecoveryTypeCorrect == RecoverySpec => []RecoveryTypeOK
  BY RecoveryTypeInit, RecoveryTypeNext, PTL DEF RecoverySpec

LEMMA RecoveryLockNext ==
    RecoveryTypeOK /\ LockInv /\ [RecoveryNext]_allVars => LockInv'
  <1> SUFFICES ASSUME RecoveryTypeOK, LockInv, [RecoveryNext]_allVars PROVE LockInv'
    OBVIOUS
  <1>1. CASE DispatchStep
    BY <1>1, LockInvNext DEF DispatchStep, RecoveryTypeOK
  <1>2. CASE SessionStart \/ ProbeTick
    BY <1>2, LockUnmoved DEF SessionStart, ProbeTick, Reconcile
  <1>3. CASE Crash
    BY <1>3, CrashFreesLock
  <1>4. CASE UNCHANGED vars
    BY <1>4, LockUnmoved DEF vars
  <1> QED
    BY <1>1, <1>2, <1>3, <1>4, RecoveryStep

(* The lock after a crash: the new process starts with free slots, and the *)
(* passes that close the journals of the old dispatches touch none, so     *)
(* that holders and waiters are again exactly the writers at work.         *)
THEOREM LockSurvivesCrashes == RecoverySpec => [](LockMatchesRuns /\ NoIdleSlot)
  <1>1. RecoveryInit => LockInv
    BY LockInvInit DEF RecoveryInit
  <1>2. RecoveryTypeOK /\ LockInv => LockMatchesRuns /\ NoIdleSlot
    BY LockMatches DEF RecoveryTypeOK, LockInv
  <1> QED
    BY <1>1, <1>2, RecoveryTypeCorrect, RecoveryLockNext, PTL DEF RecoverySpec
-----------------------------------------------------------------------------
(* The journals. *)

Before == {"idle", "acquiring", "linking", "creating"}

(* What the handle and the journal of a dispatch are like where it is      *)
(* suspended, after a crash too: nothing is written before the child       *)
(* exists, and only a dispatch that is over has completed.                 *)
Stage(p, h, l) ==
    /\ h <=> p = "prompting"
    /\ p \in Before => l = <<>>
    /\ "completed" \in ToSet(l) => p \in {"finishing", "done"}

JournalInv ==
    /\ \A r \in Runs : Stage(pc[r], session[r], runLog[r])
    /\ \A r \in lost : pc[r] = "done"
    /\ LiveRunSpared

(* A step of SpawnSubagent as one of its dispatches sees it.               *)
Moves(r) ==
    \/ /\ pc'[r] = pc[r] \/ <<pc[r], pc'[r]>> \in
             {"idle"} \X {"acquiring", "done"} \cup
             {"acquiring"} \X {"linking", "creating", "done"} \cup {"finishing"} \X {"done"}
       /\ session'[r] = session[r] /\ runLog'[r] = runLog[r]
    \/ /\ pc[r] = "prompting" /\ pc'[r] = "prompting" /\ runLog[r] = <<>>
       /\ session'[r] = session[r] /\ runLog'[r] = Append(runLog[r], "meta")
    \/ /\ pc[r] = "creating" /\ pc'[r] = "prompting" /\ session'[r]
       /\ runLog'[r] \in {runLog[r], Append(runLog[r], "meta")}
    \/ /\ pc[r] \in {"linking", "creating", "prompting"} /\ pc'[r] = "finishing"
       /\ ~session'[r]
       /\ \E v \in Terminal : runLog'[r] = Append(runLog[r], v)

LEMMA MovesOne ==
    ASSUME NEW r \in Runs, Moves(r),
           \A q \in Runs \ {r} : /\ pc'[q] = pc[q] /\ session'[q] = session[q]
                                 /\ runLog'[q] = runLog[q]
    PROVE  \A q \in Runs : Moves(q)
  BY DEF Moves

LEMMA MovesBegin ==
    ASSUME TypeOK, NEW r \in Runs, Begin(r)
    PROVE  \A q \in Runs : Moves(q)
  <1>1. PICK p \in {"acquiring", "done"} : pc' = [pc EXCEPT ![r] = p]
    BY DEF Begin, Suspend, Fail
  <1>2. pc[r] = "idle" /\ session' = session /\ runLog' = runLog
    BY DEF Begin
  <1>3. pc'[r] = p /\ \A q \in Runs \ {r} : pc'[q] = pc[q]
    BY <1>1 DEF TypeOK
  <1>4. <<pc[r], pc'[r]>> \in {"idle"} \X {"acquiring", "done"}
    BY <1>2, <1>3
  <1>5. Moves(r)
    BY <1>2, <1>4 DEF Moves
  <1> QED
    BY <1>2, <1>3, <1>5, MovesOne

LEMMA MovesFinish ==
    ASSUME TypeOK, NEW r \in Runs, pc[r] \in {"linking", "creating", "prompting"},
           NEW v \in Terminal, FinishRun(r, v)
    PROVE  \A q \in Runs : Moves(q)
  <1>1. /\ pc' = [pc EXCEPT ![r] = "finishing"]
        /\ session' = [session EXCEPT ![r] = FALSE]
        /\ runLog' = [runLog EXCEPT ![r] = Append(runLog[r], v)]
    BY DEF FinishRun, Suspend
  <1>2. /\ pc'[r] = "finishing" /\ ~session'[r] /\ runLog'[r] = Append(runLog[r], v)
        /\ \A q \in Runs \ {r} : /\ pc'[q] = pc[q] /\ session'[q] = session[q]
                                 /\ runLog'[q] = runLog[q]
    BY <1>1 DEF TypeOK
  <1>3. Moves(r)
    BY <1>2 DEF Moves
  <1> QED
    BY <1>2, <1>3, MovesOne

LEMMA MovesStill ==
    ASSUME UNCHANGED pc, UNCHANGED session, UNCHANGED runLog
    PROVE  \A q \in Runs : Moves(q)
  BY DEF Moves

LEMMA MovesNext == TypeOK /\ Next => \A q \in Runs : Moves(q)
  <1> SUFFICES ASSUME TypeOK, Next PROVE \A q \in Runs : Moves(q)
    OBVIOUS
  <1>1. ASSUME NEW r \in Runs, Dispatch(r) \/ \E p \in Runs : Retry(p, r)
        PROVE  \A q \in Runs : Moves(q)
    BY <1>1, MovesBegin DEF Dispatch, Retry
  <1>2. ASSUME NEW r \in Runs, ResolveFails(r) \/ ResolveOk(r) \/ Return(r)
        PROVE  \A q \in Runs : Moves(q)
    <2>1. PICK p : pc' = [pc EXCEPT ![r] = p] /\ <<pc[r], p>> \in
                      {"acquiring"} \X {"linking", "creating", "done"} \cup {"finishing"} \X {"done"}
      BY <1>2 DEF ResolveFails, ResolveOk, Return, Admitted, Fail, LinkOrCreate, Suspend
    <2>2. session' = session /\ runLog' = runLog
      BY <1>2 DEF ResolveFails, ResolveOk, Return, recordVars
    <2>3. pc'[r] = p /\ \A q \in Runs \ {r} : pc'[q] = pc[q]
      BY <2>1 DEF TypeOK
    <2>4. Moves(r)
      BY <2>1, <2>2, <2>3 DEF Moves
    <2> QED
      BY <2>2, <2>3, <2>4, MovesOne
  <1>3. ASSUME NEW r \in Runs, LinkRefused(r) \/ CreateFails(r)
        PROVE  \A q \in Runs : Moves(q)
    BY <1>3, MovesFinish DEF LinkRefused, CreateFails, Terminal
  <1>4. ASSUME NEW r \in Runs, PromptSettles(r)
        PROVE  \A q \in Runs : Moves(q)
    <2>1. PICK threw \in BOOLEAN : FinishRun(r, Verdict(r, threw))
      BY <1>4 DEF PromptSettles
    <2>2. Verdict(r, threw) \in Terminal
      BY DEF Verdict, Terminal
    <2> QED
      BY <1>4, <2>1, <2>2, MovesFinish DEF PromptSettles
  <1>5. ASSUME NEW r \in Runs, CreateOk(r)
        PROVE  \A q \in Runs : Moves(q)
    <2>1. /\ pc[r] = "creating" /\ pc' = [pc EXCEPT ![r] = "prompting"]
          /\ session' = [session EXCEPT ![r] = TRUE]
          /\ \/ runLog' = runLog
             \/ runLog' = [runLog EXCEPT ![r] = Append(runLog[r], "meta")]
      BY <1>5 DEF CreateOk, Suspend
    <2>2. /\ pc'[r] = "prompting" /\ session'[r]
          /\ runLog'[r] \in {runLog[r], Append(runLog[r], "meta")}
          /\ \A q \in Runs \ {r} : /\ pc'[q] = pc[q] /\ session'[q] = session[q]
                                   /\ runLog'[q] = runLog[q]
      BY <2>1 DEF TypeOK
    <2>3. Moves(r)
      BY <2>1, <2>2 DEF Moves
    <2> QED
      BY <2>2, <2>3, MovesOne
  <1>6. ASSUME NEW r \in Runs, SessionInit(r)
        PROVE  \A q \in Runs : Moves(q)
    <2>1. /\ pc[r] = "prompting" /\ runLog[r] = <<>>
          /\ pc' = pc /\ session' = session
          /\ runLog' = [runLog EXCEPT ![r] = Append(runLog[r], "meta")]
      BY <1>6 DEF SessionInit, lockedVars
    <2>2. /\ runLog'[r] = Append(runLog[r], "meta")
          /\ \A q \in Runs \ {r} : runLog'[q] = runLog[q]
      BY <2>1 DEF TypeOK
    <2>3. Moves(r)
      BY <2>1, <2>2 DEF Moves
    <2> QED
      BY <2>1, <2>2, <2>3, MovesOne
  <1>7. ASSUME NEW r \in Runs, TurnEnd(r) \/ AssistantMessage(r) \/ Stop(r) \/ AbortSignal(r)
        PROVE  \A q \in Runs : Moves(q)
    BY <1>7, MovesStill
       DEF TurnEnd, AssistantMessage, Stop, AbortSignal, lockedVars, recordVars
  <1>8. (\E t \in Linked : UserCloses(t)) \/ Terminating => \A q \in Runs : Moves(q)
    BY MovesStill DEF UserCloses, Terminating, vars, lockedVars, recordVars
  <1> QED
    BY <1>1, <1>2, <1>3, <1>4, <1>5, <1>6, <1>7, <1>8 DEF Next

(* What an entry more makes of a journal. *)
LEMMA ToSetAppend ==
    ASSUME NEW S, NEW l \in Seq(S), NEW e \in S
    PROVE  ToSet(Append(l, e)) = ToSet(l) \cup {e}
  <1>1. /\ DOMAIN l = 1..Len(l) /\ Len(l) \in Nat
        /\ DOMAIN Append(l, e) = 1..(Len(l) + 1)
        /\ Append(l, e)[Len(l) + 1] = e
        /\ \A i \in 1..Len(l) : Append(l, e)[i] = l[i]
    OBVIOUS
  <1>2. 1..(Len(l) + 1) = 1..Len(l) \cup {Len(l) + 1}
    BY <1>1
  <1> QED
    BY <1>1, <1>2 DEF ToSet

LEMMA JournalGrows ==
    ASSUME TypeOK, NEW r \in Runs, NEW e \in {"meta"} \cup Terminal
    PROVE  ToSet(Append(runLog[r], e)) = ToSet(runLog[r]) \cup {e}
  <1> DEFINE S == {"meta"} \cup Terminal
  <1>1. runLog[r] \in Seq(S) /\ e \in S
    BY DEF TypeOK
  <1> HIDE DEF S
  <1> QED
    BY <1>1, ToSetAppend

LEMMA EmptyJournal == ToSet(<<>>) = {}
  BY DEF ToSet

(* A dispatch that steps: if its child is alive afterwards its journal is  *)
(* open, and what is completed stays as it is.                             *)
LEMMA JournalMoves ==
    ASSUME TypeOK, NEW r \in Runs, Stage(pc[r], session[r], runLog[r]), Moves(r)
    PROVE  /\ Stage(pc'[r], session'[r], runLog'[r])
           /\ "completed" \in ToSet(runLog[r]) => runLog'[r] = runLog[r]
           /\ pc'[r] = "prompting" =>
                 \/ pc[r] = "prompting" /\ ToSet(runLog'[r]) \subseteq ToSet(runLog[r]) \cup {"meta"}
                 \/ ToSet(runLog'[r]) \subseteq {"meta"}
           /\ pc[r] = "done" => pc'[r] = "done"
  <1> DEFINE l == runLog[r]
  <1>1. \A e \in {"meta"} \cup Terminal :
            /\ ToSet(Append(l, e)) = ToSet(l) \cup {e}
            /\ e \in Terminal => e # "meta"
    BY JournalGrows DEF Terminal
  <1>2. /\ session[r] <=> pc[r] = "prompting"
        /\ pc[r] \in Before => l = <<>> /\ ToSet(l) = {}
        /\ "completed" \in ToSet(l) => pc[r] \in {"finishing", "done"}
    BY EmptyJournal DEF Stage
  <1>3. CASE /\ pc'[r] = pc[r] \/ <<pc[r], pc'[r]>> \in
                   {"idle"} \X {"acquiring", "done"} \cup
                   {"acquiring"} \X {"linking", "creating", "done"} \cup {"finishing"} \X {"done"}
             /\ session'[r] = session[r] /\ runLog'[r] = runLog[r]
    BY <1>2, <1>3 DEF Stage, Before
  <1>4. CASE /\ pc[r] = "prompting" /\ pc'[r] = "prompting" /\ runLog[r] = <<>>
             /\ session'[r] = session[r] /\ runLog'[r] = Append(runLog[r], "meta")
    BY <1>1, <1>2, <1>4 DEF Stage, Before
  <1>5. CASE /\ pc[r] = "creating" /\ pc'[r] = "prompting" /\ session'[r]
             /\ runLog'[r] \in {runLog[r], Append(runLog[r], "meta")}
    <2>1. ToSet(runLog'[r]) \subseteq {"meta"}
      <3>1. ToSet(runLog[r]) = {} /\ ToSet(Append(runLog[r], "meta")) = {"meta"}
        BY <1>1, <1>2, <1>5 DEF Before
      <3> QED
        BY <1>5, <3>1
    <2>2. ~("completed" \in ToSet(runLog[r])) /\ ~("completed" \in ToSet(runLog'[r]))
      BY <1>2, <1>5, <2>1
    <2> QED
      BY <1>5, <2>1, <2>2 DEF Stage, Before
  <1>6. CASE /\ pc[r] \in {"linking", "creating", "prompting"} /\ pc'[r] = "finishing"
             /\ ~session'[r]
             /\ \E v \in Terminal : runLog'[r] = Append(runLog[r], v)
    BY <1>1, <1>2, <1>6 DEF Stage, Before
  <1> QED
    BY <1>3, <1>4, <1>5, <1>6 DEF Moves

(* A pass takes no run at work for dead while its child is alive, nor one  *)
(* that has ended.                                                         *)
LEMMA JournalReconcile ==
    ASSUME TypeOK, JournalInv, Reconcile, UNCHANGED <<lost, living>>
    PROVE  /\ JournalInv'
           /\ \A r \in Runs : "completed" \in ToSet(runLog[r]) => runLog'[r] = runLog[r]
  <1>1. /\ UNCHANGED pc /\ UNCHANGED session
        /\ \A r \in Runs : runLog'[r] = IF r \in Dead THEN Append(runLog[r], "aborted") ELSE runLog[r]
    BY DEF Reconcile, lockedVars
  <1>2. \A r \in Runs : ToSet(Append(runLog[r], "aborted")) = ToSet(runLog[r]) \cup {"aborted"}
    BY JournalGrows DEF Terminal
  <1>3. \A r \in Runs : "completed" \in ToSet(runLog[r]) => r \notin Dead
    BY DEF Dead, Scan, Ended, Terminal
  <1>4. ASSUME NEW r \in Dead
        PROVE  /\ r \in Runs /\ runLog[r] # <<>>
               /\ ~(pc[r] = "prompting" /\ (r \in Claude => r \in living))
    <2>1. r \in Runs /\ "meta" \in ToSet(runLog[r]) /\ SeemsDead(r)
      BY DEF Dead, Scan, HasMeta
    <2>2. runLog[r] # <<>>
      BY <2>1, EmptyJournal
    <2>3. session[r] => r \in Claude \ living
      BY <2>1 DEF SeemsDead
    <2>4. pc[r] = "prompting" => session[r]
      BY <2>1 DEF JournalInv, Stage
    <2> QED
      BY <2>1, <2>2, <2>3, <2>4
  <1>5. ASSUME NEW r \in Runs PROVE Stage(pc'[r], session'[r], runLog'[r])
    <2>1. Stage(pc[r], session[r], runLog[r])
      BY DEF JournalInv
    <2>2. "completed" \in ToSet(runLog'[r]) => "completed" \in ToSet(runLog[r])
      BY <1>1, <1>2
    <2>3. pc[r] \in Before => runLog'[r] = <<>>
      BY <1>1, <1>4, <2>1 DEF Stage
    <2> QED
      BY <1>1, <2>1, <2>2, <2>3 DEF Stage
  <1>6. ASSUME NEW r \in Runs, pc[r] = "prompting", r \in Claude => r \in living
        PROVE  runLog'[r] = runLog[r] /\ ~Ended(r)
    BY <1>1, <1>4, <1>6 DEF JournalInv, LiveRunSpared
  <1>7. LiveRunSpared'
    BY <1>1, <1>6 DEF LiveRunSpared, Ended
  <1>8. \A r \in lost' : pc'[r] = "done"
    BY <1>1 DEF JournalInv
  <1>9. \A r \in Runs : "completed" \in ToSet(runLog[r]) => runLog'[r] = runLog[r]
    BY <1>1, <1>3
  <1>10. \A r \in Runs : Stage(pc'[r], session'[r], runLog'[r])
    BY <1>5
  <1> QED
    BY <1>7, <1>8, <1>9, <1>10 DEF JournalInv, Stage

(* A dispatch steps. *)
LEMMA JournalDispatch ==
    ASSUME RecoveryTypeOK, JournalInv, DispatchStep
    PROVE  /\ JournalInv'
           /\ \A r \in Runs : "completed" \in ToSet(runLog[r]) => runLog'[r] = runLog[r]
  <1>1. \A r \in Runs : Moves(r) /\ Stage(pc[r], session[r], runLog[r])
    BY MovesNext DEF DispatchStep, RecoveryTypeOK, JournalInv
  <1>2. \A r \in Runs :
           /\ Stage(pc'[r], session'[r], runLog'[r])
           /\ "completed" \in ToSet(runLog[r]) => runLog'[r] = runLog[r]
           /\ pc'[r] = "prompting" =>
                 \/ pc[r] = "prompting" /\ ToSet(runLog'[r]) \subseteq ToSet(runLog[r]) \cup {"meta"}
                 \/ ToSet(runLog'[r]) \subseteq {"meta"}
           /\ pc[r] = "done" => pc'[r] = "done"
    BY <1>1, JournalMoves DEF RecoveryTypeOK
  <1>3. lost' = lost /\ lost \subseteq Runs /\ \A r \in lost : pc[r] = "done"
    BY DEF DispatchStep, RecoveryTypeOK, JournalInv
  <1>4. \A r \in lost' : pc'[r] = "done"
    BY <1>2, <1>3
  <1>5. ASSUME NEW r \in Runs, pc'[r] = "prompting", r \in Claude => r \in living',
               NEW v \in Terminal, v \in ToSet(runLog'[r])
        PROVE  FALSE
    <2>1. v # "meta"
      BY DEF Terminal
    <2>2. pc[r] = "prompting" /\ v \in ToSet(runLog[r])
      BY <1>2, <1>5, <2>1
    <2>3. r \in Claude => r \in living
      BY <1>5, <2>2 DEF DispatchStep
    <2> QED
      BY <1>5, <2>2, <2>3 DEF JournalInv, LiveRunSpared, Ended
  <1>6. LiveRunSpared'
    BY <1>5 DEF LiveRunSpared, Ended
  <1>7. \A r \in Runs : Stage(pc'[r], session'[r], runLog'[r])
    BY <1>2
  <1> QED
    BY <1>2, <1>4, <1>6, <1>7 DEF JournalInv, Stage

(* pi crashes: every dispatch is over, and no handle is left.              *)
LEMMA JournalCrash ==
    ASSUME RecoveryTypeOK, JournalInv, Crash
    PROVE  JournalInv' /\ UNCHANGED runLog
  <1>1. /\ \A r \in Runs : pc'[r] = (IF pc[r] = "idle" THEN "idle" ELSE "done") /\ ~session'[r]
        /\ runLog' = runLog
        /\ lost' = lost \cup {r \in Runs : pc[r] \notin {"idle", "done"}}
    BY DEF Crash
  <1>2. ASSUME NEW r \in Runs PROVE Stage(pc'[r], session'[r], runLog'[r])
    <2>1. Stage(pc[r], session[r], runLog[r])
      BY DEF JournalInv
    <2> QED
      BY <1>1, <2>1 DEF Stage, Before
  <1>3. \A r \in lost' : pc'[r] = "done"
    BY <1>1 DEF JournalInv, RecoveryTypeOK
  <1>4. LiveRunSpared'
    BY <1>1 DEF LiveRunSpared
  <1>5. \A r \in Runs : Stage(pc'[r], session'[r], runLog'[r])
    BY <1>2
  <1> QED
    BY <1>1, <1>3, <1>4, <1>5 DEF JournalInv, Stage

LEMMA JournalNext ==
    RecoveryTypeOK /\ JournalInv /\ [RecoveryNext]_allVars =>
        /\ JournalInv'
        /\ \A r \in Runs : "completed" \in ToSet(runLog[r]) => runLog'[r] = runLog[r]
  <1> SUFFICES ASSUME RecoveryTypeOK, JournalInv, [RecoveryNext]_allVars
               PROVE  /\ JournalInv'
                      /\ \A r \in Runs : "completed" \in ToSet(runLog[r]) => runLog'[r] = runLog[r]
    OBVIOUS
  <1>1. CASE DispatchStep
    BY <1>1, JournalDispatch
  <1>2. CASE SessionStart \/ ProbeTick
    BY <1>2, JournalReconcile DEF SessionStart, ProbeTick, RecoveryTypeOK
  <1>3. CASE Crash
    BY <1>3, JournalCrash
  <1>4. CASE UNCHANGED vars /\ UNCHANGED lost /\ living' \subseteq living
    <2>1. UNCHANGED pc /\ UNCHANGED session /\ UNCHANGED runLog
      BY <1>4 DEF vars, lockedVars, recordVars
    <2>2. LiveRunSpared'
      BY <1>4, <2>1 DEF JournalInv, LiveRunSpared, Ended
    <2> QED
      BY <1>4, <2>1, <2>2 DEF JournalInv, Stage
  <1> QED
    BY <1>1, <1>2, <1>3, <1>4, RecoveryStep

LEMMA JournalReached == RecoverySpec => [](RecoveryTypeOK /\ JournalInv)
  <1>1. RecoveryInit => JournalInv
    BY EmptyJournal DEF RecoveryInit, Init, JournalInv, Stage, LiveRunSpared
  <1> QED
    BY <1>1, RecoveryTypeCorrect, JournalNext, PTL DEF RecoverySpec

(* No pass of reconcileRuns takes a dispatch of this process for an orphan *)
(* while its child is alive, whatever its age, however often pi has        *)
(* crashed before: its record has the handle, and the handle answers.      *)
THEOREM LiveRunSparedHolds == RecoverySpec => []LiveRunSpared
  <1>1. JournalInv => LiveRunSpared
    BY DEF JournalInv
  <1> QED
    BY <1>1, JournalReached, PTL

(* What has completed on disk stays so: neither a pass, a crash, a late    *)
(* event of the child nor a retry adds to its journal.                     *)
THEOREM CompletedUntouchedHolds == RecoverySpec => CompletedUntouched
  <1>1. ASSUME NEW r \in Runs, LastVerdict(r, "completed")
        PROVE  "completed" \in ToSet(runLog[r])
    BY <1>1 DEF LastVerdict, ToSet
  <1>2. RecoveryTypeOK /\ JournalInv /\ [RecoveryNext]_allVars =>
           [\A r \in Runs : LastVerdict(r, "completed") => runLog'[r] = runLog[r]]_allVars
    BY <1>1, JournalNext
  <1> QED
    BY <1>2, JournalReached, PTL DEF RecoverySpec, CompletedUntouched

-----------------------------------------------------------------------------
(* The todos. *)

LEMMA RecoveryPriorNext ==
    RecoveryTypeOK /\ PriorKnown /\ [RecoveryNext]_allVars => PriorKnown'
  <1> SUFFICES ASSUME RecoveryTypeOK, PriorKnown, [RecoveryNext]_allVars PROVE PriorKnown'
    OBVIOUS
  <1>1. CASE DispatchStep
    BY <1>1, PriorNext DEF DispatchStep, RecoveryTypeOK
  <1>2. CASE UNCHANGED <<todoId, prior>>
    BY <1>2 DEF PriorKnown
  <1>3. CASE SessionStart \/ ProbeTick \/ Crash \/ UNCHANGED vars
    BY <1>2, <1>3 DEF SessionStart, ProbeTick, Reconcile, Crash, vars, todoVars
  <1> QED
    BY <1>1, <1>3, RecoveryStep

(* The user owns the close of his todos across crashes too: a pass reopens *)
(* the todo of a run it takes for dead, and never closes one.              *)
THEOREM CloseStaysUsers == RecoverySpec => OnlyUserCloses
  <1>1. RecoveryInit => PriorKnown
    BY NamesAssumption DEF RecoveryInit, Init, PriorKnown
  <1>2. ASSUME RecoveryTypeOK, PriorKnown, [RecoveryNext]_allVars,
               NEW t \in Linked, todo[t] # "done", todo'[t] = "done"
        PROVE  UserCloses(t)
    <2>1. CASE DispatchStep
      BY <1>2, <2>1, CloseIsUsers DEF DispatchStep, RecoveryTypeOK
    <2>2. CASE SessionStart \/ ProbeTick
      BY <1>2, <2>2 DEF SessionStart, ProbeTick, Reconcile, Todos
    <2>3. CASE Crash \/ UNCHANGED vars
      BY <1>2, <2>3 DEF Crash, vars, todoVars
    <2> QED
      BY <1>2, <2>1, <2>2, <2>3, RecoveryStep
  <1>3. RecoveryTypeOK /\ PriorKnown /\ [RecoveryNext]_allVars =>
           [\A t \in Linked : todo[t] # "done" /\ todo'[t] = "done" => UserCloses(t)]_vars
    BY <1>2
  <1> QED
    BY <1>1, <1>3, RecoveryPriorNext, RecoveryTypeCorrect, PTL DEF RecoverySpec, OnlyUserCloses
=============================================================================
