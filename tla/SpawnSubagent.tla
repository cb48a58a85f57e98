---------------------------- MODULE SpawnSubagent ----------------------------
(***************************************************************************)
(* spawnSubagent and finishRun of src/engine/spawnSubagent.ts: the life of *)
(* one dispatch, from the foreground lock to the settled todo, with the    *)
(* run registry, the run log and the todos it writes, and the one retry of *)
(* src/tools/subagent.ts.                                                  *)
(*                                                                         *)
(* JavaScript runs one piece of code at a time, so one action is the code  *)
(* between two awaits of one dispatch, and dispatches interleave at the    *)
(* awaits.  pc[r] names the await where dispatch r is suspended:           *)
(*   acquiring    lock.acquire                                             *)
(*   linking      todoSync.linkOrCreateRunTodo, which has rejected         *)
(*   creating     the same call resolved, or backend.factory.create        *)
(*   prompting    session.prompt: the child works, its events arrive       *)
(*   finishing    finishRun, its writes made, the lock not yet released    *)
(***************************************************************************)
EXTENDS ForegroundLock, SequencesExt

CONSTANTS Unresolvable, \* may find its agent, backend or model missing
          ReadOnly,   \* dispatches with readOnly set: they bypass the lock
          Phase,      \* children of a lifecycle phase (opts.lifecycleTodoId)
          Untracked,  \* track off, by the caller or by the agent definition
          Claude,     \* runs on the claude backend; the others are pi children
          Retries,    \* ids minted for a retry with the fallback model
          Signalled,  \* runs whose caller passes an AbortSignal
          Capped,     \* runs whose tier has a cost cap
          Linked,     \* todos that exist already and a caller may name
          Named,      \* opts.lifecycleTodoId ?? opts.todoId of each dispatch
          NoTodo, NoRun,
          MaxTurns    \* opts.maxTurns

ASSUME KindsAssumption ==
    /\ ReadOnly \subseteq Runs /\ Phase \subseteq Runs /\ Untracked \subseteq Runs
    /\ Claude \subseteq Runs /\ Retries \subseteq Runs
    /\ Signalled \subseteq Runs /\ Capped \subseteq Runs
    /\ Unresolvable \subseteq Runs
ASSUME NamesAssumption ==
    /\ Linked \cap Runs = {}
    /\ NoTodo \notin Linked \cup Runs
    /\ NoRun \notin Runs
(* A lifecycle phase always names its lifecycle's todo; a retry, which only *)
(* a direct call gets, learns its todo from the primary's result.          *)
ASSUME NamedAssumption ==
    /\ Named \in [Runs -> Linked \cup {NoTodo}]
    /\ \A r \in Phase : Named[r] # NoTodo /\ r \notin Retries
ASSUME MaxTurnsAssumption == MaxTurns \in Nat \ {0}

VARIABLES pc,
          status,     \* RunRecord.status; "none" before registry.add
          session,    \* RunRecord.session is set
          runLog,     \* the entries the journal of a run holds, in order
          result,     \* SpawnResult.status once the dispatch has one
          aborted,    \* the local flag, set by Stop, the signal, the cost cap
          turns,      \* the turn budget's count, which saturates at MaxTurns
          saw,        \* an assistant message has ended
          modelErr,   \* ... with stopReason "error"
          retryable,  \* SpawnResult.retryable: the model failed
          signal,     \* the caller's AbortSignal has fired
          link,       \* the todo the dispatch names
          todoId,     \* the todo the run was linked to
          prior,      \* its status before; "none" if this run created it
          todo,       \* the status of every todo
          retryOf     \* the primary dispatch this run retries

lockedVars == <<lockVars, pc>>
recordVars == <<status, session, runLog, result, retryable>>
childVars  == <<aborted, turns, saw, modelErr>>
todoVars   == <<todoId, prior, todo>>
callVars   == <<link, retryOf>>
vars == <<lockedVars, recordVars, childVars, todoVars, callVars, signal>>

Writers    == Runs \ ReadOnly
Todos      == Linked \cup Runs   \* a todo the fleet creates is named by its run
OpenStates == {"open", "in_progress"}
Terminal   == {"completed", "failed", "aborted"}
(* Where a dispatch holds resources: a record, and a slot if it writes. *)
Working    == {"linking", "creating", "prompting", "finishing"}

TypeOK ==
    /\ active \subseteq Runs
    /\ waiters \in Seq(Runs)
    /\ pc \in [Runs -> {"idle", "acquiring", "done"} \cup Working]
    /\ status \in [Runs -> {"none", "running"} \cup Terminal]
    /\ session \in [Runs -> BOOLEAN]
    /\ runLog \in [Runs -> Seq({"meta"} \cup Terminal)]
    /\ result \in [Runs -> {"none"} \cup Terminal]
    /\ aborted \in [Runs -> BOOLEAN]
    /\ turns \in [Runs -> 0..MaxTurns]
    /\ saw \in [Runs -> BOOLEAN]
    /\ modelErr \in [Runs -> BOOLEAN]
    /\ retryable \in [Runs -> BOOLEAN]
    /\ signal \in [Runs -> BOOLEAN]
    /\ link \in [Runs -> Todos \cup {NoTodo}]
    /\ todoId \in [Runs -> Todos \cup {NoTodo}]
    /\ prior \in [Runs -> {"none"} \cup OpenStates]
    /\ todo \in [Todos -> {"absent", "open", "in_progress", "done"}]
    /\ retryOf \in [Runs -> Runs \cup {NoRun}]

Init == /\ LockInit
        /\ pc       = [r \in Runs |-> "idle"]
        /\ status   = [r \in Runs |-> "none"]
        /\ session  = [r \in Runs |-> FALSE]
        /\ runLog   = [r \in Runs |-> <<>>]
        /\ result   = [r \in Runs |-> "none"]
        /\ aborted  = [r \in Runs |-> FALSE]
        /\ turns    = [r \in Runs |-> 0]
        /\ saw      = [r \in Runs |-> FALSE]
        /\ modelErr = [r \in Runs |-> FALSE]
        /\ retryable = [r \in Runs |-> FALSE]
        /\ signal   = [r \in Runs |-> FALSE]
        /\ link = Named
        /\ todoId   = [r \in Runs |-> NoTodo]
        /\ prior    = [r \in Runs |-> "none"]
        /\ todo \in {f \in [Todos -> {"absent"} \cup OpenStates] :
                        \A t \in Todos : f[t] = "absent" <=> t \in Runs}
        /\ retryOf  = [r \in Runs |-> NoRun]
-----------------------------------------------------------------------------
Suspend(r, at) == pc' = [pc EXCEPT ![r] = at]

(* The dispatch returns fail(...): no record, no journal entry.            *)
Fail(r) == /\ Suspend(r, "done")
           /\ result' = [result EXCEPT ![r] = "failed"]

(* The call, up to its first await.                                        *)
Begin(r) ==
    /\ pc[r] = "idle"
    /\ UNCHANGED <<status, session, runLog, retryable, childVars, todoVars, signal>>
    /\ \/ /\ r \in ReadOnly
          /\ Suspend(r, "acquiring")
          /\ UNCHANGED <<lockVars, result>>
       \/ /\ r \in Writers
          /\ Acquire(r) \/ Enqueue(r)
          /\ Suspend(r, "acquiring")
          /\ UNCHANGED result
       \/ /\ r \in Writers
          /\ Reject(r)
          /\ Fail(r)

Dispatch(r) == /\ r \notin Retries
               /\ Begin(r)
               /\ UNCHANGED callVars

(* The finally block: a read-only dispatch never took the lock.            *)
ReleaseSlot(r) == IF r \in ReadOnly THEN UNCHANGED lockVars ELSE Release(r)

Admitted(r) == /\ pc[r] = "acquiring"
               /\ r \in ReadOnly \/ r \in active

(* Unknown agent, unavailable backend or unresolvable model.               *)
ResolveFails(r) ==
    /\ Admitted(r)
    /\ r \in Unresolvable
    /\ Fail(r)
    /\ ReleaseSlot(r)
    /\ UNCHANGED <<status, session, runLog, retryable, childVars, todoVars, callVars, signal>>

(* Mutated form: a closed todo is accepted.                                *)
LinkClosedToo(r) == link[r] # NoTodo

(* linkOrCreateRunTodo of src/todo-sync/adapter.ts, whose writes happen in *)
(* the call itself: an open todo is linked, a closed one refused, and one  *)
(* is created if none is named.                                            *)
CanLink(r) == link[r] # NoTodo /\ todo[link[r]] \in OpenStates

LinkOrCreate(r) ==
    \/ /\ r \in Untracked
       /\ Suspend(r, "creating")
       /\ UNCHANGED todoVars
    \/ /\ r \notin Untracked
       /\ CanLink(r)
       /\ todoId' = [todoId EXCEPT ![r] = link[r]]
       /\ prior'  = [prior EXCEPT ![r] = todo[link[r]]]
       /\ todo'   = [todo EXCEPT ![link[r]] = "in_progress"]
       /\ Suspend(r, "creating")
    \/ /\ r \notin Untracked
       /\ link[r] # NoTodo
       /\ ~CanLink(r)
       /\ Suspend(r, "linking")
       /\ UNCHANGED todoVars
    \/ /\ r \notin Untracked
       /\ link[r] = NoTodo
       /\ todoId' = [todoId EXCEPT ![r] = r]
       /\ todo'   = [todo EXCEPT ![r] = "in_progress"]
       /\ UNCHANGED prior
       /\ Suspend(r, "creating")

(* runRegistry.add and the todo link.  The record's copy of todoId is left *)
(* out: nothing reads it.                                                  *)
ResolveOk(r) ==
    /\ Admitted(r)
    /\ status' = [status EXCEPT ![r] = "running"]
    /\ LinkOrCreate(r)
    /\ UNCHANGED <<lockVars, session, runLog, result, retryable, childVars, callVars, signal>>

(* Mutated form: a run that succeeded closes the todo it was linked to.    *)
SettleAsOwner(r, verdict) ==
    IF todoId[r] = NoTodo \/ r \in Phase THEN todo
    ELSE [todo EXCEPT ![todoId[r]] =
             IF verdict = "completed" THEN "done" ELSE "open"]

(* Mutated form: the todo is forgotten when the run ends.                  *)
SettleNothing(r, verdict) == todo

(* markRunTodoDone and markRunTodoReverted: a linked todo gets its prior   *)
(* status back; a created one is closed, or reopened for another try.  The *)
(* lifecycle settles the todo of its phases.                               *)
Settle(r, verdict) ==
    IF todoId[r] = NoTodo \/ r \in Phase THEN todo
    ELSE [todo EXCEPT ![todoId[r]] =
             IF prior[r] # "none" THEN prior[r]
             ELSE IF verdict = "completed" THEN "done" ELSE "open"]

(* Once the verdict is known nothing reads what the run heard of its child.*)
Discard(r) == /\ aborted'  = [aborted EXCEPT ![r] = FALSE]
              /\ turns'    = [turns EXCEPT ![r] = 0]
              /\ saw'      = [saw EXCEPT ![r] = FALSE]
              /\ modelErr' = [modelErr EXCEPT ![r] = FALSE]

(* Mutated form: the terminal patch leaves the live handle in the record.  *)
FinishKeepsHandle(r, verdict) ==
    /\ Suspend(r, "finishing")
    /\ status' = [status EXCEPT ![r] = verdict]
    /\ runLog' = [runLog EXCEPT ![r] = Append(@, verdict)]
    /\ result' = [result EXCEPT ![r] = verdict]
    /\ retryable' = [retryable EXCEPT ![r] = modelErr[r]]
    /\ todo'   = Settle(r, verdict)
    /\ Discard(r)
    /\ UNCHANGED <<session, todoId, prior>>

(* Mutated form: the journal records a failure as a completion.            *)
FinishJournalsCompleted(r, verdict) ==
    /\ Suspend(r, "finishing")
    /\ status'  = [status EXCEPT ![r] = verdict]
    /\ session' = [session EXCEPT ![r] = FALSE]
    /\ runLog'  = [runLog EXCEPT ![r] = Append(@, "completed")]
    /\ result'  = [result EXCEPT ![r] = verdict]
    /\ retryable' = [retryable EXCEPT ![r] = modelErr[r]]
    /\ todo'    = Settle(r, verdict)
    /\ Discard(r)
    /\ UNCHANGED <<todoId, prior>>

(* finishRun: one registry patch, run:ended, the todo; then an await.  Its *)
(* finalizedRunIds guard never fires: each dispatch mints its own id and   *)
(* reaches finishRun once.                                                 *)
FinishRun(r, verdict) ==
    /\ Suspend(r, "finishing")
    /\ status'  = [status EXCEPT ![r] = verdict]
    /\ session' = [session EXCEPT ![r] = FALSE]
    /\ runLog'  = [runLog EXCEPT ![r] = Append(@, verdict)]
    /\ result'  = [result EXCEPT ![r] = verdict]
    /\ retryable' = [retryable EXCEPT ![r] = modelErr[r]]
    /\ todo'    = Settle(r, verdict)
    /\ Discard(r)
    /\ UNCHANGED <<todoId, prior>>

(* The link was refused, or every model candidate failed to start.         *)
LinkRefused(r) ==
    /\ pc[r] = "linking"
    /\ FinishRun(r, "failed")
    /\ UNCHANGED <<lockVars, callVars, signal>>

CreateFails(r) ==
    /\ pc[r] = "creating"
    /\ FinishRun(r, "failed")
    /\ UNCHANGED <<lockVars, callVars, signal>>

(* The child exists: the handle goes into the record, the listeners are    *)
(* set and the prompt is sent.  A pi child announces its session, and so   *)
(* gets its run:meta entry, inside subscribe.                              *)
CreateOk(r) ==
    /\ pc[r] = "creating"
    /\ Suspend(r, "prompting")
    /\ session' = [session EXCEPT ![r] = TRUE]
    /\ runLog'  = IF r \in Claude THEN runLog
                  ELSE [runLog EXCEPT ![r] = Append(@, "meta")]
    /\ UNCHANGED <<lockVars, status, result, retryable, childVars, todoVars, callVars, signal>>
-----------------------------------------------------------------------------
(* The events of a child.  They go on after an abort, until it settles.    *)

SessionInit(r) ==
    /\ pc[r] = "prompting"
    /\ runLog[r] = <<>>
    /\ runLog' = [runLog EXCEPT ![r] = Append(@, "meta")]
    /\ UNCHANGED <<lockedVars, status, session, result, retryable, childVars,
                   todoVars, callVars, signal>>

(* The budget stops the child but does not set the aborted flag.           *)
TurnEnd(r) ==
    /\ pc[r] = "prompting"
    /\ turns[r] < MaxTurns
    /\ turns' = [turns EXCEPT ![r] = @ + 1]
    /\ UNCHANGED <<lockedVars, recordVars, aborted, saw, modelErr, todoVars,
                   callVars, signal>>

(* An assistant message, which may carry a model error and may be the one  *)
(* that takes the run over its tier's cost cap.                            *)
AssistantMessage(r) ==
    /\ pc[r] = "prompting"
    /\ saw' = [saw EXCEPT ![r] = TRUE]
    /\ \E error, overCap \in BOOLEAN :
          /\ overCap => r \in Capped
          /\ modelErr' = [modelErr EXCEPT ![r] = @ \/ error]
          /\ aborted'  = [aborted EXCEPT ![r] = @ \/ overCap]
    /\ UNCHANGED <<lockedVars, recordVars, turns, todoVars, callVars, signal>>

(* The panel's Stop goes through the handle in the record.                 *)
Stop(r) ==
    /\ session[r]
    /\ aborted' = [aborted EXCEPT ![r] = TRUE]
    /\ UNCHANGED <<lockedVars, recordVars, turns, saw, modelErr, todoVars,
                   callVars, signal>>

(* The caller's signal reaches the run only while its listener is there:   *)
(* one that fires before the child exists is never seen.  After the end    *)
(* only a retry still looks at it.                                         *)
AbortSignal(r) ==
    /\ r \in Signalled
    /\ pc[r] \notin {"idle", "done"} \/ retryable[r]
    /\ ~signal[r]
    /\ signal' = [signal EXCEPT ![r] = TRUE]
    /\ aborted' = [aborted EXCEPT ![r] = @ \/ pc[r] = "prompting"]
    /\ UNCHANGED <<lockedVars, recordVars, turns, saw, modelErr, todoVars, callVars>>

(* The user closes a todo, in the todo tool, whenever he likes.            *)
UserCloses(t) ==
    /\ todo[t] \in OpenStates
    /\ todo' = [todo EXCEPT ![t] = "done"]
    /\ UNCHANGED <<lockedVars, recordVars, childVars, todoId, prior, callVars, signal>>

(* The verdict, in its order of precedence: a stop, the turn budget, an    *)
(* exception, a model error, a child that said nothing.                    *)
Verdict(r, threw) ==
    IF aborted[r] THEN "aborted"
    ELSE IF turns[r] >= MaxTurns \/ threw \/ modelErr[r] \/ ~saw[r] THEN "failed"
    ELSE "completed"

(* session.prompt resolves or throws.                                      *)
PromptSettles(r) ==
    /\ pc[r] = "prompting"
    /\ \E threw \in BOOLEAN : FinishRun(r, Verdict(r, threw))
    /\ UNCHANGED <<lockVars, callVars, signal>>

(* finishRun's promise resolves and the finally block runs.                *)
Return(r) ==
    /\ pc[r] = "finishing"
    /\ Suspend(r, "done")
    /\ ReleaseSlot(r)
    /\ UNCHANGED <<recordVars, childVars, todoVars, callVars, signal>>

(* The direct tool call retries a failure of the model once, on the        *)
(* fallback model, with a new run id and the todo of the first try.        *)
Retry(p, r) ==
    /\ pc[p] = "done" /\ result[p] = "failed"
    /\ retryable[p] /\ ~signal[p]
    /\ p \notin Retries \cup Phase
    /\ \A q \in Runs : retryOf[q] # p
    /\ r \in Retries
    /\ r \in ReadOnly <=> p \in ReadOnly
    /\ r \in Untracked <=> p \in Untracked
    /\ Begin(r)
    /\ link'    = [link EXCEPT ![r] = todoId[p]]
    /\ retryOf' = [retryOf EXCEPT ![r] = p]
-----------------------------------------------------------------------------
Resolve(r) == ResolveFails(r) \/ ResolveOk(r)
Create(r)  == CreateFails(r) \/ CreateOk(r)

Terminating == /\ \A r \in Runs : pc[r] \in {"idle", "done"}
               /\ \A r \in Runs \ Retries : pc[r] = "done"
               /\ UNCHANGED vars

Next ==
    \/ \E r \in Runs :
          \/ Dispatch(r)
          \/ ResolveFails(r) \/ ResolveOk(r)
          \/ LinkRefused(r)
          \/ CreateFails(r) \/ CreateOk(r)
          \/ SessionInit(r) \/ TurnEnd(r) \/ AssistantMessage(r)
          \/ Stop(r) \/ AbortSignal(r)
          \/ PromptSettles(r)
          \/ Return(r)
    \/ \E p, r \in Runs : Retry(p, r)
    \/ \E t \in Linked : UserCloses(t)
    \/ Terminating

(* The event loop runs every continuation, factory.create settles, and a   *)
(* child's prompt settles: a child either answers or is killed.  At each   *)
(* pc one of these steps is enabled, and stays so until it is taken.       *)
Continue(r) == Resolve(r) \/ LinkRefused(r) \/ Create(r) \/ PromptSettles(r) \/ Return(r)
Fairness == WF_vars(\E r \in Runs : Continue(r))

Spec == Init /\ [][Next]_vars
FairSpec == Spec /\ Fairness
-----------------------------------------------------------------------------
(* Properties. *)

Retried(r) == \E q \in Runs : retryOf[q] = r

(* The lock and the dispatches agree on who writes: the holders are the    *)
(* writers past acquire or about to pass it, the waiters the others in     *)
(* acquire, each once.  A release by a run that holds nothing, which the   *)
(* finally block avoids for read-only runs, would break it.                *)
LockMatchesRuns ==
    /\ active = {r \in Writers : \/ pc[r] \in Working
                                 \/ pc[r] = "acquiring" /\ r \notin ToSet(waiters)}
    /\ ToSet(waiters) \subseteq {r \in Writers : pc[r] = "acquiring"}
    /\ \A i, j \in DOMAIN waiters : waiters[i] = waiters[j] => i = j

(* No wake-up is lost: a dispatch waits only while every slot is taken.    *)
NoIdleSlot == waiters # <<>> => Cardinality(active) = Cap

(* Slots are handed on in arrival order: while dispatches wait, the only   *)
(* one that can obtain a slot is the first of them, never a newcomer.      *)
NoOvertaking ==
    [][\A r \in active' \ active : waiters # <<>> => r = Head(waiters)]_vars

(* At most Cap writers are between their admission and their return, each  *)
(* entering and leaving by itself.                                         *)
Inside == {r \in Writers : pc[r] \in Working}
Slots == INSTANCE WriteSlots WITH inside <- Inside
SlotsRefined == Slots!Spec

(* "run.session is non-null <=> run.status is running", as the panel's     *)
(* guards assume, but that the handle comes only once the child exists.    *)
HandleMeansRunning ==
    \A r \in Runs : /\ session[r] <=> pc[r] = "prompting"
                    /\ status[r] = "running" <=> pc[r] \in Working \ {"finishing"}

(* The record, the journal and the returned result tell the same story: a  *)
(* dispatch that got a record ends with one terminal entry, its last, and  *)
(* one that did not leaves no entry at all.                                *)
RecordsAgree ==
    \A r \in Runs :
        /\ pc[r] \in {"finishing", "done"} /\ status[r] # "none" =>
               /\ runLog[r] # <<>> /\ Last(runLog[r]) = status[r]
               /\ result[r] = status[r] /\ status[r] \in Terminal
        /\ \A i \in DOMAIN runLog[r] : runLog[r][i] \in Terminal =>
               i = Len(runLog[r]) /\ status[r] \in Terminal
        /\ status[r] = "none" => runLog[r] = <<>> /\ todoId[r] = NoTodo

(* No todo is left in progress: when none of its runs is at work it is so  *)
(* only because it already was when one of them was linked to it, or for a *)
(* lifecycle that settles it later.  One that the fleet created for a run  *)
(* that nobody retried is closed if the run completed, open otherwise.     *)
TodoSettled ==
    /\ \A t \in Todos : todo[t] = "in_progress" =>
          \/ t \in Linked /\ \A r \in Runs : todoId[r] # t
          \/ \E r \in Runs : /\ todoId[r] = t
                             /\ \/ pc[r] \in Working
                                \/ r \in Phase
                                \/ prior[r] = "in_progress"
    /\ \A r \in Runs : pc[r] = "done" /\ todoId[r] = r /\ ~Retried(r) =>
          todo[r] = IF result[r] = "completed" THEN "done" ELSE "open"

(* The user owns the close: no run closes a todo that existed before it.   *)
OnlyUserCloses ==
    [][\A t \in Linked : todo[t] # "done" /\ todo'[t] = "done" => UserCloses(t)]_vars

(* Every dispatch returns to its caller, a queued one included: Runs being *)
(* finite, there comes a time when none is under way.                      *)
EveryDispatchReturns == []<>(\A r \in Runs : pc[r] \in {"idle", "done"})
=============================================================================
