------------------------------ MODULE Workflow ------------------------------
(***************************************************************************)
(* Workflow runs: the runner of a script (src/workflows/runner.ts), the    *)
(* controller that starts, pauses, stops and resumes runs                  *)
(* (src/workflows/runtime/controller.ts) with its pause gate, the pool     *)
(* that the children of a session share (runtime/adapters.ts), the journal *)
(* of a run and what the next session makes of it (journal.ts, hydrate.ts):*)
(* after a crash, or when session_start fires again in the same process    *)
(* and builds a controller, a store and a pool while the runs go on.       *)
(*                                                                         *)
(* A script is one parallel() over its branches, a branch a sequence of    *)
(* calls.  What runs between two waits of the event loop is one step:      *)
(* users act, and children end, only when no branch is due (Quiet).        *)
(***************************************************************************)
EXTENDS Naturals, Sequences, FiniteSets, SequencesExt

CONSTANTS Sources,     \* the scripts
          Script,      \* their branches: sequences of calls
          Prompts,     \* what they ask for
          Edited,      \* the scripts that a run may be resumed with
          Unattended,  \* ... that are run in mode auto: nobody is asked
          Foreground,  \* ... for which the tool waits when it starts them
          Timed,       \* ... that are run with agentTimeoutMs
          NRuns,       \* bound: the runs that are started
          NBranches,   \* the branches of the longest script
          Workers,     \* concurrency: the thunks that parallel() runs at once
          Slots,       \* the slots of the session's pool
          Retries,     \* agentRetries
          MaxAgents,   \* the agents that a run may spawn
          Budget,      \* tokens of a run, counted as children
          MaxSessions  \* bound: the sessions after the first

Runs == 1..NRuns
Branches == 1..NBranches
Kinds == {"agent", "retry", "isolated", "lifecycle", "helper", "checkpoint"}
NoBranch == 0
NoRun == 0

ASSUME WorkflowAssumption ==
    /\ NRuns \in Nat \ {0} /\ NBranches \in Nat \ {0}
    /\ Workers \in 1..16 /\ Slots \in 1..16
    /\ Retries \in Nat /\ MaxAgents \in Nat /\ Budget \in Nat \ {0}
    /\ Timed \subseteq Sources /\ MaxSessions \in Nat
    /\ Sources # {} /\ Edited \subseteq Sources
    /\ Unattended \subseteq Sources /\ Foreground \subseteq Unattended
    /\ Script \in [Sources -> Seq(Seq([kind : Kinds, prompt : Prompts]))]
    /\ \A s \in Sources : /\ Len(Script[s]) \in Branches
                          /\ \A b \in 1..Len(Script[s]) : Script[s][b] # <<>>

VARIABLES status,    \* the run in the store of the session that started it
          main,      \* the promise of runWorkflow
          source,    \* its script
          resumeOf,  \* the run whose journal answers its calls
          ctrl,      \* the run has its controls: signal, gate, resolver
          signal,    \* its abort signal has fired
          paused,    \* its gate is shut
          resolver,  \* the branch whose question can be answered
          pc, step, idx, attempt, \* where each branch is, in which call
          agentCount, spent,
          calls,     \* the calls in the journal of a run, by call index
          ended,     \* the terminal events in it
          worktree,  \* the branches whose worktree is on disk
          inbox,     \* the runs that have reported
          active, queue, woken, \* the pool of each session
          working,   \* the callers that hold a slot
          session,   \* the session that the user is in
          home,      \* the session that started a run
          foreground,\* the tool waits for the run, the controller cannot
          hydrated,  \* the run in the store of the session, read from its journal
          blind      \* history: stopped as interrupted, and not dead

controlVars == <<status, main, source, resumeOf, ctrl, signal, paused, resolver, inbox>>
branchVars == <<pc, step, idx, attempt>>
countVars == <<agentCount, spent>>
journalVars == <<calls, ended>>
poolVars == <<active, queue, woken, working>>
sessionVars == <<session, home, foreground, hydrated, blind>>
vars == <<controlVars, branchVars, countVars, journalVars, worktree, poolVars, sessionVars>>

(* A caller of the pool: a call of a branch, with its attempt, or a phase  *)
(* of the lifecycle that the call runs.                                    *)
Callers == Runs \X Branches \X (Nat \ {0}) \X Nat \X {"call", "phase"}
RunOf(c) == c[1]
Caller(r, b, layer) == <<r, b, step[r][b], attempt[r][b], layer>>

Sessions == 0..MaxSessions
Pool == INSTANCE ConcurrencyPool WITH Runs <- Callers, Pools <- Sessions, Cap <- Slots

InPool == working \cup woken \cup UNION {ToSet(queue[p]) : p \in Sessions}

TypeOK ==
    /\ status \in [Runs -> {"none", "running", "paused", "checkpoint", "completed", "aborted"}]
    /\ main \in [Runs -> {"none", "on", "over", "lost"}]
    /\ source \in [Runs -> Sources]
    /\ resumeOf \in [Runs -> Runs \cup {NoRun}]
    /\ ctrl \in [Runs -> BOOLEAN] /\ signal \in [Runs -> BOOLEAN]
    /\ paused \in [Runs -> BOOLEAN]
    /\ resolver \in [Runs -> Branches \cup {NoBranch}]
    /\ pc \in [Runs -> [Branches -> {"idle", "next", "gated", "free", "rejected", "child", "phase",
                                     "wrapping", "asked", "done", "dead", "lost"}]]
    /\ step \in [Runs -> [Branches -> Nat \ {0}]]
    /\ idx \in [Runs -> [Branches -> Nat]]
    /\ attempt \in [Runs -> [Branches -> 0..Retries]]
    /\ agentCount \in [Runs -> 0..MaxAgents] /\ spent \in [Runs -> Nat]
    /\ worktree \subseteq Runs \X Branches /\ inbox \subseteq Runs
    /\ InPool \subseteq Callers
    /\ session \in Sessions /\ home \in [Runs -> Sessions]
    /\ foreground \in [Runs -> BOOLEAN] /\ blind \subseteq Runs
    /\ hydrated \in [Runs -> {"none", "completed", "aborted", "interrupted"}]

Init ==
    /\ status = [r \in Runs |-> "none"] /\ main = [r \in Runs |-> "none"]
    /\ source \in [Runs -> {CHOOSE s \in Sources : TRUE}]
    /\ resumeOf = [r \in Runs |-> NoRun]
    /\ ctrl = [r \in Runs |-> FALSE] /\ signal = [r \in Runs |-> FALSE]
    /\ paused = [r \in Runs |-> FALSE] /\ resolver = [r \in Runs |-> NoBranch]
    /\ pc = [r \in Runs |-> [b \in Branches |-> "idle"]]
    /\ step = [r \in Runs |-> [b \in Branches |-> 1]]
    /\ idx = [r \in Runs |-> [b \in Branches |-> 0]]
    /\ attempt = [r \in Runs |-> [b \in Branches |-> 0]]
    /\ agentCount = [r \in Runs |-> 0] /\ spent = [r \in Runs |-> 0]
    /\ calls = [r \in Runs |-> <<>>] /\ ended = [r \in Runs |-> <<>>]
    /\ worktree = {} /\ inbox = {} /\ working = {}
    /\ session = 0 /\ home = [r \in Runs |-> 0] /\ foreground = [r \in Runs |-> FALSE]
    /\ hydrated = [r \in Runs |-> "none"] /\ blind = {}
    /\ Pool!PoolInit
-----------------------------------------------------------------------------
(* The branches of a run. *)

Width(r) == Len(Script[source[r]])
Call(r, b) == Script[source[r]][b][step[r][b]]
Kind(r, b) == Call(r, b).kind
LastCall(r, b) == step[r][b] = Len(Script[source[r]][b])

(* What the event loop has still to run before anyone else acts.           *)
Over(r) == /\ main[r] = "on"
           /\ \/ \E b \in 1..Width(r) : pc[r][b] = "dead"
              \/ \A b \in 1..Width(r) : pc[r][b] = "done"
Due(r, b) == pc[r][b] \in {"next", "free", "rejected"}
Quiet == /\ woken = {}
         /\ \A r \in Runs : ~Over(r) /\ \A b \in Branches : ~Due(r, b)

(* A worker of parallel() that has finished a thunk takes the next one.    *)
TakeThunk(p) ==
    LET left == {b \in DOMAIN p : p[b] = "idle"}
    IN  IF left = {} THEN p
        ELSE [p EXCEPT ![CHOOSE b \in left : \A c \in left : b <= c] = "next"]

(* The call returns: the branch goes on to its next call or ends.          *)
Returns(r, b) ==
    /\ step' = [step EXCEPT ![r][b] = @ + 1]
    /\ attempt' = [attempt EXCEPT ![r][b] = 0]
    /\ pc' = [pc EXCEPT ![r] =
                 IF LastCall(r, b) THEN TakeThunk([@ EXCEPT ![b] = "done"])
                 ELSE [@ EXCEPT ![b] = "next"]]

(* The call throws.  The helper retry swallows it and makes it again, as   *)
(* often as the script asks for; elsewhere the thunk throws and its worker *)
(* takes no other.                                                         *)
Throws(r, b) ==
    \/ /\ Kind(r, b) = "retry"
       /\ Returns(r, b)
    \/ /\ Kind(r, b) = "retry"
       /\ pc' = [pc EXCEPT ![r][b] = "next"]
       /\ attempt' = [attempt EXCEPT ![r][b] = 0]
       /\ UNCHANGED step
    \/ /\ Kind(r, b) # "retry"
       /\ pc' = [pc EXCEPT ![r][b] = "dead"]
       /\ UNCHANGED <<step, attempt>>

(* Mutated form: an attempt after the first does not wait for the gate.    *)
AtGateOnce(r, b) ==
    pc' = [pc EXCEPT ![r][b] = IF paused[r] /\ pc[r][b] = "next" THEN "gated" ELSE "free"]

(* beforeDispatch, up to its wait for the gate.                            *)
AtGate(r, b) == pc' = [pc EXCEPT ![r][b] = IF paused[r] THEN "gated" ELSE "free"]

NewCall(r, b, st, via) ==
    /\ calls' = [calls EXCEPT ![r] =
          Append(@, [kind |-> Kind(r, b), prompt |-> Call(r, b).prompt, st |-> st, via |-> via])]
    /\ idx' = [idx EXCEPT ![r][b] = Len(calls[r]) + 1]

Answer(r, b, st) == calls' = [calls EXCEPT ![r][idx[r][b]].st = st]

(* The journal of the run that this one resumes has the same call at the   *)
(* index that is next.                                                     *)
SameCall(r, b) == LET n == Len(calls[r]) + 1  old == calls[resumeOf[r]]
                  IN  /\ resumeOf[r] # NoRun /\ n <= Len(old)
                      /\ old[n].kind = Kind(r, b) /\ old[n].prompt = Call(r, b).prompt
OldAnswer(r) == calls[resumeOf[r]][Len(calls[r]) + 1].st

(* Mutated form: a call that never ended answers, too.                     *)
PendingCached(r, b) == SameCall(r, b)

AgentCached(r, b) == SameCall(r, b) /\ OldAnswer(r) # "pending"

(* Mutated form: a stopped run leaves its worktrees.                       *)
RemoveWorktreeIfLive(r, b) == worktree' = IF signal[r] THEN worktree ELSE worktree \ {<<r, b>>}

RemoveWorktree(r, b) == worktree' = worktree \ {<<r, b>>}
-----------------------------------------------------------------------------
(* agent() and the helpers, up to the gate. *)

AgentKinds == {"agent", "retry", "isolated", "lifecycle"}

(* Outside a repository the call fails; git may also refuse the worktree.  *)
NoWorktree(r, b) ==
    \/ /\ NewCall(r, b, "failed", "child")
       /\ Returns(r, b)
    \/ /\ NewCall(r, b, "pending", "child")
       /\ Throws(r, b)

AgentCalls(r, b) ==
    /\ pc[r][b] = "next" /\ Kind(r, b) \in AgentKinds
    /\ \/ /\ agentCount[r] >= MaxAgents \/ spent[r] >= Budget
          /\ Throws(r, b)
          /\ UNCHANGED <<idx, agentCount, calls, worktree>>
       \/ /\ agentCount[r] < MaxAgents /\ spent[r] < Budget
          /\ AgentCached(r, b)
          /\ NewCall(r, b, OldAnswer(r), "cache")
          /\ Returns(r, b)
          /\ UNCHANGED <<agentCount, worktree>>
       \/ /\ agentCount[r] < MaxAgents /\ spent[r] < Budget
          /\ ~AgentCached(r, b)
          /\ NewCall(r, b, "pending", "child")
          /\ agentCount' = [agentCount EXCEPT ![r] = @ + 1]
          /\ worktree' = worktree \cup (IF Kind(r, b) = "isolated" THEN {<<r, b>>} ELSE {})
          /\ AtGate(r, b)
          /\ UNCHANGED <<step, attempt>>
       \/ /\ agentCount[r] < MaxAgents /\ spent[r] < Budget
          /\ ~AgentCached(r, b) /\ Kind(r, b) = "isolated"
          /\ NoWorktree(r, b)
          /\ agentCount' = [agentCount EXCEPT ![r] = @ + 1]
          /\ UNCHANGED worktree
    /\ UNCHANGED <<controlVars, spent, ended, poolVars, sessionVars>>

(* A helper that spawns a reviewer or a judge; it is not cached.  The      *)
(* checkpoint helper waits for the gate before it counts as a call.        *)
HelperCalls(r, b) ==
    /\ pc[r][b] = "next" /\ Kind(r, b) \notin AgentKinds
    /\ IF Kind(r, b) = "helper" THEN NewCall(r, b, "pending", "child")
                                ELSE UNCHANGED <<calls, idx>>
    /\ AtGate(r, b)
    /\ UNCHANGED <<controlVars, step, attempt, countVars, ended, worktree, poolVars, sessionVars>>

(* The gate is behind, and the run has been stopped or has no token left.  *)
Refused(r, b) == \/ signal[r]
                 \/ spent[r] >= Budget /\ Kind(r, b) \notin {"lifecycle", "checkpoint"}

DispatchThrows(r, b) ==
    /\ \/ pc[r][b] = "rejected"
       \/ /\ pc[r][b] = "free"
          /\ Refused(r, b)
    /\ Throws(r, b)
    /\ RemoveWorktree(r, b)
    /\ UNCHANGED <<controlVars, idx, countVars, journalVars, poolVars, sessionVars>>

(* The children of a run go through the pool of the session it started in. *)
PoolOf(c) == home[RunOf(c)]
TakeSlot(c) == \/ /\ Pool!Enter(PoolOf(c))
                  /\ working' = working \cup {c}
               \/ /\ Pool!Wait(PoolOf(c), c)
                  /\ UNCHANGED working

Dispatch(r, b) ==
    /\ pc[r][b] = "free" /\ ~Refused(r, b) /\ Kind(r, b) # "checkpoint"
    /\ TakeSlot(Caller(r, b, "call"))
    /\ pc' = [pc EXCEPT ![r][b] = "child"]
    /\ UNCHANGED <<controlVars, step, idx, attempt, countVars, journalVars, worktree, sessionVars>>

SlotFree(c) == /\ Pool!EnterWoken(PoolOf(c), c)
               /\ working' = working \cup {c}
               /\ UNCHANGED <<controlVars, branchVars, countVars, journalVars, worktree, sessionVars>>

(* A checkpoint: the answer in the old journal, even the one that nobody   *)
(* gave; the default without asking, in an auto run; or the human.         *)
Ask(r, b) ==
    /\ pc[r][b] = "free" /\ ~Refused(r, b) /\ Kind(r, b) = "checkpoint"
    /\ \/ /\ SameCall(r, b)
          /\ NewCall(r, b, IF OldAnswer(r) = "pending" THEN "undefined" ELSE OldAnswer(r), "cache")
          /\ Returns(r, b)
          /\ UNCHANGED <<status, resolver>>
       \/ /\ ~SameCall(r, b) /\ source[r] \in Unattended
          /\ NewCall(r, b, "undefined", "default")
          /\ Returns(r, b)
          /\ UNCHANGED <<status, resolver>>
       \/ /\ ~SameCall(r, b) /\ source[r] \notin Unattended
          /\ NewCall(r, b, "pending", "human")
          /\ pc' = [pc EXCEPT ![r][b] = "asked"]
          /\ status' = [status EXCEPT ![r] = "checkpoint"]
          /\ resolver' = [resolver EXCEPT ![r] = b]
          /\ UNCHANGED <<step, attempt>>
    /\ UNCHANGED <<main, source, resumeOf, ctrl, signal, paused, inbox, countVars,
                   ended, worktree, poolVars, sessionVars>>
-----------------------------------------------------------------------------
(* Children. *)

(* A failed attempt is made again, unless the run was stopped; an isolated *)
(* agent, a lifecycle and a helper have one attempt.                       *)
Again(r, b) == /\ ~signal[r] /\ Kind(r, b) \in {"agent", "retry"}
               /\ attempt[r][b] < Retries

(* The child of an attempt is over, or the run has stopped waiting for it. *)
Result(r, b, ok) ==
    \/ /\ ~ok /\ Again(r, b)
       /\ attempt' = [attempt EXCEPT ![r][b] = @ + 1]
       /\ AtGate(r, b)
       /\ UNCHANGED <<step, calls, worktree>>
    \/ /\ ok \/ ~Again(r, b)
       /\ Answer(r, b, IF ok THEN "completed" ELSE "failed")
       /\ RemoveWorktree(r, b)
       /\ Returns(r, b)

Tokens(r) == spent' = [spent EXCEPT ![r] = @ + 1]

LeavesPool(c) == /\ c \in working
                 /\ Pool!Leave(PoolOf(c))
                 /\ working' = working \ {c}

ChildEnds(r, b, ok) ==
    /\ pc[r][b] = "child" /\ Kind(r, b) # "lifecycle"
    /\ Quiet
    /\ LeavesPool(Caller(r, b, "call"))
    /\ Result(r, b, ok)
    /\ Tokens(r)
    /\ UNCHANGED <<controlVars, idx, agentCount, ended, sessionVars>>

(* The agent's time is over, be the child at work or in the queue.  It is  *)
(* not told, and its tokens are not counted.                               *)
TimesOut(r, b) ==
    /\ source[r] \in Timed
    /\ pc[r][b] = "child" /\ Kind(r, b) # "lifecycle"
    /\ Quiet
    /\ \/ /\ signal[r]
          /\ Throws(r, b)
          /\ RemoveWorktree(r, b)
          /\ UNCHANGED calls
       \/ /\ ~signal[r]
          /\ Result(r, b, FALSE)
    /\ UNCHANGED <<controlVars, idx, countVars, ended, poolVars, sessionVars>>

Awaited(c) == \E b \in Branches :
                 /\ c = Caller(RunOf(c), b, "call")
                 /\ pc[RunOf(c)][b] \in {"child", "phase", "wrapping"}

(* A child that nobody waits for any more ends.                            *)
StrayEnds(c) ==
    /\ c[5] = "call" /\ ~Awaited(c)
    /\ Quiet
    /\ LeavesPool(c)
    /\ UNCHANGED <<controlVars, branchVars, countVars, journalVars, worktree, sessionVars>>

(* A lifecycle (of one phase) holds a slot while its phase waits for one.  *)
PhaseDispatched(r, b) ==
    /\ pc[r][b] = "child" /\ Kind(r, b) = "lifecycle" /\ Caller(r, b, "call") \in working
    /\ Quiet
    /\ TakeSlot(Caller(r, b, "phase"))
    /\ pc' = [pc EXCEPT ![r][b] = "phase"]
    /\ UNCHANGED <<controlVars, step, idx, attempt, countVars, journalVars, worktree, sessionVars>>

PhaseEnds(r, b) ==
    /\ pc[r][b] = "phase"
    /\ Quiet
    /\ LeavesPool(Caller(r, b, "phase"))
    /\ pc' = [pc EXCEPT ![r][b] = "wrapping"]
    /\ UNCHANGED <<controlVars, step, idx, attempt, countVars, journalVars, worktree, sessionVars>>

(* It may also throw, before its phase or after: that is not journaled.    *)
LifecycleThrows(r, b) ==
    /\ pc[r][b] \in {"child", "wrapping"} /\ Kind(r, b) = "lifecycle"
    /\ Quiet
    /\ LeavesPool(Caller(r, b, "call"))
    /\ Throws(r, b)
    /\ UNCHANGED <<controlVars, idx, countVars, journalVars, worktree, sessionVars>>

LifecycleEnds(r, b, ok) ==
    /\ pc[r][b] = "wrapping"
    /\ Quiet
    /\ LeavesPool(Caller(r, b, "call"))
    /\ Result(r, b, ok)
    /\ Tokens(r)
    /\ UNCHANGED <<controlVars, idx, agentCount, ended, sessionVars>>
-----------------------------------------------------------------------------
(* The end of a run: runWorkflow, and execute with onTerminal. *)

(* Mutated form: a script that ran to its end has completed.               *)
VerdictOfScript(r) == IF \E b \in Branches : pc[r][b] = "dead" THEN "aborted" ELSE "completed"

(* A script that ended after the abort has not completed.                  *)
Verdict(r) == IF signal[r] \/ \E b \in Branches : pc[r][b] = "dead"
              THEN "aborted" ELSE "completed"

(* onTerminal, the finally of a background run, and stop() when it has     *)
(* settled: that is at once for a run in the foreground.                   *)
ForgetControls(r) == ctrl' = [ctrl EXCEPT ![r] = FALSE]

(* A run that still asks, or was stopped and completed all the same, keeps *)
(* its status and does not report.                                         *)
RunEnds(r) ==
    LET ignored == \/ status[r] = "checkpoint"
                   \/ status[r] = "aborted" /\ Verdict(r) = "completed" IN
    /\ Over(r)
    /\ main' = [main EXCEPT ![r] = "over"]
    /\ ended' = [ended EXCEPT ![r] = Append(@, Verdict(r))]
    /\ status' = [status EXCEPT ![r] = IF ignored THEN @ ELSE Verdict(r)]
    /\ inbox' = IF ignored THEN inbox ELSE inbox \cup {r}
    /\ ForgetControls(r)
    /\ UNCHANGED <<source, resumeOf, signal, paused, resolver, branchVars, countVars,
                   calls, worktree, poolVars, sessionVars>>
-----------------------------------------------------------------------------
(* The controller. *)

(* startInternal: validation is left out.                                  *)
StartRun(r, s, from, inFront) ==
    /\ main[r] = "none" /\ \A q \in 1..(r - 1) : main[q] # "none"
    /\ home' = [home EXCEPT ![r] = session]
    /\ foreground' = [foreground EXCEPT ![r] = inFront]
    /\ status' = [status EXCEPT ![r] = "running"]
    /\ main' = [main EXCEPT ![r] = "on"]
    /\ source' = [source EXCEPT ![r] = s]
    /\ resumeOf' = [resumeOf EXCEPT ![r] = from]
    /\ ctrl' = [ctrl EXCEPT ![r] = TRUE]
    /\ pc' = [pc EXCEPT ![r] =
                 [b \in Branches |-> IF b > Len(Script[s]) THEN "done"
                                     ELSE IF b <= Workers THEN "next" ELSE "idle"]]
    /\ UNCHANGED <<signal, paused, resolver, inbox, step, idx, attempt, countVars,
                   journalVars, worktree, poolVars, session, hydrated, blind>>

Start(r, s) == s \notin Edited /\ StartRun(r, s, NoRun, s \in Foreground) /\ Quiet

(* The tool's resumeFromRunId: any run, also one that is still live.       *)
EditAndResume(q, r, s) ==
    /\ main[q] # "none" /\ s \in Edited \cup {source[q]}
    /\ StartRun(r, s, q, FALSE)
    /\ Quiet

(* The store and the controls of the session know its own runs.            *)
Ours(r) == home[r] = session

Pause(r) ==
    /\ Ours(r)
    /\ status[r] = "running"
    /\ Quiet
    /\ paused' = [paused EXCEPT ![r] = ctrl[r]]
    /\ status' = [status EXCEPT ![r] = "paused"]
    /\ UNCHANGED <<main, source, resumeOf, ctrl, signal, resolver, inbox, branchVars,
                   countVars, journalVars, worktree, poolVars, sessionVars>>

(* Mutated form: the signal does not reach those who wait at the gate.     *)
ReleasedByResume(p, to) ==
    [b \in Branches |-> IF p[b] = "gated" /\ to = "free" THEN to ELSE p[b]]

Released(p, to) == [b \in Branches |-> IF p[b] = "gated" THEN to ELSE p[b]]

(* Mutated form: the gate is left shut.                                    *)
OpenGateNever(r) == UNCHANGED paused

OpenGate(r) == paused' = [paused EXCEPT ![r] = FALSE]

(* resume of a paused run, and of an interrupted one: a new run with the   *)
(* same source.                                                            *)
Resume(r) ==
    /\ Ours(r)
    /\ status[r] = "paused"
    /\ Quiet
    /\ OpenGate(r)
    /\ status' = [status EXCEPT ![r] = "running"]
    /\ pc' = [pc EXCEPT ![r] = Released(@, "free")]
    /\ UNCHANGED <<main, source, resumeOf, ctrl, signal, resolver, inbox, step, idx,
                   attempt, countVars, journalVars, worktree, poolVars, sessionVars>>

ResumeInterrupted(q, r) ==
    ~Ours(q) /\ hydrated[q] = "interrupted" /\ StartRun(r, source[q], q, FALSE) /\ Quiet

(* Stop answers the question with undefined, fires the signal, which       *)
(* rejects those at the gate, and opens the gate.  A run without controls  *)
(* gets its verdict here; another one when its branches have noticed.      *)
Stop(r) ==
    /\ Ours(r)
    /\ status[r] \in {"running", "paused", "checkpoint"}
    /\ Quiet
    /\ IF foreground[r] THEN ForgetControls(r) ELSE UNCHANGED ctrl
    /\ status' = [status EXCEPT ![r] = "aborted"]
    /\ signal' = [signal EXCEPT ![r] = ctrl[r]]
    /\ OpenGate(r)
    /\ resolver' = [resolver EXCEPT ![r] = NoBranch]
    /\ ended' = IF ctrl[r] THEN ended ELSE [ended EXCEPT ![r] = Append(@, "aborted")]
    /\ LET b == resolver[r] IN
       \/ /\ b = NoBranch
          /\ pc' = [pc EXCEPT ![r] = Released(@, "rejected")]
          /\ UNCHANGED <<step, attempt, calls>>
       \/ /\ b # NoBranch
          /\ Answer(r, b, "undefined")
          /\ step' = [step EXCEPT ![r][b] = @ + 1]
          /\ pc' = [pc EXCEPT ![r] =
                       LET p == Released(@, "rejected") IN
                       IF LastCall(r, b) THEN TakeThunk([p EXCEPT ![b] = "done"])
                       ELSE [p EXCEPT ![b] = "next"]]
          /\ UNCHANGED attempt
    /\ UNCHANGED <<main, source, resumeOf, inbox, idx, countVars, worktree,
                   poolVars, sessionVars>>

(* Stop of a run that the store shows as interrupted: it has no controls   *)
(* in this session, and gets its verdict here, be it dead or not.          *)
StopInterrupted(r) ==
    /\ ~Ours(r)
    /\ hydrated[r] = "interrupted"
    /\ Quiet
    /\ hydrated' = [hydrated EXCEPT ![r] = "aborted"]
    /\ ended' = [ended EXCEPT ![r] = Append(@, "aborted")]
    /\ blind' = IF main[r] = "lost" THEN blind ELSE blind \cup {r}
    /\ UNCHANGED <<controlVars, branchVars, countVars, calls, worktree, poolVars,
                   session, home, foreground>>

RespondToCheckpoint(r) ==
    /\ Ours(r)
    /\ status[r] = "checkpoint" /\ ctrl[r] /\ resolver[r] # NoBranch
    /\ Quiet
    /\ status' = [status EXCEPT ![r] = "running"]
    /\ resolver' = [resolver EXCEPT ![r] = NoBranch]
    /\ Answer(r, resolver[r], "given")
    /\ Returns(r, resolver[r])
    /\ UNCHANGED <<main, source, resumeOf, ctrl, signal, paused, inbox, idx, countVars,
                   ended, worktree, poolVars, sessionVars>>

(* What hydrateWorkflowRuns makes of a journal: the last verdict, or none. *)
Hydrated(r) == IF main[r] = "none" THEN "none"
               ELSE IF ended[r] = <<>> THEN "interrupted" ELSE Last(ended[r])

NewSession ==
    /\ session < MaxSessions
    /\ session' = session + 1
    /\ hydrated' = [r \in Runs |-> Hydrated(r)]
    /\ UNCHANGED <<home, foreground, blind>>

(* session_start fires again in the same process: a new controller, store  *)
(* and pool; the runs and the inbox know nothing of it.                    *)
Reenter ==
    /\ NewSession
    /\ Quiet
    /\ UNCHANGED <<controlVars, branchVars, countVars, journalVars, worktree, poolVars>>

(* pi crashes and starts again.                                            *)
Crash ==
    /\ NewSession
    /\ status' = [r \in Runs |-> "none"]
    /\ main' = [r \in Runs |-> IF main[r] = "on" THEN "lost" ELSE main[r]]
    /\ ctrl' = [r \in Runs |-> FALSE] /\ signal' = [r \in Runs |-> FALSE]
    /\ paused' = [r \in Runs |-> FALSE] /\ resolver' = [r \in Runs |-> NoBranch]
    /\ pc' = [r \in Runs |-> [b \in Branches |-> IF <<r, b>> \in worktree THEN "lost" ELSE "idle"]]
    /\ step' = [r \in Runs |-> [b \in Branches |-> 1]]
    /\ idx' = [r \in Runs |-> [b \in Branches |-> 0]]
    /\ attempt' = [r \in Runs |-> [b \in Branches |-> 0]]
    /\ agentCount' = [r \in Runs |-> 0] /\ spent' = [r \in Runs |-> 0]
    /\ inbox' = {} /\ working' = {}
    /\ active' = [p \in Sessions |-> 0] /\ queue' = [p \in Sessions |-> <<>>] /\ woken' = {}
    /\ UNCHANGED <<source, resumeOf, journalVars, worktree>>
-----------------------------------------------------------------------------
EventLoop(r) ==
    \/ \E b \in Branches : \/ AgentCalls(r, b) \/ HelperCalls(r, b) \/ Ask(r, b)
                           \/ DispatchThrows(r, b) \/ Dispatch(r, b)
    \/ RunEnds(r)
Children(r) == \E b \in Branches :
    \/ \E ok \in BOOLEAN : ChildEnds(r, b, ok) \/ LifecycleEnds(r, b, ok)
    \/ TimesOut(r, b) \/ PhaseDispatched(r, b) \/ PhaseEnds(r, b) \/ LifecycleThrows(r, b)
Users(r) == \/ \E s \in Sources : Start(r, s)
            \/ \E q \in Runs : \/ \E s \in Sources : EditAndResume(q, r, s)
                               \/ ResumeInterrupted(q, r)
            \/ Pause(r) \/ Resume(r) \/ Stop(r) \/ RespondToCheckpoint(r) \/ StopInterrupted(r)

LoopStep  == (\E c \in woken : SlotFree(c)) \/ \E r \in Runs : EventLoop(r)
ChildStep == (\E c \in working : StrayEnds(c)) \/ \E r \in Runs : Children(r)

Next == LoopStep \/ ChildStep \/ (\E r \in Runs : Users(r)) \/ Reenter \/ Crash

(* The event loop goes on, and children end; children wait for the event   *)
(* loop (Quiet), so that one condition is enough for both.                 *)
Fairness == WF_vars(LoopStep \/ ChildStep)
Spec == Init /\ [][Next]_vars
FairSpec == Spec /\ Fairness
-----------------------------------------------------------------------------
(* Properties. *)

Waiting(r) == {c \in InPool : RunOf(c) = r /\ c[5] = "call"}

(* The token budget is overrun by what was in flight when it was used up,  *)
(* never by a call more: each branch has at most one child that counts.    *)
BudgetOverrun ==
    \A r \in Runs : LET inFlight == {b \in Branches : pc[r][b] \in {"child", "phase", "wrapping"}}
                    IN  spent[r] + Cardinality(inFlight) < Budget + Width(r)

(* A worktree on disk belongs to an isolated call under way, be it held at *)
(* the gate, or was left there by a crash.                                 *)
WorktreesInUse ==
    \A w \in worktree : \/ pc[w[1]][w[2]] = "lost"
                        \/ /\ pc[w[1]][w[2]] \in {"gated", "free", "rejected", "child"}
                           /\ Kind(w[1], w[2]) = "isolated"

(* Neither the budget nor the disk is overrun. *)
InFlightBounded == BudgetOverrun /\ WorktreesInUse

(* An agent's answer taken from the journal of the run that is resumed is  *)
(* that of the same call, which had ended there.                           *)
CachedAnswersEnded ==
    \A r \in Runs : \A i \in 1..Len(calls[r]) :
        calls[r][i].via = "cache" /\ calls[r][i].kind \in AgentKinds =>
            /\ calls[resumeOf[r]][i].prompt = calls[r][i].prompt
            /\ calls[resumeOf[r]][i].st = calls[r][i].st
            /\ calls[r][i].st \in {"completed", "failed"}

(* The live runs that the controller of the session started.               *)
LiveHere == {r \in Runs : main[r] = "on" /\ Ours(r)}

(* The gate is shut exactly while the list shows the run as paused: a run  *)
(* shown as running is not held, and a paused one can be resumed.          *)
PausedIsShown == \A r \in LiveHere : paused[r] <=> status[r] = "paused"

(* A live run has the controls to stop it, or was told to stop.            *)
LiveRunHasControls ==
    \A r \in LiveHere : \/ status[r] = "aborted" /\ signal[r]
                        \/ status[r] \in {"running", "paused", "checkpoint"} /\ ctrl[r] /\ ~signal[r]

(* What the workflow view shows and offers is what a run of the session    *)
(* obeys.                                                                  *)
ControlsMatch == TypeOK /\ PausedIsShown /\ LiveRunHasControls

(* What the store of the session shows of a run.                           *)
Shown(r) == IF Ours(r) THEN status[r] ELSE hydrated[r]

(* The verdicts in a journal agree, and the list shows no other: a run     *)
(* that was stopped is never found completed, nor the reverse.  It is said *)
(* of the runs that nobody stopped as interrupted before they were dead.   *)
VerdictsAgree ==
    \A r \in Runs \ blind :
        /\ Cardinality(ToSet(ended[r])) <= 1
        /\ main[r] # "on" /\ Shown(r) \in {"completed", "aborted"} => Shown(r) \in ToSet(ended[r])

(* While its gate is shut, and for ever once its signal has fired, a run   *)
(* puts no call in the pool: not from the gate, not as a retry, not as the *)
(* next call of a branch.                                                  *)
HeldRunCallsNobody ==
    [][\A r \in Runs : signal[r] \/ paused[r] => Waiting(r)' \subseteq Waiting(r)]_vars

(* A run that is stopped comes to its end, and stop(), which waits for it, *)
(* returns, if the children end.                                           *)
StoppedRunEnds == \A r \in Runs : signal[r] ~> main[r] # "on"

(* A question that nobody answered is asked again when the run is resumed  *)
(* (docs/superpowers/specs/2026-07-28-spec-6-3-workflows-as-code-          *)
(* design.md).                                                             *)
UnansweredAskedAgain ==
    \A r \in Runs : \A i \in 1..Len(calls[r]) :
        calls[r][i].via = "cache" /\ calls[r][i].kind = "checkpoint" =>
            calls[resumeOf[r]][i].st # "pending"
=============================================================================
