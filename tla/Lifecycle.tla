----------------------------- MODULE Lifecycle -----------------------------
(***************************************************************************)
(* Lifecycle runs: the phase loop of src/lifecycle/run-lifecycle.ts with   *)
(* its gates, revisions, checkpoints and todo, the one retry of a phase on *)
(* a fallback model (src/engine/retry-fallback.ts), and its callers: the   *)
(* tool (as RPC, the scheduler and background runs), the command           *)
(* /fleet-implement, and the panel, whose user answers the checkpoints.    *)
(***************************************************************************)
EXTENDS ModelChoice, FiniteSets, FiniteSetsExt

CONSTANTS Runs,
          Lifecycles, \* the definitions
          MayRun,     \* bound: those that each run may be of
          Phases,     \* their phases: agent, checkpoint, the onFail of each gate
          Caller,     \* who runs them: "tool", "command", "panel"
          Mode,       \* "auto" or "checkpointed"
          BuiltinTiers, GlobalTiers, ProjectTiers,
          Available,  \* the models that a fallback can be chosen from
          MaxRevise,  \* 3 in the code
          NoRun

ASSUME LifecycleAssumption ==
    /\ NoRun \notin Runs /\ MaxRevise \in Nat /\ Lifecycles # {}
    /\ \A l \in Lifecycles :
          /\ Caller[l] \in {"tool", "command", "panel"} /\ Mode[l] \in {"auto", "checkpointed"}
          /\ Caller[l] = "tool" => Mode[l] = "auto"
          /\ Caller[l] = "panel" => Mode[l] = "checkpointed"
          /\ Len(Phases[l]) \in Nat \ {0}
    /\ \A tiers \in {BuiltinTiers, GlobalTiers, ProjectTiers} :
          \A n \in DOMAIN tiers : Len(tiers[n].models) \in Nat

VARIABLES pc,       \* where each lifecycle is
          life,     \* its definition
          phase,    \* the phase it is in
          revise,   \* how often the phase was revised
          child,    \* the SpawnResult of its last child
          last,     \* the status of the phase's last attempt
          block,    \* the marks of the progress block in the todo
          todo, verdict,
          model,    \* the model its child works on
          named,    \* the model that its child's result names
          mine,     \* the runs that the open panel has started
          open,     \* a panel is open
          pending,  \* the run whose checkpoint the panel shows
          revising  \* the panel takes the feedback of a revision

loopVars == <<pc, life, phase, revise, last, block, todo, verdict>>
childVars == <<child, model, named>>
panelVars == <<mine, open, pending, revising>>
vars == <<loopVars, childVars, panelVars>>

Terminal(r) == phase[r] = Len(Phases[life[r]])
Def(r) == Phases[life[r]][phase[r]]

(* The panel dispatches without the registry of the tiers, and without a   *)
(* fallback.                                                               *)
AllTiers == MergeTiers(BuiltinTiers, GlobalTiers, ProjectTiers)
Tiers(r) == IF Caller[life[r]] = "panel" THEN <<>> ELSE AllTiers
AnyFallback == AutoFallback(Available)
Fallback(r) == IF Caller[life[r]] = "panel" THEN NoModel ELSE AnyFallback

Marks == {"open", "done", "revising"}

TypeOK ==
    /\ pc \in [Runs -> {"idle", "enter", "spawn", "retry", "child", "judged", "asked",
                        "ended", "thrown"}]
    /\ life \in [Runs -> Lifecycles]
    /\ \A r \in Runs : phase[r] \in 1..Len(Phases[life[r]])
    /\ revise \in [Runs -> 0..(MaxRevise + 1)]
    /\ child \in [Runs -> {"none", "completed", "failed", "retryable", "aborted"}]
    /\ last \in [Runs -> {"none", "completed", "failed"}]
    /\ \A r \in Runs : block[r] \in [1..Len(Phases[life[r]]) -> Marks]
    /\ todo \in [Runs -> {"none", "open", "in_progress", "done"}]
    /\ verdict \in [Runs -> {"none", "completed", "failed", "aborted"}]
    /\ mine \subseteq Runs /\ open \in BOOLEAN /\ revising \in BOOLEAN
    /\ pending \in Runs \cup {NoRun}

Init ==
    /\ pc = [r \in Runs |-> "idle"]
    /\ life \in [Runs -> {CHOOSE l \in Lifecycles : TRUE}]
    /\ phase = [r \in Runs |-> 1] /\ revise = [r \in Runs |-> 0]
    /\ child = [r \in Runs |-> "none"] /\ last = [r \in Runs |-> "none"]
    /\ block = [r \in Runs |-> [p \in 1..Len(Phases[life[r]]) |-> "open"]]
    /\ todo = [r \in Runs |-> "none"] /\ verdict = [r \in Runs |-> "none"]
    /\ model = [r \in Runs |-> NoModel] /\ named = [r \in Runs |-> NoModel]
    /\ mine = {} /\ open = FALSE /\ pending = NoRun /\ revising = FALSE
-----------------------------------------------------------------------------
(* The end of a lifecycle and its todo. *)

(* markRunTodoReverted of a todo that the fleet created.                   *)
Revert(r) == todo' = [todo EXCEPT ![r] = "open"]

(* The run's panel, if it is the open one, forgets its checkpoint, be it   *)
(* the checkpoint of another run.                                          *)
End(r, v) ==
    /\ pc' = [pc EXCEPT ![r] = "ended"]
    /\ verdict' = [verdict EXCEPT ![r] = v]
    /\ pending' = IF r \in mine THEN NoRun ELSE pending
    /\ UNCHANGED <<life, phase, mine, open>>

(* updateProgress: the mark of the phase, the others as they are.          *)
Mark(r, mark) == block' = [block EXCEPT ![r][phase[r]] = mark]

(* runLifecycle, up to its loop.                                           *)
Start(r, l) ==
    /\ pc[r] = "idle" /\ l \in MayRun[r]
    /\ Caller[l] = "panel" => open
    /\ life' = [life EXCEPT ![r] = l]
    /\ block' = [block EXCEPT ![r] = [p \in 1..Len(Phases[l]) |-> "open"]]
    /\ mine' = IF Caller[l] = "panel" THEN mine \cup {r} ELSE mine
    /\ \/ /\ todo' = [todo EXCEPT ![r] = "in_progress"]
          /\ pc' = [pc EXCEPT ![r] = "enter"]
          /\ UNCHANGED <<verdict, pending>>
       \/ /\ pc' = [pc EXCEPT ![r] = "ended"] \* no todo: the port failed
          /\ verdict' = [verdict EXCEPT ![r] = "failed"]
          /\ pending' = IF Caller[l] = "panel" THEN NoRun ELSE pending
          /\ UNCHANGED todo
    /\ UNCHANGED <<phase, revise, last, childVars, open, revising>>

(* The agent and the backend of the phase.                                 *)
EnterPhase(r) ==
    /\ pc[r] = "enter"
    /\ \/ /\ pc' = [pc EXCEPT ![r] = "spawn"]
          /\ revise' = [revise EXCEPT ![r] = 0]
          /\ last' = [last EXCEPT ![r] = "none"]
          /\ UNCHANGED <<life, phase, todo, verdict, panelVars>>
       \/ /\ Revert(r)
          /\ End(r, "failed")
          /\ UNCHANGED <<revise, last, revising>>
    /\ UNCHANGED <<block, childVars>>

(* withModelFallbackRetry: a retry once, on a model other than the one the *)
(* result names.                                                           *)
CanRetry(r) == Fallback(r) # NoModel /\ Fallback(r) # named[r]

(* The result of a child as the phase takes it: parseArtifacts, or the     *)
(* diff of the worktree.  Only a failed child is a failure, or artifacts   *)
(* that are not listed well: a last phase may list none, but a block that  *)
(* is malformed, or a diff that fails, spoils it like any other.           *)
Judged(r, res, listed) ==
    /\ pc' = [pc EXCEPT ![r] = "judged"]
    /\ child' = [child EXCEPT ![r] = res]
    /\ last' = [last EXCEPT ![r] =
                   IF res \notin {"failed", "retryable"} /\ listed
                   THEN "completed" ELSE "failed"]
    /\ model' = [model EXCEPT ![r] = NoModel]
    /\ named' = [named EXCEPT ![r] = NoModel]

(* The spawn of the phase's child, or of its retry: the todo is linked and *)
(* the models of the chain are tried in turn.                              *)
Spawn(r) ==
    LET asked == IF pc[r] = "retry" THEN Fallback(r) ELSE NoModel
        chain == Resolve(Def(r).agent, asked, Tiers(r)) IN
    /\ pc[r] \in {"spawn", "retry"}
    /\ \/ Judged(r, "failed", FALSE) \* the todo closed, no model, or all rejected
       \/ /\ \E i \in DOMAIN chain :
                /\ model' = [model EXCEPT ![r] = chain[i]]
                /\ named' = [named EXCEPT ![r] = chain[1]]
          /\ pc' = [pc EXCEPT ![r] = "child"]
          /\ child' = [child EXCEPT ![r] = IF asked = NoModel THEN "none" ELSE "retryable"]
          /\ UNCHANGED last
    /\ UNCHANGED <<life, phase, revise, block, todo, verdict, panelVars>>

(* A child that was retried ends for good whatever its result, as one does *)
(* whose caller's signal has fired.                                        *)
ChildEnds(r, res, listed) ==
    /\ pc[r] = "child"
    /\ \/ /\ res = "retryable" /\ child[r] = "none" /\ CanRetry(r)
          /\ pc' = [pc EXCEPT ![r] = "retry"]
          /\ model' = [model EXCEPT ![r] = NoModel]
          /\ UNCHANGED <<child, last, named>>
       \/ /\ \/ res # "retryable" \/ child[r] # "none" \/ ~CanRetry(r)
             \/ Caller[life[r]] = "tool"
          /\ Judged(r, res, listed)
    /\ UNCHANGED <<life, phase, revise, block, todo, verdict, panelVars>>
-----------------------------------------------------------------------------
(* After an attempt: the gates, the progress, the checkpoint. *)

(* Mutated form: a gate's revision is not counted.                         *)
CountNothing(r) == revise[r]

CountRevision(r) == revise[r] + 1

(* A revision more than the budget ends the lifecycle and leaves its todo. *)
Revise(r) ==
    /\ revise' = [revise EXCEPT ![r] = CountRevision(r)]
    /\ \/ /\ CountRevision(r) <= MaxRevise
          /\ Mark(r, "revising")
          /\ pc' = [pc EXCEPT ![r] = "spawn"]
          /\ pending' = IF pending = r THEN NoRun ELSE pending
          /\ UNCHANGED <<life, phase, verdict, mine, open>>
       \/ /\ CountRevision(r) > MaxRevise
          /\ Mark(r, "open")
          /\ End(r, "failed")
    /\ UNCHANGED <<last, todo>>

(* The phase is behind; the last one completes the lifecycle.              *)
Accept(r) ==
    /\ \/ /\ Terminal(r)
          /\ todo' = [todo EXCEPT ![r] = "done"]
          /\ End(r, "completed")
       \/ /\ ~Terminal(r)
          /\ phase' = [phase EXCEPT ![r] = @ + 1]
          /\ pc' = [pc EXCEPT ![r] = "enter"]
          /\ pending' = IF pending = r THEN NoRun ELSE pending
          /\ UNCHANGED <<life, todo, verdict, mine, open>>
    /\ UNCHANGED <<revise, last>>

Abort(r, v) == Revert(r) /\ End(r, v) /\ UNCHANGED <<revise, last, block>>

(* The checkpoint goes to the panel that started the run: to nobody if it  *)
(* has been closed.                                                        *)
AskOrAccept(r) ==
    \/ /\ last[r] = "failed" \/ (Def(r).checkpoint /\ Mode[life[r]] = "checkpointed" /\ ~Terminal(r))
       /\ pc' = [pc EXCEPT ![r] = "asked"]
       /\ pending' = IF r \in mine THEN r ELSE pending
       /\ UNCHANGED <<life, phase, revise, last, todo, verdict, mine, open>>
    \/ /\ last[r] = "completed"
       /\ ~(Def(r).checkpoint /\ Mode[life[r]] = "checkpointed" /\ ~Terminal(r))
       /\ Accept(r)

(* The first of the gates that failed and does not merely advise decides;  *)
(* one that throws advises, one that is unknown throws out of it all.      *)
Stopping(gates, failed) == {i \in failed : gates[i] \in {"revise", "abort"}}

GatesRun(r, failed) ==
    LET gates == Def(r).gates
        stops == Stopping(gates, failed) IN
    /\ pc[r] = "judged" /\ failed \subseteq DOMAIN gates
    /\ \/ /\ \E i \in DOMAIN gates : gates[i] = "unknown"
          /\ failed = {}
          /\ pc' = [pc EXCEPT ![r] = "thrown"]
          /\ UNCHANGED <<life, phase, revise, last, block, todo, verdict, panelVars>>
       \/ /\ \A i \in DOMAIN gates : gates[i] # "unknown"
          /\ \/ /\ stops = {}
                /\ Mark(r, IF last[r] = "completed" THEN "done" ELSE "open")
                /\ AskOrAccept(r)
             \/ /\ stops # {} /\ gates[Min(stops)] = "revise"
                /\ Revise(r)
             \/ /\ stops # {} /\ gates[Min(stops)] = "abort"
                /\ Abort(r, "failed")
          /\ UNCHANGED revising
    /\ UNCHANGED childVars

(* Mutated form: a failure is passed like any other phase.                 *)
ContinueAnyway(r) == Accept(r) /\ UNCHANGED block

(* A failed phase cannot be passed.                                        *)
Continue(r) == \/ /\ last[r] = "failed"
                  /\ Abort(r, "aborted")
               \/ /\ last[r] = "completed"
                  /\ Accept(r)
                  /\ UNCHANGED block

AbortPhase(r) == Abort(r, IF last[r] = "failed" THEN "failed" ELSE "aborted")

(* The callers that ask nobody.                                            *)
CallerDecides(r) ==
    /\ pc[r] = "asked"
    /\ \/ /\ Caller[life[r]] = "tool" /\ last[r] = "failed"
          /\ AbortPhase(r)
       \/ /\ \/ Caller[life[r]] = "command"
             \/ Caller[life[r]] = "tool" /\ last[r] = "completed"
          /\ Continue(r)
    /\ UNCHANGED <<revising, childVars>>
-----------------------------------------------------------------------------
(* The panel. *)

OpenPanel ==
    /\ ~open
    /\ open' = TRUE
    /\ UNCHANGED <<loopVars, childVars, mine, pending, revising>>

KeyContinue ==
    /\ pending # NoRun /\ ~revising
    /\ Continue(pending)
    /\ UNCHANGED <<revising, childVars>>

KeyAbort ==
    /\ pending # NoRun /\ ~revising
    /\ AbortPhase(pending)
    /\ UNCHANGED <<revising, childVars>>

KeyRevise ==
    /\ pending # NoRun /\ ~revising
    /\ revising' = TRUE
    /\ UNCHANGED <<loopVars, childVars, mine, open, pending>>

(* The feedback goes to the checkpoint that is pending when it is sent;    *)
(* if there is none any more the key handler throws.                       *)
SubmitFeedback ==
    /\ revising
    /\ revising' = FALSE
    /\ \/ /\ pending # NoRun
          /\ Revise(pending)
       \/ /\ pending = NoRun
          /\ UNCHANGED <<loopVars, mine, open, pending>>
    /\ UNCHANGED childVars

(* Mutated form: the checkpoint of the closed panel is kept for the next.  *)
ClosedKeepsPending == /\ open' = FALSE /\ mine' = {} /\ revising' = FALSE
                      /\ UNCHANGED pending

(* close(): what the panel held is gone with it.                           *)
Closed == open' = FALSE /\ mine' = {} /\ pending' = NoRun /\ revising' = FALSE

(* Escape answers the pending checkpoint with abort, q does not.           *)
Escape ==
    /\ open
    /\ Closed
    /\ \/ /\ pending = NoRun
          /\ UNCHANGED loopVars
       \/ /\ pending # NoRun
          /\ Revert(pending)
          /\ pc' = [pc EXCEPT ![pending] = "ended"]
          /\ verdict' = [verdict EXCEPT ![pending] =
                            IF last[pending] = "failed" THEN "failed" ELSE "aborted"]
          /\ UNCHANGED <<life, phase, revise, last, block>>
    /\ UNCHANGED childVars

Quit == open /\ Closed /\ UNCHANGED <<loopVars, childVars>>
-----------------------------------------------------------------------------
Results == {"completed", "failed", "retryable", "aborted"}

LoopStep(r) ==
    \/ EnterPhase(r) \/ Spawn(r)
    \/ \E res \in Results, listed \in BOOLEAN : ChildEnds(r, res, listed)
    \/ \E failed \in SUBSET DOMAIN Def(r).gates : GatesRun(r, failed)
    \/ CallerDecides(r)
PanelStep == OpenPanel \/ KeyContinue \/ KeyAbort \/ KeyRevise \/ SubmitFeedback \/ Escape \/ Quit

Next == \/ \E r \in Runs : LoopStep(r) \/ \E l \in Lifecycles : Start(r, l)
        \/ PanelStep

(* Children end, gates return and callers answer; nobody need use a panel. *)
Fairness == \A r \in Runs : WF_vars(LoopStep(r))
Spec == Init /\ [][Next]_vars
FairSpec == Spec /\ Fairness
-----------------------------------------------------------------------------
(* Properties. *)

State(r) == IF pc[r] = "ended" THEN IF verdict[r] = "completed" THEN "completed" ELSE "stopped"
            ELSE IF pc[r] = "idle" THEN "idle"
            ELSE IF pc[r] = "thrown" THEN "stopped"
            ELSE IF pc[r] \in {"judged", "asked"}
                 THEN IF last[r] = "completed" THEN "worked" ELSE "flawed"
            ELSE "working"

Length(r) == Len(Phases[life[r]])
Accepted(r) == IF verdict[r] = "completed" THEN Length(r) ELSE phase[r] - 1

Promise == INSTANCE LifecyclePromise
              WITH state <- [r \in Runs |-> State(r)], accepted <- [r \in Runs |-> Accepted(r)],
                   length <- [r \in Runs |-> Length(r)]

(* Phases are accepted in their order, each only after an attempt that     *)
(* succeeded, and only a lifecycle with all of them accepted completes,    *)
(* whoever decides at its checkpoints and however its panel is closed.     *)
KeepsPromise == Promise!Spec

(* The todo of a lifecycle follows its verdict; one whose phase was        *)
(* revised too often leaves it in progress.                                *)
TodoFollowsVerdict ==
    \A r \in Runs : pc[r] = "ended" =>
        \/ verdict[r] = "completed" /\ todo[r] = "done"
        \/ verdict[r] # "completed" /\ todo[r] \in {"none", "open"}
        \/ revise[r] > MaxRevise /\ todo[r] = "in_progress"

(* The progress block in the todo tells how far the lifecycle is: all the  *)
(* phases before the present one are marked, none after it.                *)
BlockTellsProgress ==
    \A r \in Runs : \A p \in DOMAIN block[r] :
        /\ p < phase[r] \/ verdict[r] = "completed" => block[r][p] = "done"
        /\ p > phase[r] => block[r][p] = "open"

(* The checkpoint that the panel shows is one that a run of this panel     *)
(* waits at: a key never answers a question that is no longer asked.       *)
PendingIsAsked ==
    pending # NoRun => open /\ pending \in mine /\ pc[pending] = "asked"

(* What the user reads in the todo and is asked in the panel is where the  *)
(* lifecycle is.                                                           *)
UserSeesTheRun == TypeOK /\ TodoFollowsVerdict /\ BlockTellsProgress /\ PendingIsAsked

(* A child works on a model that its agent's chain allows, large enough    *)
(* for the tier, or on the fallback.                                       *)
ModelAllowed ==
    \A r \in Runs : model[r] # NoModel =>
        \/ model[r] = Fallback(r) /\ child[r] = "retryable"
        \/ Def(r).agent.tier = NoTier /\ model[r] \in {Def(r).agent.model, Parent}
        \/ /\ Def(r).agent.tier \in DOMAIN Tiers(r)
           /\ LET tier == Tiers(r)[Def(r).agent.tier] IN
              \/ model[r] = Parent /\ Contains(tier.models, Inherit)
              \/ Contains(tier.models, model[r]) /\ Window[model[r]] >= tier.floor

(* A lifecycle that no panel started comes to its end if its children do.  *)
UnattendedEnds ==
    \A r \in Runs : (pc[r] # "idle" /\ Caller[life[r]] # "panel") ~> pc[r] \in {"ended", "thrown"}

(* Closing the panel answers its pending checkpoint, so that the lifecycle *)
(* does not hang with its todo in progress (comment in handleInput): a run *)
(* that waits at a checkpoint can be answered.                             *)
AskedCanBeAnswered ==
    \A r \in Runs : pc[r] = "asked" /\ Caller[life[r]] = "panel" => pending = r
=============================================================================
