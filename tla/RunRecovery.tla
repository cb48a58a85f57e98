----------------------------- MODULE RunRecovery -----------------------------
(***************************************************************************)
(* Crashes, restarts and the reconciliation of interrupted runs:           *)
(* reconcileRuns and probeRun of src/runtime/reconcile.ts over the run log *)
(* of src/runtime/run-log.ts, started once per session_start (src/index.ts)*)
(* and by the periodic probe of src/panel/fleet-widget.ts, while the       *)
(* dispatches of SpawnSubagent go on.                                      *)
(*                                                                         *)
(* A crash of pi loses the run registry, the lock and every dispatch; the  *)
(* run log and the todos are on disk, and a claude child, a process of its *)
(* own, may outlive it.                                                    *)
(***************************************************************************)
EXTENDS SpawnSubagent

CONSTANTS MaxCrashes,    \* bound: how often pi crashes
          MaxReentries   \* bound: how often session_start fires again

ASSUME RecoveryAssumption == MaxCrashes \in Nat /\ MaxReentries \in Nat

VARIABLES up,          \* a pi session runs in this directory
          crashes, reentries,
          lost,        \* the runs that a crash interrupted
          aged,        \* the runs that started longer ago than the grace period
          living,      \* the runs whose claude process is alive
          probeTimer   \* the widget's liveness interval is armed

recoveryVars == <<up, crashes, reentries, lost, aged, living, probeTimer>>
allVars == <<vars, recoveryVars>>

RecoveryTypeOK ==
    /\ TypeOK
    /\ up \in BOOLEAN
    /\ crashes \in 0..MaxCrashes /\ reentries \in 0..MaxReentries
    /\ lost \subseteq Runs /\ aged \subseteq Runs
    /\ living \subseteq Claude
    /\ probeTimer \in BOOLEAN

RecoveryInit == /\ Init
                /\ up = FALSE
                /\ crashes = 0 /\ reentries = 0
                /\ lost = {} /\ aged = {} /\ living = {}
                /\ probeTimer = FALSE
-----------------------------------------------------------------------------
(* The run log, as RunLog.scanMeta reads it. *)

HasMeta(r) == "meta" \in ToSet(runLog[r])
Ended(r)   == \E v \in Terminal : v \in ToSet(runLog[r])
LastVerdict(r, v) == \E i \in DOMAIN runLog[r] :
                        /\ runLog[r][i] = v /\ v \in Terminal
                        /\ \A j \in DOMAIN runLog[r] : j > i => runLog[r][j] \notin Terminal
(* Mutated form: every run that was ever announced counts as running.      *)
ScanEverything == {r \in Runs : HasMeta(r)}

Scan == {r \in Runs : HasMeta(r) /\ ~Ended(r)}

(* Mutated form: the probe asks only for the age of the run.               *)
SeemsDeadByAge(r) == r \in aged

(* probeRun.  A record with a live handle answers for its child, which is  *)
(* always alive on the pi backend.  A record without one is judged by its  *)
(* age, for nothing ever sets its pid; so is a pi run of an earlier        *)
(* process.  A claude run of an earlier process is judged by the pid in    *)
(* its run:meta.                                                           *)
SeemsDead(r) ==
    IF session[r] THEN r \in Claude \ living
    ELSE IF status[r] = "none" /\ r \in Claude THEN r \notin living
    ELSE r \in aged

Dead == {r \in Scan : SeemsDead(r)}

(* Mutated form: the todos of the dead runs stay as they are.              *)
ReconcileLogOnly ==
    /\ runLog' = [r \in Runs |-> IF r \in Dead THEN Append(runLog[r], "aborted") ELSE runLog[r]]
    /\ status' = [r \in Runs |-> IF r \in Dead /\ status[r] # "none" THEN "aborted" ELSE status[r]]
    /\ UNCHANGED <<lockedVars, session, result, retryable, childVars, todoVars,
                   callVars, signal>>

(* reconcileRuns writes, for every run it takes for dead, run:ended, the   *)
(* status of the record if there is one, and the todo, which it reopens as *)
(* if the fleet had created it.  The handle stays.  The loop awaits the    *)
(* todo adapter, whose promises are resolved when it returns them, and a   *)
(* pass runs in a timer's turn or in session_start's: nothing gets between *)
(* its steps, so a pass is one action.                                     *)
Reconcile ==
    /\ runLog' = [r \in Runs |-> IF r \in Dead THEN Append(runLog[r], "aborted") ELSE runLog[r]]
    /\ status' = [r \in Runs |-> IF r \in Dead /\ status[r] # "none" THEN "aborted" ELSE status[r]]
    /\ todo'   = [t \in Todos |-> IF \E r \in Dead : todoId[r] = t THEN "open" ELSE todo[t]]
    /\ UNCHANGED <<lockedVars, session, result, retryable, childVars, todoId, prior,
                   callVars, signal>>

(* The widget is rendered on every change of the registry, and when there  *)
(* is nothing active to show it clears both of its timers.  Nothing arms   *)
(* the liveness timer again.                                               *)
HasActive == \E r \in Runs : status[r] = "running"
-----------------------------------------------------------------------------
(* session_start, at the start of pi and when it fires again: a pass, then *)
(* the widget, whose timer survives its first render only if a run is      *)
(* active already.                                                         *)
SessionStart ==
    /\ up => reentries < MaxReentries
    /\ up' = TRUE
    /\ reentries' = IF up THEN reentries + 1 ELSE reentries
    /\ Reconcile
    /\ probeTimer' = HasActive'
    /\ UNCHANGED <<crashes, lost, aged, living>>

ProbeTick ==
    /\ up /\ probeTimer
    /\ Reconcile
    /\ probeTimer' = HasActive'
    /\ UNCHANGED <<up, crashes, reentries, lost, aged, living>>

Crash ==
    /\ up /\ crashes < MaxCrashes
    /\ up' = FALSE /\ crashes' = crashes + 1
    /\ lost' = lost \cup {r \in Runs : pc[r] \notin {"idle", "done"}}
    /\ pc' = [r \in Runs |-> IF pc[r] = "idle" THEN "idle" ELSE "done"]
    /\ active' = {} /\ waiters' = <<>>
    /\ status'    = [r \in Runs |-> "none"]
    /\ session'   = [r \in Runs |-> FALSE]
    /\ aborted'   = [r \in Runs |-> FALSE]
    /\ turns'     = [r \in Runs |-> 0]
    /\ saw'       = [r \in Runs |-> FALSE]
    /\ modelErr'  = [r \in Runs |-> FALSE]
    /\ retryable' = [r \in Runs |-> FALSE]
    /\ probeTimer' = FALSE
    /\ UNCHANGED <<reentries, runLog, result, todoVars, callVars, signal, aged, living>>

(* The grace period of a run passes; it matters while its log is open.     *)
GraceElapses(r) ==
    /\ r \in Scan \ aged
    /\ aged' = aged \cup {r}
    /\ UNCHANGED <<vars, up, crashes, reentries, lost, living, probeTimer>>

(* A claude child exits by itself.                                         *)
ChildDies(r) ==
    /\ r \in living
    /\ living' = living \ {r}
    /\ UNCHANGED <<vars, up, crashes, reentries, lost, aged, probeTimer>>

(* A step of a dispatch.  A claude session counts as alive until it is     *)
(* told to abort or disposed of; the registry change renders the widget.   *)
DispatchStep ==
    /\ up
    /\ Next
    /\ living' = (living \cap lost) \cup
           {r \in Claude : /\ pc'[r] = "prompting" /\ ~aborted'[r] /\ turns'[r] < MaxTurns
                           /\ pc[r] = "prompting" => r \in living}
    /\ probeTimer' = (probeTimer /\ HasActive')
    /\ UNCHANGED <<up, crashes, reentries, lost, aged>>

RecoveryNext ==
    \/ DispatchStep
    \/ SessionStart \/ ProbeTick \/ Crash
    \/ \E r \in Runs : GraceElapses(r) \/ ChildDies(r)

(* The user starts pi again after a crash.                                 *)
RecoveryFairness == WF_allVars(~up /\ SessionStart)

RecoverySpec == RecoveryInit /\ [][RecoveryNext]_allVars
FairRecoverySpec == RecoverySpec /\ RecoveryFairness
-----------------------------------------------------------------------------
(* Properties. *)

(* A run at work in this process is never taken for an orphan: while its   *)
(* child is alive its log stays open, however often it is probed and       *)
(* however old it is.                                                      *)
LiveRunSpared ==
    \A r \in Runs : pc[r] = "prompting" /\ (r \in Claude => r \in living) => ~Ended(r)

(* A run that completed stays completed on disk: no pass, crash or late    *)
(* event of its child adds to its log.                                     *)
CompletedUntouched ==
    [][\A r \in Runs : LastVerdict(r, "completed") => runLog'[r] = runLog[r]]_allVars

(* An interrupted run that a start of pi can tell is dead gets its verdict *)
(* then, and its todo does not stay in progress.                           *)
DeadOnDisk(r) == /\ r \in lost \cap Scan
                 /\ IF r \in Claude THEN r \notin living ELSE r \in aged

OldOrphanReconciled ==
    \A r \in Runs : ~up /\ DeadOnDisk(r) ~>
        Ended(r) /\ (todoId[r] # NoTodo => todo[todoId[r]] # "in_progress")
=============================================================================
