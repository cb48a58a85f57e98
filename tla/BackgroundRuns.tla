---------------------------- MODULE BackgroundRuns ----------------------------
(***************************************************************************)
(* Background runs: runBackground of src/runtime/async-runner.ts with the  *)
(* pool, the phase journal (src/runtime/run-journal.ts), the git worktrees *)
(* (src/worktree/worktree-service.ts) and the results inbox, crashes of    *)
(* pi, and the scan for interrupted runs that every session_start makes    *)
(* (src/runtime/resume.ts, src/index.ts).                                  *)
(*                                                                         *)
(* What happens inside the lifecycle of a run is left to its outcome.  The *)
(* journal, the worktrees and the branches are on disk; the pool and the   *)
(* inbox are lost with the process.                                        *)
(***************************************************************************)
EXTENDS ConcurrencyPool, SequencesExt

CONSTANTS Isolated,     \* dispatches that get a worktree of their own
          CrossCwd,     \* ... of a repository other than the session's
          MaxCrashes,   \* bound: how often pi crashes
          MaxReentries  \* bound: how often session_start fires again

ASSUME BackgroundAssumption ==
    /\ IsFiniteSet(Runs)
    /\ CrossCwd \subseteq Isolated /\ Isolated \subseteq Runs
    /\ MaxCrashes \in Nat /\ MaxReentries \in Nat
    /\ Pools = 0..MaxReentries

VARIABLES up,        \* a pi session runs in this directory
          crashes, reentries,
          pc,        \* where each dispatch is
          poolOf,    \* the pool it was dispatched to
          journal,   \* the bookends in the journal of a run
          worktree,  \* its worktree is on disk
          branch,    \* its branch exists
          inbox,     \* the results nobody has pulled
          offered    \* the interrupted runs shown as resumable

processVars == <<up, crashes, reentries>>
diskVars == <<journal, worktree, branch>>
vars == <<poolVars, processVars, pc, poolOf, diskVars, inbox, offered>>

Verdicts == {"completed", "aborted"}
pool == reentries   \* the current pool of the session

TypeOK ==
    /\ active \in [Pools -> Nat]
    /\ queue \in [Pools -> Seq(Runs)]
    /\ woken \subseteq Runs
    /\ up \in BOOLEAN
    /\ crashes \in 0..MaxCrashes /\ reentries \in Pools
    /\ pc \in [Runs -> {"idle", "queued", "running", "done", "lost"}]
    /\ poolOf \in [Runs -> Pools]
    /\ journal \in [Runs -> Seq({"started"} \cup Verdicts)]
    /\ worktree \in [Runs -> BOOLEAN]
    /\ branch \in [Runs -> BOOLEAN]
    /\ inbox \subseteq Runs /\ offered \subseteq Runs

Init == /\ PoolInit
        /\ up = FALSE /\ crashes = 0 /\ reentries = 0
        /\ pc = [r \in Runs |-> "idle"]
        /\ poolOf = [r \in Runs |-> 0]
        /\ journal = [r \in Runs |-> <<>>]
        /\ worktree = [r \in Runs |-> FALSE]
        /\ branch = [r \in Runs |-> FALSE]
        /\ inbox = {} /\ offered = {}
-----------------------------------------------------------------------------
(* Dispatch. *)

Log(r, e) == journal' = [journal EXCEPT ![r] = Append(@, e)]

(* The body of the slot, up to its await of the lifecycle.                 *)
Started(r) == /\ pc' = [pc EXCEPT ![r] = "running"]
              /\ Log(r, "started")

(* runBackground: the worktree is made before there is a slot, the first   *)
(* journal entry after.                                                    *)
Dispatch(r) ==
    /\ up /\ pc[r] = "idle"
    /\ worktree' = [worktree EXCEPT ![r] = r \in Isolated]
    /\ branch'   = [branch EXCEPT ![r] = r \in Isolated]
    /\ poolOf'   = [poolOf EXCEPT ![r] = pool]
    /\ \/ /\ Enter(pool)
          /\ Started(r)
       \/ /\ Wait(pool, r)
          /\ pc' = [pc EXCEPT ![r] = "queued"]
          /\ UNCHANGED journal
    /\ UNCHANGED <<processVars, inbox, offered>>

(* No git repository, or git worktree add fails: nothing is left behind.   *)
DispatchFails(r) ==
    /\ up /\ pc[r] = "idle" /\ r \in Isolated
    /\ pc' = [pc EXCEPT ![r] = "done"]
    /\ UNCHANGED <<poolVars, processVars, poolOf, diskVars, inbox, offered>>

Wake(r) ==
    /\ EnterWoken(poolOf[r], r)
    /\ Started(r)
    /\ UNCHANGED <<processVars, poolOf, worktree, branch, inbox, offered>>
-----------------------------------------------------------------------------
(* The end of a run.  Its writes to disk come in a fixed order with no     *)
(* await between them; a crash can separate them, and so can an exception, *)
(* of the notification of the user or of the removal of a directory.       *)
(* CompleteUpTo, AbortUpTo and CatchUpTo make the first k writes.          *)

(* Mutated form: a completed run takes its branch along.                   *)
CompleteLosesBranch(r, k) ==
    /\ journal'  = [journal EXCEPT ![r] = Append(@, "completed")]
    /\ worktree' = [worktree EXCEPT ![r] = @ /\ k < 2]
    /\ branch'   = [branch EXCEPT ![r] = @ /\ k < 2]

(* After the commit, whose failure is silent and which leaves no trace     *)
(* here: run:completed; the removal of the worktree but not the branch.    *)
CompleteUpTo(r, k) ==
    /\ journal'  = [journal EXCEPT ![r] = Append(@, "completed")]
    /\ worktree' = [worktree EXCEPT ![r] = @ /\ k < 2]
    /\ UNCHANGED branch

(* run:aborted, the removal of the worktree, then of the branch, which may *)
(* silently fail.                                                          *)
AbortUpTo(r, k) ==
    /\ journal'  = [journal EXCEPT ![r] = Append(@, "aborted")]
    /\ worktree' = [worktree EXCEPT ![r] = @ /\ k < 2]
    /\ branch'   = [branch EXCEPT ![r] = @ /\ k < 3]

(* The catch block, of an exception after the run had its verdict: it      *)
(* appends run:aborted and removes worktree and branch.  A removal that    *)
(* throws again ends it.                                                   *)
CatchUpTo(r, verdict, k) ==
    /\ journal'  = [journal EXCEPT ![r] = Append(Append(@, verdict), "aborted")]
    /\ worktree' = [worktree EXCEPT ![r] = @ /\ k < 2]
    /\ branch'   = [branch EXCEPT ![r] = @ /\ k < 3]

Settle(r) == /\ pc[r] = "running"
             /\ Leave(poolOf[r])
             /\ pc' = [pc EXCEPT ![r] = "done"]
             /\ UNCHANGED <<processVars, poolOf, offered>>

Complete(r) == /\ CompleteUpTo(r, 2)
               /\ Settle(r)
               /\ inbox' = inbox \cup {r}

(* Something throws after run:completed: the panel's progress handler,     *)
(* before the result is in the inbox, or the notification or the removal   *)
(* of the worktree, after.                                                 *)
CompleteThrows(r) == /\ \E k \in 1..3 : CatchUpTo(r, "completed", k)
                     /\ Settle(r)
                     /\ inbox' \in {inbox, inbox \cup {r}}

(* The lifecycle failed, was aborted, or threw; what follows run:aborted   *)
(* may throw too, and then there are two of them.                          *)
Abort(r) == /\ \E k \in 1..3 : AbortUpTo(r, k) \/ CatchUpTo(r, "aborted", k)
            /\ Settle(r)
            /\ UNCHANGED inbox

(* The parent agent's fleet_results, of one run or of all.                 *)
Pull(R) == /\ up /\ R # {}
           /\ inbox' = inbox \ R
           /\ UNCHANGED <<poolVars, processVars, pc, poolOf, diskVars, offered>>
-----------------------------------------------------------------------------
(* The process. *)

Die == /\ up /\ crashes < MaxCrashes
       /\ up' = FALSE /\ crashes' = crashes + 1
       /\ active' = [p \in Pools |-> 0]
       /\ queue' = [p \in Pools |-> <<>>]
       /\ woken' = {} /\ inbox' = {} /\ offered' = {}
       /\ pc' = [r \in Runs |-> IF pc[r] \in {"queued", "running"} THEN "lost" ELSE pc[r]]
       /\ UNCHANGED <<reentries, poolOf>>

Crash == Die /\ UNCHANGED diskVars

CrashAmid(r) == /\ pc[r] = "running"
                /\ Die
                /\ \/ CompleteUpTo(r, 1)
                   \/ \E k \in 1..3 : AbortUpTo(r, k)
                   \/ \E k \in 1..3, v \in Verdicts : CatchUpTo(r, v, k)

(* Mutated forms: a journal with one entry only is overlooked; a verdict   *)
(* does not end a journal; a run is given up when its worktree stands.     *)
InterruptedLate == {r \in Runs : Len(journal[r]) > 1 /\ Last(journal[r]) \notin Verdicts}
EverStarted == {r \in Runs : journal[r] # <<>>}

(* scanResumeCandidates: of the runs whose journal does not end with a     *)
(* verdict, those without a worktree under this directory are aborted, the *)
(* others are shown as resumable.                                          *)
Interrupted == {r \in Runs : journal[r] # <<>> /\ Last(journal[r]) \notin Verdicts}
UnresumableStanding(r) == r \notin Isolated \/ r \in CrossCwd \/ worktree[r]
Unresumable(r) == r \notin Isolated \/ r \in CrossCwd \/ ~worktree[r]

(* session_start builds a new pool and scans; on a re-entry the runs of    *)
(* the old pool go on.                                                     *)
SessionStart ==
    /\ up => reentries < MaxReentries
    /\ up' = TRUE
    /\ reentries' = IF up THEN reentries + 1 ELSE reentries
    /\ LET gone == {r \in Interrupted : Unresumable(r)}
       IN  /\ journal' = [r \in Runs |-> IF r \in gone THEN Append(journal[r], "aborted")
                                         ELSE journal[r]]
           /\ offered' = Interrupted \ gone
    /\ UNCHANGED <<poolVars, crashes, pc, poolOf, worktree, branch, inbox>>

Terminating == /\ up /\ \A r \in Runs : pc[r] \in {"done", "lost"}
               /\ UNCHANGED vars

Next ==
    \/ \E r \in Runs :
          \/ Dispatch(r) \/ DispatchFails(r)
          \/ Wake(r)
          \/ Complete(r) \/ CompleteThrows(r) \/ Abort(r)
          \/ CrashAmid(r)
          \/ Pull({r} \cap inbox)
    \/ Pull(inbox)
    \/ Crash \/ SessionStart
    \/ Terminating

(* A woken caller runs, and a lifecycle settles, which its children's      *)
(* prompts do (see SpawnSubagent).                                         *)
Fairness == \A r \in Runs : /\ WF_vars(Wake(r))
                            /\ WF_vars(Complete(r) \/ CompleteThrows(r) \/ Abort(r))

Spec == Init /\ [][Next]_vars
FairSpec == Spec /\ Fairness
-----------------------------------------------------------------------------
(* Properties. *)

Resident(p) == {r \in Runs : pc[r] = "running" /\ poolOf[r] = p}

(* The pool's count is the number of runs at work in it, and a run waits   *)
(* exactly while it is in its queue or about to be woken, once.            *)
PoolMatchesRuns ==
    /\ \A p \in Pools : active[p] = Cardinality(Resident(p))
    /\ \A r \in Runs :
          pc[r] = "queued" <=> r \in woken \cup ToSet(queue[poolOf[r]])
    /\ \A p \in Pools :
          /\ \A i, j \in DOMAIN queue[p] : queue[p][i] = queue[p][j] => i = j
          /\ woken \cap ToSet(queue[p]) = {}

(* What an isolated run leaves on disk agrees with its journal, whatever   *)
(* threw or crashed: its branch is there while its worktree is, and when   *)
(* its last verdict is that it completed; and only a run that was aborted  *)
(* ends with its worktree left.                                            *)
LeftoversMatchJournal ==
    \A r \in Isolated : journal[r] # <<>> =>
        /\ worktree[r] \/ Last(journal[r]) = "completed" => branch[r]
        /\ pc[r] = "done" /\ worktree[r] => Last(journal[r]) = "aborted"

(* A crash loses no isolated run of this repository that had started: once *)
(* pi is back it has a verdict or is offered for resumption, and if it is  *)
(* offered its worktree is there.                                          *)
InterruptedRunOffered ==
    \A r \in Runs : up /\ pc[r] = "lost" /\ journal[r] # <<>> =>
        \/ Last(journal[r]) \in Verdicts
        \/ r \in offered /\ worktree[r]

(* An aborted run stays aborted: neither a scan nor an exception gives up  *)
(* a run, isolated in this repository, that then completes.                *)
AbortIsFinal ==
    \A r \in Isolated \ CrossCwd : \A i, j \in DOMAIN journal[r] :
        i < j /\ journal[r][i] = "aborted" => journal[r][j] # "completed"

(* Every background run that is dispatched ends, or its process does.      *)
EveryRunEnds == \A r \in Runs : pc[r] = "queued" ~> pc[r] \in {"done", "lost"}
=============================================================================
