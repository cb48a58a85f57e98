------------------------------- MODULE PidLock -------------------------------
(***************************************************************************)
(* src/scheduling/pid-lock.ts: the lock file that lets one pi process of a *)
(* project fire its schedules.  A process looks at the file, then writes   *)
(* its pid into it; writeFileSync empties the file before it writes.       *)
(* Nothing releases the lock: a holder that is gone leaves a stale pid.    *)
(*                                                                         *)
(* Sessions are the session_starts, numbered in their order; a process has *)
(* the number of its first session for a pid.                              *)
(***************************************************************************)
EXTENDS Naturals, FiniteSets

CONSTANTS MaxSessions,       \* bound: how often session_start fires in all
          NoFile, EmptyFile  \* contents of the lock file other than a pid

ASSUME SessionsAssumption == MaxSessions \in Nat \ {0}

Sessions == 1..MaxSessions

VARIABLES lockFile,
          pid,    \* the process of a session; 0 before it starts
          alive,  \* the processes that run
          stage   \* how far the session got in Scheduler.start

lockVars == <<lockFile, pid, alive, stage>>

LockTypeOK == /\ lockFile \in {NoFile, EmptyFile} \cup Sessions
              /\ pid \in [Sessions -> 0..MaxSessions]
              /\ alive \subseteq Sessions
              /\ stage \in [Sessions -> {"none", "checked", "emptied", "running", "refused"}]

LockInit == /\ lockFile = NoFile
            /\ pid = [s \in Sessions |-> 0]
            /\ alive = {}
            /\ stage = [s \in Sessions |-> "none"]

Live(s) == pid[s] \in alive

(* session_start does all of it without an await: only other processes get *)
(* between the steps.                                                      *)
Idle(p) == \A s \in Sessions : pid[s] = p => stage[s] \in {"running", "refused"}

(* Mutated form: an empty file, which no process owns, is up for grabs.    *)
HeldByAPid(p) == lockFile \in alive \ {p}

(* The lock belongs to another live process.  An empty file reads as pid 0,*)
(* and signal 0 to pid 0, the caller's own process group, succeeds.        *)
HeldByAnother(p) == \/ lockFile = EmptyFile
                    \/ lockFile \in alive \ {p}

(* acquire(lockPath), up to its first write.                               *)
Check(s) ==
    /\ stage' = [stage EXCEPT ![s] = IF HeldByAnother(pid'[s]) THEN "refused" ELSE "checked"]
    /\ UNCHANGED lockFile

EmptyLock(s) ==
    /\ Live(s) /\ stage[s] = "checked"
    /\ lockFile' = EmptyFile
    /\ stage' = [stage EXCEPT ![s] = "emptied"]
    /\ UNCHANGED <<pid, alive>>

WritePid(s) ==
    /\ Live(s) /\ stage[s] = "emptied"
    /\ lockFile' = pid[s]
    /\ stage' = [stage EXCEPT ![s] = "running"]
    /\ UNCHANGED <<pid, alive>>

Exit(p) ==
    /\ p \in alive
    /\ alive' = alive \ {p}
    /\ UNCHANGED <<lockFile, pid, stage>>
=============================================================================
