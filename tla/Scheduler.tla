------------------------------ MODULE Scheduler ------------------------------
(***************************************************************************)
(* src/scheduling/scheduler.ts with its expressions and its PID lock: the  *)
(* schedules of a project, the timers of the sessions that fire them, and  *)
(* the store that all sessions of the project share.                       *)
(*                                                                         *)
(* Every session_start builds a scheduler that loads the store and tries   *)
(* to start; nothing ever stops one, so a re-entered session_start leaves  *)
(* the old timers running.  The user's commands reach the newest scheduler *)
(* of a process, through the panel or the tool.                            *)
(***************************************************************************)
EXTENDS PidLock, SequencesExt

CONSTANTS Once,       \* schedules with a date
          Recurring,  \* schedules with an interval or a cron line
          At,         \* the date of each one-shot
          Period,     \* the distance between two fires of each of the others
          Horizon,    \* bound: the time at which the model stops
          TimerMax    \* the longest delay that setTimeout can keep

Schedules == Once \cup Recurring

ASSUME ScheduleAssumption ==
    /\ Once \cap Recurring = {}
    /\ At \in [Once -> Nat] /\ Period \in [Recurring -> Nat \ {0}]
    /\ Horizon \in Nat /\ TimerMax \in Nat

VARIABLES now,
          entries,     \* the entries of each session's scheduler
          current,     \* the sessions that the user's commands reach
          store,       \* schedules.json: which schedules, and which are paused
          wish,        \* the user's last word on each schedule
          fires,       \* how often each has fired; saturates at 2
          overlapped,  \* a session started while another was there
          raced        \* two processes were between look and write at once

vars == <<lockVars, now, entries, current, store, wish, fires, overlapped, raced>>

States  == {"absent", "active", "paused"}
Entry   == [state : States, spent : BOOLEAN, timers : Seq([at : Nat, meant : Nat])]
EntryOf(state, spent, timers) == [state |-> state, spent |-> spent, timers |-> timers]
NoEntry      == EntryOf("absent", FALSE, <<>>)
Fresh(state) == EntryOf(state, FALSE, <<>>)   \* just registered or loaded

TypeOK ==
    /\ LockTypeOK
    /\ now \in 0..Horizon
    /\ entries \in [Sessions -> [Schedules -> Entry]]
    /\ current \subseteq Sessions
    /\ store \in [Schedules -> States]
    /\ wish \in [Schedules -> {"none", "active", "paused", "deleted"}]
    /\ fires \in [Schedules -> 0..2]
    /\ overlapped \in BOOLEAN /\ raced \in BOOLEAN

Init == /\ LockInit
        /\ now = 0
        /\ entries = [s \in Sessions |-> [i \in Schedules |-> NoEntry]]
        /\ current = {}
        /\ store = [i \in Schedules |-> "absent"]
        /\ wish = [i \in Schedules |-> "none"]
        /\ fires = [i \in Schedules |-> 0]
        /\ overlapped = FALSE /\ raced = FALSE
-----------------------------------------------------------------------------
(* Entries.  e is the entry of schedule i in some scheduler.               *)

(* Mutated form: a date that has passed counts as well.                    *)
AnyDate(e, i) == i \in Recurring \/ ~e.spent

(* expr.nextFire(new Date()) is not null.  A one-shot tells its date once, *)
(* and not after it; spent says that it was asked.                         *)
HasNext(e, i) == i \in Recurring \/ (~e.spent /\ At[i] > now)

NextFire(i) == IF i \in Once THEN At[i] ELSE now + Period[i]

(* setTimeout: a delay that it cannot keep is taken for none at all.       *)
Timer(t) == [at |-> IF t > now + TimerMax THEN now ELSE t, meant |-> t]

(* clearTimeout of the entry's handle, the timer it was given last.        *)
Cleared(e)  == EntryOf(e.state, e.spent, IF e.timers = <<>> THEN <<>> ELSE Front(e.timers))

(* Mutated form: the entry is marked, not removed.                         *)
DeletedTombstone(e) == EntryOf("deleted", e.spent, Cleared(e).timers)

Deleted(e)  == EntryOf("absent", e.spent, Cleared(e).timers)
Armed(e, i) ==
    IF e.state # "active" THEN e
    ELSE IF HasNext(e, i)
         THEN EntryOf("active", TRUE, Append(e.timers, Timer(NextFire(i))))
         ELSE Deleted(e)

Running(s) == stage[s] = "running"
ArmedIf(running, e, i) == IF running THEN Armed(e, i) ELSE e

(* Mutated form: the timer of a paused schedule goes on.                   *)
PausedOnly(e, i) == EntryOf("paused", e.spent, e.timers)

Paused(e, i)     == EntryOf("paused", e.spent, Cleared(e).timers)
Resumed(s, e, i) == ArmedIf(Running(s), EntryOf("active", e.spent, e.timers), i)

(* The callback of a timer, once it has been taken from the entry.         *)
Fired(e, i) == IF HasNext(e, i) THEN Armed(e, i) ELSE Deleted(e)

SetEntry(s, i, e) == entries' = [entries EXCEPT ![s][i] = e]
(* Mutated form: the user's commands stay in memory.                       *)
PersistNothing(s) == UNCHANGED store
Persist(s) == store' = [i \in Schedules |-> entries'[s][i].state]
-----------------------------------------------------------------------------
(* session_start: in a new process, or again in one that runs.  The        *)
(* scheduler loads the store and looks at the lock.                        *)
SessionStart(s) ==
    /\ pid[s] = 0 /\ \A u \in 1..(s - 1) : pid[u] # 0
    /\ \E p \in {s} \cup {q \in alive : Idle(q)} :
          /\ pid' = [pid EXCEPT ![s] = p]
          /\ alive' = alive \cup {p}
          /\ current' = {u \in current : pid[u] # p} \cup {s}
          /\ raced' = \/ raced
                      \/ \E u \in Sessions : stage[u] = "checked" /\ Live(u) /\ pid[u] # p
    /\ Check(s)
    /\ entries' = [entries EXCEPT ![s] = [i \in Schedules |-> Fresh(store[i])]]
    /\ overlapped' = (overlapped \/ alive # {})
    /\ UNCHANGED <<now, store, wish, fires>>

Acquiring(s) == /\ EmptyLock(s)
                /\ UNCHANGED <<now, entries, current, store, wish, fires, overlapped, raced>>

(* The lock is taken and every schedule armed; one-shots whose date has    *)
(* passed while no session ran are dropped.                                *)
Start(s) ==
    /\ WritePid(s)
    /\ entries' = [entries EXCEPT ![s] = [i \in Schedules |-> Armed(@[i], i)]]
    /\ IF \E i \in Schedules : entries'[s][i].state # entries[s][i].state
       THEN Persist(s)
       ELSE UNCHANGED store
    /\ UNCHANGED <<now, current, wish, fires, overlapped, raced>>

(* The user's commands. *)
Commanded(s) == /\ s \in current /\ Live(s) /\ Idle(pid[s])
                /\ UNCHANGED <<lockVars, now, current, fires, overlapped, raced>>

Register(s, i) ==
    /\ Commanded(s)
    /\ wish[i] = "none"
    /\ SetEntry(s, i, ArmedIf(Running(s), Fresh("active"), i))
    /\ Persist(s)
    /\ wish' = [wish EXCEPT ![i] = "active"]

(* The panel's pause key, which asks the scheduler for the state first.    *)
Pause(s, i) ==
    /\ Commanded(s)
    /\ entries[s][i].state = "active"
    /\ SetEntry(s, i, Paused(entries[s][i], i))
    /\ Persist(s)
    /\ wish' = [wish EXCEPT ![i] = "paused"]

Resume(s, i) ==
    /\ Commanded(s)
    /\ entries[s][i].state = "paused"
    /\ SetEntry(s, i, Resumed(s, entries[s][i], i))
    /\ Persist(s)
    /\ wish' = [wish EXCEPT ![i] = "active"]

Delete(s, i) ==
    /\ Commanded(s)
    /\ entries[s][i].state # "absent"
    /\ SetEntry(s, i, Deleted(entries[s][i]))
    /\ Persist(s)
    /\ wish' = [wish EXCEPT ![i] = "deleted"]
-----------------------------------------------------------------------------
(* A timer that is due, late perhaps.                                      *)
Due(s, i) == {k \in DOMAIN entries[s][i].timers : entries[s][i].timers[k].at <= now}

CountFire(i) == fires' = [fires EXCEPT ![i] = IF @ < 2 THEN @ + 1 ELSE @]

Fire(s, i) ==
    /\ Live(s) /\ Idle(pid[s])
    /\ \E k \in Due(s, i) :
          LET old == entries[s][i]
              e   == EntryOf(old.state, old.spent, RemoveAt(old.timers, k))
          IN  /\ SetEntry(s, i, Fired(e, i))
              /\ IF old.state # "absent" /\ entries'[s][i].state = "absent"
                 THEN Persist(s)
                 ELSE UNCHANGED store
    /\ CountFire(i)
    /\ UNCHANGED <<lockVars, now, current, wish, overlapped, raced>>

Gone(p) == /\ Exit(p)
           /\ entries' = [s \in Sessions |-> IF pid[s] = p THEN [i \in Schedules |-> NoEntry]
                                             ELSE entries[s]]
           /\ current' = {s \in current : pid[s] # p}
           /\ UNCHANGED <<now, store, wish, overlapped, raced>>

(* pi ends or crashes; nobody stops the scheduler or releases the lock.    *)
Quit(p) == Gone(p) /\ UNCHANGED fires

(* pi crashes in onFire, before a one-shot that fired is deleted.          *)
CrashFiring(s, i) ==
    /\ Live(s) /\ Idle(pid[s]) /\ Due(s, i) # {}
    /\ Gone(pid[s])
    /\ CountFire(i)

Tick == /\ now < Horizon
        /\ now' = now + 1
        /\ UNCHANGED <<lockVars, entries, current, store, wish, fires, overlapped, raced>>

Next ==
    \/ \E s \in Sessions :
          \/ SessionStart(s) \/ Acquiring(s) \/ Start(s)
          \/ \E i \in Schedules :
                \/ Register(s, i) \/ Pause(s, i) \/ Resume(s, i) \/ Delete(s, i)
                \/ Fire(s, i) \/ CrashFiring(s, i)
    \/ \E p \in Sessions : Quit(p)
    \/ Tick
    \/ now = Horizon /\ UNCHANGED vars

Spec == Init /\ [][Next]_vars
-----------------------------------------------------------------------------
(* Properties. *)

(* A scheduler that runs has one timer for each active schedule and none   *)
(* for the others: no schedule is silently dead, none fires twice over.    *)
TimersMatchEntries ==
    \A s \in Sessions, i \in Schedules :
        Len(entries[s][i].timers) =
            IF Running(s) /\ entries[s][i].state = "active" THEN 1 ELSE 0

(* A one-shot fires at most once, whatever is restarted in between, while  *)
(* sessions follow one another.                                            *)
OneShotFiresOnce == ~overlapped => \A i \in Once : fires[i] <= 1

(* A schedule fires only if the user's last word on it was to let it, while*)
(* sessions follow one another.                                            *)
FiresObeyTheUser ==
    [][\A s \in Sessions : \A i \in Schedules :
          ~overlapped /\ (Fire(s, i) \/ CrashFiring(s, i)) => wish[i] = "active"]_vars

(* What the user last said of a recurring schedule is on disk, and so      *)
(* outlives the session, while sessions follow one another.                *)
WishesSurvive ==
    ~overlapped => \A i \in Recurring :
        store[i] = IF wish[i] \in {"active", "paused"} THEN wish[i] ELSE "absent"

Firing == {pid[s] : s \in {u \in Sessions : Live(u) /\ Running(u)}}

(* A second process defers to the first, unless both looked at the lock    *)
(* before either of them wrote to it.                                      *)
SecondProcessDefers == ~raced => Cardinality(Firing) <= 1

(* "PID-locked so two open pi sessions on the same project don't           *)
(* double-fire" (src/scheduling/scheduler.ts).                             *)
OneProcessFires == Cardinality(Firing) <= 1
=============================================================================
