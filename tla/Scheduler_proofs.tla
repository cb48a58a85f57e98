--------------------------- MODULE Scheduler_proofs ---------------------------
(***************************************************************************)
(* Theorems about Scheduler and its PID lock, for every number of sessions,*)
(* any schedules and dates, and any horizon.                               *)
(***************************************************************************)
EXTENDS Scheduler, FiniteSetTheorems, SequenceTheorems, TLAPS

-----------------------------------------------------------------------------
(* The operators on an entry. *)

TimerSet == [at : Nat, meant : Nat]

(* An entry has one timer if it is active in a running scheduler, else none.*)
Exact(running, e) == Len(e.timers) = IF running /\ e.state = "active" THEN 1 ELSE 0

LEMMA EntryParts ==
    ASSUME NEW e \in Entry
    PROVE  e.state \in States /\ e.spent \in BOOLEAN /\ e.timers \in Seq(TimerSet)
  BY DEF Entry, TimerSet

LEMMA FreshFacts ==
    ASSUME NEW st \in States
    PROVE  Fresh(st) \in Entry /\ Fresh(st).state = st /\ Fresh(st).timers = <<>>
  BY DEF Fresh, EntryOf, Entry

(* Clearing the handle of an entry that has at most one timer leaves none. *)
LEMMA ClearedFacts ==
    ASSUME NEW e \in Entry, Len(e.timers) <= 1
    PROVE  Cleared(e).timers = <<>>
  <1>1. e.timers \in Seq(TimerSet) /\ e.state \in States /\ e.spent \in BOOLEAN
    BY EntryParts
  <1>2. CASE e.timers = <<>>
    BY <1>1, <1>2 DEF Cleared, EntryOf
  <1>3. CASE e.timers # <<>>
    <2>0. Len(e.timers) \in Nat \ {0}
      BY <1>1, <1>3, EmptySeq
    <2> DEFINE n == Len(e.timers)
    <2>3. n \in Nat \ {0} /\ n <= 1
      BY <2>0
    <2> HIDE DEF n
    <2>4. n = 1
      BY <2>3
    <2>1. Len(e.timers) = 1
      BY <2>4 DEF n
    <2>2. Front(e.timers) = <<>>
      BY <1>1, <2>1 DEF Front
    <2> QED
      BY <1>3, <2>2 DEF Cleared, EntryOf
  <1> QED
    BY <1>2, <1>3

LEMMA DeletedFacts ==
    ASSUME NEW e \in Entry, Len(e.timers) <= 1
    PROVE  /\ Deleted(e) \in Entry
           /\ Deleted(e).state = "absent"
           /\ Deleted(e).timers = <<>>
  <1>1. Deleted(e) = EntryOf("absent", e.spent, <<>>)
    BY ClearedFacts DEF Deleted
  <1> QED
    BY <1>1, EntryParts DEF States, EntryOf, Entry

LEMMA PausedFacts ==
    ASSUME NEW i \in Schedules, NEW e \in Entry, Len(e.timers) <= 1
    PROVE  /\ Paused(e, i) \in Entry
           /\ Paused(e, i).state = "paused"
           /\ Paused(e, i).timers = <<>>
  <1>1. Paused(e, i) = EntryOf("paused", e.spent, <<>>)
    BY ClearedFacts DEF Paused
  <1> QED
    BY <1>1, EntryParts DEF States, EntryOf, Entry

(* Arming an entry that has no timer gives it one if it is active and has  *)
(* a next fire; an active entry without a next fire is deleted.            *)
LEMMA ArmedFacts ==
    ASSUME NEW i \in Schedules, NEW e \in Entry, e.timers = <<>>, now \in Nat
    PROVE  /\ Armed(e, i) \in Entry
           /\ Exact(TRUE, Armed(e, i))
  <1>1. e.timers \in Seq(TimerSet) /\ Len(e.timers) = 0
    BY EntryParts
  <1>2. CASE e.state # "active"
    BY <1>1, <1>2 DEF Armed, Exact
  <1>3. CASE e.state = "active" /\ ~HasNext(e, i)
    <2>1. Armed(e, i) = Deleted(e)
      BY <1>3 DEF Armed
    <2> QED
      BY <1>1, <2>1, DeletedFacts DEF Exact
  <1>4. CASE e.state = "active" /\ HasNext(e, i)
    <2>1. NextFire(i) \in Nat
      BY ScheduleAssumption DEF NextFire, Schedules
    <2>2. Timer(NextFire(i)) \in TimerSet
      BY <2>1, ScheduleAssumption DEF Timer, TimerSet
    <2> DEFINE ts == Append(e.timers, Timer(NextFire(i)))
    <2>3. ts \in Seq(TimerSet) /\ Len(ts) = 1
      BY <1>1, <2>2
    <2>4. Armed(e, i) = EntryOf("active", TRUE, ts)
      BY <1>4 DEF Armed
    <2>5. "active" \in States
      BY DEF States
    <2> HIDE DEF ts
    <2>6. /\ EntryOf("active", TRUE, ts) \in Entry
          /\ EntryOf("active", TRUE, ts).timers = ts
          /\ EntryOf("active", TRUE, ts).state = "active"
      BY <2>3, <2>5 DEF EntryOf, Entry, TimerSet
    <2> QED
      BY <2>3, <2>4, <2>6 DEF Exact
  <1> QED
    BY <1>2, <1>3, <1>4
-----------------------------------------------------------------------------
(* The inductive invariant of the timers, and the steps that keep it. *)

TimerInv == TypeOK /\ TimersMatchEntries

(* Only the entry of one schedule in one scheduler changes, to an exact one.*)
LEMMA OneEntry ==
    ASSUME TimerInv, NEW s \in Sessions, NEW i \in Schedules, NEW e \in Entry,
           SetEntry(s, i, e), Exact(Running(s), e), UNCHANGED stage
    PROVE  /\ entries' \in [Sessions -> [Schedules -> Entry]]
           /\ TimersMatchEntries'
  BY DEF TimerInv, TypeOK, TimersMatchEntries, SetEntry, Exact, Running

(* What persist writes is a map of states.                                 *)
LEMMA PersistTyped ==
    ASSUME entries' \in [Sessions -> [Schedules -> Entry]], NEW s \in Sessions, Persist(s)
    PROVE  store' \in [Schedules -> States]
  BY DEF Persist, Entry

LEMMA EntryIs ==
    ASSUME TimerInv, NEW s \in Sessions, NEW i \in Schedules
    PROVE  /\ entries[s][i] \in Entry
           /\ Len(entries[s][i].timers) <= 1
           /\ Running(s) /\ entries[s][i].state = "active" => Len(entries[s][i].timers) = 1
           /\ ~(Running(s) /\ entries[s][i].state = "active") => entries[s][i].timers = <<>>
  <1>1. entries[s][i] \in Entry
    BY DEF TimerInv, TypeOK
  <1>2. Len(entries[s][i].timers) =
            IF Running(s) /\ entries[s][i].state = "active" THEN 1 ELSE 0
    BY DEF TimerInv, TimersMatchEntries
  <1>3. entries[s][i].timers \in Seq(TimerSet)
    BY <1>1, EntryParts
  <1>4. Len(entries[s][i].timers) = 0 => entries[s][i].timers = <<>>
    BY <1>3, EmptySeq
  <1> QED
    BY <1>1, <1>2, <1>4

(* The initial state. *)
LEMMA TimerInit == Init => TimerInv
  <1> SUFFICES ASSUME Init PROVE TimerInv
    OBVIOUS
  <1>1. NoEntry \in Entry /\ NoEntry.state = "absent" /\ Len(NoEntry.timers) = 0
    BY DEF NoEntry, EntryOf, Entry, States
  <1>2. entries \in [Sessions -> [Schedules -> Entry]] /\ TimersMatchEntries
    BY <1>1 DEF Init, TimersMatchEntries
  <1>3. LockTypeOK
    BY SessionsAssumption DEF Init, LockInit, LockTypeOK, Sessions
  <1>4. now \in 0..Horizon
    BY ScheduleAssumption DEF Init
  <1>6. overlapped \in BOOLEAN /\ raced \in BOOLEAN
    BY DEF Init
  <1>5. /\ store \in [Schedules -> States]
        /\ wish \in [Schedules -> {"none", "active", "paused", "deleted"}]
        /\ fires \in [Schedules -> 0..2]
        /\ current \subseteq Sessions
    BY DEF Init, States
  <1> QED
    BY <1>2, <1>3, <1>4, <1>5, <1>6 DEF TimerInv, TypeOK

(* A session starts: its scheduler holds what the store holds, unarmed.    *)
LEMMA TimerSessionStart ==
    ASSUME TimerInv, NEW s \in Sessions, SessionStart(s)
    PROVE  TimerInv'
  <1>1. PICK p \in {s} \cup alive : /\ pid' = [pid EXCEPT ![s] = p]
                                  /\ alive' = alive \cup {p}
                                  /\ current' = {u \in current : pid[u] # p} \cup {s}
    BY DEF SessionStart
  <1>2. /\ stage' \in [Sessions -> {"none", "checked", "emptied", "running", "refused"}]
        /\ stage'[s] # "running"
        /\ \A u \in Sessions : u # s => stage'[u] = stage[u]
    BY DEF TimerInv, TypeOK, LockTypeOK, SessionStart, Check
  <1>3. p \in Sessions /\ p \in 0..MaxSessions
    BY <1>1, SessionsAssumption DEF TimerInv, TypeOK, LockTypeOK, Sessions
  <1>4. LockTypeOK'
    BY <1>1, <1>2, <1>3 DEF TimerInv, TypeOK, LockTypeOK, SessionStart, Check
  <1> DEFINE new == [i \in Schedules |-> Fresh(store[i])]
  <1>5. \A i \in Schedules : store[i] \in States
    BY DEF TimerInv, TypeOK
  <1>6. /\ new \in [Schedules -> Entry]
        /\ \A i \in Schedules : new[i].timers = <<>>
    BY <1>5, FreshFacts
  <1>7. entries' = [entries EXCEPT ![s] = new]
    BY DEF SessionStart
  <1> HIDE DEF new
  <1>8. entries' \in [Sessions -> [Schedules -> Entry]]
    BY <1>6, <1>7 DEF TimerInv, TypeOK
  <1>9. TimersMatchEntries'
    BY <1>2, <1>6, <1>7 DEF TimerInv, TypeOK, TimersMatchEntries, Running
  <1>10. overlapped' \in BOOLEAN /\ raced' \in BOOLEAN
    BY DEF SessionStart, TimerInv, TypeOK
  <1>11. current' \subseteq Sessions
    BY <1>1 DEF TimerInv, TypeOK
  <1> QED
    BY <1>4, <1>8, <1>9, <1>10, <1>11 DEF TimerInv, TypeOK, SessionStart

(* The lock is taken: every loaded entry is armed or deleted.              *)
LEMMA TimerStart ==
    ASSUME TimerInv, NEW s \in Sessions, Start(s)
    PROVE  TimerInv'
  <1>1. /\ stage[s] = "emptied"
        /\ stage' = [stage EXCEPT ![s] = "running"]
        /\ lockFile' = pid[s]
        /\ UNCHANGED <<pid, alive>> /\ pid[s] \in alive
    BY DEF Start, WritePid, Live
  <1> DEFINE new == [i \in Schedules |-> Armed(entries[s][i], i)]
  <1>2. entries' = [entries EXCEPT ![s] = new]
    BY DEF Start
  <1>3. now \in Nat
    BY ScheduleAssumption DEF TimerInv, TypeOK
  <1>4. \A i \in Schedules : entries[s][i] \in Entry /\ entries[s][i].timers = <<>>
    BY <1>1, EntryIs DEF Running
  <1>5. \A i \in Schedules : new[i] \in Entry /\ Exact(TRUE, new[i])
    BY <1>3, <1>4, ArmedFacts
  <1>6. new \in [Schedules -> Entry]
    BY <1>5
  <1> HIDE DEF new
  <1>7. entries' \in [Sessions -> [Schedules -> Entry]]
    BY <1>2, <1>6 DEF TimerInv, TypeOK
  <1>8. TimersMatchEntries'
    BY <1>1, <1>2, <1>5 DEF TimerInv, TypeOK, LockTypeOK, TimersMatchEntries, Exact, Running
  <1>9. store' \in [Schedules -> States]
    BY <1>7, PersistTyped DEF Start, TimerInv, TypeOK
  <1>10. LockTypeOK'
    BY <1>1 DEF TimerInv, TypeOK, LockTypeOK
  <1> QED
    BY <1>7, <1>8, <1>9, <1>10 DEF TimerInv, TypeOK, Start

(* A command of the user: one entry changes, to an exact one, and the      *)
(* store is written.                                                       *)
LEMMA TimerCommand ==
    ASSUME TimerInv, NEW s \in Sessions, NEW i \in Schedules, NEW e \in Entry,
           NEW w \in {"active", "paused", "deleted"},
           Commanded(s), SetEntry(s, i, e), Exact(Running(s), e), Persist(s),
           wish' = [wish EXCEPT ![i] = w]
    PROVE  TimerInv'
  <1>1. UNCHANGED <<lockVars, now, current, fires, overlapped, raced>>
    BY DEF Commanded
  <1>2. /\ entries' \in [Sessions -> [Schedules -> Entry]]
        /\ TimersMatchEntries'
    BY <1>1, OneEntry DEF lockVars
  <1>3. store' \in [Schedules -> States]
    BY <1>2, PersistTyped
  <1>4. LockTypeOK'
    BY <1>1 DEF TimerInv, TypeOK, LockTypeOK, lockVars
  <1>5. wish' \in [Schedules -> {"none", "active", "paused", "deleted"}]
    BY DEF TimerInv, TypeOK
  <1> QED
    BY <1>1, <1>2, <1>3, <1>4, <1>5 DEF TimerInv, TypeOK

LEMMA ArmedIfFacts ==
    ASSUME NEW i \in Schedules, NEW e \in Entry, e.timers = <<>>, now \in Nat, NEW s \in Sessions
    PROVE  /\ ArmedIf(Running(s), e, i) \in Entry
           /\ Exact(Running(s), ArmedIf(Running(s), e, i))
  <1>1. CASE Running(s)
    BY <1>1, ArmedFacts DEF ArmedIf, Exact
  <1>2. CASE ~Running(s)
    <2>1. Len(e.timers) = 0
      BY EmptySeq
    <2> QED
      BY <1>2, <2>1 DEF ArmedIf, Exact
  <1> QED
    BY <1>1, <1>2

LEMMA TimerRegister ==
    ASSUME TimerInv, NEW s \in Sessions, NEW i \in Schedules, Register(s, i)
    PROVE  TimerInv'
  <1>1. now \in Nat
    BY ScheduleAssumption DEF TimerInv, TypeOK
  <1>2. Fresh("active") \in Entry /\ Fresh("active").timers = <<>>
    BY FreshFacts DEF States
  <1> QED
    BY <1>1, <1>2, ArmedIfFacts, TimerCommand DEF Register

LEMMA TimerPause ==
    ASSUME TimerInv, NEW s \in Sessions, NEW i \in Schedules, Pause(s, i)
    PROVE  TimerInv'
  <1> DEFINE e == Paused(entries[s][i], i)
  <1>1. e \in Entry /\ e.state = "paused" /\ e.timers = <<>>
    BY EntryIs, PausedFacts
  <1>2. Exact(Running(s), e)
    BY <1>1, EmptySeq DEF Exact
  <1> QED
    BY <1>1, <1>2, TimerCommand DEF Pause

LEMMA TimerResume ==
    ASSUME TimerInv, NEW s \in Sessions, NEW i \in Schedules, Resume(s, i)
    PROVE  TimerInv'
  <1> DEFINE old == entries[s][i]
             e   == EntryOf("active", old.spent, old.timers)
  <1>1. old \in Entry /\ old.timers = <<>>
    BY EntryIs DEF Resume
  <1>2. e \in Entry /\ e.timers = <<>>
    BY <1>1, EntryParts DEF EntryOf, Entry, States
  <1>3. now \in Nat
    BY ScheduleAssumption DEF TimerInv, TypeOK
  <1> HIDE DEF e
  <1>4. /\ ArmedIf(Running(s), e, i) \in Entry
        /\ Exact(Running(s), ArmedIf(Running(s), e, i))
    BY <1>2, <1>3, ArmedIfFacts
  <1>5. Resumed(s, old, i) = ArmedIf(Running(s), e, i)
    BY DEF Resumed, e
  <1> QED
    BY <1>4, <1>5, TimerCommand DEF Resume

LEMMA TimerDelete ==
    ASSUME TimerInv, NEW s \in Sessions, NEW i \in Schedules, Delete(s, i)
    PROVE  TimerInv'
  <1> DEFINE e == Deleted(entries[s][i])
  <1>1. e \in Entry /\ e.state = "absent" /\ e.timers = <<>>
    BY EntryIs, DeletedFacts
  <1>2. Exact(Running(s), e)
    BY <1>1, EmptySeq DEF Exact
  <1> QED
    BY <1>1, <1>2, TimerCommand DEF Delete

(* A timer fires: it was the only one of its entry, which is armed anew or *)
(* deleted.                                                                *)
LEMMA TimerFire ==
    ASSUME TimerInv, NEW s \in Sessions, NEW i \in Schedules, Fire(s, i)
    PROVE  TimerInv'
  <1> DEFINE old == entries[s][i]
  <1>1. PICK k \in Due(s, i) :
            LET e == EntryOf(old.state, old.spent, RemoveAt(old.timers, k))
            IN  /\ SetEntry(s, i, Fired(e, i))
                /\ IF old.state # "absent" /\ entries'[s][i].state = "absent"
                   THEN Persist(s)
                   ELSE UNCHANGED store
    BY DEF Fire
  <1>2. old \in Entry /\ old.timers \in Seq(TimerSet) /\ Len(old.timers) <= 1
    BY EntryIs, EntryParts
  <1>3. k \in 1..Len(old.timers)
    BY <1>2 DEF Due
  <1>4. Len(old.timers) = 1 /\ k = 1
    <2> DEFINE n == Len(old.timers)
    <2>1. n \in Nat /\ n <= 1 /\ k \in 1..n
      BY <1>2, <1>3
    <2> HIDE DEF n
    <2>2. n = 1 /\ k = 1
      BY <2>1
    <2> QED
      BY <2>2 DEF n
  <1>5. Running(s) /\ old.state = "active"
    <2>1. old.timers # <<>>
      <3> DEFINE ts == old.timers
      <3>1. ts \in Seq(TimerSet) /\ Len(ts) = 1
        BY <1>2, <1>4
      <3> HIDE DEF ts
      <3>2. ts # <<>>
        BY <3>1, EmptySeq
      <3> QED
        BY <3>2 DEF ts
    <2> QED
      BY <2>1, EntryIs
  <1>6. RemoveAt(old.timers, k) = <<>>
    <2> DEFINE ts == old.timers
    <2>1. ts \in Seq(TimerSet) /\ Len(ts) = 1
      BY <1>2, <1>4
    <2> HIDE DEF ts
    <2>2. SubSeq(ts, 1, 0) = <<>> /\ SubSeq(ts, 2, 1) = <<>>
      BY <2>1
    <2>3. RemoveAt(ts, 1) = SubSeq(ts, 1, 0) \o SubSeq(ts, 2, 1)
      BY <2>1 DEF RemoveAt
    <2>4. RemoveAt(ts, 1) = <<>>
      BY <2>2, <2>3
    <2> QED
      BY <1>4, <2>4 DEF ts
  <1> DEFINE e == EntryOf(old.state, old.spent, <<>>)
  <1>7. e \in Entry /\ e.timers = <<>> /\ Len(e.timers) = 0
    BY <1>2, EntryParts DEF EntryOf, Entry
  <1>8. SetEntry(s, i, Fired(e, i))
    BY <1>1, <1>6
  <1>9. now \in Nat
    BY ScheduleAssumption DEF TimerInv, TypeOK
  <1> HIDE DEF e
  <1>10. Fired(e, i) \in Entry /\ Exact(Running(s), Fired(e, i))
    <2>1. Armed(e, i) \in Entry /\ Exact(TRUE, Armed(e, i))
      BY <1>7, <1>9, ArmedFacts
    <2>2. /\ Deleted(e) \in Entry
          /\ Deleted(e).state = "absent"
          /\ Len(Deleted(e).timers) = 0
      BY <1>7, DeletedFacts, EmptySeq
    <2> QED
      BY <1>5, <2>1, <2>2 DEF Fired, Exact
  <1>11. UNCHANGED <<lockVars, now, current, wish, overlapped, raced>>
    BY DEF Fire
  <1>12. /\ entries' \in [Sessions -> [Schedules -> Entry]]
         /\ TimersMatchEntries'
    BY <1>8, <1>10, <1>11, OneEntry DEF lockVars
  <1>13. store' \in [Schedules -> States]
    BY <1>1, <1>12, PersistTyped DEF TimerInv, TypeOK
  <1>14. LockTypeOK'
    BY <1>11 DEF TimerInv, TypeOK, LockTypeOK, lockVars
  <1>15. fires' \in [Schedules -> 0..2]
    BY DEF Fire, CountFire, TimerInv, TypeOK
  <1> QED
    BY <1>11, <1>12, <1>13, <1>14, <1>15 DEF TimerInv, TypeOK

LEMMA TimerAcquiring ==
    ASSUME TimerInv, NEW s \in Sessions, Acquiring(s)
    PROVE  TimerInv'
  <1>1. /\ stage[s] = "checked"
        /\ stage' = [stage EXCEPT ![s] = "emptied"]
        /\ lockFile' = EmptyFile
        /\ UNCHANGED <<pid, alive>>
        /\ UNCHANGED <<now, entries, current, store, wish, fires, overlapped, raced>>
    BY DEF Acquiring, EmptyLock
  <1>2. \A u \in Sessions : Running(u)' <=> Running(u)
    BY <1>1 DEF TimerInv, TypeOK, LockTypeOK, Running
  <1>3. TimersMatchEntries'
    BY <1>1, <1>2 DEF TimerInv, TimersMatchEntries
  <1>4. LockTypeOK'
    BY <1>1 DEF TimerInv, TypeOK, LockTypeOK
  <1> QED
    BY <1>1, <1>3, <1>4 DEF TimerInv, TypeOK

(* A process ends: the timers of its sessions are gone with it.            *)
LEMMA TimerGone ==
    ASSUME TimerInv, NEW p \in Sessions, Gone(p),
           fires' \in [Schedules -> 0..2]
    PROVE  TimerInv'
  <1>1. /\ alive' = alive \ {p}
        /\ UNCHANGED <<lockFile, pid, stage>>
        /\ UNCHANGED <<now, store, wish, overlapped, raced>>
        /\ current' = {s \in current : pid[s] # p}
    BY DEF Gone, Exit
  <1> DEFINE gone == [i \in Schedules |-> NoEntry]
  <1>2. entries' = [s \in Sessions |-> IF pid[s] = p THEN gone ELSE entries[s]]
    BY DEF Gone
  <1>3. /\ NoEntry \in Entry
        /\ NoEntry.state = "absent" /\ Len(NoEntry.timers) = 0
    BY DEF NoEntry, EntryOf, Entry, States
  <1>4. gone \in [Schedules -> Entry] /\ \A i \in Schedules : gone[i] = NoEntry
    BY <1>3
  <1> HIDE DEF gone
  <1>5. entries' \in [Sessions -> [Schedules -> Entry]]
    BY <1>2, <1>4 DEF TimerInv, TypeOK
  <1>6. TimersMatchEntries'
    BY <1>1, <1>2, <1>3, <1>4 DEF TimerInv, TimersMatchEntries, Running
  <1>7. LockTypeOK'
    BY <1>1 DEF TimerInv, TypeOK, LockTypeOK
  <1> QED
    BY <1>1, <1>5, <1>6, <1>7 DEF TimerInv, TypeOK

LEMMA TimerQuit ==
    ASSUME TimerInv, NEW p \in Sessions, Quit(p)
    PROVE  TimerInv'
  BY TimerGone DEF Quit, TimerInv, TypeOK

LEMMA TimerCrashFiring ==
    ASSUME TimerInv, NEW s \in Sessions, NEW i \in Schedules, CrashFiring(s, i)
    PROVE  TimerInv'
  <1>1. fires' \in [Schedules -> 0..2]
    BY DEF CrashFiring, CountFire, TimerInv, TypeOK
  <1>2. pid[s] \in Sessions
    BY DEF CrashFiring, Live, TimerInv, TypeOK, LockTypeOK
  <1> QED
    BY <1>1, <1>2, TimerGone DEF CrashFiring

LEMMA TimerTick ==
    ASSUME TimerInv, Tick
    PROVE  TimerInv'
  <1>1. now' \in 0..Horizon
    BY ScheduleAssumption DEF Tick, TimerInv, TypeOK
  <1>2. TimersMatchEntries'
    BY DEF Tick, lockVars, TimerInv, TimersMatchEntries, Running
  <1>3. LockTypeOK'
    BY DEF Tick, lockVars, TimerInv, TypeOK, LockTypeOK
  <1> QED
    BY <1>1, <1>2, <1>3 DEF Tick, TimerInv, TypeOK

LEMMA TimerStutter ==
    ASSUME TimerInv, UNCHANGED vars
    PROVE  TimerInv'
  BY DEF vars, lockVars, TimerInv, TypeOK, LockTypeOK, TimersMatchEntries, Running

LEMMA TimerNext == TimerInv /\ [Next]_vars => TimerInv'
  BY TimerSessionStart, TimerAcquiring, TimerStart, TimerRegister, TimerPause, TimerResume,
     TimerDelete, TimerFire, TimerCrashFiring, TimerQuit, TimerTick, TimerStutter
  DEF Next

(* The types hold in every reachable state: among them, that an entry never*)
(* leaves the three states and that every timer belongs to a date.         *)
THEOREM TypeCorrect == Spec => []TypeOK
  <1>1. TimerInv => TypeOK
    BY DEF TimerInv
  <1> QED
    BY <1>1, TimerInit, TimerNext, PTL DEF Spec

(* In a scheduler that runs every active schedule has exactly one timer,   *)
(* and no other schedule has any: pause, resume, delete and the re-arming  *)
(* of scheduler.ts never lose a timer and never set a second.              *)
THEOREM TimersMatchHolds == Spec => []TimersMatchEntries
  <1>1. TimerInv => TimersMatchEntries
    BY DEF TimerInv
  <1> QED
    BY <1>1, TimerInit, TimerNext, PTL DEF Spec
-----------------------------------------------------------------------------
(* The lock.  Its invariant speaks of the stages of live sessions, also of *)
(* those that have looked at the file and not yet written to it.           *)

Contends(s) == Live(s) /\ stage[s] \in {"checked", "emptied", "running"}
Mid(s)      == stage[s] \in {"checked", "emptied"}

(* All that contend for the lock belong to one process; once one of them   *)
(* has written, the file shows it.                                         *)
OneContender ==
    /\ \A s, u \in Sessions : Contends(s) /\ Contends(u) => pid[s] = pid[u]
    /\ \A s \in Sessions :
          /\ Live(s) /\ stage[s] = "running" => lockFile \in {pid[s], EmptyFile}
          /\ Live(s) /\ stage[s] = "emptied" => lockFile = EmptyFile

(* A number that no session has taken is no process yet; a session that has*)
(* not started has no stage.                                               *)
PidsFresh ==
    /\ 0 \notin alive
    /\ \A p \in Sessions : pid[p] = 0 => p \notin alive /\ \A u \in Sessions : pid[u] # p
    /\ \A s \in Sessions : pid[s] = 0 => stage[s] = "none"

(* A process is in one session_start at a time.                            *)
OneAtATime ==
    \A s, u \in Sessions : s # u /\ Live(s) /\ pid[s] = pid[u] => ~(Mid(s) /\ Mid(u))

LockInv == /\ TypeOK /\ PidsFresh /\ OneAtATime
           /\ ~raced => OneContender

LEMMA LockInitial == Init => LockInv
  <1> SUFFICES ASSUME Init PROVE LockInv
    OBVIOUS
  <1>1. TypeOK
    BY TimerInit DEF TimerInv
  <1>2. alive = {} /\ \A s \in Sessions : pid[s] = 0 /\ stage[s] = "none"
    BY DEF Init, LockInit
  <1>3. 0 \notin Sessions
    BY DEF Sessions
  <1> QED
    BY <1>1, <1>2, <1>3 DEF LockInv, PidsFresh, OneAtATime, OneContender, Contends, Live

(* Nothing but a session_start and the end of a process touches the lock.  *)
LEMMA LockUntouched ==
    ASSUME LockInv, TypeOK', UNCHANGED <<lockVars, raced>>
    PROVE  LockInv'
  BY DEF LockInv, lockVars, PidsFresh, OneAtATime, OneContender, Contends, Live, Mid

(* A session starts.  It goes on only if the file names no other live      *)
(* process and is not empty: then, unless two race, whoever contends       *)
(* already is of the same process.                                         *)
LEMMA LockSessionStart ==
    ASSUME LockInv, TypeOK', NEW s \in Sessions, SessionStart(s)
    PROVE  LockInv'
  <1>1. PICK p \in {s} \cup {q \in alive : Idle(q)} :
            /\ pid' = [pid EXCEPT ![s] = p]
            /\ alive' = alive \cup {p}
            /\ raced' = \/ raced
                        \/ \E u \in Sessions : stage[u] = "checked" /\ Live(u) /\ pid[u] # p
    BY DEF SessionStart
  <1>2. /\ pid[s] = 0 /\ lockFile' = lockFile
        /\ stage' = [stage EXCEPT ![s] = IF HeldByAnother(p) THEN "refused" ELSE "checked"]
    <2>1. pid'[s] = p
      BY <1>1 DEF LockInv, TypeOK, LockTypeOK
    <2>2. HeldByAnother(pid'[s]) <=> HeldByAnother(p)
      BY <2>1
    <2> QED
      BY <2>1, <2>2 DEF SessionStart, Check
  <1>3. /\ alive \subseteq Sessions /\ p \in Sessions /\ p # 0
        /\ pid \in [Sessions -> 0..MaxSessions]
        /\ stage \in [Sessions -> {"none", "checked", "emptied", "running", "refused"}]
    BY <1>1 DEF LockInv, TypeOK, LockTypeOK, Sessions
  <1>4. /\ 0 \notin alive /\ s \notin alive
        /\ \A u \in Sessions : pid[u] # s
    BY <1>2, <1>3 DEF LockInv, PidsFresh
  <1>5. /\ pid'[s] = p /\ stage'[s] \in {"refused", "checked"}
        /\ \A u \in Sessions \ {s} : pid'[u] = pid[u] /\ stage'[u] = stage[u]
    BY <1>1, <1>2, <1>3
  (* The liveness of the earlier sessions is untouched. *)
  <1>6. \A u \in Sessions \ {s} : Live(u)' <=> Live(u)
    BY <1>1, <1>4, <1>5 DEF Live
  <1>7. PidsFresh'
    BY <1>1, <1>3, <1>4, <1>5 DEF LockInv, PidsFresh
  <1>8. OneAtATime'
    <2>1. \A u \in Sessions \ {s} : pid[u] = p => ~Mid(u)
      BY <1>1, <1>4 DEF Idle, Mid
    <2>2. ASSUME NEW a \in Sessions, NEW b \in Sessions, a # b, Live(a)', pid'[a] = pid'[b]
          PROVE  ~(Mid(a)' /\ Mid(b)')
      <3>1. CASE a = s
        BY <1>5, <2>1, <2>2, <3>1 DEF Mid
      <3>2. CASE b = s
        BY <1>5, <2>1, <2>2, <3>2 DEF Mid
      <3>3. CASE a # s /\ b # s
        BY <1>5, <1>6, <2>2, <3>3 DEF LockInv, OneAtATime, Mid
      <3> QED
        BY <3>1, <3>2, <3>3
    <2> QED
      BY <2>2 DEF OneAtATime
  <1>9. ASSUME ~raced' PROVE OneContender'
    <2>1. /\ ~raced /\ OneContender
          /\ \A u \in Sessions : stage[u] = "checked" /\ Live(u) => pid[u] = p
      BY <1>1, <1>9 DEF LockInv
    <2>2. ASSUME stage'[s] = "checked", NEW u \in Sessions \ {s}, Contends(u)
          PROVE  pid[u] = p
      <3>1. lockFile # EmptyFile /\ lockFile \notin alive \ {p}
        BY <1>2, <1>3, <2>2 DEF HeldByAnother
      <3> QED
        BY <2>1, <2>2, <3>1 DEF Contends, OneContender, Live
    <2>3. \A u \in Sessions \ {s} : Contends(u)' <=> Contends(u)
      BY <1>5, <1>6 DEF Contends
    <2>4. \A a, b \in Sessions : Contends(a)' /\ Contends(b)' => pid'[a] = pid'[b]
      BY <1>5, <2>1, <2>2, <2>3 DEF Contends, OneContender
    <2> QED
      BY <1>2, <1>5, <1>6, <2>1, <2>4 DEF OneContender
  <1> QED
    BY <1>7, <1>8, <1>9 DEF LockInv

(* The two writes of the lock. *)
LEMMA LockEmpty ==
    ASSUME LockInv, TypeOK', NEW s \in Sessions, EmptyLock(s), UNCHANGED raced
    PROVE  LockInv'
  <1>1. /\ Live(s) /\ stage[s] = "checked" /\ lockFile' = EmptyFile
        /\ UNCHANGED <<pid, alive>>
        /\ stage'[s] = "emptied" /\ \A u \in Sessions \ {s} : stage'[u] = stage[u]
    BY DEF EmptyLock, LockInv, TypeOK, LockTypeOK
  <1>2. \A u \in Sessions : (Mid(u)' <=> Mid(u)) /\ (Live(u)' <=> Live(u))
                            /\ (Contends(u)' <=> Contends(u))
    BY <1>1 DEF Mid, Live, Contends
  <1>3. PidsFresh'
    BY <1>1 DEF LockInv, PidsFresh
  <1>4. OneAtATime'
    BY <1>1, <1>2 DEF LockInv, OneAtATime
  <1>5. ASSUME ~raced' PROVE OneContender'
    BY <1>1, <1>2, <1>5 DEF LockInv, OneContender
  <1> QED
    BY <1>3, <1>4, <1>5 DEF LockInv

LEMMA LockWrite ==
    ASSUME LockInv, TypeOK', NEW s \in Sessions, WritePid(s), UNCHANGED raced
    PROVE  LockInv'
  <1>1. /\ Live(s) /\ stage[s] = "emptied" /\ lockFile' = pid[s]
        /\ UNCHANGED <<pid, alive>>
        /\ stage'[s] = "running" /\ \A u \in Sessions \ {s} : stage'[u] = stage[u]
    BY DEF WritePid, LockInv, TypeOK, LockTypeOK
  <1>2. \A u \in Sessions : (Mid(u)' => Mid(u)) /\ (Live(u)' <=> Live(u))
                            /\ (Contends(u)' <=> Contends(u))
    BY <1>1 DEF Mid, Live, Contends
  <1>3. PidsFresh'
    <2>1. pid[s] # 0
      BY <1>1 DEF LockInv, PidsFresh
    <2> QED
      BY <1>1, <2>1 DEF LockInv, PidsFresh, Live
  <1>4. OneAtATime'
    BY <1>1, <1>2 DEF LockInv, OneAtATime
  <1>5. ASSUME ~raced' PROVE OneContender'
    <2>1. OneContender /\ Contends(s)
      BY <1>1, <1>5 DEF LockInv, Contends
    <2>2. \A u \in Sessions : Contends(u) => pid[u] = pid[s]
      BY <2>1 DEF OneContender
    <2>3. \A u \in Sessions \ {s} : ~(Live(u) /\ stage[u] = "emptied")
      BY <1>1, <2>2 DEF LockInv, OneAtATime, Contends, Mid
    <2>4. \A u \in Sessions : Live(u)' /\ stage'[u] = "running" => lockFile' = pid'[u]
      BY <1>1, <1>2, <2>2 DEF Contends
    <2>5. \A u \in Sessions : ~(Live(u)' /\ stage'[u] = "emptied")
      BY <1>1, <1>2, <2>3
    <2>6. \A a, b \in Sessions : Contends(a)' /\ Contends(b)' => pid'[a] = pid'[b]
      BY <1>1, <1>2, <2>1 DEF OneContender
    <2> QED
      BY <2>4, <2>5, <2>6 DEF OneContender
  <1> QED
    BY <1>3, <1>4, <1>5 DEF LockInv

LEMMA LockExit ==
    ASSUME LockInv, TypeOK', NEW p, Exit(p), UNCHANGED raced
    PROVE  LockInv'
  <1>1. alive' \subseteq alive /\ UNCHANGED <<lockFile, pid, stage>>
    BY DEF Exit
  <1>2. \A u \in Sessions : /\ Live(u)' => Live(u)
                            /\ Contends(u)' => Contends(u)
                            /\ Mid(u)' <=> Mid(u)
    BY <1>1 DEF Live, Contends, Mid
  <1>3. PidsFresh' /\ OneAtATime'
    BY <1>1, <1>2 DEF LockInv, PidsFresh, OneAtATime
  <1>4. ASSUME ~raced' PROVE OneContender'
    BY <1>1, <1>2, <1>4 DEF LockInv, OneContender
  <1> QED
    BY <1>3, <1>4 DEF LockInv

LEMMA LockNext == LockInv /\ TypeOK' /\ [Next]_vars => LockInv'
  <1> SUFFICES ASSUME LockInv, TypeOK', [Next]_vars PROVE LockInv'
    OBVIOUS
  <1>1. ASSUME NEW s \in Sessions, SessionStart(s) PROVE LockInv'
    BY <1>1, LockSessionStart
  <1>2. ASSUME NEW s \in Sessions, Acquiring(s) PROVE LockInv'
    BY <1>2, LockEmpty DEF Acquiring
  <1>3. ASSUME NEW s \in Sessions, Start(s) PROVE LockInv'
    BY <1>3, LockWrite DEF Start
  <1>4. ASSUME NEW s \in Sessions, NEW i \in Schedules,
               Register(s, i) \/ Pause(s, i) \/ Resume(s, i) \/ Delete(s, i)
        PROVE  LockInv'
    BY <1>4, LockUntouched DEF Register, Pause, Resume, Delete, Commanded
  <1>5. ASSUME NEW s \in Sessions, NEW i \in Schedules, Fire(s, i) PROVE LockInv'
    BY <1>5, LockUntouched DEF Fire
  <1>6. ASSUME NEW s \in Sessions, NEW i \in Schedules, CrashFiring(s, i) PROVE LockInv'
    BY <1>6, LockExit DEF CrashFiring, Gone
  <1>7. ASSUME NEW p \in Sessions, Quit(p) PROVE LockInv'
    BY <1>7, LockExit DEF Quit, Gone
  <1>8. ASSUME Tick PROVE LockInv'
    BY <1>8, LockUntouched DEF Tick
  <1>9. ASSUME UNCHANGED vars PROVE LockInv'
    BY <1>9, LockUntouched DEF vars
  <1> QED
    BY <1>1, <1>2, <1>3, <1>4, <1>5, <1>6, <1>7, <1>8, <1>9 DEF Next

(* All live sessions that run belong to one process: Firing has at most one*)
(* member.                                                                 *)
LEMMA OneFiring == LockInv => SecondProcessDefers
  <1> SUFFICES ASSUME LockInv, ~raced PROVE Cardinality(Firing) <= 1
    BY DEF SecondProcessDefers
  <1>1. \A p, q \in Firing : p = q
    BY DEF Firing, LockInv, OneContender, Contends, Running
  <1>2. CASE Firing = {}
    BY <1>2, FS_EmptySet
  <1>3. CASE Firing # {}
    <2>1. PICK p \in Firing : TRUE
      BY <1>3
    <2>2. Firing = {p}
      BY <1>1, <2>1
    <2>3. Cardinality({p}) = 1
      BY FS_Singleton
    <2> QED
      BY <2>2, <2>3
  <1> QED
    BY <1>2, <1>3

(* The PID lock: unless two processes are between look and write at once,  *)
(* the sessions that fire schedules are all of one process, however many   *)
(* sessions start, are refused, crash or restart.                          *)
THEOREM SecondProcessDefersHolds == Spec => []SecondProcessDefers
  BY LockInitial, LockNext, OneFiring, TypeCorrect, PTL DEF Spec
-----------------------------------------------------------------------------
(* The user's wishes.  A session that has ended holds no entry; while      *)
(* sessions follow one another the one that lives shows what the store     *)
(* says, and the store says what the user said: of a one-shot it may say   *)
(* nothing, since its date can have passed.                                *)

NoneAfterEnd == \A s \in Sessions : ~Live(s) => \A i \in Schedules : entries[s][i] = NoEntry

OneLives == \A s, u \in Sessions : Live(s) /\ Live(u) => s = u

StoreShows == \A s \in Sessions : Live(s) => \A i \in Schedules : store[i] = entries[s][i].state

(* st is what the store may say of schedule i when the user last said w.   *)
Obeys(i, st, w) == /\ st # "absent" => w = st
                   /\ i \in Recurring /\ w \in {"active", "paused"} => st = w

StoreObeys == \A i \in Schedules : Obeys(i, store[i], wish[i])

Follow  == OneLives /\ StoreShows /\ StoreObeys
WishInv == NoneAfterEnd /\ (~overlapped => Follow)

(* How the operators on an entry move its state. *)
LEMMA ArmedState ==
    ASSUME NEW i \in Schedules, NEW e
    PROVE  /\ e.state # "active" => Armed(e, i).state = e.state
           /\ Armed(e, i).state \in {e.state, "absent"}
           /\ i \in Recurring => Armed(e, i).state = e.state
  <1>1. CASE e.state # "active"
    BY <1>1 DEF Armed
  <1>2. CASE e.state = "active" /\ HasNext(e, i)
    BY <1>2 DEF Armed, EntryOf
  <1>3. CASE e.state = "active" /\ ~HasNext(e, i)
    BY <1>3 DEF Armed, Deleted, EntryOf, HasNext
  <1> QED
    BY <1>1, <1>2, <1>3

LEMMA ArmedIfState ==
    ASSUME NEW i \in Schedules, NEW e, NEW running
    PROVE  /\ ArmedIf(running, e, i).state \in {e.state, "absent"}
           /\ i \in Recurring => ArmedIf(running, e, i).state = e.state
  BY ArmedState DEF ArmedIf

(* A timer belongs to an active entry of a running scheduler.              *)
LEMMA DueIsActive ==
    ASSUME TimerInv, NEW s \in Sessions, NEW i \in Schedules, NEW k \in Due(s, i)
    PROVE  Running(s) /\ entries[s][i].state = "active"
  <1>1. entries[s][i].timers \in Seq(TimerSet)
    BY EntryIs, EntryParts
  <1>2. k \in 1..Len(entries[s][i].timers)
    BY <1>1 DEF Due
  <1>3. entries[s][i].timers # <<>>
    <2> SUFFICES ASSUME entries[s][i].timers = <<>> PROVE FALSE
      OBVIOUS
    <2>1. Len(entries[s][i].timers) = 0
      OBVIOUS
    <2> QED
      BY <1>2, <2>1
  <1> QED
    BY <1>3, EntryIs

(* A live session writes one entry, and the store with it, to what the     *)
(* user wants.                                                             *)
LEMMA WishWritten ==
    ASSUME TimerInv, WishInv, NEW s \in Sessions, NEW i \in Schedules, NEW e,
           Live(s), SetEntry(s, i, e), UNCHANGED <<pid, alive, overlapped>>,
           ~overlapped => Persist(s),
           \A j \in Schedules \ {i} : wish'[j] = wish[j],
           ~overlapped => Obeys(i, e.state, wish'[i])
    PROVE  WishInv'
  <1>1. /\ entries'[s][i] = e
        /\ \A j \in Schedules \ {i} : entries'[s][j] = entries[s][j]
        /\ \A u \in Sessions \ {s} : entries'[u] = entries[u]
    BY DEF SetEntry, TimerInv, TypeOK
  <1>2. \A u \in Sessions : Live(u)' <=> Live(u)
    BY DEF Live
  <1>3. NoneAfterEnd'
    BY <1>1, <1>2 DEF WishInv, NoneAfterEnd
  <1>4. ASSUME ~overlapped PROVE Follow'
    <2>1. Follow /\ \A j \in Schedules : store'[j] = entries'[s][j].state
      BY <1>4 DEF WishInv, Persist
    <2>2. OneLives' /\ \A u \in Sessions : Live(u)' => u = s
      BY <1>2, <2>1 DEF Follow, OneLives
    <2>3. StoreShows'
      BY <2>1, <2>2 DEF StoreShows
    <2>4. \A j \in Schedules \ {i} : store'[j] = store[j]
      BY <1>1, <2>1 DEF Follow, StoreShows
    <2>5. \A j \in Schedules \ {i} : Obeys(j, store[j], wish[j])
      BY <2>1 DEF Follow, StoreObeys
    <2>6. Obeys(i, store'[i], wish'[i])
      BY <1>1, <1>4, <2>1
    <2>7. \A j \in Schedules : Obeys(j, store'[j], wish'[j])
      BY <2>4, <2>5, <2>6 DEF Obeys
    <2>8. StoreObeys'
      BY <2>7 DEF StoreObeys, Obeys
    <2> QED
      BY <2>2, <2>3, <2>8 DEF Follow
  <1> QED
    BY <1>3, <1>4 DEF WishInv

LEMMA WishInit == Init => WishInv
  <1> SUFFICES ASSUME Init PROVE WishInv
    OBVIOUS
  <1>1. alive = {}
    BY DEF Init, LockInit
  <1>2. NoneAfterEnd
    BY DEF Init, NoneAfterEnd
  <1>3. OneLives /\ StoreShows
    BY <1>1 DEF OneLives, StoreShows, Live
  <1>4. StoreObeys
    BY DEF Init, StoreObeys, Obeys
  <1> QED
    BY <1>2, <1>3, <1>4 DEF WishInv, Follow

(* A session that starts while no other lives shows the store.             *)
LEMMA WishSessionStart ==
    ASSUME TimerInv, LockInv, WishInv, NEW s \in Sessions, SessionStart(s)
    PROVE  WishInv'
  <1>1. PICK p \in {s} \cup {q \in alive : Idle(q)} :
            pid' = [pid EXCEPT ![s] = p] /\ alive' = alive \cup {p}
    BY DEF SessionStart
  <1>2. /\ pid[s] = 0 /\ UNCHANGED <<store, wish>>
        /\ overlapped' = (overlapped \/ alive # {})
        /\ entries' = [entries EXCEPT ![s] = [i \in Schedules |-> Fresh(store[i])]]
    BY DEF SessionStart
  <1>3. /\ s \notin alive /\ \A u \in Sessions : pid[u] # s
        /\ 0 \notin alive
    BY <1>2 DEF LockInv, PidsFresh
  <1>4. /\ pid'[s] = p /\ \A u \in Sessions \ {s} : pid'[u] = pid[u]
    BY <1>1 DEF TimerInv, TypeOK, LockTypeOK
  <1>5. Live(s)' /\ \A u \in Sessions \ {s} : Live(u)' <=> Live(u)
    BY <1>1, <1>3, <1>4 DEF Live
  <1>6. /\ \A i \in Schedules : entries'[s][i].state = store[i]
        /\ \A u \in Sessions \ {s} : entries'[u] = entries[u]
    <2>1. \A i \in Schedules : store[i] \in States
      BY DEF TimerInv, TypeOK
    <2>2. \A i \in Schedules : entries'[s][i] = Fresh(store[i])
      BY <1>2 DEF TimerInv, TypeOK
    <2>3. \A u \in Sessions \ {s} : entries'[u] = entries[u]
      BY <1>2 DEF TimerInv, TypeOK
    <2> QED
      BY <2>1, <2>2, <2>3, FreshFacts
  <1>7. NoneAfterEnd'
    BY <1>5, <1>6 DEF WishInv, NoneAfterEnd
  <1>8. ASSUME ~overlapped' PROVE Follow'
    <2>1. ~overlapped /\ alive = {} /\ Follow
      BY <1>2, <1>8 DEF WishInv
    <2>2. \A u \in Sessions : Live(u)' => u = s
      BY <1>5, <2>1 DEF Live
    <2>3. OneLives'
      BY <2>2 DEF OneLives
    <2>4. StoreShows'
      BY <1>2, <1>6, <2>2 DEF StoreShows
    <2>5. StoreObeys'
      BY <1>2, <2>1 DEF Follow, StoreObeys, Obeys
    <2> QED
      BY <2>3, <2>4, <2>5 DEF Follow
  <1> QED
    BY <1>7, <1>8 DEF WishInv

(* Arming the loaded schedules drops none but one-shots, and the store     *)
(* drops them as well.                                                     *)
LEMMA WishStart ==
    ASSUME TimerInv, WishInv, NEW s \in Sessions, Start(s)
    PROVE  WishInv'
  <1>1. /\ Live(s) /\ UNCHANGED <<pid, alive, wish, overlapped>>
        /\ entries' = [entries EXCEPT ![s] = [i \in Schedules |-> Armed(@[i], i)]]
    BY DEF Start, WritePid
  <1>2. \A u \in Sessions : Live(u)' <=> Live(u)
    BY <1>1 DEF Live
  <1>3. /\ \A i \in Schedules : entries'[s][i] = Armed(entries[s][i], i)
        /\ \A u \in Sessions \ {s} : entries'[u] = entries[u]
    BY <1>1 DEF TimerInv, TypeOK
  <1>4. NoneAfterEnd'
    BY <1>1, <1>2, <1>3 DEF WishInv, NoneAfterEnd
  <1>5. ASSUME ~overlapped PROVE Follow'
    <2>1. Follow /\ \A i \in Schedules : store[i] = entries[s][i].state
      BY <1>1, <1>5 DEF WishInv, Follow, StoreShows
    <2>2. \A i \in Schedules : store'[i] = entries'[s][i].state
      BY <2>1 DEF Start, Persist
    <2>3. OneLives' /\ \A u \in Sessions : Live(u)' => u = s
      BY <1>1, <1>2, <2>1 DEF Follow, OneLives
    <2>4. StoreShows'
      BY <2>2, <2>3 DEF StoreShows
    <2>5. ASSUME NEW i \in Schedules PROVE Obeys(i, store'[i], wish'[i])
      <3>1. Obeys(i, store[i], wish[i]) /\ wish'[i] = wish[i]
        BY <1>1, <2>1 DEF Follow, StoreObeys
      <3>2. /\ store'[i] \in {store[i], "absent"}
            /\ i \in Recurring => store'[i] = store[i]
        BY <1>3, <2>1, <2>2, ArmedState
      <3> QED
        BY <3>1, <3>2 DEF Obeys
    <2>6. StoreObeys'
      BY <2>5 DEF StoreObeys, Obeys
    <2> QED
      BY <2>3, <2>4, <2>6 DEF Follow
  <1> QED
    BY <1>1, <1>4, <1>5 DEF WishInv

(* A command of the user. *)
LEMMA WishCommand ==
    ASSUME TimerInv, WishInv, NEW s \in Sessions, NEW i \in Schedules,
           Register(s, i) \/ Pause(s, i) \/ Resume(s, i) \/ Delete(s, i)
    PROVE  WishInv'
  <1>1. /\ Live(s) /\ UNCHANGED <<pid, alive, overlapped>>
        /\ Persist(s) /\ \A j \in Schedules \ {i} : wish'[j] = wish[j]
    BY DEF Register, Pause, Resume, Delete, Commanded, lockVars, TimerInv, TypeOK
  <1>2. CASE Register(s, i)
    <2> DEFINE e == ArmedIf(Running(s), Fresh("active"), i)
    <2>1. e.state \in {"active", "absent"} /\ (i \in Recurring => e.state = "active")
      BY ArmedIfState, FreshFacts DEF States
    <2>2. wish'[i] = "active" /\ SetEntry(s, i, e)
      BY <1>2 DEF Register, TimerInv, TypeOK
    <2> HIDE DEF e
    <2>3. Obeys(i, e.state, wish'[i])
      BY <2>1, <2>2 DEF Obeys
    <2> QED
      BY <1>1, <2>2, <2>3, WishWritten
  <1>3. CASE Pause(s, i)
    <2>1. wish'[i] = "paused" /\ SetEntry(s, i, Paused(entries[s][i], i))
      BY <1>3 DEF Pause, TimerInv, TypeOK
    <2>2. Paused(entries[s][i], i).state = "paused"
      BY DEF Paused, EntryOf
    <2>3. Obeys(i, Paused(entries[s][i], i).state, wish'[i])
      BY <2>1, <2>2 DEF Obeys
    <2> QED
      BY <1>1, <2>1, <2>3, WishWritten
  <1>4. CASE Resume(s, i)
    <2> DEFINE e == Resumed(s, entries[s][i], i)
    <2>1. e.state \in {"active", "absent"} /\ (i \in Recurring => e.state = "active")
      BY ArmedIfState DEF Resumed, EntryOf
    <2>2. wish'[i] = "active" /\ SetEntry(s, i, e)
      BY <1>4 DEF Resume, TimerInv, TypeOK
    <2> HIDE DEF e
    <2>3. Obeys(i, e.state, wish'[i])
      BY <2>1, <2>2 DEF Obeys
    <2> QED
      BY <1>1, <2>2, <2>3, WishWritten
  <1>5. CASE Delete(s, i)
    <2>1. wish'[i] = "deleted" /\ SetEntry(s, i, Deleted(entries[s][i]))
      BY <1>5 DEF Delete, TimerInv, TypeOK
    <2>2. Deleted(entries[s][i]).state = "absent"
      BY DEF Deleted, EntryOf
    <2>3. Obeys(i, Deleted(entries[s][i]).state, wish'[i])
      BY <2>1, <2>2 DEF Obeys
    <2> QED
      BY <1>1, <2>1, <2>3, WishWritten
  <1> QED
    BY <1>2, <1>3, <1>4, <1>5

(* A timer fires, for a schedule the user wants; a recurring one is armed  *)
(* anew, and the store is written when a one-shot leaves.                  *)
LEMMA WishFire ==
    ASSUME TimerInv, WishInv, NEW s \in Sessions, NEW i \in Schedules, Fire(s, i)
    PROVE  WishInv'
  <1> DEFINE old == entries[s][i]
  <1>1. PICK k \in Due(s, i) :
            LET e == EntryOf(old.state, old.spent, RemoveAt(old.timers, k))
            IN  /\ SetEntry(s, i, Fired(e, i))
                /\ IF old.state # "absent" /\ entries'[s][i].state = "absent"
                   THEN Persist(s)
                   ELSE UNCHANGED store
    BY DEF Fire
  <1>2. old.state = "active"
    BY DueIsActive
  <1> DEFINE e == EntryOf(old.state, old.spent, RemoveAt(old.timers, k))
             f == Fired(e, i)
  <1>3. e.state = "active"
    BY <1>2 DEF EntryOf
  <1>4. SetEntry(s, i, f) /\ (IF old.state # "absent" /\ entries'[s][i].state = "absent"
                              THEN Persist(s)
                              ELSE UNCHANGED store)
    BY <1>1
  <1> HIDE DEF e
  <1>5. f.state \in {"active", "absent"} /\ (i \in Recurring => f.state = "active")
    <2>1. CASE HasNext(e, i)
      BY <1>3, <2>1, ArmedState DEF Fired
    <2>2. CASE ~HasNext(e, i)
      BY <2>2 DEF Fired, Deleted, EntryOf, HasNext
    <2> QED
      BY <2>1, <2>2
  <1> HIDE DEF f
  <1>6. Live(s) /\ UNCHANGED <<pid, alive, overlapped, wish>>
    BY DEF Fire, lockVars
  <1>7. /\ entries'[s][i] = f
        /\ \A j \in Schedules \ {i} : entries'[s][j] = entries[s][j]
        /\ store \in [Schedules -> States]
    BY <1>4 DEF SetEntry, TimerInv, TypeOK
  <1>8. ASSUME ~overlapped PROVE Persist(s) /\ Obeys(i, f.state, wish'[i])
    <2>1. /\ \A j \in Schedules : store[j] = entries[s][j].state
          /\ Obeys(i, store[i], wish[i])
      BY <1>6, <1>8 DEF WishInv, Follow, StoreShows, StoreObeys
    <2>2. wish'[i] = "active"
      BY <1>2, <1>6, <2>1 DEF Obeys
    <2>3. CASE f.state = "absent"
      BY <1>2, <1>4, <1>5, <1>7, <2>2, <2>3 DEF Obeys
    <2>4. CASE f.state = "active"
      <3>1. UNCHANGED store
        BY <1>4, <1>7, <2>4
      <3>2. \A j \in Schedules : store[j] = entries'[s][j].state
        BY <1>2, <1>7, <2>1, <2>4
      <3>3. Persist(s)
        BY <1>7, <3>1, <3>2 DEF Persist
      <3> QED
        BY <2>2, <2>4, <3>3 DEF Obeys
    <2> QED
      BY <1>5, <2>3, <2>4
  <1>9. (~overlapped => Persist(s)) /\ (~overlapped => Obeys(i, f.state, wish'[i]))
    BY <1>8
  <1> QED
    BY <1>4, <1>6, <1>9, WishWritten

(* A process ends: its entries go, the store stays.                        *)
LEMMA WishGone ==
    ASSUME TimerInv, WishInv, NEW p, Gone(p)
    PROVE  WishInv'
  <1>1. /\ alive' = alive \ {p} /\ UNCHANGED <<pid, store, wish, overlapped>>
        /\ \A s \in Sessions : entries'[s] = IF pid[s] = p THEN [i \in Schedules |-> NoEntry]
                                             ELSE entries[s]
    BY DEF Gone, Exit
  <1>2. \A s \in Sessions : Live(s)' <=> Live(s) /\ pid[s] # p
    BY <1>1 DEF Live
  <1>3. NoneAfterEnd'
    BY <1>1, <1>2 DEF WishInv, NoneAfterEnd
  <1>4. ASSUME ~overlapped PROVE Follow'
    <2>1. OneLives /\ StoreShows /\ StoreObeys
      BY <1>4 DEF WishInv, Follow
    <2>2. OneLives'
      BY <1>2, <2>1 DEF OneLives
    <2>3. StoreShows'
      BY <1>1, <1>2, <2>1 DEF StoreShows
    <2>4. StoreObeys'
      BY <1>1, <2>1 DEF StoreObeys, Obeys
    <2> QED
      BY <2>2, <2>3, <2>4 DEF Follow
  <1> QED
    BY <1>1, <1>3, <1>4 DEF WishInv

(* Nothing of it changes.                                                  *)
LEMMA WishUntouched ==
    ASSUME WishInv, UNCHANGED <<pid, alive, entries, store, wish, overlapped>>
    PROVE  WishInv'
  <1>1. UNCHANGED pid /\ UNCHANGED alive /\ UNCHANGED entries /\ UNCHANGED store
        /\ UNCHANGED wish /\ UNCHANGED overlapped
    OBVIOUS
  <1>2. NoneAfterEnd => NoneAfterEnd'
    BY <1>1 DEF NoneAfterEnd, Live
  <1>3. Follow => Follow'
    BY <1>1 DEF Follow, OneLives, StoreShows, StoreObeys, Obeys, Live
  <1> QED
    BY <1>1, <1>2, <1>3 DEF WishInv

LEMMA WishNext == TimerInv /\ LockInv /\ WishInv /\ [Next]_vars => WishInv'
  <1> SUFFICES ASSUME TimerInv, LockInv, WishInv, [Next]_vars PROVE WishInv'
    OBVIOUS
  <1>1. ASSUME NEW s \in Sessions, SessionStart(s) PROVE WishInv'
    BY <1>1, WishSessionStart
  <1>2. ASSUME NEW s \in Sessions, Acquiring(s) PROVE WishInv'
    BY <1>2, WishUntouched DEF Acquiring, EmptyLock
  <1>3. ASSUME NEW s \in Sessions, Start(s) PROVE WishInv'
    BY <1>3, WishStart
  <1>4. ASSUME NEW s \in Sessions, NEW i \in Schedules,
               Register(s, i) \/ Pause(s, i) \/ Resume(s, i) \/ Delete(s, i)
        PROVE  WishInv'
    BY <1>4, WishCommand
  <1>5. ASSUME NEW s \in Sessions, NEW i \in Schedules, Fire(s, i) PROVE WishInv'
    BY <1>5, WishFire
  <1>6. ASSUME NEW s \in Sessions, NEW i \in Schedules, CrashFiring(s, i) PROVE WishInv'
    BY <1>6, WishGone DEF CrashFiring
  <1>7. ASSUME NEW p \in Sessions, Quit(p) PROVE WishInv'
    BY <1>7, WishGone DEF Quit
  <1>8. ASSUME Tick PROVE WishInv'
    BY <1>8, WishUntouched DEF Tick, lockVars
  <1>9. ASSUME UNCHANGED vars PROVE WishInv'
    BY <1>9, WishUntouched DEF vars, lockVars
  <1> QED
    BY <1>1, <1>2, <1>3, <1>4, <1>5, <1>6, <1>7, <1>8, <1>9 DEF Next

LEMMA WishesReached == Spec => [](TimerInv /\ LockInv /\ WishInv)
  <1>1. TimerInv => TypeOK
    BY DEF TimerInv
  <1> QED
    BY <1>1, TimerInit, TimerNext, LockInitial, LockNext, WishInit, WishNext, PTL DEF Spec

(* What the user last said of a recurring schedule is on disk, whatever    *)
(* crashes or restarts, while sessions follow one another: no command of   *)
(* scheduler.ts leaves the store behind, and no fire or start drops it.    *)
THEOREM WishesSurviveHolds == Spec => []WishesSurvive
  <1>1. TimerInv /\ WishInv => WishesSurvive
    BY DEF TimerInv, TypeOK, States, WishInv, Follow, StoreObeys, Obeys, WishesSurvive, Schedules
  <1> QED
    BY <1>1, WishesReached, PTL

(* While sessions follow one another a schedule fires only if the user's   *)
(* last word was to let it: a pause or a delete reaches the timer in       *)
(* memory, and outlives the session in the store.                          *)
THEOREM FiresObeyTheUserHolds == Spec => FiresObeyTheUser
  <1>1. ASSUME TimerInv, WishInv, NEW s \in Sessions, NEW i \in Schedules,
               ~overlapped, Fire(s, i) \/ CrashFiring(s, i)
        PROVE  wish[i] = "active"
    <2>1. Live(s) /\ \E k \in Due(s, i) : TRUE
      BY <1>1 DEF Fire, CrashFiring
    <2>2. entries[s][i].state = "active"
      BY <1>1, <2>1, DueIsActive
    <2>3. store[i] = "active" /\ Obeys(i, store[i], wish[i])
      BY <1>1, <2>1, <2>2 DEF WishInv, Follow, StoreShows, StoreObeys
    <2> QED
      BY <2>3 DEF Obeys
  <1>2. TimerInv /\ LockInv /\ WishInv /\ [Next]_vars =>
           [\A s \in Sessions : \A i \in Schedules :
              ~overlapped /\ (Fire(s, i) \/ CrashFiring(s, i)) => wish[i] = "active"]_vars
    BY <1>1
  <1> QED
    BY <1>2, WishesReached, PTL DEF Spec, FiresObeyTheUser
-----------------------------------------------------------------------------
(* One-shots.  The proof is about those whose date setTimeout can wait for *)
(* from the start: a longer delay is cut to none, and such a one-shot does *)
(* fire early, and again after a crash.                                    *)

InReach(i) == i \in Once /\ At[i] <= TimerMax

(* Its timers are set to its date. *)
OnDate(i, ts) == \A k \in DOMAIN ts : ts[k].at = At[i]

(* It has fired only if its date has come, and then no timer of it is left;*)
(* with the date in the past no step sets another.                         *)
FiredInv ==
    /\ \A i \in Schedules : InReach(i) => \A s \in Sessions : OnDate(i, entries[s][i].timers)
    /\ \A i \in Schedules : InReach(i) /\ fires[i] # 0 => At[i] <= now
    /\ ~overlapped => \A i \in Schedules :
          InReach(i) /\ fires[i] # 0 =>
              /\ fires[i] = 1
              /\ \A s \in Sessions : entries[s][i].timers = <<>>

LEMMA EmptyOnDate == ASSUME NEW i PROVE OnDate(i, <<>>)
  BY DEF OnDate

LEMMA ArmedOnDate ==
    ASSUME NEW i, InReach(i), NEW e \in Entry, e.timers = <<>>, now \in Nat
    PROVE  /\ OnDate(i, Armed(e, i).timers)
           /\ At[i] <= now => Armed(e, i).timers = <<>>
  <1>1. /\ i \in Once /\ i \notin Recurring /\ i \in Schedules
        /\ At[i] \in Nat /\ TimerMax \in Nat /\ At[i] <= TimerMax
    BY ScheduleAssumption DEF InReach, Schedules
  <1>2. Len(e.timers) = 0
    BY EmptySeq
  <1>3. Deleted(e).timers = <<>>
    BY <1>1, <1>2, DeletedFacts
  <1>4. CASE e.state = "active" /\ HasNext(e, i)
    <2> DEFINE t == Timer(NextFire(i))
    <2>1. NextFire(i) = At[i] /\ ~(At[i] <= now)
      BY <1>1, <1>4 DEF NextFire, HasNext
    <2>2. t.at = At[i]
      BY <1>1, <2>1 DEF Timer
    <2>3. Armed(e, i).timers = Append(<<>>, t)
      BY <1>4 DEF Armed, EntryOf
    <2> HIDE DEF t
    <2>4. \A k \in DOMAIN Append(<<>>, t) : Append(<<>>, t)[k] = t
      OBVIOUS
    <2> QED
      BY <2>1, <2>2, <2>3, <2>4 DEF OnDate
  <1>5. CASE e.state # "active"
    BY <1>5, EmptyOnDate DEF Armed
  <1>6. CASE e.state = "active" /\ ~HasNext(e, i)
    BY <1>3, <1>6, EmptyOnDate DEF Armed
  <1> QED
    BY <1>4, <1>5, <1>6

LEMMA FiredInit == Init => FiredInv
  <1> SUFFICES ASSUME Init PROVE FiredInv
    OBVIOUS
  <1>1. \A i \in Schedules : fires[i] = 0 /\ \A s \in Sessions : entries[s][i].timers = <<>>
    BY DEF Init, NoEntry, EntryOf
  <1> QED
    BY <1>1, EmptyOnDate DEF FiredInv

(* A step that fires nothing, and gives a one-shot no timer but one set to *)
(* its date, before it.                                                    *)
LEMMA FiredKept ==
    ASSUME TimerInv, FiredInv, now' \in Nat, now <= now', UNCHANGED fires,
           overlapped => overlapped',
           \A i \in Schedules : InReach(i) => \A s \in Sessions :
              \/ entries'[s][i].timers = entries[s][i].timers
              \/ /\ OnDate(i, entries'[s][i].timers)
                 /\ At[i] <= now => entries'[s][i].timers = <<>>
    PROVE  FiredInv'
  <1>1. now \in Nat /\ \A i \in Schedules : InReach(i) => At[i] \in Nat
    BY ScheduleAssumption DEF TimerInv, TypeOK, InReach
  <1>2. ASSUME NEW i \in Schedules, InReach(i), NEW s \in Sessions
        PROVE  OnDate(i, entries'[s][i].timers)
    BY <1>2 DEF FiredInv
  <1>3. ASSUME NEW i \in Schedules, InReach(i), fires'[i] # 0
        PROVE  At[i] <= now'
    BY <1>1, <1>3 DEF FiredInv
  <1>4. ASSUME ~overlapped', NEW i \in Schedules, InReach(i), fires'[i] # 0
        PROVE  fires'[i] = 1 /\ \A s \in Sessions : entries'[s][i].timers = <<>>
    BY <1>4 DEF FiredInv
  <1>5. \A i \in Schedules : InReach(i) => \A s \in Sessions : OnDate(i, entries'[s][i].timers)
    BY <1>2
  <1> QED
    BY <1>3, <1>4, <1>5 DEF FiredInv, OnDate, InReach

(* One schedule fires, in the only session there is.  Its date has come,   *)
(* and no timer of it is left.                                             *)
LEMMA FiredOnce ==
    ASSUME TimerInv, FiredInv, NEW s \in Sessions, NEW i \in Schedules,
           NEW k \in Due(s, i), CountFire(i), UNCHANGED <<now, overlapped>>,
           InReach(i) /\ ~overlapped => \A u \in Sessions : entries'[u][i].timers = <<>>,
           InReach(i) => \A u \in Sessions :
              entries'[u][i].timers \in {entries[u][i].timers, <<>>},
           \A j \in Schedules \ {i} : InReach(j) => \A u \in Sessions :
              entries'[u][j].timers \in {entries[u][j].timers, <<>>}
    PROVE  FiredInv'
  <1>1. /\ fires \in [Schedules -> 0..2]
        /\ \A j \in Schedules \ {i} : fires'[j] = fires[j]
        /\ fires[i] = 0 => fires'[i] = 1
    BY DEF CountFire, TimerInv, TypeOK
  <1>2. \A j \in Schedules : InReach(j) => \A u \in Sessions :
            entries'[u][j].timers \in {entries[u][j].timers, <<>>}
    OBVIOUS
  <1>3. \A j \in Schedules : InReach(j) => \A u \in Sessions : OnDate(j, entries'[u][j].timers)
    BY <1>2, EmptyOnDate DEF FiredInv
  <1>4. InReach(i) => At[i] <= now
    <2>1. k \in DOMAIN entries[s][i].timers /\ entries[s][i].timers[k].at <= now
      BY DEF Due
    <2> QED
      BY <2>1 DEF FiredInv, OnDate
  <1>5. \A j \in Schedules : InReach(j) /\ fires'[j] # 0 => At[j] <= now'
    BY <1>1, <1>4 DEF FiredInv
  <1>6. ASSUME ~overlapped', NEW j \in Schedules, InReach(j), fires'[j] # 0
        PROVE  fires'[j] = 1 /\ \A u \in Sessions : entries'[u][j].timers = <<>>
    <2>1. CASE j = i
      <3>1. entries[s][i].timers # <<>>
        BY DEF Due
      <3>2. fires[i] = 0
        BY <1>6, <2>1, <3>1 DEF FiredInv
      <3> QED
        BY <1>1, <1>6, <2>1, <3>2
    <2>2. CASE j # i
      <3>1. fires[j] = 1 /\ \A u \in Sessions : entries[u][j].timers = <<>>
        BY <1>1, <1>6, <2>2 DEF FiredInv
      <3> QED
        BY <1>1, <1>2, <1>6, <2>2, <3>1
    <2> QED
      BY <2>1, <2>2
  <1> QED
    BY <1>3, <1>5, <1>6 DEF FiredInv, OnDate, InReach

LEMMA FiredSessionStart ==
    ASSUME TimerInv, FiredInv, NEW s \in Sessions, SessionStart(s)
    PROVE  FiredInv'
  <1>1. /\ entries' = [entries EXCEPT ![s] = [i \in Schedules |-> Fresh(store[i])]]
        /\ UNCHANGED <<now, fires>> /\ (overlapped => overlapped')
    BY DEF SessionStart
  <1>2. \A i \in Schedules : entries'[s][i] = Fresh(store[i])
    BY <1>1 DEF TimerInv, TypeOK
  <1>3. \A u \in Sessions \ {s} : entries'[u] = entries[u]
    BY <1>1 DEF TimerInv, TypeOK
  <1>4. \A i \in Schedules : entries'[s][i].timers = <<>>
    <2>1. \A i \in Schedules : store[i] \in States
      BY DEF TimerInv, TypeOK
    <2> QED
      BY <1>2, <2>1, FreshFacts
  <1>5. now \in Nat
    BY ScheduleAssumption DEF TimerInv, TypeOK
  <1> QED
    BY <1>1, <1>3, <1>4, <1>5, EmptyOnDate, FiredKept

LEMMA FiredStart ==
    ASSUME TimerInv, FiredInv, NEW s \in Sessions, Start(s)
    PROVE  FiredInv'
  <1>1. /\ entries' = [entries EXCEPT ![s] = [i \in Schedules |-> Armed(@[i], i)]]
        /\ UNCHANGED <<now, fires, overlapped>> /\ ~Running(s)
    BY DEF Start, WritePid, Running
  <1>2. \A i \in Schedules : entries'[s][i] = Armed(entries[s][i], i)
    BY <1>1 DEF TimerInv, TypeOK
  <1>3. \A u \in Sessions \ {s} : entries'[u] = entries[u]
    BY <1>1 DEF TimerInv, TypeOK
  <1>4. now \in Nat
    BY ScheduleAssumption DEF TimerInv, TypeOK
  <1>5. \A i \in Schedules : entries[s][i] \in Entry /\ entries[s][i].timers = <<>>
    BY <1>1, EntryIs
  <1>6. \A i \in Schedules : InReach(i) =>
            /\ OnDate(i, entries'[s][i].timers)
            /\ At[i] <= now => entries'[s][i].timers = <<>>
    BY <1>2, <1>4, <1>5, ArmedOnDate
  <1> QED
    BY <1>1, <1>3, <1>4, <1>6, FiredKept

(* A command gives an entry no timer but one that Armed sets.              *)
LEMMA FiredCommand ==
    ASSUME TimerInv, FiredInv, NEW s \in Sessions, NEW i \in Schedules,
           Register(s, i) \/ Pause(s, i) \/ Resume(s, i) \/ Delete(s, i)
    PROVE  FiredInv'
  <1>1. UNCHANGED <<now, fires, overlapped>> /\ now \in Nat
    BY ScheduleAssumption DEF Register, Pause, Resume, Delete, Commanded, TimerInv, TypeOK
  <1>2. ASSUME NEW e, SetEntry(s, i, e),
               InReach(i) => OnDate(i, e.timers) /\ (At[i] <= now => e.timers = <<>>)
        PROVE  FiredInv'
    <2>1. /\ entries'[s][i] = e
          /\ \A j \in Schedules \ {i} : entries'[s][j] = entries[s][j]
          /\ \A u \in Sessions \ {s} : entries'[u] = entries[u]
      BY <1>2 DEF SetEntry, TimerInv, TypeOK
    <2> QED
      BY <1>1, <1>2, <2>1, FiredKept
  <1>3. ASSUME NEW e \in Entry, e.timers = <<>>, InReach(i)
        PROVE  LET a == ArmedIf(Running(s), e, i)
               IN  OnDate(i, a.timers) /\ (At[i] <= now => a.timers = <<>>)
    <2>1. OnDate(i, e.timers)
      BY <1>3, EmptyOnDate
    <2> QED
      BY <1>1, <1>3, <2>1, ArmedOnDate DEF ArmedIf
  <1>4. CASE Register(s, i)
    <2>1. Fresh("active") \in Entry /\ Fresh("active").timers = <<>>
      BY FreshFacts DEF States
    <2> QED
      BY <1>2, <1>3, <1>4, <2>1 DEF Register
  <1>5. CASE Pause(s, i)
    <2>1. Paused(entries[s][i], i).timers = <<>>
      BY EntryIs, PausedFacts
    <2> QED
      BY <1>2, <1>5, <2>1, EmptyOnDate DEF Pause
  <1>6. CASE Resume(s, i)
    <2> DEFINE e == EntryOf("active", entries[s][i].spent, entries[s][i].timers)
    <2>1. entries[s][i] \in Entry /\ entries[s][i].timers = <<>>
      BY <1>6, EntryIs DEF Resume
    <2>2. e \in Entry /\ e.timers = <<>>
      BY <2>1, EntryParts DEF EntryOf, Entry, States
    <2>3. SetEntry(s, i, ArmedIf(Running(s), e, i))
      BY <1>6 DEF Resume, Resumed
    <2> HIDE DEF e
    <2> QED
      BY <1>2, <1>3, <2>2, <2>3
  <1>7. CASE Delete(s, i)
    <2>1. Deleted(entries[s][i]).timers = <<>>
      BY EntryIs, DeletedFacts
    <2> QED
      BY <1>2, <1>7, <2>1, EmptyOnDate DEF Delete
  <1> QED
    BY <1>4, <1>5, <1>6, <1>7

(* A fired one-shot has no next date: its entry goes.                      *)
LEMMA FiredFire ==
    ASSUME TimerInv, WishInv, FiredInv, NEW s \in Sessions, NEW i \in Schedules, Fire(s, i)
    PROVE  FiredInv'
  <1> DEFINE old == entries[s][i]
  <1>1. PICK k \in Due(s, i) :
            SetEntry(s, i, Fired(EntryOf(old.state, old.spent, RemoveAt(old.timers, k)), i))
    BY DEF Fire
  <1> DEFINE e == EntryOf(old.state, old.spent, RemoveAt(old.timers, k))
  <1>2. old \in Entry /\ old.timers \in Seq(TimerSet) /\ Len(old.timers) = 1
    <2>1. old \in Entry /\ Running(s) /\ old.state = "active"
      BY EntryIs, DueIsActive
    <2> QED
      BY <2>1, EntryIs, EntryParts
  <1>3. RemoveAt(old.timers, k) = <<>>
    <2>1. k = 1
      BY <1>2 DEF Due
    <2> QED
      BY <1>2, <2>1 DEF RemoveAt
  <1>4. e \in Entry /\ e.timers = <<>> /\ Len(e.timers) = 0
    BY <1>2, <1>3, EntryParts DEF EntryOf, Entry
  <1>5. now \in Nat
    BY ScheduleAssumption DEF TimerInv, TypeOK
  <1>6. SetEntry(s, i, Fired(e, i))
    BY <1>1
  <1> HIDE DEF e
  <1>7. InReach(i) => At[i] <= now
    <2>1. k \in DOMAIN entries[s][i].timers /\ entries[s][i].timers[k].at <= now
      BY DEF Due
    <2> QED
      BY <2>1 DEF FiredInv, OnDate
  <1>8. InReach(i) => Fired(e, i).timers = <<>>
    <2>1. Deleted(e).timers = <<>>
      BY <1>4, DeletedFacts
    <2> QED
      BY <1>4, <1>5, <1>7, <2>1, ArmedOnDate DEF Fired
  <1>9. /\ entries'[s][i] = Fired(e, i)
        /\ \A j \in Schedules \ {i} : entries'[s][j] = entries[s][j]
        /\ \A u \in Sessions \ {s} : entries'[u] = entries[u]
    BY <1>6 DEF SetEntry, TimerInv, TypeOK
  <1>10. Live(s) /\ CountFire(i) /\ UNCHANGED <<now, overlapped>>
    BY DEF Fire
  <1>11. ~overlapped => \A u \in Sessions \ {s} : entries[u][i].timers = <<>>
    <2>1. ~overlapped => \A u \in Sessions \ {s} : entries[u][i] = NoEntry
      BY <1>10 DEF WishInv, Follow, OneLives, NoneAfterEnd
    <2> QED
      BY <2>1 DEF NoEntry, EntryOf
  <1> QED
    BY <1>8, <1>9, <1>10, <1>11, FiredOnce

(* A crash between the fire and the delete takes every entry with it, and  *)
(* the date is past when the next session loads the store.                 *)
LEMMA GoneTimers ==
    ASSUME NEW p, Gone(p), NEW u \in Sessions, NEW j \in Schedules
    PROVE  /\ entries'[u][j].timers \in {entries[u][j].timers, <<>>}
           /\ pid[u] = p => entries'[u][j].timers = <<>>
  <1>1. entries'[u] = IF pid[u] = p THEN [i \in Schedules |-> NoEntry] ELSE entries[u]
    BY DEF Gone
  <1> QED
    BY <1>1 DEF NoEntry, EntryOf

LEMMA FiredCrash ==
    ASSUME TimerInv, WishInv, FiredInv, NEW s \in Sessions, NEW i \in Schedules,
           CrashFiring(s, i)
    PROVE  FiredInv'
  <1>1. /\ Live(s) /\ Gone(pid[s]) /\ CountFire(i)
        /\ UNCHANGED <<now, overlapped>>
    BY DEF CrashFiring, Gone
  <1>2. PICK k \in Due(s, i) : TRUE
    BY DEF CrashFiring
  <1>3. ASSUME ~overlapped, NEW u \in Sessions PROVE entries'[u][i].timers = <<>>
    <2>1. CASE u = s
      BY <1>1, <2>1, GoneTimers
    <2>2. CASE u # s
      <3>1. entries[u][i] = NoEntry
        BY <1>1, <1>3, <2>2 DEF WishInv, Follow, OneLives, NoneAfterEnd
      <3>2. entries[u][i].timers = <<>>
        BY <3>1 DEF NoEntry, EntryOf
      <3> QED
        BY <1>1, <3>2, GoneTimers
    <2> QED
      BY <2>1, <2>2
  <1>4. \A j \in Schedules, u \in Sessions :
            entries'[u][j].timers \in {entries[u][j].timers, <<>>}
    BY <1>1, GoneTimers
  <1> QED
    BY <1>1, <1>2, <1>3, <1>4, FiredOnce

LEMMA FiredQuit ==
    ASSUME TimerInv, FiredInv, NEW p \in Sessions, Quit(p)
    PROVE  FiredInv'
  <1>1. Gone(p) /\ UNCHANGED <<now, fires, overlapped>> /\ now \in Nat
    BY ScheduleAssumption DEF Quit, Gone, TimerInv, TypeOK
  <1>2. \A j \in Schedules, u \in Sessions :
            entries'[u][j].timers \in {entries[u][j].timers, <<>>}
    BY <1>1, GoneTimers
  <1> QED
    BY <1>1, <1>2, EmptyOnDate, FiredKept

(* Entries and fires stay; time may pass.                                  *)
LEMMA FiredUntouched ==
    ASSUME TimerInv, FiredInv, UNCHANGED <<entries, fires, overlapped>>,
           now' \in Nat, now <= now'
    PROVE  FiredInv'
  BY FiredKept

LEMMA FiredNext == TimerInv /\ WishInv /\ FiredInv /\ [Next]_vars => FiredInv'
  <1> SUFFICES ASSUME TimerInv, WishInv, FiredInv, [Next]_vars PROVE FiredInv'
    OBVIOUS
  <1>0. now \in Nat
    BY ScheduleAssumption DEF TimerInv, TypeOK
  <1>1. ASSUME NEW s \in Sessions, SessionStart(s) PROVE FiredInv'
    BY <1>1, FiredSessionStart
  <1>2. ASSUME NEW s \in Sessions, Acquiring(s) PROVE FiredInv'
    BY <1>0, <1>2, FiredUntouched DEF Acquiring
  <1>3. ASSUME NEW s \in Sessions, Start(s) PROVE FiredInv'
    BY <1>3, FiredStart
  <1>4. ASSUME NEW s \in Sessions, NEW i \in Schedules,
               Register(s, i) \/ Pause(s, i) \/ Resume(s, i) \/ Delete(s, i)
        PROVE  FiredInv'
    BY <1>4, FiredCommand
  <1>5. ASSUME NEW s \in Sessions, NEW i \in Schedules, Fire(s, i) PROVE FiredInv'
    BY <1>5, FiredFire
  <1>6. ASSUME NEW s \in Sessions, NEW i \in Schedules, CrashFiring(s, i) PROVE FiredInv'
    BY <1>6, FiredCrash
  <1>7. ASSUME NEW p \in Sessions, Quit(p) PROVE FiredInv'
    BY <1>7, FiredQuit
  <1>8. ASSUME Tick PROVE FiredInv'
    BY <1>0, <1>8, FiredUntouched DEF Tick
  <1>9. ASSUME UNCHANGED vars PROVE FiredInv'
    BY <1>0, <1>9, FiredUntouched DEF vars
  <1> QED
    BY <1>1, <1>2, <1>3, <1>4, <1>5, <1>6, <1>7, <1>8, <1>9 DEF Next

LEMMA FiredReached == Spec => []FiredInv
  BY WishesReached, FiredInit, FiredNext, PTL DEF Spec

(* A one-shot fires at most once while sessions follow one another,        *)
(* whatever crashes, between the fire and the delete too, provided         *)
(* setTimeout can wait for the dates: scheduler.ts tells a date from the   *)
(* past when it loads one, and drops it.                                   *)
THEOREM OneShotFiresOnceHolds ==
    ASSUME \A i \in Once : At[i] <= TimerMax
    PROVE  Spec => []OneShotFiresOnce
  <1>1. TimerInv /\ FiredInv => OneShotFiresOnce
    <2> SUFFICES ASSUME TimerInv, FiredInv, ~overlapped, NEW i \in Once
                 PROVE  fires[i] <= 1
      BY DEF OneShotFiresOnce
    <2>1. InReach(i) /\ i \in Schedules
      BY DEF InReach, Schedules
    <2>2. fires[i] \in {0, 1}
      BY <2>1 DEF FiredInv
    <2> QED
      BY <2>2
  <1> QED
    BY <1>1, WishesReached, FiredReached, PTL
=============================================================================
