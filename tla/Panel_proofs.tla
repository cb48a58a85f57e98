----------------------------- MODULE Panel_proofs -----------------------------
(***************************************************************************)
(* Theorems about Panel, for every set of runs, tiers and schedules and    *)
(* however much the runs say: the timeline on the screen is the log of the *)
(* run it follows.                                                         *)
(***************************************************************************)
EXTENDS Panel, FiniteSetTheorems, TLAPS

-----------------------------------------------------------------------------
(* The invariant, in four parts: the screen, the timeline, the runs and    *)
(* the stores.                                                             *)

ViewSet == {"fleet", "lifecycle", "runs", "agents", "backends", "scheduled", "tiers", "workflows"}
InputSet == {"run", "resume", "steer", "tier", "sched", "lifecycleRun", "workflow"}
ModeSet == {"browse", "timeline", "message"} \cup Panes \cup InputSet
OnTop   == {"timeline", "message"}
Targets == Runs \cup Tiers \cup {NoRun, NoTier}
ListSet == [of : ViewSet, at : Nat]
TimelineSet == [run : Runs \cup {NoRun}, seen : Nat, cursor : Nat \ {0},
                token : Nat, built : BOOLEAN]
FollowSet == [index : Nat \ {0}, pinned : BOOLEAN]
PhaseSet == {"idle", "opening", "running", "aborting", "ended", "stillborn"}

ScreenOK == /\ open \in BOOLEAN /\ launched \in BOOLEAN
            /\ view \in ViewSet /\ list \in ListSet
            /\ mode \in ModeSet /\ step \in 1..3
            /\ target \in Targets
            /\ asked \in {"no", "asked", "revising"}

(* A list is built only of events that are there. *)
WellFormed(t) == /\ t \in TimelineSet
                 /\ t.cursor <= AtLeastOne(t.seen) /\ t.token <= t.seen
                 /\ (t.built => t.seen # 0)

(* A live timeline has its run, all that the run has said, and a cursor    *)
(* within it, at its end while it is pinned.                               *)
IsLive == /\ open /\ timeline.run = live /\ timeline.seen = said[live]
          /\ follow.index <= AtLeastOne(timeline.seen)
          /\ (follow.pinned => follow.index = AtLeastOne(timeline.seen))

TimelineOK == /\ WellFormed(timeline)
              /\ ((timeline.run # NoRun) <=> (mode \in OnTop))
              /\ live \in Runs \cup {NoRun} /\ follow \in FollowSet
              /\ (live # NoRun => IsLive)

(* A run that has never started is in no list. *)
RunOK == /\ registry \in Seq(Runs) /\ IsInjective(registry)
         /\ \A i \in DOMAIN registry : phase[registry[i]] # "idle"
         /\ phase \in [Runs -> PhaseSet]
         /\ said \in [Runs -> Nat] /\ \A r \in Runs : said[r] <= MaxEvents[r]
         /\ told \subseteq Runs

StoreOK == /\ tiers \subseteq Tiers /\ edited \in Tiers \cup {NoTier}
           /\ schedules \in [Schedules -> {"absent", "active", "paused"}]

PanelInv == ScreenOK /\ TimelineOK /\ RunOK /\ StoreOK

(* The text of a steer is typed for the run whose row was selected.        *)
ChosenOK == /\ chosen \in Runs \cup {NoRun}
            /\ mode = "steer" => target = chosen

LEMMA ViewNames == ToSet(Views) = ViewSet /\ \A i \in 1..8 : Views[i] \in ViewSet
  BY DEF ToSet, Views, ViewSet

LEMMA ModeNames == Modes = ModeSet /\ Inputs = InputSet /\ \A m \in InputSet : Questions[m] \in 1..3
  BY DEF Modes, ModeSet, Inputs, InputSet, Questions

LEMMA PanelInvMeans ==
    PanelInv /\ ChosenOK => TypeOK /\ LiveIsShown /\ TimelineComplete /\ PinnedIsNewest
  <1> SUFFICES ASSUME PanelInv, ChosenOK
               PROVE  TypeOK /\ LiveIsShown /\ TimelineComplete /\ PinnedIsNewest
    OBVIOUS
  <1>1. TypeOK
    <2>1. /\ open \in BOOLEAN /\ launched \in BOOLEAN
          /\ view \in ToSet(Views) /\ list \in [of : ToSet(Views), at : Nat]
          /\ mode \in Modes /\ step \in 1..3
          /\ target \in Runs \cup Tiers \cup {NoRun, NoTier}
          /\ asked \in {"no", "asked", "revising"}
      BY ViewNames, ModeNames DEF PanelInv, ScreenOK, ListSet, Targets
    <2>2. /\ timeline \in TimelineSet
          /\ timeline.cursor <= AtLeastOne(timeline.seen) /\ timeline.token <= timeline.seen
          /\ ((timeline.run # NoRun) <=> (mode \in {"timeline", "message"}))
          /\ live \in Runs \cup {NoRun} /\ follow \in FollowSet
      BY DEF PanelInv, TimelineOK, WellFormed, OnTop
    <2> QED
      BY <2>1, <2>2 DEF PanelInv, ChosenOK, RunOK, StoreOK, TypeOK, TimelineSet, FollowSet, PhaseSet
  <1>2. live # NoRun => IsLive /\ timeline.run # NoRun /\ mode \in OnTop
    BY DEF PanelInv, TimelineOK, IsLive
  <1> QED
    BY <1>1, <1>2 DEF IsLive, OnTop, LiveIsShown, TimelineComplete, PinnedIsNewest

-----------------------------------------------------------------------------
(* What the parts of the invariant need. *)

LEMMA RebuiltIsList == ASSUME NEW v \in ViewSet PROVE Rebuilt(v) \in ListSet
  BY DEF Rebuilt, ListSet

(* The rows of a list have numbers. *)
LEMMA SetToSeqDomain ==
    ASSUME NEW S, IsFiniteSet(S)
    PROVE  SetToSeq(S) \in Seq(S)
  <1>1. Cardinality(S) \in Nat /\ ExistsBijection(1..Cardinality(S), S)
    BY FS_CardinalityType
  <1>2. \E f \in [1..Cardinality(S) -> S] : IsInjective(f)
    BY <1>1 DEF ExistsBijection, Bijection, Injection
  <1>3. SetToSeq(S) \in [1..Cardinality(S) -> S]
    BY <1>2 DEF SetToSeq
  <1> QED
    BY <1>1, <1>3

LEMMA RowsDomain ==
    ASSUME RunOK, StoreOK, NEW v \in ViewSet
    PROVE  DOMAIN Rows(v) \subseteq Nat
  <1>1. \A S : \A s \in Seq(S) : DOMAIN s \subseteq Nat
    OBVIOUS
  <1>2. CASE v = "fleet"
    BY <1>1, <1>2 DEF Rows, RunOK
  <1>3. CASE v = "runs"
    <2>1. SetToSeq(OldRuns) \in Seq(Runs)
      BY SetToSeqDomain, PanelAssumption
    <2>2. registry \o SetToSeq(OldRuns) \in Seq(Runs)
      BY <2>1 DEF RunOK
    <2> QED
      BY <1>1, <1>3, <2>2 DEF Rows
  <1>4. CASE v = "tiers"
    <2>1. IsFiniteSet(tiers)
      BY PanelAssumption, FS_Subset DEF StoreOK
    <2>2. SetToSeq(tiers) \in Seq(tiers)
      BY <2>1, SetToSeqDomain
    <2> QED
      BY <1>1, <1>4, <2>2 DEF Rows
  <1>5. CASE v = "scheduled"
    <2> DEFINE S == {s \in Schedules : schedules[s] # "absent"}
    <2>1. IsFiniteSet(S)
      BY PanelAssumption, FS_Subset
    <2>2. SetToSeq(S) \in Seq(S)
      BY <2>1, SetToSeqDomain
    <2> QED
      BY <1>1, <1>5, <2>2 DEF Rows
  <1>6. CASE v = "workflows"
    BY <1>6 DEF Rows
  <1>7. CASE v \notin {"fleet", "runs", "tiers", "scheduled", "workflows"}
    BY <1>7 DEF Rows
  <1> QED
    BY <1>2, <1>3, <1>4, <1>5, <1>6, <1>7

(* Rendering builds the list, and keeps the run and the events. *)
LEMMA RenderedWell ==
    ASSUME NEW t, WellFormed(t)
    PROVE  WellFormed(Rendered(t)) /\ Rendered(t).run = t.run /\ Rendered(t).seen = t.seen
  <1>1. CASE t.seen = 0
    BY <1>1 DEF Rendered
  <1>2. CASE t.seen # 0
    <2> DEFINE i == IF t.token = 0 THEN 1 ELSE t.token
    <2>1. t \in TimelineSet /\ t.token <= t.seen
      BY DEF WellFormed
    <2>2. i \in Nat \ {0} /\ i <= t.seen
      BY <1>2, <2>1 DEF TimelineSet
    <2>3. Rendered(t) = [t EXCEPT !.built = TRUE, !.cursor = i, !.token = 0]
      BY <1>2 DEF Rendered
    <2> HIDE DEF i
    <2>4. Rendered(t) = [run |-> t.run, seen |-> t.seen, cursor |-> i, token |-> 0, built |-> TRUE]
      BY <2>1, <2>3 DEF TimelineSet
    <2> QED
      BY <1>2, <2>1, <2>2, <2>4 DEF WellFormed, TimelineSet, AtLeastOne
  <1> QED
    BY <1>1, <1>2

LEMMA RedrawnWell ==
    ASSUME NEW t, WellFormed(t)
    PROVE  WellFormed(Redrawn(t)) /\ Redrawn(t).run = t.run /\ Redrawn(t).seen = t.seen
  BY RenderedWell DEF Redrawn

(* A timeline that is not on the screen is of no live run, and the panel   *)
(* that follows one is open.                                               *)
LEMMA NotLive ==
    ASSUME TimelineOK, mode \notin OnTop \/ ~open
    PROVE  live = NoRun
  BY DEF TimelineOK, IsLive

(* Steps that leave the timeline and the log alone. *)
LEMMA TimelineKept ==
    ASSUME TimelineOK,
           timeline' = timeline, live' = live, follow' = follow, said' = said,
           \/ open' = open /\ mode' = mode
           \/ mode \notin OnTop /\ mode' \notin OnTop
           \/ ~open /\ mode' = mode
    PROVE  TimelineOK'
  <1>1. (mode' \in OnTop <=> mode \in OnTop) /\ (live # NoRun => open' = open)
    BY NotLive
  <1> QED
    BY <1>1 DEF TimelineOK, IsLive, WellFormed, AtLeastOne, OnTop

(* Steps that draw it again, of the same log or on the way back from the   *)
(* whole message.                                                          *)
LEMMA TimelineDrawn ==
    ASSUME TimelineOK,
           timeline' = Redrawn(timeline) \/ timeline' = Rendered(timeline),
           live' = live, follow' = follow, said' = said, open' = open,
           mode' = mode \/ (mode \in OnTop /\ mode' \in OnTop)
    PROVE  TimelineOK'
  <1>1. WellFormed(timeline') /\ timeline'.run = timeline.run /\ timeline'.seen = timeline.seen
    BY RenderedWell, RedrawnWell DEF TimelineOK
  <1> HIDE DEF WellFormed
  <1>2. WellFormed(timeline)'
    BY <1>1 DEF WellFormed
  <1> QED
    BY <1>1, <1>2 DEF TimelineOK, IsLive

(* Steps that put it away. *)
LEMMA TimelineGone ==
    ASSUME timeline' = NoTimeline, live' = NoRun, follow' = NoFollow, mode' \notin OnTop
    PROVE  TimelineOK'
  BY DEF TimelineOK, WellFormed, NoTimeline, NoFollow, TimelineSet, FollowSet, AtLeastOne

LEMMA RunKept ==
    ASSUME RunOK, registry' = registry, phase' = phase, said' = said, told' \subseteq Runs
    PROVE  RunOK'
  BY DEF RunOK, IsInjective

LEMMA StoreKept ==
    ASSUME StoreOK, tiers' = tiers, edited' = edited, schedules' = schedules
    PROVE  StoreOK'
  BY DEF StoreOK

(* Steps of the screen alone. *)
LEMMA OnlyScreen ==
    ASSUME PanelInv, ScreenOK', UNCHANGED timelineVars, UNCHANGED runVars,
           \/ open' = open /\ mode' = mode
           \/ mode \notin OnTop /\ mode' \notin OnTop
           \/ ~open /\ mode' = mode,
           StoreOK'
    PROVE  PanelInv'
  <1>1. timeline' = timeline /\ live' = live /\ follow' = follow
    BY DEF timelineVars
  <1>2. registry' = registry /\ phase' = phase /\ said' = said /\ told' = told
    BY DEF runVars
  <1>3. TimelineOK'
    BY <1>1, <1>2, TimelineKept DEF PanelInv
  <1>4. RunOK'
    BY <1>2, RunKept DEF PanelInv, RunOK
  <1> QED
    BY <1>3, <1>4 DEF PanelInv

LEMMA PanelInit == Init => PanelInv
  <1> SUFFICES ASSUME Init PROVE PanelInv
    OBVIOUS
  <1>1. ScreenOK
    <2>1. list \in ListSet
      BY DEF Init, ListSet, ViewSet
    <2>2. open \in BOOLEAN /\ launched \in BOOLEAN
      BY Zenon DEF Init
    <2>3. /\ view \in ViewSet /\ mode \in ModeSet /\ target \in Targets
          /\ asked \in {"no", "asked", "revising"}
      BY DEF Init, ViewSet, ModeSet, Targets
    <2>4. step \in 1..3
      BY DEF Init
    <2> QED
      BY <2>1, <2>2, <2>3, <2>4 DEF ScreenOK
  <1>2. TimelineOK
    BY DEF Init, TimelineOK, OnTop, WellFormed, NoTimeline, NoFollow, TimelineSet, FollowSet,
           AtLeastOne
  <1>3. RunOK
    <2>1. registry = <<>> /\ told = {} /\ phase \in [Runs -> PhaseSet]
      BY DEF Init, PhaseSet
    <2>2. PICK n \in [OldRuns -> 0..1] :
             said = [r \in Runs |-> IF r \in OldRuns THEN n[r] * MaxEvents[r] ELSE 0]
      BY DEF Init
    <2>3. ASSUME NEW r \in Runs PROVE said[r] \in Nat /\ said[r] <= MaxEvents[r]
      <3>1. MaxEvents[r] \in Nat
        BY PanelAssumption
      <3>2. CASE r \in OldRuns
        <4>1. n[r] = 0 \/ n[r] = 1
          BY <2>2, <3>2
        <4>2. said[r] = n[r] * MaxEvents[r]
          BY <2>2, <3>2
        <4> QED
          BY <3>1, <4>1, <4>2
      <3>3. CASE r \notin OldRuns
        BY <2>2, <3>1, <3>3
      <3> QED
        BY <3>2, <3>3
    <2>4. said \in [Runs -> Nat]
      <3>1. said = [r \in Runs |-> said[r]]
        BY <2>2
      <3> QED
        BY <2>3, <3>1
    <2> QED
      BY <2>1, <2>3, <2>4 DEF RunOK, IsInjective
  <1>4. StoreOK
    BY DEF Init, StoreOK
  <1> QED
    BY <1>1, <1>2, <1>3, <1>4 DEF PanelInv

-----------------------------------------------------------------------------
(* Keys that open or leave a flow. *)

(* A flow opens, or ends in the list, with no timeline on the screen.      *)
LEMMA GoToStep ==
    ASSUME PanelInv, NEW m \in ModeSet \ OnTop, NEW t \in Targets, mode \notin OnTop, GoTo(m, t)
    PROVE  PanelInv'
  <1>1. ScreenOK'
    BY DEF GoTo, PanelInv, ScreenOK
  <1>2. StoreOK'
    BY StoreKept DEF GoTo, storeVars, PanelInv
  <1> QED
    BY <1>1, <1>2, OnlyScreen DEF GoTo

LEMMA CloseStep ==
    ASSUME PanelInv, Close
    PROVE  PanelInv'
  <1>1. ScreenOK'
    <2>1. open' \in BOOLEAN /\ launched' \in BOOLEAN
      BY Zenon DEF Close
    <2>2. mode' \in ModeSet /\ target' \in Targets /\ step' = 1 /\ asked' = "no"
      BY DEF Close, ModeSet, Targets
    <2>3. view' = view /\ list' = list
      BY DEF Close
    <2> QED
      BY <2>1, <2>2, <2>3 DEF PanelInv, ScreenOK
  <1>2. TimelineOK'
    BY TimelineGone DEF Close, OnTop
  <1>3. RunOK' /\ StoreOK'
    BY RunKept, StoreKept DEF Close, PanelInv, RunOK, runVars, storeVars
  <1> QED
    BY <1>1, <1>2, <1>3 DEF PanelInv

LEMMA FlowKeys ==
    ASSUME PanelInv,
           \/ EscapePane \/ EscapeInput \/ ShowDetail
           \/ StartRun \/ StartLifecycle \/ StartSchedule \/ StartTierEdit \/ StartWorkflow
           \/ SubmitBlank
           \/ \E r \in Runs : StartFork(r) \/ StartResume(r) \/ StartSteer(r)
    PROVE  PanelInv'
  <1> DEFINE Flows == {"browse", "agent", "backend", "lifecycle", "schedule", "run", "resume",
                       "steer", "tier", "sched", "lifecycleRun", "workflow"}
  <1>1. \E m \in Flows, t \in Targets : GoTo(m, t)
    <2>1. CASE EscapePane \/ EscapeInput \/ SubmitBlank
      BY <2>1 DEF EscapePane, EscapeInput, SubmitBlank, Targets
    <2>2. CASE ShowDetail
      BY <2>2 DEF ShowDetail, Targets
    <2>3. CASE StartRun \/ StartLifecycle \/ StartSchedule \/ StartWorkflow
      BY <2>3 DEF StartRun, StartLifecycle, StartSchedule, StartWorkflow, Targets
    <2>4. CASE StartTierEdit
      BY <2>4 DEF StartTierEdit, Targets
    <2>5. CASE \E r \in Runs : StartFork(r) \/ StartResume(r) \/ StartSteer(r)
      BY <2>5 DEF StartFork, StartResume, StartSteer, Targets
    <2> QED
      BY <2>1, <2>2, <2>3, <2>4, <2>5
  <1>2. mode \notin OnTop
    <2>1. CASE EscapePane \/ EscapeInput \/ SubmitBlank
      BY <2>1, ModeNames DEF EscapePane, EscapeInput, SubmitBlank, Panes, InputSet, OnTop
    <2>2. CASE ShowDetail
      BY <2>2 DEF ShowDetail, OnTop
    <2>3. CASE StartRun \/ StartLifecycle \/ StartSchedule \/ StartTierEdit \/ StartWorkflow
      BY <2>3 DEF StartRun, StartLifecycle, StartSchedule, StartTierEdit, StartWorkflow,
                  Browsing, OnTop
    <2>4. CASE \E r \in Runs : StartFork(r) \/ StartResume(r) \/ StartSteer(r)
      BY <2>4 DEF StartFork, StartResume, StartSteer, Browsing, OnTop
    <2> QED
      BY <2>1, <2>2, <2>3, <2>4
  <1>3. Flows \subseteq ModeSet \ OnTop
    BY DEF ModeSet, OnTop, Panes, InputSet
  <1> QED
    BY <1>1, <1>2, <1>3, GoToStep

LEMMA LeaveKeys ==
    ASSUME PanelInv, EscapePanel \/ Quit \/ WorkflowIntent
    PROVE  PanelInv'
  BY CloseStep DEF EscapePanel, Quit, WorkflowIntent

-----------------------------------------------------------------------------
(* Keys of the list. *)

LEMMA ListKeys ==
    ASSUME PanelInv, Tab \/ Scroll \/ ToggleTree \/ Reopen
    PROVE  PanelInv'
  <1>1. /\ UNCHANGED timelineVars /\ UNCHANGED runVars /\ UNCHANGED storeVars
        /\ UNCHANGED <<mode, step, target, asked, launched>>
        /\ open' = open \/ ~open
        /\ mode \notin OnTop \/ ~open
    BY DEF Tab, Scroll, ToggleTree, Reopen, OnTop
  <1>2. open' \in BOOLEAN /\ view' \in ViewSet /\ list' \in ListSet
    <2>1. CASE Tab
      <3>1. PICK i \in 1..8 : view' = Views[(i % Len(Views)) + 1] /\ Len(Views) = 8
        BY <2>1 DEF Tab, Views
      <3>2. (i % 8) + 1 \in 1..8
        BY <3>1
      <3>3. view' \in ViewSet
        BY <3>1, <3>2, ViewNames
      <3> QED
        BY <2>1, <3>3, RebuiltIsList DEF Tab, PanelInv, ScreenOK
    <2>2. CASE Scroll
      <3>1. list \in ListSet /\ list.of \in ViewSet
        BY DEF PanelInv, ScreenOK, ListSet
      <3>2. PICK i \in DOMAIN Rows(list.of) : list' = [list EXCEPT !.at = i]
        BY <2>2 DEF Scroll
      <3>3. i \in Nat
        BY <3>1, <3>2, RowsDomain DEF PanelInv
      <3>4. list' \in ListSet
        BY <3>1, <3>2, <3>3 DEF ListSet
      <3> QED
        BY <2>2, <3>4 DEF Scroll, PanelInv, ScreenOK
    <2>3. CASE ToggleTree
      BY <2>3, RebuiltIsList DEF ToggleTree, PanelInv, ScreenOK
    <2>4. CASE Reopen
      BY <2>4, RebuiltIsList DEF Reopen, ViewSet
    <2> QED
      BY <2>1, <2>2, <2>3, <2>4
  <1>3. ScreenOK'
    BY <1>1, <1>2 DEF PanelInv, ScreenOK
  <1>4. StoreOK'
    BY <1>1, StoreKept DEF storeVars, PanelInv
  <1> QED
    BY <1>1, <1>3, <1>4, OnlyScreen

(* Keys that change what a row stands for: x, p, d. *)
LEMMA RowKeys ==
    ASSUME PanelInv,
           \/ \E r \in Runs : Stop(r)
           \/ \E s \in Schedules : PauseSchedule(s) \/ DeleteSchedule(s)
           \/ \E t \in Tiers : DeleteTier(t)
    PROVE  PanelInv'
  <1>1. ASSUME NEW r \in Runs, Stop(r) PROVE PanelInv'
    <2>1. ScreenOK'
      BY <1>1 DEF Stop, screenVars, PanelInv, ScreenOK
    <2>2. TimelineOK'
      BY <1>1, TimelineKept DEF Stop, screenVars, timelineVars, PanelInv
    <2>3. RunOK'
      <3>1. phase' = [phase EXCEPT ![r] = "aborting"] /\ phase \in [Runs -> PhaseSet]
        BY <1>1 DEF Stop, PanelInv, RunOK
      <3>2. phase' \in [Runs -> PhaseSet] /\ \A u \in Runs : phase[u] # "idle" => phase'[u] # "idle"
        BY <3>1 DEF PhaseSet
      <3>3. registry' = registry /\ said' = said /\ told' = told
        BY <1>1 DEF Stop
      <3>4. \A i \in DOMAIN registry : registry[i] \in Runs
        BY DEF PanelInv, RunOK
      <3> QED
        BY <3>2, <3>3, <3>4 DEF PanelInv, RunOK, IsInjective
    <2>4. StoreOK'
      BY <1>1, StoreKept DEF Stop, storeVars, PanelInv
    <2> QED
      BY <2>1, <2>2, <2>3, <2>4 DEF PanelInv
  <1>2. ASSUME NEW v \in {"scheduled", "tiers"}, list' = Rebuilt(v), mode = "browse",
               UNCHANGED <<open, view, mode, step, target, asked, launched>>,
               UNCHANGED timelineVars, UNCHANGED runVars, StoreOK'
        PROVE  PanelInv'
    <2>1. list' \in ListSet
      BY <1>2, RebuiltIsList DEF ViewSet
    <2>2. ScreenOK'
      BY <1>2, <2>1 DEF PanelInv, ScreenOK
    <2> QED
      BY <1>2, <2>2, OnlyScreen
  <1>3. ASSUME NEW s \in Schedules, PauseSchedule(s) \/ DeleteSchedule(s) PROVE PanelInv'
    <2>1. /\ schedules \in [Schedules -> {"absent", "active", "paused"}]
          /\ tiers' = tiers /\ edited' = edited
      BY <1>3 DEF PauseSchedule, DeleteSchedule, PanelInv, StoreOK
    <2>2. schedules' \in [Schedules -> {"absent", "active", "paused"}]
      BY <1>3, <2>1 DEF PauseSchedule, DeleteSchedule
    <2>3. StoreOK'
      BY <2>1, <2>2 DEF PanelInv, StoreOK
    <2> QED
      BY <1>2, <1>3, <2>3 DEF PauseSchedule, DeleteSchedule, Browsing
  <1>4. ASSUME NEW t \in Tiers, DeleteTier(t) PROVE PanelInv'
    <2>1. StoreOK'
      BY <1>4 DEF DeleteTier, PanelInv, StoreOK
    <2> QED
      BY <1>2, <1>4, <2>1 DEF DeleteTier, Browsing
  <1> QED
    BY <1>1, <1>3, <1>4

-----------------------------------------------------------------------------
(* Enter in an input. *)

LEMMA NextQuestionStep ==
    ASSUME PanelInv, NextQuestion
    PROVE  PanelInv'
  <1>1. mode \in InputSet /\ step < Questions[mode] /\ step' = step + 1
    BY ModeNames DEF NextQuestion
  <1>2. step \in 1..3
    BY DEF PanelInv, ScreenOK
  <1>3. Questions[mode] \in 1..3
    BY <1>1, ModeNames
  <1>4. step' \in 1..3
    BY <1>1, <1>2, <1>3
  <1>5. ScreenOK'
    BY <1>4 DEF NextQuestion, PanelInv, ScreenOK
  <1>6. StoreOK'
    BY StoreKept DEF NextQuestion, PanelInv, storeVars
  <1> QED
    BY <1>5, <1>6, OnlyScreen DEF NextQuestion

(* The last answer ends the flow, whatever it does. *)
LEMMA DoneStep ==
    ASSUME PanelInv, Done, list' \in ListSet, asked' = asked, launched' \in BOOLEAN,
           registry' = registry, phase' = phase, said' = said, told' \subseteq Runs, StoreOK'
    PROVE  PanelInv'
  <1>1. mode \in InputSet /\ mode' = "browse" /\ step' = 1 /\ target' = NoRun
    BY ModeNames DEF Done
  <1>2. open' = open /\ view' = view
    BY DEF Done
  <1>3. mode' \in ModeSet /\ target' \in Targets /\ mode \notin OnTop /\ mode' \notin OnTop
    BY <1>1 DEF ModeSet, Targets, OnTop, InputSet
  <1>4. ScreenOK'
    BY <1>1, <1>2, <1>3 DEF PanelInv, ScreenOK
  <1>5. TimelineOK'
    BY <1>3, TimelineKept DEF Done, timelineVars, PanelInv
  <1>6. RunOK'
    BY RunKept DEF PanelInv
  <1> QED
    BY <1>4, <1>5, <1>6 DEF PanelInv

LEMMA SubmitKeys ==
    ASSUME PanelInv,
           \/ SubmitRun \/ SubmitSteer \/ SubmitSchedule \/ SubmitLifecycle
           \/ SubmitTier \/ SubmitWorkflow
    PROVE  PanelInv'
  <1>1. /\ list \in ListSet /\ launched \in BOOLEAN /\ view \in ViewSet /\ told \subseteq Runs
        /\ Rebuilt(view) \in ListSet /\ Rebuilt("tiers") \in ListSet
    BY RebuiltIsList DEF PanelInv, ScreenOK, RunOK, ViewSet
  <1>2. CASE SubmitRun
    BY <1>1, <1>2, DoneStep, StoreKept DEF SubmitRun, PanelInv, runVars, storeVars
  <1>3. CASE SubmitSteer
    BY <1>1, <1>3, DoneStep, StoreKept DEF SubmitSteer, PanelInv, storeVars
  <1>4. CASE SubmitSchedule
    <2>1. schedules \in [Schedules -> {"absent", "active", "paused"}]
      BY DEF PanelInv, StoreOK
    <2>2. schedules' \in [Schedules -> {"absent", "active", "paused"}]
      BY <1>4, <2>1 DEF SubmitSchedule
    <2>3. StoreOK'
      BY <1>4, <2>2 DEF SubmitSchedule, PanelInv, StoreOK
    <2>4. list' \in ListSet
      BY <1>1, <1>4 DEF SubmitSchedule
    <2> QED
      BY <1>1, <1>4, <2>3, <2>4, DoneStep DEF SubmitSchedule, runVars
  <1>5. CASE SubmitLifecycle
    <2>1. launched' \in BOOLEAN
      BY <1>1, <1>5, Zenon DEF SubmitLifecycle
    <2> QED
      BY <1>1, <1>5, <2>1, DoneStep, StoreKept DEF SubmitLifecycle, PanelInv, runVars, storeVars
  <1>6. CASE SubmitTier
    <2>1. StoreOK'
      BY <1>6 DEF SubmitTier, PanelInv, StoreOK
    <2>2. list' \in ListSet
      BY <1>1, <1>6 DEF SubmitTier
    <2> QED
      BY <1>1, <1>6, <2>1, <2>2, DoneStep DEF SubmitTier, runVars
  <1>7. CASE SubmitWorkflow
    <2>1. CASE Close
      BY <2>1, CloseStep
    <2>2. CASE /\ Done /\ list' = Rebuilt(view)
               /\ UNCHANGED <<asked, launched, runVars, storeVars>>
      BY <1>1, <2>2, DoneStep, StoreKept DEF PanelInv, runVars, storeVars
    <2> QED
      BY <1>7, <2>1, <2>2 DEF SubmitWorkflow
  <1> QED
    BY <1>2, <1>3, <1>4, <1>5, <1>6, <1>7

(* The keys of a checkpoint. *)
LEMMA CheckpointKeys ==
    ASSUME PanelInv, KeyContinue \/ KeyAbort \/ KeyRevise \/ SubmitFeedback
    PROVE  PanelInv'
  <1>1. PICK answer \in {"no", "revising"} : Answered(answer)
    BY DEF KeyContinue, KeyAbort, KeyRevise, SubmitFeedback
  <1>2. ScreenOK'
    BY <1>1 DEF Answered, PanelInv, ScreenOK
  <1>3. StoreOK'
    BY <1>1, StoreKept DEF Answered, storeVars, PanelInv
  <1> QED
    BY <1>1, <1>2, <1>3, OnlyScreen DEF Answered

-----------------------------------------------------------------------------
(* Keys of the timeline. *)

(* Steps that leave the runs and the stores alone. *)
LEMMA OnlyShown ==
    ASSUME PanelInv, ScreenOK', TimelineOK', UNCHANGED runVars, UNCHANGED storeVars
    PROVE  PanelInv'
  BY RunKept, StoreKept DEF PanelInv, RunOK, runVars, storeVars

LEMMA OpenTimelineStep ==
    ASSUME PanelInv, NEW r \in Runs, OpenTimeline(r), open, view' \in ViewSet
    PROVE  PanelInv'
  <1> DEFINE t == [NoTimeline EXCEPT !.run = r, !.seen = said[r]]
             i == IF AtWork(r) THEN AtLeastOne(said[r]) ELSE 1
  <1>1. /\ mode' = "timeline" /\ timeline' = Rendered(t)
        /\ live' = IF AtWork(r) THEN r ELSE NoRun
        /\ follow' = [NoFollow EXCEPT !.index = i]
        /\ said' = said /\ open' = open
    BY DEF OpenTimeline, runVars
  <1>2. said[r] \in Nat /\ r # NoRun
    BY PanelAssumption DEF PanelInv, RunOK
  <1>3. WellFormed(t) /\ t.run = r /\ t.seen = said[r]
    <2>1. NoTimeline \in TimelineSet
      BY DEF NoTimeline, TimelineSet
    <2>2. /\ NoTimeline.cursor = 1 /\ NoTimeline.token = 0 /\ NoTimeline.built = FALSE
      BY DEF NoTimeline
    <2>3. t = [NoTimeline EXCEPT !.run = r, !.seen = said[r]]
      OBVIOUS
    <2> HIDE DEF t
    <2>4. t \in TimelineSet /\ t.run = r /\ t.seen = said[r]
      BY <1>2, <2>1, <2>3 DEF TimelineSet
    <2>5. t.cursor = 1 /\ t.token = 0 /\ ~t.built
      BY <2>1, <2>2, <2>3 DEF TimelineSet
    <2> QED
      BY <1>2, <2>4, <2>5 DEF WellFormed, AtLeastOne
  <1>4. i \in Nat \ {0} /\ (AtWork(r) => i = AtLeastOne(said[r]))
    BY <1>2 DEF AtLeastOne
  <1> HIDE DEF t, i
  <1>5. WellFormed(Rendered(t)) /\ Rendered(t).run = r /\ Rendered(t).seen = said[r]
    BY <1>3, RenderedWell
  <1>6. follow' = [index |-> i, pinned |-> TRUE]
    BY <1>1 DEF NoFollow
  <1>7. follow' \in FollowSet /\ follow'.index = i
    BY <1>4, <1>6 DEF FollowSet
  <1>8. WellFormed(timeline)'
    BY <1>1, <1>5 DEF WellFormed
  <1>9. live' # NoRun => IsLive'
    BY <1>1, <1>2, <1>4, <1>5, <1>7 DEF IsLive, AtLeastOne
  <1>10. TimelineOK'
    BY <1>1, <1>2, <1>5, <1>7, <1>8, <1>9 DEF TimelineOK, OnTop
  <1>11. ScreenOK'
    <2>1. mode' \in ModeSet
      BY <1>1 DEF ModeSet
    <2> QED
      BY <2>1 DEF OpenTimeline, PanelInv, ScreenOK
  <1> QED
    BY <1>10, <1>11, OnlyShown DEF OpenTimeline

LEMMA OpenKeys ==
    ASSUME PanelInv, Replay \/ ViewEvidence
    PROVE  PanelInv'
  <1>1. open /\ view' \in ViewSet
    BY DEF Replay, ViewEvidence, Browsing, ViewSet, PanelInv, ScreenOK
  <1>2. CASE \E r \in Runs : OpenTimeline(r)
    BY <1>1, <1>2, OpenTimelineStep
  <1>3. CASE /\ mode = "lifecycle" /\ mode' = "browse"
             /\ UNCHANGED <<open, list, step, target, asked, launched,
                             timelineVars, runVars, storeVars>>
    <2>1. ScreenOK'
      BY <1>1, <1>3 DEF PanelInv, ScreenOK, ModeSet
    <2>2. StoreOK'
      BY <1>3, StoreKept DEF PanelInv, storeVars
    <2> QED
      BY <1>3, <2>1, <2>2, OnlyScreen DEF OnTop
  <1> QED
    BY <1>2, <1>3 DEF Replay, ViewEvidence

LEMMA TimelineKeys ==
    ASSUME PanelInv,
           EscapeMessage \/ EscapeTimeline \/ OpenMessage \/ ScrollReplay \/ ScrollLive
    PROVE  PanelInv'
  <1>1. /\ WellFormed(timeline) /\ timeline \in TimelineSet
        /\ timeline.seen \in Nat /\ timeline.cursor \in Nat \ {0}
    BY DEF PanelInv, TimelineOK, WellFormed, TimelineSet
  <1>2. ScreenOK'
    <2>1. mode' = mode \/ mode' \in {"browse", "timeline", "message"}
      BY DEF EscapeMessage, EscapeTimeline, OpenMessage, ScrollReplay, ScrollLive, screenVars
    <2>2. mode' \in ModeSet
      BY <2>1 DEF ModeSet, PanelInv, ScreenOK
    <2>3. UNCHANGED <<open, view, list, step, target, asked, launched>>
      BY DEF EscapeMessage, EscapeTimeline, OpenMessage, ScrollReplay, ScrollLive, screenVars
    <2> QED
      BY <2>2, <2>3 DEF PanelInv, ScreenOK
  <1>3. UNCHANGED runVars /\ UNCHANGED storeVars /\ said' = said /\ open' = open
    BY DEF EscapeMessage, EscapeTimeline, OpenMessage, ScrollReplay, ScrollLive, screenVars,
           runVars
  <1>4. CASE EscapeMessage
    BY <1>2, <1>3, <1>4, TimelineDrawn, OnlyShown DEF EscapeMessage, OnTop, PanelInv
  <1>5. CASE EscapeTimeline
    BY <1>2, <1>3, <1>5, TimelineGone, OnlyShown DEF EscapeTimeline, OnTop
  <1>6. CASE OpenMessage
    <2>1. /\ timeline' = [timeline EXCEPT !.token = timeline.cursor]
          /\ live' = live /\ follow' = follow /\ mode = "timeline" /\ mode' = "message"
          /\ timeline.built
      BY <1>6 DEF OpenMessage
    <2>2. timeline.cursor <= timeline.seen
      BY <1>1, <2>1 DEF WellFormed, AtLeastOne
    <2>3. /\ WellFormed(timeline)' /\ timeline'.run = timeline.run
          /\ timeline'.seen = timeline.seen
      BY <1>1, <2>1, <2>2 DEF WellFormed, TimelineSet, AtLeastOne
    <2>4. TimelineOK'
      BY <1>3, <2>1, <2>3 DEF PanelInv, TimelineOK, IsLive, OnTop
    <2> QED
      BY <1>2, <1>3, <2>4, OnlyShown
  <1>7. CASE ScrollReplay
    <2>1. PICK i \in 1..timeline.seen : timeline' = [timeline EXCEPT !.cursor = i]
      BY <1>7 DEF ScrollReplay
    <2>2. /\ WellFormed(timeline)' /\ timeline'.run = timeline.run
          /\ timeline'.seen = timeline.seen
      BY <1>1, <2>1 DEF WellFormed, TimelineSet, AtLeastOne
    <2>3. TimelineOK'
      BY <1>3, <1>7, <2>2 DEF ScrollReplay, screenVars, PanelInv, TimelineOK, IsLive
    <2> QED
      BY <1>2, <1>3, <2>3, OnlyShown
  <1>8. CASE ScrollLive
    <2>1. PICK i \in 1..timeline.seen :
             /\ follow' = Moved(i)
             /\ timeline' = Rendered([timeline EXCEPT !.token = i])
      BY <1>8 DEF ScrollLive
    <2> DEFINE t == [timeline EXCEPT !.token = i]
    <2>2. WellFormed(t) /\ t.run = timeline.run /\ t.seen = timeline.seen
      BY <1>1 DEF WellFormed, TimelineSet, AtLeastOne
    <2> HIDE DEF t
    <2>3. /\ WellFormed(Rendered(t)) /\ Rendered(t).run = timeline.run
          /\ Rendered(t).seen = timeline.seen
      BY <2>2, RenderedWell
    <2>4. timeline' = Rendered(t)
      BY <2>1 DEF t
    <2>5. /\ follow' \in FollowSet /\ follow'.index = i
          /\ (follow'.pinned => i = timeline.seen)
      <3>1. follow' = [index |-> i, pinned |-> i = timeline.seen]
        BY <2>1 DEF Moved
      <3>2. i \in Nat \ {0}
        BY <1>1, <2>1
      <3>3. (i = timeline.seen) \in BOOLEAN
        BY Zenon
      <3>4. follow' \in FollowSet
        BY <3>1, <3>2, <3>3, Zenon DEF FollowSet
      <3>5. follow'.index = i /\ follow'.pinned = (i = timeline.seen)
        BY <3>1, Zenon
      <3> QED
        BY <3>4, <3>5, Zenon
    <2>6. WellFormed(timeline)'
      BY <2>3, <2>4 DEF WellFormed
    <2>7. i <= AtLeastOne(timeline.seen) /\ (i = timeline.seen => i = AtLeastOne(timeline.seen))
      BY <1>1 DEF AtLeastOne
    <2>8. live' = live /\ mode' = mode
      BY <1>8 DEF ScrollLive, screenVars
    <2>9. TimelineOK'
      BY <1>3, <2>3, <2>4, <2>5, <2>6, <2>7, <2>8 DEF PanelInv, TimelineOK, IsLive
    <2> QED
      BY <1>2, <1>3, <2>9, OnlyShown
  <1> QED
    BY <1>4, <1>5, <1>6, <1>7, <1>8

-----------------------------------------------------------------------------
(* The stores: the runs that start, speak and end under the panel.         *)

LEMMA RefreshList ==
    ASSUME PanelInv, Refresh
    PROVE  ScreenOK'
  <1>1. list' \in ListSet
    BY RebuiltIsList DEF Refresh, PanelInv, ScreenOK
  <1> QED
    BY <1>1 DEF Refresh, PanelInv, ScreenOK

LEMMA StoreSteps ==
    ASSUME PanelInv, Ask \/ LifecycleEnds \/ StoreChanges
    PROVE  PanelInv'
  <1>1. /\ timeline' = Redrawn(timeline) /\ live' = live /\ follow' = follow
        /\ UNCHANGED runVars /\ UNCHANGED storeVars /\ open' = open /\ mode' = mode
    BY DEF Ask, LifecycleEnds, StoreChanges, Refresh
  <1>2. TimelineOK'
    BY <1>1, TimelineDrawn DEF PanelInv, runVars
  <1>3. ScreenOK'
    <2>1. CASE Ask
      BY <2>1 DEF Ask, PanelInv, ScreenOK
    <2>2. CASE LifecycleEnds
      <3>1. list' \in ListSet
        BY <2>2, RebuiltIsList DEF LifecycleEnds, PanelInv, ScreenOK
      <3>2. launched' \in BOOLEAN
        BY <2>2, Zenon DEF LifecycleEnds
      <3> QED
        BY <2>2, <3>1, <3>2 DEF LifecycleEnds, PanelInv, ScreenOK
    <2>3. CASE StoreChanges
      BY <2>3, RefreshList DEF StoreChanges
    <2> QED
      BY <2>1, <2>2, <2>3
  <1> QED
    BY <1>1, <1>2, <1>3, OnlyShown

(* A new run comes first in the registry, which had no such run.           *)
LEMMA RegistryGrows ==
    ASSUME RunOK, NEW r \in Runs, phase[r] = "idle", registry' = <<r>> \o registry
    PROVE  /\ registry' \in Seq(Runs) /\ IsInjective(registry')
           /\ \A i \in DOMAIN registry' : registry'[i] = r \/ phase[registry'[i]] # "idle"
  <1> DEFINE n == Len(registry)
  <1>1. registry \in Seq(Runs) /\ n \in Nat /\ DOMAIN registry = 1..n
    BY DEF RunOK
  <1>2. /\ registry' \in Seq(Runs) /\ DOMAIN registry' = 1..(n + 1) /\ registry'[1] = r
        /\ \A i \in 2..(n + 1) : registry'[i] = registry[i - 1]
    BY <1>1
  <1> HIDE DEF n
  <1>3. \A i \in 2..(n + 1) : i - 1 \in 1..n
    BY <1>1
  <1>4. \A i \in 2..(n + 1) : registry'[i] # r /\ phase[registry'[i]] # "idle"
    BY <1>1, <1>2, <1>3 DEF RunOK
  <1>5. \A i \in 1..(n + 1) : i = 1 \/ i \in 2..(n + 1)
    BY <1>1
  <1>6. ASSUME NEW i \in 1..(n + 1), NEW j \in 1..(n + 1), registry'[i] = registry'[j]
        PROVE  i = j
    <2>1. CASE i = 1 \/ j = 1
      BY <1>2, <1>4, <1>5, <1>6, <2>1
    <2>2. CASE i # 1 /\ j # 1
      <3>1. i \in 2..(n + 1) /\ j \in 2..(n + 1)
        BY <1>5, <2>2
      <3>2. registry[i - 1] = registry[j - 1] /\ i - 1 \in 1..n /\ j - 1 \in 1..n
        BY <1>2, <1>3, <1>6, <3>1
      <3>3. i - 1 = j - 1
        BY <1>1, <3>2 DEF RunOK, IsInjective
      <3> QED
        BY <1>1, <3>3
    <2> QED
      BY <2>1, <2>2
  <1> QED
    BY <1>2, <1>4, <1>5, <1>6 DEF IsInjective

LEMMA RunSteps ==
    ASSUME PanelInv, NEW r \in Runs, RunStarts(r) \/ RunOpens(r) \/ RunEnds(r)
    PROVE  PanelInv'
  <1>1. PICK from \in SUBSET PhaseSet, to \in PhaseSet \ {"idle"} : RunMoves(r, from, to)
    BY DEF RunStarts, RunOpens, RunEnds, PhaseSet
  <1>2. /\ timeline' = Redrawn(timeline) /\ live' = live /\ follow' = follow
        /\ said' = said /\ told' = told /\ UNCHANGED storeVars
        /\ open' = open /\ mode' = mode
    BY <1>1 DEF RunMoves, Refresh
  <1>3. ScreenOK'
    BY <1>1, RefreshList DEF RunMoves
  <1>4. TimelineOK'
    BY <1>2, TimelineDrawn DEF PanelInv
  <1>5. phase \in [Runs -> PhaseSet] /\ phase' = [phase EXCEPT ![r] = to]
    BY <1>1 DEF RunMoves, PanelInv, RunOK
  <1>6. /\ phase' \in [Runs -> PhaseSet] /\ phase'[r] # "idle"
        /\ \A u \in Runs : phase[u] # "idle" => phase'[u] # "idle"
    BY <1>5
  <1>7. /\ registry' \in Seq(Runs) /\ IsInjective(registry')
        /\ \A i \in DOMAIN registry' : registry'[i] = r \/ phase[registry'[i]] # "idle"
    <2>1. CASE registry' = registry
      BY <2>1 DEF PanelInv, RunOK
    <2>2. CASE registry' = <<r>> \o registry /\ phase[r] = "idle"
      BY <2>2, RegistryGrows DEF PanelInv
    <2> QED
      BY <2>1, <2>2 DEF RunStarts, RunOpens, RunEnds, RunMoves
  <1>8. \A i \in DOMAIN registry' : registry'[i] \in Runs
    BY <1>7
  <1>9. RunOK'
    BY <1>2, <1>6, <1>7, <1>8 DEF PanelInv, RunOK
  <1>10. StoreOK'
    BY <1>2, StoreKept DEF PanelInv, storeVars
  <1> QED
    BY <1>3, <1>4, <1>9, <1>10 DEF PanelInv

(* The log gets an entry, and the timeline that follows it too.            *)
LEMMA HeardWell ==
    ASSUME PanelInv, NEW r \in Runs, RunSpeaks(r), live = r
    PROVE  TimelineOK'
  <1> DEFINE n == timeline.seen
             i == IF follow.pinned THEN n + 1 ELSE follow.index
             t == [timeline EXCEPT !.seen = n + 1, !.token = i]
  <1>1. timeline' = Redrawn(Redrawn(t)) /\ follow' = [follow EXCEPT !.index = i]
    BY DEF RunSpeaks, Heard, Appended
  <1>2. /\ live' = live /\ open' = open /\ mode' = mode
        /\ said' = [said EXCEPT ![r] = @ + 1]
    BY DEF RunSpeaks, Refresh
  <1>3. live # NoRun /\ IsLive /\ WellFormed(timeline) /\ timeline \in TimelineSet
    BY PanelAssumption DEF PanelInv, TimelineOK, WellFormed
  <1>4. n \in Nat /\ follow \in FollowSet /\ follow.index \in Nat \ {0}
    BY <1>3 DEF PanelInv, TimelineOK, TimelineSet, FollowSet
  <1>5. i \in Nat \ {0} /\ i <= n + 1 /\ (follow.pinned => i = n + 1)
    BY <1>3, <1>4 DEF IsLive, AtLeastOne
  <1>6. said'[r] = n + 1
    BY <1>2, <1>3 DEF IsLive, PanelInv, RunOK
  <1>7. AtLeastOne(n + 1) = n + 1
    BY <1>4 DEF AtLeastOne
  <1> HIDE DEF i
  <1>8. t = [timeline EXCEPT !.seen = n + 1, !.token = i]
    OBVIOUS
  <1>9. WellFormed(t) /\ t.run = timeline.run /\ t.seen = n + 1
    <2> HIDE DEF t
    <2>1. n + 1 \in Nat /\ i \in Nat
      BY <1>4, <1>5
    <2>2. t \in TimelineSet /\ t.run = timeline.run /\ t.seen = n + 1 /\ t.token = i
      BY <1>3, <1>8, <2>1 DEF TimelineSet
    <2>3. t.cursor = timeline.cursor
      BY <1>3, <1>8 DEF TimelineSet
    <2>4. timeline.cursor <= AtLeastOne(n) /\ timeline.cursor \in Nat
      BY <1>3 DEF WellFormed, TimelineSet
    <2>5. timeline.cursor <= n + 1
      BY <1>4, <2>4 DEF AtLeastOne
    <2>6. n + 1 # 0
      BY <1>4
    <2> QED
      BY <1>5, <1>7, <2>2, <2>3, <2>5, <2>6 DEF WellFormed
  <1> HIDE DEF t
  <1>10. /\ WellFormed(Redrawn(Redrawn(t))) /\ Redrawn(Redrawn(t)).run = timeline.run
         /\ Redrawn(Redrawn(t)).seen = n + 1
    BY <1>9, RedrawnWell
  <1>11. WellFormed(timeline)' /\ timeline'.run = timeline.run /\ timeline'.seen = n + 1
    BY <1>1, <1>10 DEF WellFormed
  <1>12. follow' \in FollowSet /\ follow'.index = i /\ follow'.pinned = follow.pinned
    BY <1>1, <1>4, <1>5 DEF FollowSet
  <1>13. IsLive'
    BY <1>2, <1>3, <1>5, <1>6, <1>7, <1>11, <1>12 DEF IsLive
  <1> QED
    BY <1>2, <1>11, <1>12, <1>13 DEF PanelInv, TimelineOK

LEMMA SpeaksStep ==
    ASSUME PanelInv, NEW r \in Runs, RunSpeaks(r)
    PROVE  PanelInv'
  <1>1. ScreenOK'
    BY RefreshList DEF RunSpeaks
  <1>2. /\ said' = [said EXCEPT ![r] = @ + 1] /\ said[r] < MaxEvents[r]
        /\ said \in [Runs -> Nat] /\ \A u \in Runs : said[u] <= MaxEvents[u]
    BY DEF RunSpeaks, PanelInv, RunOK
  <1>3. MaxEvents[r] \in Nat
    BY PanelAssumption
  <1>4. /\ said' \in [Runs -> Nat] /\ \A u \in Runs : said'[u] <= MaxEvents[u]
        /\ \A u \in Runs \ {r} : said'[u] = said[u]
    BY <1>2, <1>3
  <1>5. RunOK'
    BY <1>4 DEF RunSpeaks, PanelInv, RunOK, IsInjective
  <1>6. StoreOK'
    BY StoreKept DEF RunSpeaks, PanelInv, storeVars
  <1>7. TimelineOK'
    <2>1. CASE live = r
      BY <2>1, HeardWell
    <2>2. CASE live # r
      <3>1. /\ timeline' = Redrawn(timeline) /\ live' = live /\ follow' = follow
            /\ open' = open /\ mode' = mode
        BY <2>2 DEF RunSpeaks, Refresh
      <3>2. /\ WellFormed(timeline') /\ timeline'.run = timeline.run
            /\ timeline'.seen = timeline.seen
        BY <3>1, RedrawnWell DEF PanelInv, TimelineOK
      <3>3. live # NoRun => said'[live] = said[live]
        BY <1>4, <2>2 DEF PanelInv, TimelineOK
      <3>4. WellFormed(timeline)'
        BY <3>2 DEF WellFormed
      <3> QED
        BY <3>1, <3>2, <3>3, <3>4 DEF PanelInv, TimelineOK, IsLive
    <2> QED
      BY <2>1, <2>2
  <1> QED
    BY <1>1, <1>5, <1>6, <1>7 DEF PanelInv

-----------------------------------------------------------------------------
LEMMA PanelNext == PanelInv /\ [Next]_vars => PanelInv'
  <1> SUFFICES ASSUME PanelInv, [Next]_vars PROVE PanelInv'
    OBVIOUS
  <1>1. CASE UNCHANGED vars
    <2>1. /\ UNCHANGED <<open, view, list, mode, step, target, asked, launched>>
          /\ UNCHANGED timelineVars /\ UNCHANGED runVars /\ UNCHANGED storeVars
      BY <1>1 DEF vars, screenVars
    <2>2. ScreenOK' /\ StoreOK'
      BY <2>1, StoreKept DEF PanelInv, ScreenOK, storeVars
    <2> QED
      BY <2>1, <2>2, OnlyScreen
  <1>2. CASE Keys
    <2>1. CASE Escape
      BY <2>1, FlowKeys, TimelineKeys, LeaveKeys DEF Escape
    <2> QED
      BY <1>2, <2>1, FlowKeys, LeaveKeys, ListKeys, RowKeys, NextQuestionStep, SubmitKeys,
         CheckpointKeys, OpenKeys, TimelineKeys DEF Keys
  <1>3. CASE Stores
    BY <1>3, StoreSteps, RunSteps, SpeaksStep DEF Stores
  <1> QED
    BY <1>1, <1>2, <1>3 DEF Next

(* Who types a steer: of all the keys only s begins one.                   *)
LEMMA ChosenMoves ==
    ASSUME [Next]_vars
    PROVE  \/ UNCHANGED <<mode, target, chosen>>
           \/ mode' # "steer" /\ chosen' \in {chosen, NoRun}
           \/ \E r \in Runs : StartSteer(r)
  <1> DEFINE Kept  == UNCHANGED <<mode, target, chosen>>
             Other == mode' # "steer" /\ chosen' \in {chosen, NoRun}
  <1>1. CASE UNCHANGED vars
    BY <1>1 DEF vars, screenVars
  <1>2. CASE Stores
    BY <1>2 DEF Stores, Ask, LifecycleEnds, StoreChanges, RunStarts, RunOpens, RunEnds, RunMoves,
                RunSpeaks, Refresh
  <1>3. CASE Keys
    <2>1. ASSUME NEW m, NEW t, GoTo(m, t), m # "steer" PROVE Other
      BY <2>1 DEF GoTo
    <2>2. Close \/ Done => Other
      BY DEF Close, Done
    <2>3. Escape => Other
      BY <2>1, <2>2 DEF Escape, EscapePane, EscapeInput, EscapeMessage, EscapeTimeline,
                        EscapePanel
    <2>4. Quit \/ WorkflowIntent \/ Tab \/ Scroll \/ ToggleTree \/ Reopen => Other \/ Kept
      BY <2>2 DEF Quit, WorkflowIntent, Tab, Scroll, ToggleTree, Reopen
    <2>5. ShowDetail \/ StartRun \/ StartLifecycle \/ StartSchedule \/ StartTierEdit
             \/ StartWorkflow \/ SubmitBlank => Other
      BY <2>1 DEF ShowDetail, StartRun, StartLifecycle, StartSchedule, StartTierEdit,
                  StartWorkflow, SubmitBlank
    <2>6. Replay \/ ViewEvidence \/ OpenMessage \/ ScrollReplay \/ ScrollLive => Other \/ Kept
      BY DEF Replay, ViewEvidence, OpenTimeline, OpenMessage, ScrollReplay, ScrollLive, screenVars
    <2>7. ASSUME NEW r \in Runs, StartFork(r) \/ StartResume(r) \/ Stop(r) PROVE Other \/ Kept
      BY <2>1, <2>7 DEF StartFork, StartResume, Stop, screenVars
    <2>8. ASSUME NEW s \in Schedules, PauseSchedule(s) \/ DeleteSchedule(s) PROVE Kept
      BY <2>8 DEF PauseSchedule, DeleteSchedule
    <2>9. ASSUME NEW t \in Tiers, DeleteTier(t) PROVE Kept
      BY <2>9 DEF DeleteTier
    <2>10. NextQuestion \/ SubmitRun \/ SubmitSteer \/ SubmitSchedule \/ SubmitLifecycle
             \/ SubmitTier \/ SubmitWorkflow => Other \/ Kept
      BY <2>2 DEF NextQuestion, SubmitRun, SubmitSteer, SubmitSchedule, SubmitLifecycle,
                  SubmitTier, SubmitWorkflow
    <2>11. KeyContinue \/ KeyAbort \/ KeyRevise \/ SubmitFeedback => Kept
      BY DEF KeyContinue, KeyAbort, KeyRevise, SubmitFeedback, Answered
    <2> HIDE DEF Kept, Other
    <2>12. Kept \/ Other \/ \E r \in Runs : StartSteer(r)
      BY <1>3, <2>3, <2>4, <2>5, <2>6, <2>7, <2>8, <2>9, <2>10, <2>11 DEF Keys
    <2> QED
      BY <2>12 DEF Kept, Other
  <1> QED
    BY <1>1, <1>2, <1>3 DEF Next

LEMMA ChosenNext == ChosenOK /\ [Next]_vars => ChosenOK'
  <1> SUFFICES ASSUME ChosenOK, [Next]_vars PROVE ChosenOK'
    OBVIOUS
  <1>1. ASSUME NEW r \in Runs, StartSteer(r) PROVE ChosenOK'
    <2>1. target' = r /\ chosen' = r
      BY <1>1 DEF StartSteer, Selects, GoTo
    <2> QED BY <2>1 DEF ChosenOK
  <1> QED BY <1>1, ChosenMoves DEF ChosenOK

LEMMA ChosenInit == Init => ChosenOK
  BY DEF Init, ChosenOK

(* What the panel shows of a run at work is the log of that run, through   *)
(* every key, overlay and tab and whatever the run says meanwhile: the     *)
(* subscription is of the run on the screen, no event is missing, also of  *)
(* those that came under a whole message, and a cursor at the newest event *)
(* stays at the newest (openRunTimeline, closeTimeline and the subscriber  *)
(* of fleet-panel.ts, LiveTimelineState.append of live-timeline.ts).       *)
THEOREM TimelineIsLiveHolds == Spec => []TimelineIsLive
  <1>1. PanelInv /\ ChosenOK => TimelineIsLive
    BY PanelInvMeans DEF TimelineIsLive
  <1> QED
    BY <1>1, PanelInit, PanelNext, ChosenInit, ChosenNext, PTL DEF Spec

(* Only the text of a steer reaches a run. *)
LEMMA OthersTellNobody ==
    ASSUME [Next]_vars, told' # told
    PROVE  SubmitSteer
  <1>1. CASE UNCHANGED vars
    BY <1>1 DEF vars, runVars
  <1>2. CASE Stores
    BY <1>2 DEF Stores, Ask, LifecycleEnds, StoreChanges, RunStarts, RunOpens, RunEnds, RunMoves,
                RunSpeaks, runVars
  <1>3. CASE Keys
    <2>1. ASSUME NEW m, NEW t, GoTo(m, t) PROVE told' = told
      BY <2>1 DEF GoTo, runVars
    <2>2. Close => told' = told
      BY DEF Close, runVars
    <2>3. Escape => told' = told
      BY <2>1, <2>2 DEF Escape, EscapePane, EscapeInput, EscapeMessage, EscapeTimeline,
                        EscapePanel, runVars
    <2>4. Quit \/ WorkflowIntent \/ Tab \/ Scroll \/ ToggleTree \/ Reopen => told' = told
      BY <2>2 DEF Quit, WorkflowIntent, Tab, Scroll, ToggleTree, Reopen, runVars
    <2>5. ShowDetail \/ StartRun \/ StartLifecycle \/ StartSchedule \/ StartTierEdit
             \/ StartWorkflow \/ SubmitBlank => told' = told
      BY <2>1 DEF ShowDetail, StartRun, StartLifecycle, StartSchedule, StartTierEdit,
                  StartWorkflow, SubmitBlank
    <2>6. Replay \/ ViewEvidence \/ OpenMessage \/ ScrollReplay \/ ScrollLive => told' = told
      BY DEF Replay, ViewEvidence, OpenTimeline, OpenMessage, ScrollReplay, ScrollLive, runVars
    <2>7. ASSUME NEW r \in Runs, StartFork(r) \/ StartResume(r) \/ StartSteer(r) \/ Stop(r)
          PROVE  told' = told
      BY <2>1, <2>7 DEF StartFork, StartResume, StartSteer, Stop
    <2>8. ASSUME NEW s \in Schedules, PauseSchedule(s) \/ DeleteSchedule(s) PROVE told' = told
      BY <2>8 DEF PauseSchedule, DeleteSchedule, runVars
    <2>9. ASSUME NEW t \in Tiers, DeleteTier(t) PROVE told' = told
      BY <2>9 DEF DeleteTier, runVars
    <2>10. NextQuestion \/ SubmitRun \/ SubmitSchedule \/ SubmitLifecycle \/ SubmitTier
             \/ SubmitWorkflow => told' = told
      BY <2>2 DEF NextQuestion, SubmitRun, SubmitSchedule, SubmitLifecycle, SubmitTier,
                  SubmitWorkflow, runVars
    <2>11. KeyContinue \/ KeyAbort \/ KeyRevise \/ SubmitFeedback => told' = told
      BY DEF KeyContinue, KeyAbort, KeyRevise, SubmitFeedback, Answered, runVars
    <2> QED
      BY <1>3, <2>3, <2>4, <2>5, <2>6, <2>7, <2>8, <2>9, <2>10, <2>11 DEF Keys
  <1> QED
    BY <1>1, <1>2, <1>3 DEF Next

(* The text of a steer goes to the run whose row was selected when s was   *)
(* pressed, if it still has a session, however the list was rebuilt while the text was typed            *)
(* (executeSteer of fleet-panel.ts).                                       *)
THEOREM SteersTheChosenHolds == Spec => SteersTheChosen
  <1>1. ChosenOK /\ [Next]_vars => [\A r \in told' \ told : r = chosen /\ HasSession(r)]_vars
    <2> SUFFICES ASSUME ChosenOK, [Next]_vars, NEW r \in told' \ told
                 PROVE  r = chosen /\ HasSession(r)
      OBVIOUS
    <2>1. SubmitSteer
      BY OthersTellNobody
    <2> QED
      BY <2>1 DEF SubmitSteer, SteerReaches, ChosenOK
  <1> QED
    BY <1>1, ChosenInit, ChosenNext, PTL DEF Spec, SteersTheChosen
=============================================================================
