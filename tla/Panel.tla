-------------------------------- MODULE Panel --------------------------------
(***************************************************************************)
(* The /fleet panel as a state machine of its keys: FleetPanel of          *)
(* src/panel/fleet-panel.ts, with the cursor of a live timeline            *)
(* (src/panel/live-timeline.ts), the rows of its lists and the host that   *)
(* opens it again after an intent (src/workflows/panel-host.ts), while the *)
(* runs it shows start, speak and end.                                     *)
(*                                                                         *)
(* A key goes to the one pane, overlay or input that is open, or else to   *)
(* the view; a change of a store rebuilds the list at once, with its first *)
(* row selected.  What the keys ask of the engine is in the modules of the *)
(* engine: a dispatch of the panel is a run that starts, and the answers   *)
(* to a checkpoint are in Lifecycle.  The tree layout of a list, the scope *)
(* of a tier edit and the statuses of workflow rows are data left out.     *)
(***************************************************************************)
EXTENDS Naturals, SequencesExt

CONSTANTS Runs,       \* runs, ...
          OldRuns,    \* ... those that only the log of an earlier session knows
          Steerable,  \* ... those whose session takes a message (pi, not claude)
          Resumable,  \* ... those whose session id is in the log
          Tiers,      \* names of tiers
          Schedules,  \* ids of schedules
          MaxEvents,  \* bound: the messages and tool results of each run
          NoRun, NoTier

ASSUME PanelAssumption ==
    /\ OldRuns \subseteq Runs /\ Steerable \subseteq Runs /\ Resumable \subseteq Runs
    /\ IsFiniteSet(OldRuns) /\ IsFiniteSet(Tiers) /\ IsFiniteSet(Schedules)
    /\ NoRun \notin Runs /\ NoTier \notin Tiers
    /\ MaxEvents \in [Runs -> Nat]

VARIABLES open,      \* the panel is on the screen
          view,      \* its tab
          list,      \* its list: the tab the rows are of, the selected row
          mode,      \* what the keys go to
          step,      \* the question of the input
          target,    \* what the flow was opened on
          chosen,    \* history: the row that was selected when s was pressed
          timeline,  \* selectedRun with its events, and the list that shows them
          live,      \* the run whose log the timeline is subscribed to
          follow,    \* LiveTimelineState
          asked,     \* the checkpoint of a lifecycle: no, asked, revising
          launched,  \* a lifecycle that this panel started is on its way
          registry,  \* the runs of this session, newest first
          phase,     \* a run: idle, opening (no session yet), running, aborting, ended,
                     \* or stillborn, when it ended without a session
          said,      \* the messages and tool results in its log
          told,      \* the runs that a steer reached
          tiers,     \* the tiers there are
          edited,    \* the tier whose entry was written last
          schedules  \* absent, active or paused

screenVars == <<open, view, list, mode, step, target, chosen, asked, launched>>
timelineVars == <<timeline, live, follow>>
runVars == <<registry, phase, said, told>>
storeVars == <<tiers, edited, schedules>>
vars == <<screenVars, timelineVars, runVars, storeVars>>

Views == <<"fleet", "lifecycle", "runs", "agents", "backends", "scheduled", "tiers", "workflows">>
Panes == {"agent", "backend", "lifecycle", "schedule"}
(* The inputs of the panel, with the number of questions each asks.        *)
Questions == [run |-> 2, resume |-> 1, steer |-> 1, tier |-> 1, sched |-> 3,
              lifecycleRun |-> 3, workflow |-> 1]
Inputs == DOMAIN Questions
Modes == {"browse", "timeline", "message"} \cup Panes \cup Inputs

NoTimeline == [run |-> NoRun, seen |-> 0, cursor |-> 1, token |-> 0, built |-> FALSE]
NoFollow == [index |-> 1, pinned |-> TRUE]
AtLeastOne(n) == IF n = 0 THEN 1 ELSE n

TypeOK ==
    /\ open \in BOOLEAN /\ launched \in BOOLEAN
    /\ view \in ToSet(Views)
    /\ list \in [of : ToSet(Views), at : Nat]
    /\ mode \in Modes /\ step \in 1..3
    /\ target \in Runs \cup Tiers \cup {NoRun, NoTier} /\ chosen \in Runs \cup {NoRun}
    /\ timeline \in [run : Runs \cup {NoRun}, seen : Nat, cursor : Nat \ {0},
                     token : Nat, built : BOOLEAN]
    /\ timeline.cursor <= AtLeastOne(timeline.seen) /\ timeline.token <= timeline.seen
    /\ (timeline.run # NoRun) <=> (mode \in {"timeline", "message"})
    /\ live \in Runs \cup {NoRun}
    /\ follow \in [index : Nat \ {0}, pinned : BOOLEAN]
    /\ asked \in {"no", "asked", "revising"}
    /\ registry \in Seq(Runs) /\ IsInjective(registry)
    /\ phase \in [Runs -> {"idle", "opening", "running", "aborting", "ended", "stillborn"}]
    /\ said \in [Runs -> Nat] /\ \A r \in Runs : said[r] <= MaxEvents[r]
    /\ told \subseteq Runs
    /\ tiers \subseteq Tiers /\ edited \in Tiers \cup {NoTier}
    /\ schedules \in [Schedules -> {"absent", "active", "paused"}]

Init == /\ open = TRUE /\ view = "fleet" /\ list = [of |-> "fleet", at |-> 1]
        /\ mode = "browse" /\ step = 1 /\ target = NoRun /\ chosen = NoRun
        /\ timeline = NoTimeline /\ live = NoRun /\ follow = NoFollow
        /\ asked = "no" /\ launched = FALSE
        /\ registry = <<>>
        /\ phase = [r \in Runs |-> IF r \in OldRuns THEN "ended" ELSE "idle"]
        /\ \E n \in [OldRuns -> 0..1] :
               said = [r \in Runs |-> IF r \in OldRuns THEN n[r] * MaxEvents[r] ELSE 0]
        /\ told = {}
        /\ tiers = Tiers /\ edited = NoTier
        /\ schedules = [s \in Schedules |-> "absent"]
-----------------------------------------------------------------------------
(* Rows and rendering. *)

AtWork(r) == phase[r] \in {"opening", "running", "aborting"}
HasSession(r) == phase[r] \in {"running", "aborting"}
(* Its log begins with its session; before, no list of the log knows it.   *)
HasMeta(r) == phase[r] \in {"running", "aborting", "ended"}

Rows(v) == CASE v = "fleet" -> registry
             [] v = "runs" -> registry \o SetToSeq(OldRuns)
             [] v = "tiers" -> SetToSeq(tiers)
             [] v = "scheduled" -> SetToSeq({s \in Schedules : schedules[s] # "absent"})
             [] v = "workflows" -> <<"definition", "run">>
             [] OTHER -> <<v>>

(* getSelectedItem, when the rows of the list are of the view it is asked  *)
(* for.                                                                    *)
Selects(v, row) == /\ list.of = v
                   /\ list.at \in DOMAIN Rows(v)
                   /\ Rows(v)[list.at] = row
                   /\ v = "runs" => HasMeta(row)

Rebuilt(v) == [of |-> v, at |-> 1]

(* renderShell with the timeline on top: a fresh list, its cursor on the   *)
(* event the token names, once.  A timeline without an event gets none.    *)
Rendered(t) == IF t.seen = 0 THEN t
               ELSE [t EXCEPT !.built = TRUE,
                              !.cursor = IF t.token = 0 THEN 1 ELSE t.token,
                              !.token = 0]
Redrawn(t) == IF mode = "timeline" THEN Rendered(t) ELSE t

Browsing(v) == open /\ mode = "browse" /\ view = v

(* The panel leaves the screen for good: its subscriptions go, and a       *)
(* checkpoint that is pending in it stays without an answer.               *)
Close == /\ open' = FALSE /\ mode' = "browse" /\ step' = 1 /\ target' = NoRun /\ chosen' = NoRun
         /\ asked' = "no" /\ launched' = FALSE
         /\ timeline' = NoTimeline /\ live' = NoRun /\ follow' = NoFollow
         /\ UNCHANGED <<view, list, runVars, storeVars>>
-----------------------------------------------------------------------------
(* Keys of the panel itself. *)

GoTo(m, t) == /\ mode' = m /\ step' = 1 /\ target' = t
              /\ chosen' = IF m = "steer" THEN Rows("fleet")[list.at] ELSE NoRun
              /\ UNCHANGED <<open, view, list, asked, launched, timelineVars, runVars, storeVars>>

EscapePane == open /\ mode \in Panes /\ GoTo("browse", NoRun)

(* Every input is left by Escape, at whichever question it is.             *)
(* Mutated form: once the task is given, Escape goes to the input.         *)
EscapeTask == open /\ mode \in Inputs /\ step = 1 /\ GoTo("browse", NoRun)
EscapeInput == open /\ mode \in Inputs /\ GoTo("browse", NoRun)

EscapeMessage == /\ open /\ mode = "message"
                 /\ mode' = "timeline"
                 /\ timeline' = Rendered(timeline)
                 /\ UNCHANGED <<open, view, list, step, target, chosen, asked, launched,
                                live, follow, runVars, storeVars>>

(* onCancel of the timeline's list.  While there is no list nobody hears   *)
(* the key.                                                                *)
EscapeTimeline == /\ open /\ mode = "timeline" /\ timeline.built
                  /\ mode' = "browse"
                  /\ timeline' = NoTimeline /\ live' = NoRun /\ follow' = NoFollow
                  /\ UNCHANGED <<open, view, list, step, target, chosen, asked, launched,
                                 runVars, storeVars>>

EscapePanel == open /\ mode = "browse" /\ Close

Escape == EscapePane \/ EscapeInput \/ EscapeMessage \/ EscapeTimeline \/ EscapePanel

Quit == open /\ mode = "browse" /\ Close

(* switchView. *)
Tab == /\ open /\ mode = "browse"
       /\ \E i \in DOMAIN Views : /\ Views[i] = view
                                  /\ view' = Views[(i % Len(Views)) + 1]
       /\ list' = Rebuilt(view')
       /\ UNCHANGED <<open, mode, step, target, chosen, asked, launched,
                      timelineVars, runVars, storeVars>>

(* The arrows: while feedback is typed only the workflows' list hears them.*)
Scroll == /\ open /\ mode = "browse"
          /\ asked = "revising" => view = "workflows"
          /\ \E i \in DOMAIN Rows(list.of) : list' = [list EXCEPT !.at = i]
          /\ UNCHANGED <<open, view, mode, step, target, chosen, asked, launched,
                         timelineVars, runVars, storeVars>>

(* t: the list is rebuilt, its cursor on the row where it was.             *)
ToggleTree == /\ open /\ mode = "browse" /\ view \in {"fleet", "runs"}
              /\ list' = IF list.of = view THEN list ELSE Rebuilt(view)
              /\ UNCHANGED <<open, view, mode, step, target, chosen, asked, launched,
                             timelineVars, runVars, storeVars>>

(* i, where a detail pane exists. *)
ShowDetail == /\ open /\ mode = "browse"
              /\ \/ view = "agents" /\ GoTo("agent", NoRun)
                 \/ view = "backends" /\ GoTo("backend", NoRun)
                 \/ view = "lifecycle" /\ GoTo("lifecycle", NoRun)
                 \/ view = "scheduled" /\ (\E s \in Schedules : Selects("scheduled", s))
                    /\ GoTo("schedule", NoRun)
-----------------------------------------------------------------------------
(* The timeline of a run. *)

(* openRunTimeline: the log as it is now, and a subscription to what it    *)
(* gets from now on if the run is at work.                                 *)
OpenTimeline(r) ==
    /\ mode' = "timeline"
    /\ timeline' = Rendered([NoTimeline EXCEPT !.run = r, !.seen = said[r]])
    /\ live' = IF AtWork(r) THEN r ELSE NoRun
    /\ follow' = [NoFollow EXCEPT !.index = IF AtWork(r) THEN AtLeastOne(said[r]) ELSE 1]
    /\ UNCHANGED <<open, list, step, target, chosen, asked, launched, runVars, storeVars>>

Replay == /\ Browsing("runs")
          /\ \E r \in Runs : Selects("runs", r) /\ OpenTimeline(r)
          /\ UNCHANGED view

(* v on a lifecycle: the run of its first agent gate.  The tab changes     *)
(* under the list of lifecycles.  A run that the log does not know shows   *)
(* no timeline.                                                            *)
ViewEvidence == /\ open /\ mode = "lifecycle"
                /\ view' = "runs"
                /\ \/ \E r \in Runs : HasMeta(r) /\ OpenTimeline(r)
                   \/ /\ mode' = "browse"
                      /\ UNCHANGED <<open, list, step, target, chosen, asked, launched,
                                     timelineVars, runVars, storeVars>>

(* enter: the whole message. *)
OpenMessage == /\ open /\ mode = "timeline" /\ timeline.built
               /\ mode' = "message"
               /\ timeline' = [timeline EXCEPT !.token = timeline.cursor]
               /\ UNCHANGED <<open, view, list, step, target, chosen, asked, launched,
                              live, follow, runVars, storeVars>>

(* The arrows of a run that ended move the list; those of a live one the   *)
(* cursor that LiveTimelineState keeps, which lets go of the newest event  *)
(* on the way up and takes it up again when it gets there.                 *)
ScrollReplay == /\ open /\ mode = "timeline" /\ live = NoRun /\ timeline.built
                /\ \E i \in 1..timeline.seen : timeline' = [timeline EXCEPT !.cursor = i]
                /\ UNCHANGED <<screenVars, live, follow, runVars, storeVars>>

Moved(i) == [index |-> i, pinned |-> i = timeline.seen]

ScrollLive == /\ open /\ mode = "timeline" /\ live # NoRun
              /\ \E i \in {follow.index - 1, follow.index + 1} \cap (1..timeline.seen) :
                     /\ follow' = Moved(i)
                     /\ timeline' = Rendered([timeline EXCEPT !.token = i])
              /\ UNCHANGED <<screenVars, live, runVars, storeVars>>
-----------------------------------------------------------------------------
(* Flows on the selected row. *)

(* r with an agent. *)
StartRun == /\ open /\ mode = "browse" /\ view \in {"agents", "fleet"}
            /\ GoTo("run", NoRun)

StartFork(r) == /\ Browsing("runs") /\ Selects("runs", r)
                /\ ~AtWork(r)
                /\ GoTo("run", r)

StartResume(r) == /\ Browsing("runs") /\ Selects("runs", r)
                  /\ ~AtWork(r) /\ r \in Resumable
                  /\ GoTo("resume", r)

StartSteer(r) == /\ Browsing("fleet") /\ Selects("fleet", r)
                 /\ HasSession(r) /\ r \in Steerable
                 /\ GoTo("steer", r)

(* x: the session is told to abort; the run ends when it has.              *)
Stop(r) == /\ Browsing("fleet") /\ Selects("fleet", r)
           /\ HasSession(r)
           /\ phase' = [phase EXCEPT ![r] = "aborting"]
           /\ UNCHANGED <<screenVars, timelineVars, registry, said, told, storeVars>>

StartLifecycle == Browsing("lifecycle") /\ GoTo("lifecycleRun", NoRun)

StartSchedule == Browsing("scheduled") /\ GoTo("sched", NoRun)

PauseSchedule(s) == /\ Browsing("scheduled") /\ Selects("scheduled", s)
                    /\ schedules' = [schedules EXCEPT ![s] =
                                        IF @ = "paused" THEN "active" ELSE "paused"]
                    /\ list' = Rebuilt("scheduled")
                    /\ UNCHANGED <<open, view, mode, step, target, chosen, asked, launched,
                                   timelineVars, runVars, tiers, edited>>

DeleteSchedule(s) == /\ Browsing("scheduled") /\ Selects("scheduled", s)
                     /\ schedules' = [schedules EXCEPT ![s] = "absent"]
                     /\ list' = Rebuilt("scheduled")
                     /\ UNCHANGED <<open, view, mode, step, target, chosen, asked, launched,
                                    timelineVars, runVars, tiers, edited>>

(* m, c and f edit the selected tier, a adds one. *)
StartTierEdit == /\ Browsing("tiers")
                 /\ \/ GoTo("tier", NoTier)
                    \/ \E t \in Tiers : Selects("tiers", t) /\ GoTo("tier", t)

DeleteTier(t) == /\ Browsing("tiers") /\ Selects("tiers", t)
                 /\ tiers' = tiers \ {t}
                 /\ list' = Rebuilt("tiers")
                 /\ UNCHANGED <<open, view, mode, step, target, chosen, asked, launched,
                                timelineVars, runVars, edited, schedules>>

StartWorkflow == /\ Browsing("workflows") /\ Selects("workflows", "definition")
                 /\ GoTo("workflow", NoRun)

(* An action only the host can take closes the panel with its intent, and  *)
(* the host opens another one when it has taken it.                        *)
WorkflowIntent == Browsing("workflows") /\ Close

Reopen == /\ ~open
          /\ open' = TRUE /\ view' = "fleet" /\ list' = Rebuilt("fleet")
          /\ UNCHANGED <<mode, step, target, chosen, asked, launched, timelineVars, runVars, storeVars>>
-----------------------------------------------------------------------------
(* Enter in an input. *)

(* An empty answer gives the flow up, where the question has no default.   *)
NeedsText == \/ mode = "run" /\ step = 1 /\ target = NoRun
             \/ mode \in {"resume", "steer"}
             \/ mode = "sched" /\ step < 3
             \/ mode = "lifecycleRun" /\ step = 1

SubmitBlank == open /\ mode \in Inputs /\ NeedsText /\ GoTo("browse", NoRun)

NextQuestion == /\ open /\ mode \in Inputs /\ step < Questions[mode]
                /\ step' = step + 1
                /\ UNCHANGED <<open, view, list, mode, target, chosen, asked, launched,
                               timelineVars, runVars, storeVars>>

Done == /\ open /\ mode \in Inputs /\ step = Questions[mode]
        /\ mode' = "browse" /\ step' = 1 /\ target' = NoRun /\ chosen' = NoRun
        /\ UNCHANGED <<open, view, timelineVars>>

(* The dispatch that follows is a run that starts, now or when it has its  *)
(* slot.                                                                   *)
SubmitRun == /\ mode \in {"run", "resume"} /\ Done
             /\ UNCHANGED <<list, asked, launched, runVars, storeVars>>

(* executeSteer asks again: the run may have ended since s was pressed.    *)
(* Mutated form: it steers the run that is selected now.                   *)
SteerSelected(r) == Selects("fleet", r) /\ HasSession(r)
SteerReaches(r) == r = target /\ HasSession(r)

SubmitSteer == /\ mode = "steer" /\ Done
               /\ told' = told \cup {r \in Runs : SteerReaches(r)}
               /\ UNCHANGED <<list, asked, launched, registry, phase, said, storeVars>>

SubmitSchedule == /\ mode = "sched" /\ Done
                  /\ \/ /\ \E s \in Schedules : /\ schedules[s] = "absent"
                                                /\ schedules' = [schedules EXCEPT ![s] = "active"]
                        /\ list' = Rebuilt(view)
                     \/ UNCHANGED <<schedules, list>>
                  /\ UNCHANGED <<asked, launched, runVars, tiers, edited>>

SubmitLifecycle == /\ mode = "lifecycleRun" /\ Done
                   /\ launched' \in {launched, TRUE}
                   /\ UNCHANGED <<list, asked, runVars, storeVars>>

(* executeTiersEdit writes the tier that is selected by then; it writes    *)
(* nothing when the value is no good or the scope has no such tier.        *)
SubmitTier == /\ mode = "tier" /\ Done
              /\ \/ UNCHANGED <<tiers, edited, list>>
                 \/ /\ target = NoTier
                    /\ \E t \in Tiers \ tiers : tiers' = tiers \cup {t} /\ edited' = t
                    /\ list' = Rebuilt("tiers")
                 \/ /\ target # NoTier
                    /\ \E t \in tiers : Selects("tiers", t) /\ edited' = t
                    /\ list' = Rebuilt("tiers")
                    /\ UNCHANGED tiers
              /\ UNCHANGED <<asked, launched, runVars, schedules>>

(* With a prompt the host sends it to the agent and leaves the panel; with *)
(* none the workflow starts, which refreshes the panel.                    *)
SubmitWorkflow == \/ open /\ mode = "workflow" /\ Close
                  \/ /\ mode = "workflow" /\ Done
                     /\ list' = Rebuilt(view)
                     /\ UNCHANGED <<asked, launched, runVars, storeVars>>
-----------------------------------------------------------------------------
(* The checkpoint of a lifecycle that this panel started: its keys come    *)
(* after those of the view.                                                *)

Ask == /\ open /\ launched /\ asked = "no"
       /\ asked' = "asked"
       /\ timeline' = Redrawn(timeline)
       /\ UNCHANGED <<open, view, list, mode, step, target, chosen, launched,
                      live, follow, runVars, storeVars>>

Answered(answer) == /\ asked' = answer
                    /\ UNCHANGED <<open, view, list, mode, step, target, chosen, launched,
                                   timelineVars, runVars, storeVars>>

KeyContinue == /\ open /\ mode = "browse" /\ asked = "asked"
               /\ view \notin {"tiers", "workflows"}
               /\ Answered("no")
KeyAbort == /\ open /\ mode = "browse" /\ asked = "asked"
            /\ view \notin {"scheduled", "tiers", "workflows"}
            /\ Answered("no")
KeyRevise == /\ open /\ mode = "browse" /\ asked = "asked"
             /\ view # "workflows"
             /\ Answered("revising")
SubmitFeedback == /\ open /\ mode = "browse" /\ asked = "revising"
                  /\ view \notin {"runs", "workflows"}
                  /\ Answered("no")

LifecycleEnds == /\ launched /\ asked = "no"
                 /\ launched' = FALSE
                 /\ list' = Rebuilt(view)
                 /\ timeline' = Redrawn(timeline)
                 /\ UNCHANGED <<open, view, mode, step, target, chosen, asked,
                                live, follow, runVars, storeVars>>
-----------------------------------------------------------------------------
(* The stores. *)

(* refresh: the list from the stores, its first row selected.              *)
Refresh == /\ list' = IF open THEN Rebuilt(view) ELSE list
           /\ UNCHANGED <<open, view, mode, step, target, chosen, asked, launched>>

(* A workflow, a background run or the heartbeat of a run changes a store. *)
StoreChanges == /\ open
                /\ Refresh
                /\ timeline' = Redrawn(timeline)
                /\ UNCHANGED <<live, follow, runVars, storeVars>>

RunMoves(r, from, to) == /\ phase[r] \in from
                         /\ phase' = [phase EXCEPT ![r] = to]
                         /\ Refresh
                         /\ timeline' = Redrawn(timeline)
                         /\ UNCHANGED <<live, follow, said, told, storeVars>>

RunStarts(r) == RunMoves(r, {"idle"}, "opening") /\ registry' = <<r>> \o registry
RunOpens(r) == RunMoves(r, {"opening"}, "running") /\ UNCHANGED registry
RunEnds(r) == /\ \/ RunMoves(r, {"opening"}, "stillborn")
                 \/ RunMoves(r, {"running", "aborting"}, "ended")
              /\ UNCHANGED registry

(* LiveTimelineState.append. *)
Appended == [follow EXCEPT !.index = IF follow.pinned THEN timeline.seen + 1 ELSE @]

(* The subscriber of openRunTimeline: under the whole message the timeline *)
(* grows without being drawn.                                              *)
(* Mutated form: it does not grow.                                         *)
HeardOnTop == IF mode = "message" THEN timeline
              ELSE Rendered([timeline EXCEPT !.seen = @ + 1, !.token = Appended.index])
Heard == LET t == [timeline EXCEPT !.seen = @ + 1, !.token = Appended.index]
         IN  Redrawn(t)

(* A run appends a message or a tool result to its log, and reports it to  *)
(* the registry, which refreshes the panel.                                *)
RunSpeaks(r) == /\ HasSession(r) /\ said[r] < MaxEvents[r]
                /\ said' = [said EXCEPT ![r] = @ + 1]
                /\ IF live = r THEN timeline' = Redrawn(Heard) /\ follow' = Appended
                               ELSE timeline' = Redrawn(timeline) /\ UNCHANGED follow
                /\ Refresh
                /\ UNCHANGED <<live, registry, phase, told, storeVars>>
-----------------------------------------------------------------------------
Keys == \/ Escape \/ Quit \/ Tab \/ Scroll \/ ToggleTree \/ ShowDetail
        \/ Replay \/ ViewEvidence \/ OpenMessage \/ ScrollReplay \/ ScrollLive
        \/ StartRun \/ StartLifecycle \/ StartSchedule \/ StartTierEdit \/ StartWorkflow
        \/ \E r \in Runs : StartFork(r) \/ StartResume(r) \/ StartSteer(r) \/ Stop(r)
        \/ \E s \in Schedules : PauseSchedule(s) \/ DeleteSchedule(s)
        \/ \E t \in Tiers : DeleteTier(t)
        \/ WorkflowIntent \/ Reopen
        \/ SubmitBlank \/ NextQuestion \/ SubmitRun \/ SubmitSteer \/ SubmitSchedule
        \/ SubmitLifecycle \/ SubmitTier \/ SubmitWorkflow
        \/ KeyContinue \/ KeyAbort \/ KeyRevise \/ SubmitFeedback

Stores == \/ Ask \/ LifecycleEnds \/ StoreChanges
          \/ \E r \in Runs : RunStarts(r) \/ RunOpens(r) \/ RunEnds(r) \/ RunSpeaks(r)

Next == Keys \/ Stores

Spec == Init /\ [][Next]_vars
(* The user who wants out keeps pressing Escape. *)
FairSpec == Spec /\ WF_vars(Escape)
-----------------------------------------------------------------------------
(* Properties. *)

(* The subscription to a run's log lives as long as its timeline is on the *)
(* screen: no overlay, tab or panel that closed leaves one behind.         *)
LiveIsShown == live # NoRun =>
    open /\ mode \in {"timeline", "message"} /\ timeline.run = live

(* A live timeline has every event of the log, those that came while the   *)
(* whole message covered it included.                                      *)
TimelineComplete == live # NoRun => timeline.seen = said[live]

(* The cursor that follows a live run is at the newest event exactly while *)
(* it is pinned there.                                                     *)
PinnedIsNewest == live # NoRun /\ follow.pinned => follow.index = AtLeastOne(timeline.seen)

(* What the screen shows of a live run is its log.                         *)
TimelineIsLive == TypeOK /\ LiveIsShown /\ TimelineComplete /\ PinnedIsNewest

(* A steer reaches the run whose row was selected when s was pressed,      *)
(* however the list changed while the text was typed, and only while the   *)
(* run has a session.                                                      *)
SteersTheChosen == [][\A r \in told' \ told : r = chosen /\ HasSession(r)]_vars

(* "Escape always cancels the active flow" (fleet-panel.ts), wherever      *)
(* there is something to hear it.                                          *)
EscapeCancels == /\ (mode \in Panes \cup Inputs \cup {"message"}) ~> (mode \in {"browse", "timeline"})
                 /\ (mode = "timeline" /\ timeline.built) ~> (mode # "timeline")
=============================================================================
