# armory-fleet in TLA+

armory-fleet is an extension of the pi coding agent. It lets an agent dispatch
sub-agents, in the foreground, in the background in git worktrees, on a
schedule, as phases of a lifecycle or as steps of a workflow, and it keeps a
record of them in a registry, in logs on disk and in todos. This directory holds
TLA+ models of that code, the TLC configurations that check them on small
instances, and TLAPS proofs of the most important results for instances of every
size. Paths below are relative to the package, `src/src/` in the repository.

- [The system](#the-system)
- [What is modelled, and where](#what-is-modelled-and-where)
- [The runs](#the-runs)
- [Bounds](#bounds)
- [Fairness](#fairness)
- [What is proved](#what-is-proved)
- [What the checks found](#what-the-checks-found)
- [What is only model-checked](#what-is-only-model-checked)
- [What is not modelled](#what-is-not-modelled)
- [Plan](#plan)
- [Running it](#running-it)

## The system

Everything runs in the one JavaScript thread of a pi process: code is atomic
between two `await`s (or callbacks, or timers), and what is concurrent are the
dispatches, the child processes of the claude backend, further pi processes in
the same directory, and the user. Any of them may go on while a dispatch is
suspended, and pi may die anywhere.

| Component | State | Operations | Talks to |
|---|---|---|---|
| Foreground lock, `engine/concurrency-lock.ts` | holders, FIFO of waiters | `acquire`, `release` | foreground dispatch |
| Foreground dispatch, `engine/spawnSubagent.ts`, `engine/turn-budget.ts`, `tools/subagent.ts` | where it is suspended, its `aborted` flag, turn count, result | the call, child events, Stop, abort signal, `finishRun`, one retry on a fallback model | lock, registry, todo port, backend, run log |
| Run registry, `engine/run-registry.ts` | one record per run: status, live handle | `add`, `update` | panel, widget, reconciliation |
| Todo sync, `todo-sync/adapter.ts` | todos (external), the prior status of a linked one | `linkOrCreateRunTodo`, `markRunTodoDone`, `markRunTodoReverted` | dispatch, reconciliation, lifecycle |
| Run log, `runtime/run-log.ts` | a JSONL file per run | `append`, `scanMeta` | dispatch, reconciliation |
| Reconciliation, `runtime/reconcile.ts` | none of its own | `probeRun`, `reconcileRuns` | run log, registry, todo port |
| Fleet widget, `panel/fleet-widget.ts` | render timer, liveness timer | `start`, `render`, `clearTimer` | registry, reconciliation |
| Child backends, `backend/` | a child session or process | `create`, `prompt`, `abort`, events | dispatch |
| Background runs, `runtime/async-runner.ts`, `runtime/concurrency-pool.ts`, `runtime/results-inbox.ts` | slots, queue, inbox | `runBackground`, `withSlot`, `pull` | worktrees, journal, lifecycle |
| Phase journal and resume scan, `runtime/run-journal.ts`, `runtime/resume.ts` | a journal file per background run | `append`, `scanNonTerminal`, `scanResumeCandidates` | background runs, session start |
| Worktrees, `worktree/worktree-service.ts` | a directory and a branch per isolated run | `create`, `removeWorktree`, `remove` | background runs, resume scan |
| Scheduler, `scheduling/` | entries with expressions and timers, `schedules.json`, the PID lock file | `register`, `pause`, `resume`, `delete`, `start`, timers | background runs, further pi processes |
| Workflow engine, `workflows/` | controller status, pause gate, checkpoint resolver, journal, cache | `start`, `pause`, `resume`, `stop`, `respondToCheckpoint`, agent and helper calls, replay | dispatch, background pool, lifecycle, inbox |
| Lifecycle engine, `lifecycle/` | phase, revise count, artifacts, a todo with a progress block | phase loop, gate chain, checkpoints | dispatch, todo port, panel |
| Model tiers, `tiers/`, `engine/auto-fallback.ts`, `engine/retry-fallback.ts` | tier files | resolve, merge, fallback, retry | dispatch, lifecycle |
| Fleet panel, `panel/fleet-panel.ts`, `panel/live-timeline.ts` | view, list, mode, inputs, live timeline, pending checkpoint | keys, and a rebuild at each change of a store | registry, run log, lifecycle, workflows, tiers, scheduler |
| RPC and event bus, `rpc/` | listeners, sequence numbers | `spawn`, `observe`, `steer`, `abort`, ... | dispatch, run log, other extensions |
| Registries, transcripts, settings, governance, memory and vision ports | files and layout | parsing, rendering | all of the above |

What makes each of them hard, and what correct means:

- **Dispatch and its lock.** Writers share a bounded number of slots, readers
  share none; a slot is handed from the run that ends to the first waiter. A
  slot must not be lost, doubled or overtaken. A run has four records of its end
  (registry, journal, result, todo) that must agree whatever combination of
  Stop, cost cap, turn budget, exception and model error preceded it. The todo
  belongs to the user unless the fleet created it.
- **Crashes.** The run log, the todos and claude children survive pi. A restart,
  a re-entered `session_start` and a periodic probe guess from logs, pids and ages
  which runs are dead. They must spare the living and the completed, and reach
  every orphan.
- **Background runs.** A worktree, a branch, a journal and an inbox entry are
  written one after the other, with a slot held in between. Work must not be
  lost by a crash or an exception between any two writes, and queued runs must be
  woken.
- **Schedules.** One entry must have one timer, through pause, resume, delete,
  fire, restart and re-entry; several processes share one store and one lock
  file that is looked at and then written.
- **Workflows.** Parallel branches share one pause gate, one pool and one
  checkpoint resolver. A user pauses, resumes and stops while calls wait at the
  gate, queue for a slot, are retried or time out, a crash replays a journal in
  which some calls had ended and others had not, and a re-entered `session_start`
  builds a second controller beside the runs of the first. A held run must call
  nobody, a stopped one must end, and only what ended may be replayed.
- **Lifecycles.** Gates, checkpoints, revisions, failures and a panel that closes
  may end or repeat a phase at any point. Phases must be accepted in order and
  on success only, and the todo, its progress block and the panel must tell where
  the lifecycle is.
- **The panel.** It holds indices, selections and a resolver while every store
  change rebuilds its list. What the user typed must reach the run it was meant
  for, and a live timeline must be the log.
- **Events.** Live events are numbered as they come and replayed ones by their place
  in the file. A consumer that joins late and drops duplicates by number must get
  every event once.

`PROJECT.json` lists each hazard at its line, with the properties that cover it.

## What is modelled, and where

| Module | Code | State | Actions |
|---|---|---|---|
| `ForegroundLock` | `engine/concurrency-lock.ts` | `active`, `waiters` | `Acquire`, `Enqueue`, `Reject`, `Release` |
| `WriteSlots` | what the lock promises | `inside` | `Enter`, `Leave` |
| `SpawnSubagent` | `engine/spawnSubagent.ts` and what it calls | below | below |
| `RunRecovery` | `runtime/reconcile.ts`, `panel/fleet-widget.ts` timers, `session_start` of `index.ts` | that of `SpawnSubagent` and `up`, `lost`, `aged`, `living`, `probeTimer` | `SessionStart`, `ProbeTick`, `Crash`, `GraceElapses`, `ChildDies`, `DispatchStep` |
| `ConcurrencyPool` | `runtime/concurrency-pool.ts` | `active`, `queue`, `woken` | `Enter`, `Wait`, `EnterWoken`, `Leave` |
| `BackgroundRuns` | `runtime/async-runner.ts`, `run-journal.ts`, `resume.ts`, worktrees | `journal`, `worktree`, `branch`, `inbox`, `offered`, ... | `Dispatch`, `DispatchFails`, `Wake`, `Complete`, `CompleteThrows`, `Abort`, `Pull`, `Crash`, `CrashAmid`, `SessionStart` |
| `PidLock` | `scheduling/pid-lock.ts` | `lockFile`, `pid`, `alive`, `stage` | `Check`, `EmptyLock`, `WritePid`, `Exit` |
| `Scheduler` | `scheduling/scheduler.ts`, `expressions.ts` | `entries`, `current`, `store`, `wish`, `fires`, `now` | `SessionStart`, `Acquiring`, `Start`, `Register`, `Pause`, `Resume`, `Delete`, `Fire`, `Quit`, `CrashFiring`, `Tick` |
| `Workflow` | `workflows/runner.ts`, `runtime/controller.ts`, `pause-gate.ts`, `adapters.ts`, `hydrate.ts`, `journal.ts` | below | below |
| `ModelChoice` | `tiers/resolve.ts`, `tier-registry.ts`, `engine/auto-fallback.ts` | none: operators | |
| `Lifecycle` | `lifecycle/run-lifecycle.ts`, `gates/chain-runner.ts`, `lifecycle-todo.ts`, `engine/retry-fallback.ts`, its callers in `index.ts`, `tools/subagent.ts`, `panel/fleet-panel.ts` | below | below |
| `LifecyclePromise` | what a lifecycle promises | `state`, `accepted`, `length` | `Begin`, `Work`, `Redo`, `Accept`, `Stop` |
| `Panel` | `panel/fleet-panel.ts`, `live-timeline.ts`, `runs-index.ts`, `workflows/panel-host.ts` | below | one action per key and mode, and the steps of runs and stores |
| `FleetRpc` | `rpc/event-bus.ts`, `rpc/rpc-server.ts`, their set-up in `index.ts` | `number`, `writers`, `log`, `request`, `seen`, ... | `SessionStart`, `Shutdown`, `Crash`, `RunStep` of a run, `Handle`, `Settle`, `Reply` |
| `MCSpawn`, `MCRecovery`, `MCBackground`, `MCScheduler`, `MCWorkflow`, `MCLifecycle`, `MCPanel`, `MCRpc` | | constants for TLC | |
| `SpawnSubagent_proofs`, `RunRecovery_proofs`, `BackgroundRuns_proofs`, `Scheduler_proofs`, `Workflow_proofs`, `Lifecycle_proofs`, `Panel_proofs`, `FleetRpc_proofs` | | theorems | |

`SpawnSubagent` EXTENDS `ForegroundLock`, and `RunRecovery` EXTENDS
`SpawnSubagent`: the lock is used by the dispatches, and reconciliation goes on
while dispatches do. `BackgroundRuns` EXTENDS `ConcurrencyPool` and `Scheduler`
EXTENDS `PidLock` for the same reason. `Workflow` takes the pool as an INSTANCE of
`ConcurrencyPool`, whose callers are its calls and the phases of its lifecycles,
and `Lifecycle` EXTENDS `ModelChoice`. `SpawnSubagent` relates to `WriteSlots`, and
`Lifecycle` to `LifecyclePromise`, by a refinement mapping (`Slots`, `Promise`).

**SpawnSubagent.** `pc[r]` names the `await` at which dispatch `r` is suspended,
and an action is the code from there to the next one:

| Action | Code of `spawnSubagent` |
|---|---|
| `Dispatch` | the call up to `lock.acquire`: rejected, admitted or queued |
| `ResolveFails`, `ResolveOk` | agent, backend and model; `runRegistry.add`; the todo link, whose writes happen in the call |
| `LinkRefused` | the adapter rejects a closed todo |
| `CreateFails`, `CreateOk` | `factory.create` rejects for every candidate, or resolves; the handle and the listeners |
| `SessionInit`, `TurnEnd`, `AssistantMessage` | the child's events, which go on until the prompt settles |
| `Stop`, `AbortSignal` | the panel's Stop through the handle, the caller's signal |
| `PromptSettles` | the verdict, then `finishRun`: registry, `run:ended`, todo |
| `Return` | the promise of `finishRun`, then the `finally` block with `release` |
| `Retry` | the tool's second try, on the fallback model, with a new run id and the todo of the first |
| `UserCloses` | the user's own use of the todo tool |

Token counts, result texts, touched files, the drift flag and the wording of
errors are data no property tells apart. A todo is its status; a journal is the
sequence of its `run:meta` and `run:ended` entries. The turn count saturates at
`MaxTurns`, the only value the code compares it with. After the verdict
`Discard` resets what the run heard of its child, since nothing reads it again.

**RunRecovery.** A crash resets what is in memory and keeps `runLog`, `todo`
and `living`. A reconciliation pass is one action: its loop awaits only the todo
adapter, whose promises are resolved when it returns them, so no timer and no
user command gets between its steps. `aged` is the set of runs older than the
60 s grace period; time itself is left out.

**ConcurrencyPool and BackgroundRuns.** `woken` is the set of callers whose promise
is resolved but whose continuation has not run, the gap between `active--` and
the waiter's `active++`. The writes at the end of a run are one action, with as
many of them as are made: `CompleteUpTo`, `AbortUpTo` and `CatchUpTo` are the first
`k` writes of each sequence, and `CrashAmid` is a crash after any of them. An
exception after `run:completed` (of the panel's progress handler, the notification,
or the removal of the worktree) goes through the catch block, which writes a second
verdict and removes worktree and branch (`CompleteThrows`); one inside the catch
block leaves what it had not reached. `git branch -D` may fail silently. A commit
leaves no trace here: that of a completed run may fail silently, too.

**PidLock and Scheduler.** A session is one `session_start`; a process takes the
number of its first session as its pid. `acquire` is three steps (look, empty the
file, write), which other processes interleave with, while inside one process
they are uninterrupted (`Idle`). An empty file reads as pid 0, which
`process.kill(0, 0)` finds alive. `spent` is the closure variable `fired` of a
one-shot expression. `meant` keeps the date a timer was set for besides the time
at which it goes off, which differ when the delay is too long for `setTimeout`.
`now` is a discrete clock, and a timer that is due may go off late. A cron line
behaves as an interval here.

Two ghost variables record history for the properties: `overlapped` (some
session started while another process or session was there) and `raced` (some
session looked at the lock while another process was between look and write).
`wish` is the user's last command per schedule, `fires` counts fires up to 2.

**Workflow.** A script is one `parallel()` over branches, a branch a sequence of
calls by kind: an agent, one that is retried, one in a worktree, a nested
lifecycle, a checkpoint, another helper. `pc[r][b]` is where a branch is suspended:
at the gate, in the queue of the pool, at its child, at a question. What the event
loop runs between two waits is over before users act or children end (`Quiet`), as
the runner's microtasks are. `calls[r]` is the journal by call index; `via` tells
whether an answer came from the journal of the run that is resumed. `Stop` shows
the run as aborted at once, and `RunEnds` writes the verdict when the branches
have settled. A run for which the tool waits (`foreground`) has no promise that the
controller could wait for, so its stop forgets the controls at once while it goes
on. A call that the script retries is made again any number of times. A stray is a
child whose call timed out and that works on.

A session has a controller, a store and a pool of its own; `home` is the session a
run started in. The next session begins with a `Crash`, which keeps `calls`, `ended`
and `worktree` and leaves the runs `lost`, or with a `Reenter`, after which the runs
go on under a controller that no user can reach. Either way `Hydrated` is what the
new store shows of a journal: its verdict, or `interrupted`, be the run dead or not.
The user may resume such a run (`ResumeInterrupted`) or stop it (`StopInterrupted`),
which writes a verdict and fires no signal; `blind` records the runs that were
stopped so while they were not dead. A run that a re-entry leaves behind at a
question or a shut gate stays there for good. Left out: a panel that is open while
`session_start` fires again and goes on with the old controller. That
`session_shutdown` aborts the children is one of the ways in which they fail.

**Lifecycle.** `pc[r]` is `enter` (agent and backend), `spawn`, `child`, `retry`,
`judged` (artifacts parsed), `asked` (a checkpoint), `ended`, or `thrown` when an
unknown gate throws out of `runLifecycle`. `Accept`, `Revise` and `Abort` are the ends
of an attempt, used by gates, callers and panel alike; each is one action with the
writes to todo and progress block it makes. `Judged` is the verdict on an attempt: a
child that failed, a malformed list of artifacts or a diff that fails spoils it, in
the last phase too. `Caller[l]` tells who answers
checkpoints: the tool and the command by a rule, the panel by its user. The child's
model is chosen by `ModelChoice`, with the session's model, the tiers of three
scopes and the catalog as constants.

**Panel.** `mode` is the pane, overlay or input that hears the keys; a key is an
action with the guard of the branch of `handleInput` it reaches. `list` is the list
as it was built last (`Rebuilt`), `timeline` the events it shows, `live` and `follow` the
subscription and its cursor. `target` is the run that an input is for, and `chosen`
a ghost: the row that was selected when `s` was pressed. Runs open, speak and end
beside it, and each change of a store rebuilds the list with its first row selected,
as `refresh` does. A run that fails before its session exists is `stillborn`; it has
no `run:meta` in its log, so the list of runs shows it and opens no timeline
(`HasMeta`). Old logs without a `run:ended` are taken for ended.

**FleetRpc.** A consumer listens to the events, may ask for a run once (`observe`)
and keeps what has a channel and number it has not seen. A bus lasts for one
`session_start`; `writers` is the ghost that tells which buses heard a run.

## The runs

Passing runs:

| Run | Instance | States | What it shows |
|---|---|---|---|
| `spawn` | 4 dispatches, 2 slots: `a` of todo `t`, `b` with a cost cap and a signal, `c` a lifecycle phase on `t`, `x` a claude child of an agent that may be missing, with its retry | 867 thousand | the lock agrees with the dispatches, no slot idles while a run waits, no overtaking, the four records of an end agree, no todo is left in progress, the user owns the close of his todos, `WriteSlots` is implemented, and every dispatch returns |
| `recovery` | a pi writer with the todo `t`, a claude reader without one, one crash, one re-entry | 231 thousand | live runs are spared, completed runs stay completed, and an orphan that is recognisably dead when pi starts gets its verdict and its todo leaves `in_progress` |
| `background` | 3 runs on pools of one slot: isolated, isolated in another repository, in place; one crash, one re-entry | 195 thousand | whatever throws or crashes at the end of a run, the pool count is right, leftovers agree with the journal, no interrupted run is lost, an aborted run does not complete, and every queued run ends |
| `scheduler` | a one-shot and an interval, two sessions, time to 3 | 27 thousand | one timer per active schedule, one-shots fire once, fires obey the user's last word, that word survives, a second process defers to the first |
| `workflow` | 2 runs of 3 scripts: an isolated agent beside a question, an unattended one in the foreground, and one edited in with a retried agent and a lifecycle; 2 slots, timeouts in two of the scripts, a crash or a re-entered `session_start` | 375 thousand | the view offers what the run obeys, budget and worktrees are bounded by what is in flight, only answers that ended are replayed, journal and list agree on the end, a held run calls nobody, a stopped run ends |
| `lifecycle` | 2 runs of 4 definitions: gates that revise, abort and advise, checkpoints, an unknown gate, tiers and a fallback; one revision | 155 thousand | todo, block and panel tell where the lifecycle is, a child's model is allowed, `LifecyclePromise` is implemented, an unattended lifecycle ends |
| `panel` | 2 runs, one of them followed through 2 events, a tier, a schedule | 480 thousand | a live timeline is the log, a steer reaches the run that was selected for it, Escape leaves every flow |
| `rpc` | a run of 2 messages, 2 requests of every kind, 2 sessions, a crash | 143 thousand | live and replayed events give a consumer the log once, every request taken is answered |

The other four runs show a disagreement with a comment or a document; see
[What the checks found](#what-the-checks-found).

Every property of a passing run comes with a mutated form of a modelled
definition that a plausible slip would produce - a wake-up left out, a release by
a run that holds nothing, `>` for `>=`, a timer not cleared, a counter not
counted - and TLC finds the property violated by it. The mutated forms stand
in the modules before the definition they vary, each called that in its comment.

`OneShotFiresOnce`, `FiresObeyTheUser` and `WishesSurvive` hold while sessions
follow one another (`~overlapped`). With two at once they do not: every scheduler
writes the whole store from its own memory, and `session_start` builds a second
scheduler without stopping the first. Nothing in the repository promises
otherwise, so this is stated as a condition and listed as a hazard.

## Bounds

| Bound | Value | Why it is enough |
|---|---|---|
| `Runs` | 4, 2, 3, 2 | with 2 slots three dispatches make one wait and be woken, a fourth is the retry; in recovery one run per backend is distinguished by how it is probed; two workflow runs are one and the one that resumes it; two lifecycles compete for the panel's one checkpoint |
| `Cap` | 2 and 1 | 1 is the code's default, 2 queues; larger values add no branch |
| `MaxTurns` | 1 | the budget is a comparison with a saturating count; one turn makes both sides happen |
| `MaxCrashes` in `RunRecovery`, `BackgroundRuns` | 1 | a second crash starts from the same disk state as the first |
| `MaxReentries` | 1 or 0 | one re-entry gives a second pool and a second scan |
| `MaxSessions` of the scheduler and the bus | 2 | two processes, or a re-entry; three sessions of the scheduler were also checked once (1.8 million states, no error) and are covered by the proofs |
| `Horizon`, dates, periods | 3, 2, 2 | a one-shot may be registered before, at and after its date, and the interval fires and is armed again |
| `TimerMax` | 3 | never exceeded by the dates of the instance |
| `MaxSessions` of a workflow | 1 | the sessions after the first: one crash or re-entry leaves runs behind and lets them be resumed and stopped from the next |
| `Workers`, `Slots`, `Retries`, `MaxAgents`, `Budget` | 2, 2, 1, 2, 1 | a second branch beside the first, one retry, and a budget that is used up while a child is under way |
| `MaxRevise` | 1 | one revision within the budget, one beyond it |
| `MaxEvents`, `MaxMessages` | 2 | a cursor at the tail and above it; a message before and after a replay |

A second writer at `Cap` 1, which `acquire` rejects, occurs in no run; the proofs
are for every `Cap`.

In `spawn`, the phase and the linked dispatch share a todo, so that two runs
overlap on one. `Terminating` in `SpawnSubagent` and `BackgroundRuns`, and the
last disjunct of `Scheduler`'s `Next`, let a finished system stutter, so deadlock
is checked there. In `workflow`, `lifecycle`, `panel` and `rpc` it is not: a user may
leave a run at a question, or do nothing at all, for good.

## Fairness

- `SpawnSubagent`: weak fairness of each dispatch's continuations. The event loop
  runs every resolved promise, `factory.create` settles, and a child's prompt
  settles since a child either answers, ends or is killed. Not fair: the user,
  the child's events, the abort signal.
- `RunRecovery`: the user starts pi again after a crash. Without that nothing
  after a crash would happen at all, and the property speaks of what pi does when it
  runs.
- `BackgroundRuns`: a woken caller runs, and the lifecycle inside a slot settles.
- `Workflow`: the event loop goes on and children end (`LoopStep`, `ChildStep`), under
  one condition since no child ends before the event loop is through (`Quiet`). Not
  fair: the user, who need neither resume nor answer.
- `Lifecycle`: the same for each lifecycle, whose children end, gates return and
  callers other than the panel answer. Not fair: the panel.
- `Panel`: a user who keeps pressing Escape, for `EscapeCancels` only.
- `FleetRpc`: an answer of the engine comes, and a reply is sent.
- `Scheduler` states safety only.

## What is proved

Every safety property and every action property that a passing run checks is a
theorem, for every value of the constants: any set of runs and assignment of kinds
to them, any caps and pools, any number of crashes, sessions and re-entries, any
schedules, dates and horizons, any workflow scripts, any lifecycles with any gates
and tiers, any events. The assumptions are the `ASSUME`s of the modules: sets of
ids are finite, caps and turn budgets are positive, todo ids and run ids are
distinct, a phase is not retried by the tool, one-shots and recurring schedules are
disjoint, a lifecycle has a phase and its caller is one of three, the models of a
tier are a list, a script has at least one branch and each branch a call. One
theorem has a hypothesis of its own: `OneShotFiresOnceHolds` takes the dates to be
within `TimerMax`. It is needed: a timer set for a date beyond it goes off at once,
and when pi dies between that fire and the delete, the entry fires again. It is
true of dates up to 24 days ahead.

`SpawnSubagent_proofs`:

- `TypeCorrect`: `Spec => []TypeOK`.
- `LockInvariant`: the inductive invariant of the lock. `LockMatchesRuns` is not
  inductive by itself: `release` hands the slot over without testing how many
  there are, so the invariant adds that the holders never exceed `Cap`
  (`Bounded`) and that a queue means a full lock (`NoIdleSlot`); it states the
  match itself in five parts (who holds, who works, who waits, once each, nobody
  lost), each of which a step disturbs by itself.
- `LockMatchesRunsHolds`, `NoIdleSlotHolds`, `NoOvertakingHolds` follow from it.
- `WriteSlotsImplemented`: `Spec => Slots!Spec`. `Inside` are the writers between
  admission and return; admission maps to `Enter`, return to `Leave`, every other
  step stutters. The bound comes from `Inside \subseteq active`.
- `HandleMeansRunningHolds`: the panel's assumption that a record has a handle
  exactly while its child is prompted.
- `RecordsAgreeHolds`, from `AllRecorded`, which adds that a dispatch not yet
  admitted has no record; without it a refusal could follow one. It uses
  `HandleMeansRunning`: an entry is appended only to the journal of a run without a
  verdict.
- `OnlyUserClosesHolds`, from `PriorKnown`: a run linked to a todo that existed
  before it remembers an open status, and that is what its end writes.
- `TodoSettledHolds`, from `SettledInv` and `CallInv`. `TodoSettled` is not
  inductive: it lets a run at `finishing` account for a todo in progress, and
  `Return` ends that. `SettledInv` demands that a run lets go of its todo with its
  verdict. `CallInv` says where names come from, so that only a retry can write the
  todo that the fleet created for another run (`OwnTodo`).

`Scheduler_proofs`:

- `TypeCorrect` and `TimersMatchHolds`, from the invariant `TypeOK /\
  TimersMatchEntries`. Each operator on an entry (`Cleared`, `Deleted`, `Paused`,
  `Armed`) has a lemma on what it leaves of the timers. The delicate ones
  are `Resume`, which arms without clearing and is safe only because a paused entry
  has no timer, and `Fire`, where the timer that goes off must be the only one.
- `SecondProcessDefersHolds`, from `LockInv`. Its core is `OneContender`: all live
  sessions that have passed the look at the lock file belong to one process, and
  the file is empty or names that process once one has written. It is conditional on
  `~raced`, and needs two facts that hold without that condition: pids are fresh
  (`PidsFresh`), and a process is in one `session_start` at a time (`OneAtATime`).

- `WishesSurviveHolds` and `FiresObeyTheUserHolds`, from `WishInv`: while sessions
  follow one another one session lives at most (`OneLives`), the store holds the
  states its entries have (`StoreShows`), and these are what the user last said
  (`StoreObeys`). A fire is of an active entry, so it obeys. Only a one-shot may be
  dropped by a load or a resume, which is why the wishes are of recurring ones.
- `OneShotFiresOnceHolds`, from `FiredInv`: a one-shot has fired only if its date has
  come, and then no session has a timer of it. A crash between fire and delete leaves
  the entry in the store, but a load tells that its date is past.

`BackgroundRuns_proofs`, from `BackgroundInvariant`:

- `PoolMatchesRunsHolds`. `QueueInv` says that a queued run is in the queue of its
  pool or woken, once, and `CountInv` that the count of a pool is the cardinality of
  its residents. The count may exceed the cap, so no bound is in the invariant.
- `LeftoversMatchJournalHolds`, `InterruptedRunOfferedHolds` and `AbortIsFinalHolds`,
  from `Tale`: what journal, worktree and branch of a run tell at each stage of its
  life. `EndsDisk` sums up what the end of a run can leave on disk, whatever throws or
  crashes, so that one lemma serves all of it. A run at work has its worktree, its
  branch and, if it is in the session's own repository, no verdict yet (`own`): no
  scan takes it for interrupted. A second verdict may follow the first, but only as an
  abort (`Final`).

`RunRecovery_proofs`, about the specification with crashes; of `SpawnSubagent_proofs`
it uses the lemmas about single steps:

- `RecoveryTypeCorrect`, and `LockSurvivesCrashes`: the invariant of the lock under
  crash, restart and reconciliation.
- `CloseStaysUsers`: `OnlyUserCloses` under the same. A pass is the only other writer
  of todos, and writes open. No run checks this one; TLC found no error when it was
  added to `recovery` once.
- `LiveRunSparedHolds` and `CompletedUntouchedHolds`, from `JournalInv`: what handle
  and journal of a dispatch are at each place where it is suspended (`Stage`). A
  pass writes to a run only if its handle is gone, and by `Stage` a completed run
  writes no more itself. `Moves` sums up what the steps of a dispatch do to the
  two, so that the properties are proved once and not for each of its actions.

`Workflow_proofs`, from `WorkflowInvariant`, which has one named part for each agreement:

- `ControlsMatchHolds`, from `Controlled` and `Listed`: gate, signal, status, resolver
  and controls of a run. A live run may lack its controls, but only after a stop, so
  that its signal has fired. A call behind the gate but not yet dispatched (`free`)
  cannot outlive a pause since the event loop is `Quiet` before a user acts.
- `InFlightBoundedHolds`. The overrun of the budget is not inductive by itself: a
  lifecycle looks at the budget before the gate and not after it, so those at the
  gate count with the children at work (`Counted`). The worktrees are those of calls
  (`WorktreesInUse`).
- `CachedAnswersEndedHolds`, from `Pending` and `Cached`: calls under way have places
  of their own in the journal and are pending there, so no step of the new run and
  none of the old one changes an answer that was taken over.
- `VerdictsAgreeHolds`, from `Judged`: a run on its way has no verdict, one that is
  over the verdict that the lists show, each session's own and the hydrated one, and a
  branch still active after the end belongs to an aborted run. All of it is about the
  runs outside `blind`: a run that was stopped as interrupted while it went on gets
  its verdict from two hands. A new session changes what is shown of a run, not its
  journal (`NewSessionIs`), and shows its verdict if it has one (`HydratedIs`).
- `HeldRunCallsNobodyHolds`: `WhoComes` lists who can come to the pool in a step, and
  a call comes only from a run that is neither held nor stopped.

`Lifecycle_proofs`:

- `UserSeesTheRunHolds`, from `IInv`. The property speaks of the todo at the end
  only, so the invariant says what it is on the way (`RunInv`: in progress, no
  verdict, budget kept), that a phase somebody is asked about is marked if it
  succeeded, since `Accept` does not mark it again, and that the runs of the panel
  are the panel's own (`PanelInv`), which is why no other caller can leave its
  checkpoint behind. One lemma per way an attempt ends (`InvAccept`, `InvRevise`,
  `InvAbort`) serves gates, callers and panel.
- `PromiseKept`: `Spec => Promise!Spec`. Each step moves one run (`Only`) in a way the
  promise allows (`Moves`); a phase is accepted from `judged` or `asked` with a last
  attempt that succeeded, every other end is a stop, and the loop up to the gates is
  the work on a phase or invisible.
- `ModelAllowedHolds`, from `ModelInv`: a run has a model only while it has a child,
  and the definition and phase that allow it stay as they are meanwhile. What a tier
  resolves to is `CandidatesAllowed`: every member of the chain is in the tier and
  eligible, or the session's model where the tier names it. `Candidates` is a
  recursive function, so the lemma shows first that there is one, then what its
  values are, each by a least counterexample (`LeastOf`).

`Panel_proofs`:

- `TimelineIsLiveHolds`, from `PanelInv` (`ScreenOK`, `TimelineOK`, `RunOK`,
  `StoreOK`). `IsLive` is the core: the run on the screen is the one subscribed to,
  all it said is shown, and a pinned cursor is at the end. Every way out of a
  timeline drops the subscription, and those into one take the log as it is.
- `SteersTheChosenHolds`, from `ChosenOK`: while the text of a steer is typed its
  `target` is the row that was selected when `s` was pressed, whatever keys, events,
  checkpoints and rebuilds come meanwhile, and every other mode forgets it.

`FleetRpc_proofs`:

- `TypeCorrect`, and `DedupeIsExactHolds`: for a run that one bus heard the number of
  a live event is its place in the log, since the bus counts all that the log gets and
  both begin at once. Then numbers and places identify the same events, and a replay
  adds just what a late consumer lacks.

The proofs are laid out with one lemma per action, and the temporal step last.

## What the checks found

Each of these runs checks one property that states what a comment or a document
says, and TLC finds it violated. `PROJECT.json` quotes the line.

| Run | What happens |
|---|---|
| `double_fire` | `acquire` looks and then writes: two processes that start together both fire. |
| `panel_close` | Escape answers a pending checkpoint, `q` does not, and a lifecycle that asks after its panel was closed asks nobody: it can never be answered, and its todo stays in progress. |
| `resume_checkpoint` | The question that was pending at a crash is in the journal as a call without a response; the resumed run takes that for the answer. |
| `ghost_run` | A dispatch that fails before its record exists journals nothing, though RPC has answered with its run id. |

Further disagreements that modelling showed. The models contain them; no run
is spent on them:

- A retry names the first try's todo (`tools/subagent.ts:325`), which the adapter
  takes for the user's: a completed retry leaves the fleet's own todo open, where
  `todo-sync/port.ts:44` says done.
- The first render without an active run clears the liveness probe, which
  `fleet-widget.ts:76` calls periodic: an orphan younger than a minute when pi starts
  is never reconciled in that session.
- A paused one-shot that is resumed before its date is deleted
  (`scheduler.ts:114`); a delay above 2^31-1 ms fires at once (`scheduler.ts:150`).
- `withSlot` admits a call between the release of a slot and the waiter it woke
  (`concurrency-pool.ts:16`): cap + 1 runs are at work.
- A lifecycle phase whose child was stopped, not failed, is judged by its artifacts
  and may be passed (`run-lifecycle.ts:170`), where `spawnSubagent.ts:543` speaks of
  a todo reverted to open.
- The retry of a phase may be on the model that failed: the result names the first
  candidate of the chain, not the one that ran (`retry-fallback.ts:22`).
- An exhausted revise budget and a gate of an unknown name leave the todo in
  progress (`run-lifecycle.ts:214`, `196`).
- Phases of a lifecycle in a workflow do not pass the pause gate and start after a
  pause or a stop (`adapters.ts:116`), and queue for the pool in which their
  lifecycle holds a slot (`adapters.ts:159`).
- The agent of a call with `isolation: "worktree"` is not run in the worktree
  (`adapters.ts:85`).
- Of two questions asked in parallel the first loses its resolver
  (`controller.ts:189`); a stop then never returns.
- The list under a timeline is built anew, with its first row selected, at each change
  of a store; a tier edit and the stop of a run act on the selection at the time they
  are sent (`fleet-panel.ts:1146`).
- A timeline of a run without events hears no key (`fleet-panel.ts:668`).
- A workflow run that goes on over a re-entered `session_start` (`index.ts:754`) is
  hydrated as interrupted. Its stop fires no signal and writes `wf:aborted` for a
  runner that, says `controller.ts:415`, "isn't executing"; the runner later writes
  `wf:completed`. `VerdictsAgree` excepts the runs stopped so (`blind`).
- When the notification of a completed background run throws, the catch block aborts
  it and deletes its branch (`async-runner.ts:161`), which its result in the inbox
  names and `worktree-service.ts:71` promises to keep.
- Sequence numbers start again at 1 with each `session_start`, so the numbers of a
  run that two buses heard do not agree with its replay.

## What is only model-checked

- Liveness (`EveryDispatchReturns`, `OldOrphanReconciled`, `EveryRunEnds`,
  `StoppedRunEnds`, `UnattendedEnds`, `EscapeCancels`, `RequestsAnswered`): fairness
  and `ENABLED` are beyond the prover.
- The four properties that the code violates: a counterexample is a run of TLC.
- That no model deadlocks.

## What is not modelled

- Agent, lifecycle and workflow registries: files and front matter. Transcripts,
  settings, governance, memory and vision: layout and adapters without state that
  later steps race on. Rendering of the panel and the widget.
- A lifecycle's phase appears in `SpawnSubagent` as a dispatch whose todo the
  lifecycle settles, and a lifecycle as an outcome in `BackgroundRuns` and
  `Workflow`; `Lifecycle` itself knows a child by its result.
- Child workflows, sequential parts of a script around its `parallel()`, prompts and
  results of a workflow. Two questions in parallel are in the model, not in the
  checked scripts.
- The verbs of RPC that only read, and the shutdown hooks.
- The child processes themselves. That `prompt` settles is an assumption (fairness).
- `Scheduler.stop` and `PidLock.release`, which nothing in the package calls; a
  store or log that cannot be read or written; a second pi process in the
  reconciliation model.

## Plan

Done: the dispatch with its lock, registry, todos and logs; recovery; background
runs; the scheduler; the workflow engine; the lifecycle engine with model choice;
the panel; RPC and events; a proof module for each of the eight components with a
state, and in them every safety and action property that the passing runs check.

What is left to prove:

1. What is left of `RecordsAgree` and `TodoSettled` across crashes: neither holds as
   it stands, since a crash ends a dispatch in the middle, but after a pass the
   journals of the runs that it found dead should agree with their todos.
2. How far a pool exceeds its cap: the residents beyond it are callers that were
   admitted while a woken one had not run.

What is left to model: a second pi process and failing appends in `RunRecovery`,
a panel that goes on with the controller of an earlier session, child workflows.

## Running it

    tlc -workers 2 -config spawn.cfg MCSpawn
    tlapm Scheduler_proofs.tla

`PROJECT.json` names the module and the configuration of each run. No run takes
more than about three minutes on two cores; a proof module takes a minute or two, and
`Workflow_proofs` several.
