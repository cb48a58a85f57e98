------------------------------ MODULE FleetRpc ------------------------------
(***************************************************************************)
(* What other extensions see of the fleet: the events of                   *)
(* src/rpc/event-bus.ts, the requests of src/rpc/rpc-server.ts, and their  *)
(* set-up at each session_start (src/index.ts), over the run log of        *)
(* src/runtime/run-log.ts, with a consumer that listens to the events,     *)
(* asks for what it missed, and drops what has a channel, run and number   *)
(* that it has seen - as the bus promises it may.                          *)
(*                                                                         *)
(* Payloads and the checks of parameters are left out, and so are status   *)
(* and schedule, a read and a call of Scheduler's Register.  Nothing       *)
(* writes the phase events of the journal.                                 *)
(***************************************************************************)
EXTENDS Naturals, SequencesExt

CONSTANTS Runs, Requests,
          Steerable,     \* runs whose session takes a message (pi, not claude)
          MaxSessions,   \* bound: how often session_start fires
          MaxMessages,   \* bound: the messages of a run
          NoVerb, NoRun

ASSUME RpcAssumption == /\ Steerable \subseteq Runs
                        /\ MaxSessions \in Nat /\ MaxMessages \in Nat
                        /\ NoRun \notin Runs

VARIABLES session,   \* how often session_start has fired
          up,        \* a bus and a listener are there
          control,   \* ARMORY_FLEET_RPC_CONTROL does not disable control
          phase,     \* a run: unknown, dispatched, running, ended, failed, lost
          log,       \* the channels of the entries of its log
          number,    \* the bus: the number of the last event of a run
          writers,   \* the buses that heard its entries; 0 for no bus
          request,   \* a request: its verb, run, and how far it is
          inFlight,  \* the length of the log that a reply to observe holds
          seen,      \* the consumer: the events it keeps of each run
          observed   \* ... and the runs that it has asked for

busVars == <<session, up, number>>
runVars == <<phase, log, writers>>
callVars == <<request, inFlight>>
consumerVars == <<seen, observed>>
vars == <<busVars, control, runVars, callVars, consumerVars>>

Channels == {"run:started", "child:message", "run:ended"}
Verbs == {"spawn", "steer", "abort", "observe"}
NoRequest == [verb |-> NoVerb, run |-> NoRun, state |-> "unsent"]

Init == /\ session = 0 /\ up = FALSE
        /\ control \in BOOLEAN
        /\ phase = [r \in Runs |-> "unknown"]
        /\ log = [r \in Runs |-> <<>>]
        /\ number = [r \in Runs |-> 0]
        /\ writers = [r \in Runs |-> {}]
        /\ request = [q \in Requests |-> NoRequest]
        /\ inFlight = [q \in Requests |-> 0]
        /\ seen = [r \in Runs |-> {}]
        /\ observed = {}
-----------------------------------------------------------------------------
(* Events and the consumer. *)

(* An event, with its place in the log, which the consumer cannot see.     *)
Event(channel, seq, place) == [channel |-> channel, seq |-> seq, place |-> place]

(* The consumer drops what it has seen. *)
Merge(kept, events) ==
    kept \cup {e \in events : \A k \in kept : <<k.channel, k.seq>> # <<e.channel, e.seq>>}

(* The number of an event is its place in the log, whatever is asked for.  *)
(* Mutated form: its place among those of its tier.                        *)
TierReplayed(r, n) == {Event(log[r][i], Cardinality({j \in 1..i : log[r][j] # "run:started"}), i) :
                          i \in 1..n}
Replayed(r, n) == {Event(log[r][i], i, i) : i \in 1..n}

(* RunLog.append, and the bus when there is one: the next number of the    *)
(* run, whatever the entry.                                                *)
Appends(r, channel) ==
    /\ log' = [log EXCEPT ![r] = Append(@, channel)]
    /\ writers' = [writers EXCEPT ![r] = @ \cup {IF up THEN session ELSE 0}]
    /\ IF up THEN /\ number' = [number EXCEPT ![r] = @ + 1]
                  /\ seen' = [seen EXCEPT ![r] =
                        Merge(@, {Event(channel, number[r] + 1, Len(log[r]) + 1)})]
             ELSE UNCHANGED <<number, seen>>
-----------------------------------------------------------------------------
(* Sessions. *)

(* session_start, also in a process that has had one: the old bus and      *)
(* listener go before the new ones come.                                   *)
SessionStart == /\ session < MaxSessions
                /\ session' = session + 1 /\ up' = TRUE
                /\ number' = [r \in Runs |-> 0]
                /\ UNCHANGED <<control, runVars, callVars, consumerVars>>

(* session_shutdown; the runs of the process go on. *)
Shutdown == /\ up
            /\ up' = FALSE
            /\ UNCHANGED <<session, number, control, runVars, callVars, consumerVars>>

(* pi dies: the log is on disk, all else is lost. *)
Crash == /\ up
         /\ up' = FALSE
         /\ phase' = [r \in Runs |-> CASE phase[r] = "dispatched" -> "failed"
                                       [] phase[r] = "running" /\ log[r] # <<>> -> "lost"
                                       [] phase[r] = "running" -> "failed"
                                       [] OTHER -> phase[r]]
         /\ request' = [q \in Requests |-> [request[q] EXCEPT !.state =
                           IF @ = "unsent" THEN @ ELSE "lost"]]
         /\ seen' = [r \in Runs |-> {}] /\ observed' = {}
         /\ UNCHANGED <<session, number, control, log, writers, inFlight>>
-----------------------------------------------------------------------------
(* Runs, as the log sees them.  A run of the tool has no request.          *)

Dispatch(r) == /\ up /\ phase[r] = "unknown"
               /\ phase' = [phase EXCEPT ![r] = "dispatched"]
               /\ UNCHANGED <<busVars, control, log, writers, callVars, consumerVars>>

(* Its record is in the registry, or the dispatch fails before it is.      *)
Opens(r) == /\ phase[r] = "dispatched"
            /\ phase' = [phase EXCEPT ![r] = "running"]
            /\ UNCHANGED <<busVars, control, log, writers, callVars, consumerVars>>
Fails(r) == /\ phase[r] = "dispatched"
            /\ phase' = [phase EXCEPT ![r] = "failed"]
            /\ UNCHANGED <<busVars, control, log, writers, callVars, consumerVars>>

Announces(r) == /\ phase[r] = "running" /\ log[r] = <<>>
                /\ Appends(r, "run:started")
                /\ UNCHANGED <<session, up, control, phase, callVars, observed>>

Speaks(r) == /\ phase[r] = "running" /\ log[r] # <<>>
             /\ Len(log[r]) <= MaxMessages
             /\ Appends(r, "child:message")
             /\ UNCHANGED <<session, up, control, phase, callVars, observed>>

(* finishRun, or the reconciliation of an orphan. *)
Ends(r) == /\ phase[r] \in {"running", "lost"}
           /\ phase' = [phase EXCEPT ![r] = "ended"]
           /\ Appends(r, "run:ended")
           /\ UNCHANGED <<session, up, control, callVars, observed>>
-----------------------------------------------------------------------------
(* Requests. *)

(* The record has the session of its child from a moment before run:meta   *)
(* until finishRun.                                                        *)
MayHaveSession(r) == CASE phase[r] # "running" -> {FALSE}
                       [] log[r] = <<>> -> BOOLEAN
                       [] OTHER -> {TRUE}

(* What handle makes of a request at once: an answer, or the wait for what *)
(* the child says to a steer or an abort.                                  *)
Outcome(verb, r, hasSession) ==
    CASE verb # "observe" /\ ~control -> "E-CONTROL-DISABLED"
      [] verb = "spawn" -> "ok"
      [] verb = "observe" -> IF log[r] = <<>> THEN "E-RUN-NOT-FOUND" ELSE "ok"
      [] phase[r] \in {"unknown", "dispatched", "failed", "lost"} -> "E-RUN-NOT-FOUND"
      [] ~hasSession -> "E-RUN-FINISHED"
      [] verb = "steer" /\ r \notin Steerable -> "E-STEER-UNSUPPORTED"
      [] OTHER -> "waiting"

(* A request is put on the bus of pi.  Without a listener nobody sees it.  *)
Handle(q, verb, r) ==
    /\ up /\ request[q].state = "unsent"
    /\ verb = "spawn" => phase[r] = "unknown"
    /\ \E hasSession \in MayHaveSession(r) :
          request' = [request EXCEPT ![q] = [verb |-> verb, run |-> r,
                                             state |-> Outcome(verb, r, hasSession)]]
    /\ inFlight' = [inFlight EXCEPT ![q] = IF verb = "observe" THEN Len(log[r]) ELSE 0]
    /\ phase' = IF verb = "spawn" /\ control THEN [phase EXCEPT ![r] = "dispatched"] ELSE phase
    /\ UNCHANGED <<busVars, control, log, writers, consumerVars>>

(* session.steer or session.abort returns, or throws.                      *)
Settle(q, code) ==
    /\ request[q].state = "waiting"
    /\ request' = [request EXCEPT ![q].state = code]
    /\ UNCHANGED <<busVars, control, runVars, inFlight, consumerVars>>

Codes == {"ok", "E-CONTROL-DISABLED", "E-RUN-NOT-FOUND", "E-RUN-FINISHED",
          "E-STEER-UNSUPPORTED", "E-INTERNAL"}

(* The promise of handle emits the reply, whatever has become of the       *)
(* listener by then.                                                       *)
(* Mutated form: a listener that is gone replies no more.                  *)
HeardBack(q) == up
CanReply(q) == TRUE

Reply(q) ==
    /\ request[q].state \in Codes /\ CanReply(q)
    /\ request' = [request EXCEPT ![q].state = "answered"]
    /\ IF request[q].verb = "observe" /\ request[q].state = "ok"
       THEN LET r == request[q].run
            IN  /\ seen' = [seen EXCEPT ![r] = Merge(@, Replayed(r, inFlight[q]))]
                /\ observed' = observed \cup {r}
       ELSE UNCHANGED <<seen, observed>>
    /\ UNCHANGED <<busVars, control, runVars, inFlight>>
-----------------------------------------------------------------------------
RunStep(r) == Dispatch(r) \/ Opens(r) \/ Fails(r) \/ Announces(r) \/ Speaks(r) \/ Ends(r)

Next == \/ SessionStart \/ Shutdown \/ Crash
        \/ \E r \in Runs : RunStep(r)
        \/ \E q \in Requests :
              \/ \E verb \in Verbs, r \in Runs : Handle(q, verb, r)
              \/ \E code \in {"ok", "E-RUN-FINISHED", "E-STEER-UNSUPPORTED", "E-INTERNAL"} :
                    Settle(q, code)
              \/ Reply(q)

(* A child answers a steer or an abort, and the event loop runs the rest.  *)
Fairness == \A q \in Requests : /\ WF_vars(\E code \in Codes : Settle(q, code))
                                /\ WF_vars(Reply(q))

Spec == Init /\ [][Next]_vars
FairSpec == Spec /\ Fairness
-----------------------------------------------------------------------------
(* Properties. *)

TypeOK ==
    /\ session \in 0..MaxSessions /\ up \in BOOLEAN /\ control \in BOOLEAN
    /\ phase \in [Runs -> {"unknown", "dispatched", "running", "ended", "failed", "lost"}]
    /\ log \in [Runs -> Seq(Channels)]
    /\ number \in [Runs -> Nat] /\ inFlight \in [Requests -> Nat]
    /\ writers \in [Runs -> SUBSET (0..MaxSessions)]
    /\ request \in [Requests -> [verb : Verbs \cup {NoVerb}, run : Runs \cup {NoRun},
                                 state : Codes \cup {"unsent", "waiting", "answered", "lost"}]]
    /\ seen \in [Runs -> SUBSET [channel : Channels, seq : Nat \ {0}, place : Nat \ {0}]]
    /\ observed \subseteq Runs

(* What the consumer keeps of a run is its log: every entry, once.         *)
KeepsTheLog(r) == /\ {e.place : e \in seen[r]} = DOMAIN log[r]
                  /\ Cardinality(seen[r]) = Len(log[r])

(* "Replay reconstructs identical seqs ... consumers dedupe live-vs-replay *)
(* by (channel, runId, seq)" (event-bus.ts): a consumer that listens, asks *)
(* once for the run, whenever it likes, and drops what it has seen, has    *)
(* the whole log and nothing twice, if one bus heard all of the run (each  *)
(* session_start begins a new bus, and its numbers, at 1).                 *)
DedupeIsExact ==
    \A r \in observed : (\E b \in 1..MaxSessions : writers[r] = {b}) => KeepsTheLog(r)

(* "handle() NEVER throws and replies EXACTLY once per request"            *)
(* (rpc-server.ts): a request that a listener took is answered, unless pi  *)
(* dies, even when the session ends while the child is asked.              *)
RequestsAnswered ==
    \A q \in Requests : (request[q].state \notin {"unsent", "lost"}) ~>
                            (request[q].state \in {"answered", "lost"})

(* "the caller's { runId } always resolves to a real run" (rpc-server.ts), *)
(* since "spawnSubagent's own fail path journals run:ended": a run of a    *)
(* spawn that was answered, in the same process, and failed, has a log.    *)
SpawnedRunIsReal ==
    \A q \in Requests : LET r == request[q].run
                        IN  /\ request[q].verb = "spawn"
                            /\ request[q].state \in {"ok", "answered"}
                            /\ phase[r] = "failed"
                            => log[r] # <<>>
=============================================================================
