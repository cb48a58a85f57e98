---------------------------- MODULE FleetRpc_proofs ----------------------------
(***************************************************************************)
(* Theorems about FleetRpc, for every number of runs, requests, sessions   *)
(* and messages: the deduplication that event-bus.ts promises its          *)
(* consumers.                                                              *)
(***************************************************************************)
EXTENDS FleetRpc, FiniteSetTheorems, TLAPS

-----------------------------------------------------------------------------
(* Type correctness. *)

EventSet == [channel : Channels, seq : Nat \ {0}, place : Nat \ {0}]
Phases   == {"unknown", "dispatched", "running", "ended", "failed", "lost"}
Answers  == Codes \cup {"unsent", "waiting", "answered", "lost"}
CallSet  == [verb : Verbs \cup {NoVerb}, run : Runs \cup {NoRun}, state : Answers]

LEMMA TypeInit == Init => TypeOK
  <1> SUFFICES ASSUME Init PROVE TypeOK
    OBVIOUS
  <1>1. session \in 0..MaxSessions
    BY RpcAssumption DEF Init
  <1>2. NoRequest \in CallSet
    BY DEF NoRequest, CallSet, Answers
  <1>3. request \in [Requests -> CallSet]
    BY <1>2 DEF Init
  <1>4. /\ up \in BOOLEAN /\ control \in BOOLEAN
        /\ phase \in [Runs -> Phases] /\ number \in [Runs -> Nat]
        /\ inFlight \in [Requests -> Nat] /\ observed \subseteq Runs
    BY DEF Init, Phases
  <1>5. /\ log \in [Runs -> Seq(Channels)]
        /\ writers \in [Runs -> SUBSET (0..MaxSessions)]
        /\ seen \in [Runs -> SUBSET EventSet]
    BY DEF Init
  <1> QED
    BY <1>1, <1>3, <1>4, <1>5 DEF TypeOK, CallSet, Answers, Phases, EventSet

(* What the consumer merges stays typed. *)
LEMMA TypeMerge ==
    ASSUME NEW S \in SUBSET EventSet, NEW T \in SUBSET EventSet
    PROVE  Merge(S, T) \in SUBSET EventSet
  BY DEF Merge

LEMMA TypeReplayed ==
    ASSUME TypeOK, NEW r \in Runs, NEW n \in Nat, n <= Len(log[r])
    PROVE  Replayed(r, n) \in SUBSET EventSet
  <1> SUFFICES ASSUME NEW i \in 1..n PROVE Event(log[r][i], i, i) \in EventSet
    BY DEF Replayed
  <1>1. log[r] \in Seq(Channels) /\ i \in 1..Len(log[r])
    BY DEF TypeOK
  <1> QED
    BY <1>1 DEF Event, EventSet

LEMMA TypeAppends ==
    ASSUME TypeOK, NEW r \in Runs, NEW c \in Channels, Appends(r, c)
    PROVE  /\ log' \in [Runs -> Seq(Channels)]
           /\ writers' \in [Runs -> SUBSET (0..MaxSessions)]
           /\ number' \in [Runs -> Nat]
           /\ seen' \in [Runs -> SUBSET EventSet]
  <1>1. log' \in [Runs -> Seq(Channels)]
    <2>1. Append(log[r], c) \in Seq(Channels)
      BY DEF TypeOK
    <2> QED
      BY <2>1 DEF TypeOK, Appends
  <1>2. writers' \in [Runs -> SUBSET (0..MaxSessions)]
    <2>1. (IF up THEN session ELSE 0) \in 0..MaxSessions
      BY RpcAssumption DEF TypeOK
    <2> QED
      BY <2>1 DEF TypeOK, Appends
  <1>3. number' \in [Runs -> Nat]
    <2>1. number' = number \/ number' = [number EXCEPT ![r] = number[r] + 1]
      BY DEF Appends
    <2>2. number \in [Runs -> Nat]
      BY DEF TypeOK
    <2>3. number[r] + 1 \in Nat
      BY <2>2
    <2> QED
      BY <2>1, <2>2, <2>3
  <1>4. seen' \in [Runs -> SUBSET EventSet]
    <2> DEFINE e == Event(c, number[r] + 1, Len(log[r]) + 1)
    <2>1. number[r] \in Nat /\ Len(log[r]) \in Nat
      BY DEF TypeOK
    <2>2. e \in EventSet
      BY <2>1 DEF Event, EventSet
    <2> HIDE DEF e
    <2>3. seen \in [Runs -> SUBSET EventSet]
      BY DEF TypeOK, EventSet
    <2>4. Merge(seen[r], {e}) \in SUBSET EventSet
      BY <2>2, <2>3, TypeMerge
    <2>5. seen' = seen \/ seen' = [seen EXCEPT ![r] = Merge(seen[r], {e})]
      BY DEF Appends, e
    <2> QED
      BY <2>3, <2>4, <2>5
  <1> QED
    BY <1>1, <1>2, <1>3, <1>4

(* A step of a run. *)
LEMMA TypeRunStep ==
    ASSUME TypeOK, NEW r \in Runs, RunStep(r)
    PROVE  TypeOK'
  <1>1. CASE Dispatch(r) \/ Opens(r) \/ Fails(r)
    BY <1>1 DEF Dispatch, Opens, Fails, busVars, callVars, consumerVars, TypeOK
  <1>2. ASSUME NEW c \in Channels, Appends(r, c),
               UNCHANGED <<session, up, control, callVars, observed>>,
               phase' \in [Runs -> Phases]
        PROVE  TypeOK'
    BY <1>2, TypeAppends DEF TypeOK, EventSet, Phases, callVars
  <1>3. CASE Announces(r) \/ Speaks(r)
    BY <1>2, <1>3 DEF Announces, Speaks, Channels, TypeOK, Phases
  <1>4. CASE Ends(r)
    <2>1. phase' \in [Runs -> Phases]
      BY <1>4 DEF Ends, TypeOK, Phases
    <2> QED
      BY <1>2, <1>4, <2>1 DEF Ends, Channels
  <1> QED
    BY <1>1, <1>3, <1>4 DEF RunStep

LEMMA TypeSessions ==
    ASSUME TypeOK, SessionStart \/ Shutdown \/ Crash
    PROVE  TypeOK'
  <1>1. CASE SessionStart
    <2>1. session' \in 0..MaxSessions
      BY <1>1, RpcAssumption DEF SessionStart, TypeOK
    <2> QED
      BY <1>1, <2>1 DEF SessionStart, runVars, callVars, consumerVars, TypeOK
  <1>2. CASE Shutdown
    BY <1>2 DEF Shutdown, runVars, callVars, consumerVars, TypeOK
  <1>3. CASE Crash
    <2>1. phase' \in [Runs -> Phases]
      BY <1>3 DEF Crash, TypeOK, Phases
    <2>2. request' \in [Requests -> CallSet]
      <3>1. request' = [q \in Requests |-> [request[q] EXCEPT !.state =
                           IF request[q].state = "unsent" THEN request[q].state ELSE "lost"]]
        BY <1>3 DEF Crash
      <3>2. \A q \in Requests : request[q] \in CallSet
        BY DEF TypeOK, CallSet, Answers
      <3>3. \A c \in CallSet : \A st \in Answers : [c EXCEPT !.state = st] \in CallSet
        BY DEF CallSet
      <3>4. \A q \in Requests :
               (IF request[q].state = "unsent" THEN request[q].state ELSE "lost") \in Answers
        BY DEF Answers
      <3> QED
        BY <3>1, <3>2, <3>3, <3>4
    <2> QED
      BY <1>3, <2>1, <2>2 DEF Crash, TypeOK, Phases, CallSet, Answers
  <1> QED
    BY <1>1, <1>2, <1>3

LEMMA TypeHandle ==
    ASSUME TypeOK, NEW q \in Requests, NEW verb \in Verbs, NEW r \in Runs, Handle(q, verb, r)
    PROVE  TypeOK'
  <1>1. \A h \in BOOLEAN : Outcome(verb, r, h) \in Answers
    BY DEF Outcome, Answers, Codes
  <1>2. MayHaveSession(r) \subseteq BOOLEAN
    BY DEF MayHaveSession
  <1>3. request' \in [Requests -> CallSet]
    BY <1>1, <1>2 DEF Handle, TypeOK, CallSet, Answers
  <1>4. inFlight' \in [Requests -> Nat]
    <2>1. Len(log[r]) \in Nat
      BY DEF TypeOK
    <2> QED
      BY <2>1 DEF Handle, TypeOK
  <1>5. phase' \in [Runs -> Phases]
    BY DEF Handle, TypeOK, Phases
  <1> QED
    BY <1>3, <1>4, <1>5
       DEF Handle, TypeOK, CallSet, Answers, Phases, busVars, consumerVars
-----------------------------------------------------------------------------
(* The inductive invariant.  Of a run that one bus heard it says why the   *)
(* consumer may compare numbers: the bus counts the entries of the log, so *)
(* that the number of a live event is its place, as it is in a replay; and *)
(* that what a replay under way does not hold has come live.               *)

Places(S) == {e.place : e \in S}

(* The consumer invents nothing. *)
Faithful(l, S) == \A e \in S : e.place \in 1..Len(l) /\ e.channel = l[e.place]

OneBus(w) == \E b \in 1..MaxSessions : w = {b}

SeqIsPlace(S) == \A e \in S : e.seq = e.place

BusCounts(w, l, n, s) ==
    \A b \in 1..MaxSessions : w = {b} => b <= s /\ (s = b => n = Len(l))

Asks(q, r) == request[q].run = r /\ request[q].verb = "observe" /\ request[q].state = "ok"

(* What is missing of the log after place n. *)
Covers(l, S, n) == \A i \in 1..Len(l) : i > n => i \in Places(S)

Kept(r) ==
    /\ Faithful(log[r], seen[r])
    /\ writers[r] = {} <=> log[r] = <<>>
    /\ log[r] = <<>> => number[r] = 0
    /\ OneBus(writers[r]) =>
          /\ SeqIsPlace(seen[r])
          /\ BusCounts(writers[r], log[r], number[r], session)
          /\ r \in observed => Covers(log[r], seen[r], 0)
          /\ \A q \in Requests : Asks(q, r) => Covers(log[r], seen[r], inFlight[q])

(* An observe is answered at once: it never waits for a child. *)
NeverWaits == \A q \in Requests : request[q].state = "waiting" => request[q].verb # "observe"

ExactInv ==
    /\ TypeOK /\ NeverWaits
    /\ \A r \in Runs : Kept(r)
    /\ \A q \in Requests : \A r \in Runs \cup {NoRun} :
          Asks(q, r) => r \in Runs /\ inFlight[q] <= Len(log[r])

LEMMA ExactInit == Init => ExactInv
  <1> SUFFICES ASSUME Init PROVE ExactInv
    OBVIOUS
  <1>1. \A r \in Runs : /\ log[r] = <<>> /\ seen[r] = {} /\ writers[r] = {}
                        /\ number[r] = 0
    BY DEF Init
  <1>2. \A r \in Runs : Kept(r)
    BY <1>1 DEF Kept, Faithful, OneBus
  <1>3. \A q \in Requests : request[q].state = "unsent"
    BY DEF Init, NoRequest
  <1> QED
    BY <1>2, <1>3, TypeInit DEF ExactInv, NeverWaits, Asks

(* An entry more, and what it does to the log.                             *)
LEMMA LogGrows ==
    ASSUME TypeOK, NEW r \in Runs, NEW c \in Channels
    PROVE  /\ Len(log[r]) \in Nat
           /\ Len(Append(log[r], c)) = Len(log[r]) + 1
           /\ Append(log[r], c) # <<>>
           /\ \A i \in 1..Len(log[r]) : Append(log[r], c)[i] = log[r][i]
           /\ Append(log[r], c)[Len(log[r]) + 1] = c
           /\ (log[r] # <<>> => Len(log[r]) # 0)
  <1>1. log[r] \in Seq(Channels)
    BY DEF TypeOK
  <1>2. Len(Append(log[r], c)) = Len(log[r]) + 1 /\ Len(log[r]) \in Nat
    BY <1>1
  <1>3. Append(log[r], c) # <<>>
    BY <1>1
  <1> QED
    BY <1>1, <1>2, <1>3

(* An entry that no bus hears, or one of another session: the run is not   *)
(* one bus's, and the consumer has at least no wrong event of it.          *)
LEMMA KeptUnheard ==
    ASSUME TypeOK, NEW r \in Runs, NEW c \in Channels, Kept(r), ~up,
           Appends(r, c)
    PROVE  Kept(r)'
  <1>1. /\ log'[r] = Append(log[r], c) /\ seen'[r] = seen[r]
        /\ writers'[r] = writers[r] \cup {0}
    BY DEF Appends, TypeOK
  <1>2. Faithful(log'[r], seen'[r])
    <2>1. \A i \in 1..Len(log[r]) : i \in 1..Len(log'[r]) /\ log'[r][i] = log[r][i]
      BY <1>1, LogGrows
    <2> QED
      BY <1>1, <2>1 DEF Kept, Faithful
  <1>3. log'[r] # <<>> /\ writers'[r] # {} /\ ~OneBus(writers'[r])
    <2>1. log'[r] # <<>>
      BY <1>1, LogGrows
    <2>2. 0 \in writers'[r] /\ 0 \notin 1..MaxSessions
      BY <1>1
    <2>3. \A b \in 1..MaxSessions : writers'[r] # {b}
      BY <2>2
    <2> QED
      BY <2>1, <2>2, <2>3 DEF OneBus
  <1> QED
    BY <1>2, <1>3 DEF Kept, Faithful, OneBus

(* A live event. *)
LEMMA KeptHeard ==
    ASSUME TypeOK, NEW r \in Runs, NEW c \in Channels, Kept(r), up,
           Appends(r, c), UNCHANGED <<session, request, inFlight, observed>>
    PROVE  Kept(r)'
  <1> DEFINE n == Len(log[r])
             e == Event(c, number[r] + 1, n + 1)
  <1>1. /\ log'[r] = Append(log[r], c) /\ seen'[r] = Merge(seen[r], {e})
        /\ writers'[r] = writers[r] \cup {session} /\ number'[r] = number[r] + 1
    BY DEF Appends, TypeOK
  <1>2. /\ n \in Nat /\ Len(log'[r]) = n + 1 /\ log'[r] # <<>>
        /\ \A i \in 1..n : log'[r][i] = log[r][i]
        /\ log'[r][n + 1] = c /\ (log[r] # <<>> => n # 0)
    BY <1>1, LogGrows
  <1>3. e.place = n + 1 /\ e.channel = c /\ e.seq = number[r] + 1
    BY DEF Event
  <1>4. number[r] \in Nat /\ session \in 0..MaxSessions
    BY DEF TypeOK
  <1> HIDE DEF n, e
  <1>5. seen'[r] \subseteq seen[r] \cup {e} /\ seen[r] \subseteq seen'[r]
    BY <1>1 DEF Merge
  <1>6. \A k \in seen[r] : k.place \in 1..n /\ k.channel = log[r][k.place]
    BY DEF Kept, Faithful, n
  <1>7. Faithful(log'[r], seen'[r])
    <2>1. ASSUME NEW k \in seen[r] PROVE k.place \in 1..(n + 1) /\ k.channel = log'[r][k.place]
      BY <1>2, <1>6
    <2>2. e.place \in 1..(n + 1) /\ e.channel = log'[r][e.place]
      <3>1. n \in Nat
        BY <1>2
      <3>2. n + 1 \in 1..(n + 1)
        BY <3>1
      <3>3. log'[r][n + 1] = c
        BY <1>2
      <3>4. e.place = n + 1 /\ e.channel = c
        BY <1>3
      <3> QED
        BY <3>2, <3>3, <3>4
    <2> QED
      BY <1>2, <1>5, <2>1, <2>2 DEF Faithful
  <1>8. writers'[r] # {}
    BY <1>1
  <1>9. ASSUME NEW b \in 1..MaxSessions, writers'[r] = {b}
        PROVE  /\ SeqIsPlace(seen'[r]) /\ number'[r] = n + 1 /\ b = session
               /\ r \in observed => Covers(log'[r], seen'[r], 0)
               /\ \A q \in Requests : Asks(q, r) => Covers(log'[r], seen'[r], inFlight[q])
    <2>1. b = session /\ writers[r] \subseteq {b}
      BY <1>1, <1>9
    <2>2. /\ SeqIsPlace(seen[r]) /\ number[r] = n
          /\ r \in observed => Covers(log[r], seen[r], 0)
          /\ \A q \in Requests : Asks(q, r) => Covers(log[r], seen[r], inFlight[q])
      <3>1. CASE writers[r] = {b}
        BY <2>1, <3>1 DEF Kept, OneBus, BusCounts, n
      <3>2. CASE writers[r] = {}
        <4>1. log[r] = <<>> /\ n = 0 /\ number[r] = 0
          BY <3>2 DEF Kept, n
        <4>2. seen[r] = {}
          BY <1>6, <4>1
        <4> QED
          BY <4>1, <4>2 DEF SeqIsPlace, Covers, n
      <3> QED
        BY <2>1, <3>1, <3>2
    <2>3. e.seq = n + 1 /\ number'[r] = n + 1
      BY <1>1, <1>3, <2>2
    <2>4. e \in seen'[r]
      <3>1. \A k \in seen[r] : k.seq # e.seq
        BY <1>2, <1>6, <2>2, <2>3 DEF SeqIsPlace
      <3>2. \A k \in seen[r] : <<k.channel, k.seq>> # <<e.channel, e.seq>>
        BY <3>1
      <3> QED
        BY <1>1, <3>2 DEF Merge
    <2>5. SeqIsPlace(seen'[r])
      BY <1>3, <1>5, <2>2, <2>3 DEF SeqIsPlace
    <2>6. Places(seen[r]) \subseteq Places(seen'[r]) /\ n + 1 \in Places(seen'[r])
      BY <1>3, <1>5, <2>4 DEF Places
    <2>7. \A m \in Nat : Covers(log[r], seen[r], m) => Covers(log'[r], seen'[r], m)
      <3>1. 1..(n + 1) = 1..n \cup {n + 1}
        BY <1>2
      <3> QED
        BY <1>2, <2>6, <3>1 DEF Covers, n
    <2>8. \A q \in Requests : inFlight[q] \in Nat
      BY DEF TypeOK
    <2> QED
      BY <2>1, <2>2, <2>3, <2>5, <2>7, <2>8
  <1>10. ASSUME OneBus(writers'[r])
         PROVE  /\ SeqIsPlace(seen'[r])
                /\ BusCounts(writers'[r], log'[r], number'[r], session')
                /\ r \in observed' => Covers(log'[r], seen'[r], 0)
                /\ \A q \in Requests : Asks(q, r)' => Covers(log'[r], seen'[r], inFlight'[q])
    <2>1. PICK b \in 1..MaxSessions : writers'[r] = {b}
      BY <1>10 DEF OneBus
    <2>2. /\ SeqIsPlace(seen'[r]) /\ number'[r] = n + 1 /\ b = session
          /\ r \in observed => Covers(log'[r], seen'[r], 0)
          /\ \A q \in Requests : Asks(q, r) => Covers(log'[r], seen'[r], inFlight[q])
      BY <1>9, <2>1
    <2>3. BusCounts(writers'[r], log'[r], number'[r], session')
      <3> SUFFICES ASSUME NEW x \in 1..MaxSessions, writers'[r] = {x}
                   PROVE  x <= session' /\ (session' = x => number'[r] = Len(log'[r]))
        BY DEF BusCounts
      <3>1. x = session
        BY <2>1, <2>2
      <3> QED
        BY <1>2, <1>4, <2>2, <3>1
    <2>4. \A q \in Requests : (Asks(q, r)' <=> Asks(q, r)) /\ inFlight'[q] = inFlight[q]
      BY DEF Asks
    <2> QED
      BY <2>2, <2>3, <2>4
  <1> QED
    BY <1>2, <1>7, <1>8, <1>10 DEF Kept, Faithful, OneBus, SeqIsPlace, BusCounts, Covers, Places

(* What the invariant says of a run that does not step. *)
LEMMA KeptElse ==
    ASSUME NEW r, Kept(r), log'[r] = log[r], seen'[r] = seen[r], writers'[r] = writers[r],
           number'[r] = number[r], UNCHANGED <<session, request, inFlight, observed>>
    PROVE  Kept(r)'
  <1>1. session' = session /\ request' = request /\ inFlight' = inFlight /\ observed' = observed
    OBVIOUS
  <1> QED
    BY <1>1 DEF Kept, Faithful, OneBus, SeqIsPlace, BusCounts, Covers, Places, Asks

LEMMA ExactAppends ==
    ASSUME ExactInv, TypeOK', NEW r \in Runs, NEW c \in Channels, Appends(r, c),
           UNCHANGED <<session, up, request, inFlight, observed>>
    PROVE  ExactInv'
  <1>1. Kept(r)'
    BY KeptHeard, KeptUnheard DEF ExactInv
  <1>2. \A x \in Runs \ {r} : /\ log'[x] = log[x] /\ seen'[x] = seen[x]
                              /\ writers'[x] = writers[x] /\ number'[x] = number[x]
    BY DEF Appends, ExactInv, TypeOK
  <1>3. \A x \in Runs \ {r} : Kept(x)'
    BY <1>2, KeptElse DEF ExactInv
  <1>4. \A x \in Runs : Kept(x)'
    BY <1>1, <1>3
  <1>5. \A x \in Runs : Len(log[x]) \in Nat /\ Len(log'[x]) \in Nat /\ Len(log[x]) <= Len(log'[x])
    <2>1. log'[r] = Append(log[r], c)
      BY DEF Appends, ExactInv, TypeOK
    <2>2. Len(log'[r]) = Len(log[r]) + 1 /\ Len(log[r]) \in Nat
      BY <2>1, LogGrows DEF ExactInv
    <2>3. \A x \in Runs : Len(log[x]) \in Nat
      BY DEF ExactInv, TypeOK
    <2> QED
      BY <1>2, <2>2, <2>3
  <1>6. ASSUME NEW q \in Requests, NEW x \in Runs \cup {NoRun}, Asks(q, x)'
        PROVE  x \in Runs /\ inFlight'[q] <= Len(log'[x])
    <2>1. Asks(q, x) /\ inFlight'[q] = inFlight[q] /\ inFlight[q] \in Nat
      BY <1>6 DEF Asks, ExactInv, TypeOK
    <2>2. x \in Runs /\ inFlight[q] <= Len(log[x])
      BY <2>1 DEF ExactInv
    <2> QED
      BY <1>5, <2>1, <2>2
  <1>7. NeverWaits'
    BY DEF ExactInv, NeverWaits
  <1> QED
    BY <1>4, <1>6, <1>7 DEF ExactInv

(* A run steps without an entry. *)
LEMMA ExactQuiet ==
    ASSUME ExactInv, TypeOK', UNCHANGED <<session, log, writers, number, seen, observed>>,
           UNCHANGED <<request, inFlight>>
    PROVE  ExactInv'
  <1>1. UNCHANGED session /\ UNCHANGED log /\ UNCHANGED writers /\ UNCHANGED number
        /\ UNCHANGED seen /\ UNCHANGED observed /\ UNCHANGED request /\ UNCHANGED inFlight
    OBVIOUS
  <1>2. \A r \in Runs : Kept(r)'
    BY <1>1, KeptElse DEF ExactInv
  <1> QED
    BY <1>1, <1>2 DEF ExactInv, NeverWaits, Asks

LEMMA ExactRunStep ==
    ASSUME ExactInv, NEW r \in Runs, RunStep(r)
    PROVE  ExactInv'
  <1>1. TypeOK'
    BY TypeRunStep DEF ExactInv
  <1>2. CASE Dispatch(r) \/ Opens(r) \/ Fails(r)
    BY <1>1, <1>2, ExactQuiet DEF Dispatch, Opens, Fails, busVars, callVars, consumerVars
  <1>3. CASE Announces(r) \/ Speaks(r) \/ Ends(r)
    BY <1>1, <1>3, ExactAppends DEF Announces, Speaks, Ends, Channels, callVars
  <1> QED
    BY <1>2, <1>3 DEF RunStep

(* A new bus starts at 1.  What an earlier one heard is still its own, and *)
(* the new one's number is not compared with it.                           *)
LEMMA ExactSessionStart ==
    ASSUME ExactInv, SessionStart
    PROVE  ExactInv'
  <1>1. TypeOK'
    BY TypeSessions DEF ExactInv
  <1>2. /\ session' = session + 1 /\ session \in 0..MaxSessions
        /\ \A r \in Runs : number'[r] = 0
        /\ UNCHANGED log /\ UNCHANGED writers /\ UNCHANGED request /\ UNCHANGED inFlight
        /\ UNCHANGED seen /\ UNCHANGED observed
    BY DEF SessionStart, runVars, callVars, consumerVars, ExactInv, TypeOK
  <1>3. ASSUME NEW r \in Runs PROVE Kept(r)'
    <2>1. Kept(r)
      BY DEF ExactInv
    <2>2. BusCounts(writers[r], log[r], number[r], session)
              => BusCounts(writers[r], log[r], 0, session')
      BY <1>2, RpcAssumption DEF BusCounts
    <2> QED
      BY <1>2, <2>1, <2>2
         DEF Kept, Faithful, OneBus, SeqIsPlace, BusCounts, Covers, Places, Asks
  <1> QED
    BY <1>1, <1>2, <1>3 DEF ExactInv, NeverWaits, Asks

LEMMA ExactShutdown ==
    ASSUME ExactInv, Shutdown
    PROVE  ExactInv'
  <1>1. TypeOK'
    BY TypeSessions DEF ExactInv
  <1> QED
    BY <1>1, ExactQuiet DEF Shutdown, runVars, callVars, consumerVars

(* pi dies: the consumer dies with it, and so do the replies to come.      *)
LEMMA ExactCrash ==
    ASSUME ExactInv, Crash
    PROVE  ExactInv'
  <1>1. TypeOK'
    BY TypeSessions DEF ExactInv
  <1>2. /\ UNCHANGED session /\ UNCHANGED log /\ UNCHANGED writers /\ UNCHANGED number
        /\ \A r \in Runs : seen'[r] = {}
        /\ observed' = {}
    BY DEF Crash
  <1>3. \A q \in Requests : request'[q].state \notin {"ok", "waiting"}
    BY DEF Crash, ExactInv, TypeOK
  <1>4. ASSUME NEW r \in Runs PROVE Kept(r)'
    BY <1>2, <1>3
       DEF ExactInv, Kept, Faithful, OneBus, SeqIsPlace, BusCounts, Covers, Places, Asks
  <1> QED
    BY <1>1, <1>3, <1>4 DEF ExactInv, NeverWaits, Asks

(* A request is taken: the reply to observe will hold the log of now.      *)
LEMMA ExactHandle ==
    ASSUME ExactInv, NEW q \in Requests, NEW verb \in Verbs, NEW r \in Runs,
           Handle(q, verb, r)
    PROVE  ExactInv'
  <1>1. TypeOK'
    BY TypeHandle DEF ExactInv
  <1>2. /\ UNCHANGED session /\ UNCHANGED log /\ UNCHANGED writers /\ UNCHANGED number
        /\ UNCHANGED seen /\ UNCHANGED observed
        /\ request'[q].run = r /\ request'[q].verb = verb
        /\ inFlight'[q] = IF verb = "observe" THEN Len(log[r]) ELSE 0
        /\ \A x \in Requests \ {q} : request'[x] = request[x] /\ inFlight'[x] = inFlight[x]
    BY DEF Handle, busVars, consumerVars, ExactInv, TypeOK
  <1>3. Len(log[r]) \in Nat
    BY DEF ExactInv, TypeOK
  <1>4. ASSUME NEW x \in Runs \cup {NoRun}, Asks(q, x)'
        PROVE  x = r /\ inFlight'[q] = Len(log'[r])
    BY <1>2, <1>4 DEF Asks
  <1>5. \A x \in Requests \ {q} : \A u \in Runs \cup {NoRun} : Asks(x, u)' <=> Asks(x, u)
    BY <1>2 DEF Asks
  <1>6. ASSUME NEW u \in Runs PROVE Kept(u)'
    <2>1. Kept(u)
      BY DEF ExactInv
    <2>2. Asks(q, u)' => Covers(log'[u], seen'[u], inFlight'[q])
      <3> SUFFICES ASSUME Asks(q, u)', NEW i \in 1..Len(log'[u]), i > inFlight'[q] PROVE FALSE
        BY DEF Covers
      <3>1. inFlight'[q] = Len(log'[u]) /\ Len(log'[u]) \in Nat
        BY <1>2, <1>3, <1>4
      <3> QED
        BY <3>1
    <2>3. \A x \in Requests \ {q} :
             (Asks(x, u) => Covers(log[u], seen[u], inFlight[x])) =>
                (Asks(x, u)' => Covers(log'[u], seen'[u], inFlight'[x]))
      BY <1>2, <1>5
    <2> QED
      BY <1>2, <2>1, <2>2, <2>3
         DEF Kept, Faithful, OneBus, SeqIsPlace, BusCounts, Covers, Places
  <1>7. ASSUME NEW x \in Requests, NEW u \in Runs \cup {NoRun}, Asks(x, u)'
        PROVE  u \in Runs /\ inFlight'[x] <= Len(log'[u])
    <2>1. CASE x = q
      BY <1>2, <1>3, <1>4, <1>7, <2>1
    <2>2. CASE x # q
      BY <1>2, <1>5, <1>7, <2>2 DEF ExactInv
    <2> QED
      BY <2>1, <2>2
  <1>8. NeverWaits'
    <2>1. request'[q].state = "waiting" => verb # "observe"
      <3>1. \A h \in BOOLEAN : Outcome("observe", r, h) # "waiting"
        BY DEF Outcome
      <3>2. MayHaveSession(r) \subseteq BOOLEAN
        BY DEF MayHaveSession
      <3>3. PICK h \in MayHaveSession(r) :
               request' = [request EXCEPT ![q] = [verb |-> verb, run |-> r,
                                                  state |-> Outcome(verb, r, h)]]
        BY DEF Handle
      <3>4. request'[q].state = Outcome(verb, r, h)
        BY <3>3 DEF ExactInv, TypeOK
      <3> QED
        BY <3>1, <3>2, <3>4
    <2> QED
      BY <1>2, <2>1 DEF ExactInv, NeverWaits
  <1> QED
    BY <1>1, <1>6, <1>7, <1>8 DEF ExactInv


(* A child answers a steer or an abort.                                    *)
LEMMA ExactSettle ==
    ASSUME ExactInv, NEW q \in Requests,
           NEW code \in {"ok", "E-RUN-FINISHED", "E-STEER-UNSUPPORTED", "E-INTERNAL"},
           Settle(q, code)
    PROVE  ExactInv'
  <1>1. /\ UNCHANGED session /\ UNCHANGED log /\ UNCHANGED writers /\ UNCHANGED number
        /\ UNCHANGED seen /\ UNCHANGED observed /\ UNCHANGED inFlight
    BY DEF Settle, busVars, runVars, consumerVars
  <1>2. request \in [Requests -> CallSet] /\ code \in Answers
    BY DEF ExactInv, TypeOK, CallSet, Answers, Codes
  <1>3. /\ request[q].state = "waiting" /\ request[q].verb # "observe"
        /\ request' = [request EXCEPT ![q].state = code]
    BY DEF Settle, ExactInv, NeverWaits
  <1>4. /\ request' \in [Requests -> CallSet]
        /\ request'[q].verb # "observe"
        /\ \A x \in Requests \ {q} : request'[x] = request[x]
    BY <1>2, <1>3 DEF CallSet
  <1>5. TypeOK'
    BY <1>1, <1>4 DEF Settle, busVars, runVars, ExactInv, TypeOK, CallSet, Answers
  <1>6. \A x \in Requests, u \in Runs \cup {NoRun} : Asks(x, u)' => Asks(x, u)
    BY <1>4 DEF Asks
  <1>7. ASSUME NEW u \in Runs PROVE Kept(u)'
    BY <1>1, <1>6
       DEF ExactInv, Kept, Faithful, OneBus, SeqIsPlace, BusCounts, Covers, Places
  <1>8. NeverWaits'
    BY <1>4 DEF ExactInv, NeverWaits
  <1>9. \A x \in Requests : \A u \in Runs \cup {NoRun} :
            Asks(x, u)' => u \in Runs /\ inFlight'[x] <= Len(log'[u])
    BY <1>1, <1>6 DEF ExactInv
  <1> QED
    BY <1>5, <1>7, <1>8, <1>9 DEF ExactInv

(* The consumer merges a replay: what it has is a place of the log, and    *)
(* with one bus what it drops it has.                                      *)
LEMMA MergeReplay ==
    ASSUME TypeOK, NEW r \in Runs, Kept(r), NEW n \in Nat, n <= Len(log[r]),
           NEW S, S = Merge(seen[r], Replayed(r, n))
    PROVE  /\ Faithful(log[r], S)
           /\ OneBus(writers[r]) =>
                 /\ SeqIsPlace(S) /\ Places(seen[r]) \subseteq Places(S)
                 /\ Covers(log[r], seen[r], n) => Covers(log[r], S, 0)
  <1>1. Len(log[r]) \in Nat
    BY DEF TypeOK
  <1>2. \A e \in Replayed(r, n) :
            e.place \in 1..n /\ e.seq = e.place /\ e.channel = log[r][e.place]
    BY DEF Replayed, Event
  <1>3. seen[r] \subseteq S /\ S \subseteq seen[r] \cup Replayed(r, n)
    BY DEF Merge
  <1>4. Faithful(log[r], S)
    <2>1. \A i \in 1..n : i \in 1..Len(log[r])
      BY <1>1
    <2> QED
      BY <1>2, <1>3, <2>1 DEF Kept, Faithful
  <1>5. ASSUME OneBus(writers[r])
        PROVE  /\ SeqIsPlace(S) /\ Places(seen[r]) \subseteq Places(S)
               /\ Covers(log[r], seen[r], n) => Covers(log[r], S, 0)
    <2>1. SeqIsPlace(seen[r])
      BY <1>5 DEF Kept
    <2>2. SeqIsPlace(S)
      BY <1>2, <1>3, <2>1 DEF SeqIsPlace
    <2>3. Places(seen[r]) \subseteq Places(S)
      BY <1>3 DEF Places
    <2>4. ASSUME NEW i \in 1..n PROVE i \in Places(S)
      <3> DEFINE e == Event(log[r][i], i, i)
      <3>1. e \in Replayed(r, n) /\ e.place = i /\ e.seq = i
        BY DEF Replayed, Event
      <3> HIDE DEF e
      <3>2. CASE \A k \in seen[r] : <<k.channel, k.seq>> # <<e.channel, e.seq>>
        <4>1. e \in S
          BY <3>1, <3>2 DEF Merge
        <4> QED
          BY <3>1, <4>1 DEF Places
      <3>3. CASE \E k \in seen[r] : <<k.channel, k.seq>> = <<e.channel, e.seq>>
        <4>1. PICK k \in seen[r] : k.seq = e.seq
          BY <3>3
        <4>2. k.place = i
          BY <2>1, <3>1, <4>1 DEF SeqIsPlace
        <4> QED
          BY <1>3, <4>2 DEF Places
      <3> QED
        BY <3>2, <3>3
    <2>5. ASSUME Covers(log[r], seen[r], n), NEW i \in 1..Len(log[r]) PROVE i \in Places(S)
      <3>1. CASE i > n
        BY <2>3, <2>5, <3>1 DEF Covers
      <3>2. CASE ~(i > n)
        <4>1. i \in 1..n
          BY <1>1, <3>2
        <4> QED
          BY <2>4, <4>1
      <3> QED
        BY <3>1, <3>2
    <2> QED
      BY <2>2, <2>3, <2>5 DEF Covers
  <1> QED
    BY <1>4, <1>5

(* A reply.  One to observe brings what the log held when it was asked; the*)
(* rest has come live.                                                     *)
LEMMA ExactReply ==
    ASSUME ExactInv, NEW q \in Requests, Reply(q)
    PROVE  ExactInv'
  <1>1. /\ UNCHANGED session /\ UNCHANGED log /\ UNCHANGED writers /\ UNCHANGED number
        /\ UNCHANGED inFlight /\ UNCHANGED up /\ UNCHANGED control /\ UNCHANGED phase
    BY DEF Reply, busVars, runVars
  <1>2. request \in [Requests -> CallSet] /\ "answered" \in Answers
    BY DEF ExactInv, TypeOK, CallSet, Answers
  <1>3. request' = [request EXCEPT ![q].state = "answered"]
    BY DEF Reply
  <1>4. /\ request' \in [Requests -> CallSet]
        /\ request'[q].state = "answered"
        /\ \A x \in Requests \ {q} : request'[x] = request[x]
    BY <1>2, <1>3 DEF CallSet
  <1>5. \A x \in Requests, u \in Runs \cup {NoRun} : Asks(x, u)' => Asks(x, u)
    BY <1>4 DEF Asks
  <1>6. NeverWaits'
    BY <1>4 DEF ExactInv, NeverWaits
  <1>7. \A x \in Requests : \A u \in Runs \cup {NoRun} :
            Asks(x, u)' => u \in Runs /\ inFlight'[x] <= Len(log'[u])
    BY <1>1, <1>5 DEF ExactInv
  <1>8. CASE UNCHANGED <<seen, observed>>
    <2>1. UNCHANGED seen /\ UNCHANGED observed
      BY <1>8
    <2>2. TypeOK'
      BY <1>1, <1>4, <2>1 DEF ExactInv, TypeOK, CallSet, Answers
    <2>3. ASSUME NEW u \in Runs PROVE Kept(u)'
      BY <1>1, <1>5, <2>1
         DEF ExactInv, Kept, Faithful, OneBus, SeqIsPlace, BusCounts, Covers, Places
    <2> QED
      BY <1>6, <1>7, <2>2, <2>3 DEF ExactInv
  <1>9. CASE request[q].verb = "observe" /\ request[q].state = "ok"
    <2>0. PICK r \in Runs : r = request[q].run
      BY <1>2, <1>9 DEF CallSet, Asks, ExactInv
    <2> DEFINE S == Merge(seen[r], Replayed(r, inFlight[q]))
    <2>1. seen' = [seen EXCEPT ![r] = S] /\ observed' = observed \cup {r}
      BY <1>9, <2>0 DEF Reply
    <2>2. Asks(q, r)
      BY <1>9, <2>0 DEF Asks
    <2>3. r \in Runs /\ inFlight[q] <= Len(log[r]) /\ inFlight[q] \in Nat
      BY <2>2 DEF ExactInv, TypeOK
    <2>4. TypeOK /\ seen \in [Runs -> SUBSET EventSet]
      BY DEF ExactInv, TypeOK, EventSet
    <2>5. S \in SUBSET EventSet
      BY <2>3, <2>4, TypeReplayed, TypeMerge
    <2>6. /\ Faithful(log[r], S)
          /\ OneBus(writers[r]) =>
                /\ SeqIsPlace(S) /\ Places(seen[r]) \subseteq Places(S)
                /\ Covers(log[r], seen[r], inFlight[q]) => Covers(log[r], S, 0)
      BY <2>3, <2>4, MergeReplay DEF ExactInv
    <2> HIDE DEF S
    <2>7. /\ seen'[r] = S /\ seen' \in [Runs -> SUBSET EventSet]
          /\ \A u \in Runs \ {r} : seen'[u] = seen[u] /\ (u \in observed' <=> u \in observed)
      BY <2>1, <2>3, <2>4, <2>5
    <2>8. TypeOK'
      BY <1>1, <1>4, <2>1, <2>3, <2>7 DEF ExactInv, TypeOK, CallSet, Answers, EventSet
    <2>9. Kept(r)'
      <3>1. Kept(r)
        BY <2>3 DEF ExactInv
      <3>2. \A m \in Nat : Covers(log[r], S, 0) => Covers(log[r], S, m)
        <4>1. Len(log[r]) \in Nat
          BY <2>3, <2>4 DEF TypeOK
        <4> QED
          BY <4>1 DEF Covers
      <3>3. ASSUME OneBus(writers[r])
            PROVE  SeqIsPlace(S) /\ Covers(log[r], S, 0)
        BY <2>2, <2>6, <3>1, <3>3 DEF Kept
      <3>4. \A x \in Requests : inFlight[x] \in Nat
        BY <2>4 DEF TypeOK
      <3>5. OneBus(writers[r]) =>
               \A x \in Requests : Covers(log[r], S, inFlight[x])
        BY <3>2, <3>3, <3>4
      <3> QED
        BY <1>1, <2>6, <2>7, <3>1, <3>3, <3>5
           DEF Kept, Faithful, OneBus, SeqIsPlace, BusCounts, Covers, Places
    <2>10. ASSUME NEW u \in Runs \ {r} PROVE Kept(u)'
      <3>1. Kept(u)
        BY DEF ExactInv
      <3> QED
        BY <1>1, <1>5, <2>7, <3>1
           DEF Kept, Faithful, OneBus, SeqIsPlace, BusCounts, Covers, Places
    <2>11. \A u \in Runs : Kept(u)'
      BY <2>9, <2>10
    <2> QED
      BY <1>6, <1>7, <2>8, <2>11 DEF ExactInv
  <1> QED
    BY <1>8, <1>9 DEF Reply

LEMMA ExactNext == ExactInv /\ [Next]_vars => ExactInv'
  <1> SUFFICES ASSUME ExactInv, [Next]_vars PROVE ExactInv'
    OBVIOUS
  <1>1. ASSUME UNCHANGED vars PROVE ExactInv'
    <2>1. /\ UNCHANGED <<session, log, writers, number, seen, observed>>
          /\ UNCHANGED <<request, inFlight>> /\ UNCHANGED <<up, control, phase>>
      BY <1>1 DEF vars, busVars, runVars, callVars, consumerVars
    <2>2. TypeOK'
      BY <2>1 DEF ExactInv, TypeOK
    <2> QED
      BY <2>1, <2>2, ExactQuiet
  <1> QED
    BY <1>1, ExactRunStep, ExactSessionStart, ExactShutdown, ExactCrash, ExactHandle,
       ExactSettle, ExactReply DEF Next

(* The types hold in every reachable state: among them, that events are    *)
(* numbered from 1 and that a request is in one of the states of a reply.  *)
THEOREM TypeCorrect == Spec => []TypeOK
  <1>1. ExactInv => TypeOK
    BY DEF ExactInv
  <1> QED
    BY <1>1, ExactInit, ExactNext, PTL DEF Spec

(* Then the consumer has the log, entry by entry, and each once.           *)
LEMMA ReplayIsExact ==
    ASSUME TypeOK, NEW r \in Runs, Faithful(log[r], seen[r]), SeqIsPlace(seen[r]),
           Covers(log[r], seen[r], 0)
    PROVE  KeepsTheLog(r)
  <1> DEFINE n == Len(log[r])
             f == [i \in 1..n |-> Event(log[r][i], i, i)]
  <1>1. n \in Nat /\ DOMAIN log[r] = 1..n
    BY DEF TypeOK
  <1>2. seen[r] \subseteq EventSet
    BY DEF TypeOK, EventSet
  <1>3. \A e \in seen[r] : e.place \in 1..n /\ e = Event(log[r][e.place], e.place, e.place)
    BY <1>2 DEF Faithful, SeqIsPlace, Event, EventSet
  <1>4. \A i \in 1..n : i \in Places(seen[r])
    BY <1>1 DEF Covers
  <1>5. Places(seen[r]) = DOMAIN log[r]
    BY <1>1, <1>3, <1>4 DEF Places
  <1>6. \A i \in 1..n : f[i] \in seen[r]
    BY <1>3, <1>4 DEF Places
  <1>7. f \in Bijection(1..n, seen[r])
    <2>1. f \in [1..n -> seen[r]]
      BY <1>6
    <2>2. \A i, j \in 1..n : f[i] = f[j] => i = j
      BY DEF Event
    <2>3. \A e \in seen[r] : \E i \in 1..n : f[i] = e
      BY <1>3
    <2> HIDE DEF f
    <2>4. f \in Injection(1..n, seen[r])
      BY <2>1, <2>2 DEF Injection, IsInjective
    <2>5. f \in Surjection(1..n, seen[r])
      BY <2>1, <2>3 DEF Surjection
    <2> QED
      BY <2>4, <2>5 DEF Bijection
  <1> HIDE DEF f
  <1>8. IsFiniteSet(1..n) /\ Cardinality(1..n) = n
    BY <1>1, FS_Interval
  <1>9. ExistsBijection(1..n, seen[r])
    BY <1>7 DEF ExistsBijection
  <1>10. Cardinality(seen[r]) = n
    BY <1>8, <1>9, FS_Bijection
  <1> QED
    BY <1>5, <1>10 DEF KeepsTheLog, Places

(* What event-bus.ts promises: a consumer that listens, asks once, whenever*)
(* it likes, and drops what has a channel, run and number that it has seen,*)
(* has the whole log and nothing twice, for every run that one bus heard.  *)
THEOREM DedupeIsExactHolds == Spec => []DedupeIsExact
  <1>1. ExactInv => DedupeIsExact
    <2> SUFFICES ASSUME ExactInv, NEW r \in observed,
                        \E b \in 1..MaxSessions : writers[r] = {b}
                 PROVE  KeepsTheLog(r)
      BY DEF DedupeIsExact
    <2>1. TypeOK /\ r \in Runs /\ Kept(r) /\ OneBus(writers[r])
      BY DEF ExactInv, TypeOK, OneBus
    <2> QED
      BY <2>1, ReplayIsExact DEF Kept
  <1> QED
    BY <1>1, ExactInit, ExactNext, PTL DEF Spec
=============================================================================
