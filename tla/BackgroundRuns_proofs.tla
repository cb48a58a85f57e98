------------------------ MODULE BackgroundRuns_proofs ------------------------
(***************************************************************************)
(* Proofs about BackgroundRuns, for any runs, any cap, and any number of   *)
(* crashes and of sessions.                                                *)
(***************************************************************************)
EXTENDS BackgroundRuns, FiniteSetTheorems, SequenceTheorems, TLAPS

(* Who waits: a queued run is in the queue of its pool, in one place, or   *)
(* about to be woken; nobody else is.  Nothing runs without a process.     *)
QueueInv ==
    /\ \A p \in Pools : \A i \in DOMAIN queue[p] :
          /\ pc[queue[p][i]] = "queued" /\ poolOf[queue[p][i]] = p
          /\ queue[p][i] \notin woken
          /\ \A j \in DOMAIN queue[p] : queue[p][i] = queue[p][j] => i = j
    /\ \A r \in Runs : pc[r] = "queued" => r \in woken \cup ToSet(queue[poolOf[r]])
    /\ \A r \in woken : pc[r] = "queued"
    /\ ~up => \A r \in Runs : pc[r] \notin {"queued", "running"}

CountInv == \A p \in Pools : active[p] = Cardinality(Resident(p))

(* No completion after an abort.                                           *)
Final(j) == \A i, k \in DOMAIN j : i < k /\ j[i] = "aborted" => j[k] # "completed"

(* What the journal j, worktree w and branch b of a run tell at each stage *)
(* of its life.  iso: it is isolated; own: in the session's repository, so *)
(* that no scan of a re-entered session_start takes it for interrupted.    *)
Tale(p, j, w, b, iso, own) ==
    /\ p \in {"idle", "queued"} => j = <<>>
    /\ p = "queued" => (iso => w /\ b)
    /\ p = "running" => /\ j # <<>>
                        /\ iso => w /\ b
                        /\ own => \A i \in DOMAIN j : j[i] \notin Verdicts
    /\ iso /\ j # <<>> => (w \/ Last(j) = "completed" => b)
    /\ p = "done" => /\ j = <<>> \/ Last(j) \in Verdicts
                     /\ iso /\ j # <<>> /\ w => Last(j) = "aborted"
    /\ p = "lost" => (iso /\ j # <<>> => w \/ Last(j) \in Verdicts)
    /\ own => Final(j)

Tells(r) == Tale(pc[r], journal[r], worktree[r], branch[r],
                 r \in Isolated, r \in Isolated \ CrossCwd)
JournalInv == \A r \in Runs : Tells(r)

IInv == TypeOK /\ QueueInv /\ CountInv /\ JournalInv /\ InterruptedRunOffered

(* What the end of a run can leave on disk, whatever throws or crashes.    *)
EndsDisk(r) == \E k \in 1..3 : \/ CompleteUpTo(r, k) \/ AbortUpTo(r, k)
                               \/ \E v \in Verdicts : CatchUpTo(r, v, k)
-----------------------------------------------------------------------------
(* Sequences. *)

LEMMA AppendLast ==
    ASSUME NEW S, NEW s \in Seq(S), NEW e \in S
    PROVE  /\ Append(s, e) \in Seq(S) /\ Append(s, e) # <<>>
           /\ Last(Append(s, e)) = e
  BY AppendProperties, LenProperties DEF Last

(* What an append and a Tail do to the places of a queue.                  *)
LEMMA AppendPlaces ==
    ASSUME NEW S, NEW s \in Seq(S), NEW e \in S
    PROVE  /\ DOMAIN Append(s, e) = DOMAIN s \cup {Len(s) + 1}
           /\ Len(s) + 1 \notin DOMAIN s
           /\ \A i \in DOMAIN s : Append(s, e)[i] = s[i]
           /\ Append(s, e)[Len(s) + 1] = e
           /\ ToSet(Append(s, e)) = ToSet(s) \cup {e}
  <1>1. /\ DOMAIN s = 1..Len(s) /\ Len(s) \in Nat
        /\ DOMAIN Append(s, e) = 1..(Len(s) + 1)
    BY AppendProperties, LenProperties
  <1>2. 1..(Len(s) + 1) = 1..Len(s) \cup {Len(s) + 1} /\ Len(s) + 1 \notin 1..Len(s)
    BY <1>1
  <1>3. /\ \A i \in DOMAIN s : Append(s, e)[i] = s[i]
        /\ Append(s, e)[Len(s) + 1] = e
    BY <1>1, AppendProperties
  <1>4. ToSet(Append(s, e)) = ToSet(s) \cup {e}
    BY <1>1, <1>2, <1>3 DEF ToSet
  <1> QED BY <1>1, <1>2, <1>3, <1>4

LEMMA TailPlaces ==
    ASSUME NEW S, NEW s \in Seq(S), s # <<>>
    PROVE  /\ Tail(s) \in Seq(S) /\ Head(s) \in S
           /\ 1 \in DOMAIN s /\ Head(s) = s[1]
           /\ \A i \in DOMAIN Tail(s) :
                 i \in Nat /\ i + 1 \in DOMAIN s /\ i + 1 # 1 /\ Tail(s)[i] = s[i + 1]
           /\ ToSet(s) = ToSet(Tail(s)) \cup {Head(s)}
  <1>1. /\ Tail(s) \in Seq(S) /\ Head(s) \in S /\ Len(s) \in Nat \ {0}
        /\ DOMAIN s = 1..Len(s) /\ Len(Tail(s)) = Len(s) - 1
        /\ DOMAIN Tail(s) = 1..(Len(s) - 1)
    BY HeadTailProperties, LenProperties, EmptySeq
  <1>2. Head(s) = s[1]
    BY <1>1
  <1>3. \A i \in 1..(Len(s) - 1) : Tail(s)[i] = s[i + 1]
    BY <1>1, HeadTailProperties
  <1>4. ASSUME NEW x PROVE x \in ToSet(s) <=> x \in ToSet(Tail(s)) \cup {Head(s)}
    <2>1. ASSUME NEW i \in 1..Len(s), i # 1
          PROVE  i - 1 \in 1..(Len(s) - 1) /\ Tail(s)[i - 1] = s[i]
      BY <1>1, <1>3, <2>1
    <2>2. ASSUME x \in ToSet(s) PROVE x \in ToSet(Tail(s)) \cup {Head(s)}
      <3>1. PICK i \in 1..Len(s) : x = s[i]
        BY <1>1, <2>2 DEF ToSet
      <3>2. CASE i = 1
        BY <1>2, <3>1, <3>2
      <3>3. CASE i # 1
        BY <1>1, <2>1, <3>1, <3>3 DEF ToSet
      <3> QED BY <3>2, <3>3
    <2>3. x \in ToSet(Tail(s)) \cup {Head(s)} => x \in ToSet(s)
      BY <1>1, <1>2, <1>3 DEF ToSet
    <2> QED BY <2>2, <2>3
  <1> QED BY <1>1, <1>2, <1>3, <1>4

-----------------------------------------------------------------------------
(* The pool's count. *)

LEMMA ResidentFinite == \A p \in Pools : IsFiniteSet(Resident(p))
  BY BackgroundAssumption, FS_Subset DEF Resident

(* A run that takes a slot is one more resident of its pool.               *)
LEMMA CountEnter ==
    ASSUME TypeOK, CountInv, NEW r \in Runs, NEW p \in Pools, pc[r] # "running",
           pc' = [pc EXCEPT ![r] = "running"], poolOf' = [poolOf EXCEPT ![r] = p],
           active' = [active EXCEPT ![p] = @ + 1]
    PROVE  CountInv'
  <1>1. Resident(p)' = Resident(p) \cup {r} /\ r \notin Resident(p)
    BY DEF Resident, TypeOK
  <1>2. \A q \in Pools \ {p} : Resident(q)' = Resident(q)
    BY DEF Resident, TypeOK
  <1>3. Cardinality(Resident(p)') = Cardinality(Resident(p)) + 1
    BY <1>1, ResidentFinite, FS_AddElement
  <1> QED BY <1>2, <1>3 DEF CountInv, TypeOK

(* One that gives its slot back is one less, and there was one.            *)
LEMMA CountLeave ==
    ASSUME TypeOK, CountInv, NEW r \in Runs, pc[r] = "running",
           pc' = [pc EXCEPT ![r] = "done"], UNCHANGED poolOf,
           active' = [active EXCEPT ![poolOf[r]] = @ - 1]
    PROVE  CountInv' /\ active' \in [Pools -> Nat]
  <1> DEFINE p == poolOf[r]
  <1>1. p \in Pools /\ Resident(p)' = Resident(p) \ {r} /\ r \in Resident(p)
    BY DEF Resident, TypeOK
  <1>2. \A q \in Pools \ {p} : Resident(q)' = Resident(q)
    BY DEF Resident, TypeOK
  <1>3. /\ Cardinality(Resident(p)') = Cardinality(Resident(p)) - 1
        /\ Cardinality(Resident(p)') \in Nat
    BY <1>1, ResidentFinite, FS_RemoveElement, FS_CardinalityType
  <1> QED BY <1>1, <1>2, <1>3 DEF CountInv, TypeOK

(* No other step of a run counts.                                          *)
LEMMA CountKeep ==
    ASSUME CountInv, UNCHANGED active,
           \A r \in Runs : pc'[r] = "running" <=> pc[r] = "running",
           \A r \in Runs : pc[r] = "running" => poolOf'[r] = poolOf[r]
    PROVE  CountInv'
  <1>1. \A p \in Pools : Resident(p)' = Resident(p)
    BY DEF Resident
  <1> QED BY <1>1 DEF CountInv

(* What the process' end leaves of it all.                                 *)
LEMMA DieClears ==
    ASSUME TypeOK, Die
    PROVE  CountInv' /\ QueueInv'
  <1>1. /\ \A r \in Runs : pc'[r] \notin {"queued", "running"}
        /\ \A p \in Pools : active'[p] = 0 /\ queue'[p] = <<>>
        /\ woken' = {}
    BY DEF Die, TypeOK
  <1>2. \A p \in Pools : Resident(p)' = {}
    BY <1>1 DEF Resident
  <1>3. CountInv'
    BY <1>1, <1>2, FS_EmptySet DEF CountInv
  <1> QED BY <1>1, <1>3 DEF QueueInv

LEMMA CountNext == TypeOK /\ QueueInv /\ CountInv /\ [Next]_vars => CountInv'
  <1> SUFFICES ASSUME TypeOK, QueueInv, CountInv, [Next]_vars PROVE CountInv'
    OBVIOUS
  <1>1. ASSUME NEW r \in Runs, Dispatch(r) PROVE CountInv'
    <2>1. /\ pc[r] = "idle" /\ pool \in Pools /\ poolOf' = [poolOf EXCEPT ![r] = pool]
          /\ \A q \in Runs \ {r} : poolOf'[q] = poolOf[q]
      BY <1>1 DEF Dispatch, TypeOK, pool
    <2>2. CASE Enter(pool) /\ Started(r)
      BY <2>1, <2>2, CountEnter DEF Enter, Started
    <2>3. CASE Wait(pool, r) /\ pc' = [pc EXCEPT ![r] = "queued"]
      BY <2>1, <2>3, CountKeep DEF Wait, TypeOK
    <2> QED BY <1>1, <2>2, <2>3 DEF Dispatch
  <1>2. ASSUME NEW r \in Runs, DispatchFails(r) PROVE CountInv'
    BY <1>2, CountKeep DEF DispatchFails, poolVars, TypeOK
  <1>3. ASSUME NEW r \in Runs, Wake(r) PROVE CountInv'
    <2>1. pc[r] # "running" /\ poolOf' = [poolOf EXCEPT ![r] = poolOf[r]]
      BY <1>3 DEF Wake, EnterWoken, QueueInv, TypeOK
    <2> QED BY <1>3, <2>1, CountEnter DEF Wake, EnterWoken, Started, TypeOK
  <1>4. ASSUME NEW r \in Runs, Settle(r) PROVE CountInv'
    BY <1>4, CountLeave DEF Settle, Leave
  <1>5. CASE Die
    BY <1>5, DieClears
  <1>6. CASE UNCHANGED <<active, pc, poolOf>>
    BY <1>6, CountKeep
  <1>7. (\E R : Pull(R)) \/ SessionStart \/ UNCHANGED vars
        => UNCHANGED <<active, pc, poolOf>>
    BY DEF Pull, SessionStart, vars, poolVars
  <1> QED
    BY <1>1, <1>2, <1>3, <1>4, <1>5, <1>6, <1>7
       DEF Next, Complete, CompleteThrows, Abort, Crash, CrashAmid, Terminating

-----------------------------------------------------------------------------
(* Types. *)

(* What the steps that end a run write.                                    *)
LEMMA EndSteps ==
    ASSUME NEW r \in Runs,
           Complete(r) \/ CompleteThrows(r) \/ Abort(r) \/ CrashAmid(r)
    PROVE  EndsDisk(r)
  BY DEF Complete, CompleteThrows, Abort, CrashAmid, EndsDisk, Verdicts

(* The disk after the writes of a run's end, all or some of them.          *)
LEMMA TypeEnd ==
    ASSUME TypeOK, NEW r \in Runs, EndsDisk(r)
    PROVE  /\ journal' \in [Runs -> Seq({"started"} \cup Verdicts)]
           /\ worktree' \in [Runs -> BOOLEAN] /\ branch' \in [Runs -> BOOLEAN]
  <1> DEFINE Journals == Seq({"started"} \cup Verdicts)
  <1>1. \A v \in Verdicts : /\ Append(journal[r], v) \in Journals
                            /\ Append(Append(journal[r], v), "aborted") \in Journals
    BY AppendLast DEF TypeOK, Verdicts
  <1>2. PICK k \in 1..3 : \/ CompleteUpTo(r, k) \/ AbortUpTo(r, k)
                          \/ \E v \in Verdicts : CatchUpTo(r, v, k)
    BY DEF EndsDisk
  <1>3. /\ worktree' = [worktree EXCEPT ![r] = @ /\ k < 2]
        /\ UNCHANGED branch \/ branch' = [branch EXCEPT ![r] = @ /\ k < 3]
    BY <1>2 DEF CompleteUpTo, AbortUpTo, CatchUpTo
  <1>4. worktree' \in [Runs -> BOOLEAN] /\ branch' \in [Runs -> BOOLEAN]
    BY <1>3 DEF TypeOK
  <1>5. \E j \in Journals : journal' = [journal EXCEPT ![r] = j]
    <2> HIDE DEF Journals
    <2>1. CASE CompleteUpTo(r, k)
      BY <1>1, <2>1 DEF CompleteUpTo, Verdicts
    <2>2. CASE AbortUpTo(r, k)
      BY <1>1, <2>2 DEF AbortUpTo, Verdicts
    <2>3. CASE \E v \in Verdicts : CatchUpTo(r, v, k)
      BY <1>1, <2>3 DEF CatchUpTo
    <2> QED BY <1>2, <2>1, <2>2, <2>3
  <1> QED BY <1>4, <1>5 DEF TypeOK

LEMMA TypeStarted ==
    ASSUME TypeOK, NEW r \in Runs, Started(r)
    PROVE  /\ journal' \in [Runs -> Seq({"started"} \cup Verdicts)]
           /\ pc' \in [Runs -> {"idle", "queued", "running", "done", "lost"}]
  BY AppendLast DEF Started, Log, TypeOK

LEMMA TypeLeave ==
    ASSUME TypeOK, CountInv, NEW r \in Runs, Settle(r)
    PROVE  /\ active' \in [Pools -> Nat] /\ queue' \in [Pools -> Seq(Runs)]
           /\ woken' \subseteq Runs
           /\ pc' \in [Runs -> {"idle", "queued", "running", "done", "lost"}]
  <1>1. active' \in [Pools -> Nat]
    BY CountLeave DEF Settle, Leave
  <1>2. poolOf[r] \in Pools /\ queue[poolOf[r]] \in Seq(Runs)
    BY DEF TypeOK
  <1>3. queue[poolOf[r]] # <<>> => /\ Head(queue[poolOf[r]]) \in Runs
                                 /\ Tail(queue[poolOf[r]]) \in Seq(Runs)
    BY <1>2, TailPlaces
  <1>4. CASE queue[poolOf[r]] = <<>>
    BY <1>1, <1>4 DEF Settle, Leave, TypeOK
  <1>5. CASE queue[poolOf[r]] # <<>>
    <2>1. /\ queue' = [queue EXCEPT ![poolOf[r]] = Tail(queue[poolOf[r]])]
          /\ woken' = woken \cup {Head(queue[poolOf[r]])}
      BY <1>5 DEF Settle, Leave
    <2>2. queue' \in [Pools -> Seq(Runs)] /\ woken' \subseteq Runs
      BY <1>2, <1>3, <1>5, <2>1 DEF TypeOK
    <2> QED BY <1>1, <2>2 DEF Settle, TypeOK
  <1> QED BY <1>4, <1>5

LEMMA TypeDie ==
    ASSUME TypeOK, Die
    PROVE  /\ active' \in [Pools -> Nat] /\ queue' \in [Pools -> Seq(Runs)]
           /\ woken' = {} /\ inbox' = {} /\ offered' = {} /\ up' = FALSE
           /\ crashes' \in 0..MaxCrashes
           /\ pc' \in [Runs -> {"idle", "queued", "running", "done", "lost"}]
           /\ UNCHANGED <<reentries, poolOf>>
  <1>1. <<>> \in Seq(Runs)
    BY EmptySeq
  <1> QED BY <1>1, BackgroundAssumption DEF Die, TypeOK

LEMMA TypeNext == TypeOK /\ CountInv /\ [Next]_vars => TypeOK'
  <1> SUFFICES ASSUME TypeOK, CountInv, [Next]_vars PROVE TypeOK'
    OBVIOUS
  <1> USE DEF processVars
  <1>1. ASSUME NEW r \in Runs, Dispatch(r) PROVE TypeOK'
    <2>1. pool \in Pools /\ Append(queue[pool], r) \in Seq(Runs)
      BY AppendLast DEF TypeOK, pool
    <2>4. /\ worktree' \in [Runs -> BOOLEAN]
          /\ branch' \in [Runs -> BOOLEAN]
          /\ poolOf' \in [Runs -> Pools]
          /\ UNCHANGED <<processVars, inbox, offered>>
      BY <1>1, <2>1 DEF Dispatch, TypeOK
    <2>2. CASE Enter(pool) /\ Started(r)
      <3>1. active' \in [Pools -> Nat] /\ UNCHANGED <<queue, woken>>
        BY <2>1, <2>2 DEF Enter, TypeOK
      <3> QED BY <2>2, <2>4, <3>1, TypeStarted DEF TypeOK
    <2>3. CASE Wait(pool, r) /\ pc' = [pc EXCEPT ![r] = "queued"] /\ UNCHANGED journal
      BY <2>1, <2>3, <2>4 DEF Wait, TypeOK
    <2> QED BY <1>1, <2>2, <2>3 DEF Dispatch
  <1>2. ASSUME NEW r \in Runs, DispatchFails(r) PROVE TypeOK'
    BY <1>2 DEF DispatchFails, poolVars, diskVars, TypeOK
  <1>3. ASSUME NEW r \in Runs, Wake(r) PROVE TypeOK'
    BY <1>3, TypeStarted DEF Wake, EnterWoken, TypeOK
  <1>4. ASSUME NEW r \in Runs, Complete(r) \/ CompleteThrows(r) \/ Abort(r) PROVE TypeOK'
    <2>1. Settle(r) /\ EndsDisk(r) /\ inbox' \subseteq Runs
      BY <1>4, EndSteps DEF Complete, CompleteThrows, Abort, TypeOK
    <2>2. /\ journal' \in [Runs -> Seq({"started"} \cup Verdicts)]
          /\ worktree' \in [Runs -> BOOLEAN]
          /\ branch' \in [Runs -> BOOLEAN]
      BY <2>1, TypeEnd
    <2> QED BY <2>1, <2>2, TypeLeave DEF Settle, TypeOK
  <1>5. CASE Crash
    BY <1>5, TypeDie DEF Crash, diskVars, TypeOK
  <1>6. ASSUME NEW r \in Runs, CrashAmid(r) PROVE TypeOK'
    <2>1. Die /\ EndsDisk(r)
      BY <1>6, EndSteps DEF CrashAmid
    <2> QED BY <2>1, TypeDie, TypeEnd DEF TypeOK
  <1>7. ASSUME NEW R, Pull(R) PROVE TypeOK'
    BY <1>7 DEF Pull, poolVars, diskVars, TypeOK
  <1>8. CASE SessionStart
    <2>1. \A r \in Runs : Append(journal[r], "aborted") \in Seq({"started"} \cup Verdicts)
      BY AppendLast DEF TypeOK, Verdicts
    <2>2. journal' \in [Runs -> Seq({"started"} \cup Verdicts)]
      BY <1>8, <2>1 DEF SessionStart, TypeOK
    <2>3. reentries' \in Pools
      BY <1>8, BackgroundAssumption DEF SessionStart, TypeOK
    <2> QED
      BY <1>8, <2>2, <2>3 DEF SessionStart, poolVars, Interrupted, TypeOK
  <1>9. CASE UNCHANGED vars
    BY <1>9 DEF vars, poolVars, diskVars, TypeOK
  <1> QED
    BY <1>1, <1>2, <1>3, <1>4, <1>5, <1>6, <1>7, <1>8, <1>9 DEF Next, Terminating
-----------------------------------------------------------------------------
(* The queues. *)

(* A step of a run that is in no queue and is not woken, and enters none.  *)
LEMMA QueueMove ==
    ASSUME TypeOK, QueueInv, NEW r \in Runs, pc[r] # "queued", pc'[r] # "queued",
           up \/ pc[r] = "running", \A q \in Runs \ {r} : pc'[q] = pc[q] /\ poolOf'[q] = poolOf[q],
           UNCHANGED <<queue, woken, up>>
    PROVE  QueueInv'
  <1>1. \A p \in Pools : \A i \in DOMAIN queue[p] : queue[p][i] \in Runs \ {r}
    BY LenProperties, ElementOfSeq DEF QueueInv, TypeOK
  <1>2. \A q \in woken : q \in Runs \ {r}
    BY DEF QueueInv, TypeOK
  <1>3. up
    BY DEF QueueInv, TypeOK
  <1> QED BY <1>1, <1>2, <1>3 DEF QueueInv

LEMMA QueueWait ==
    ASSUME TypeOK, QueueInv, NEW r \in Runs, NEW p \in Pools, up, pc[r] = "idle",
           Wait(p, r), pc' = [pc EXCEPT ![r] = "queued"],
           poolOf' = [poolOf EXCEPT ![r] = p], UNCHANGED up
    PROVE  QueueInv'
  <1>1. queue[p] \in Seq(Runs)
    BY DEF TypeOK
  <1>2. \A q \in Pools : \A i \in DOMAIN queue[q] : queue[q][i] \in Runs \ {r}
    BY LenProperties, ElementOfSeq DEF QueueInv, TypeOK
  <1>3. \A q \in woken : q \in Runs \ {r}
    BY DEF QueueInv, TypeOK
  <1>4. /\ queue'[p] = Append(queue[p], r)
        /\ \A q \in Pools \ {p} : queue'[q] = queue[q]
        /\ woken' = woken
        /\ pc'[r] = "queued" /\ poolOf'[r] = p
        /\ \A q \in Runs \ {r} : pc'[q] = pc[q] /\ poolOf'[q] = poolOf[q]
    BY DEF Wait, TypeOK
  <1>5. ASSUME NEW q \in Pools, NEW i \in DOMAIN queue'[q]
        PROVE  /\ pc'[queue'[q][i]] = "queued" /\ poolOf'[queue'[q][i]] = q
               /\ queue'[q][i] \notin woken'
               /\ \A j \in DOMAIN queue'[q] : queue'[q][i] = queue'[q][j] => i = j
    <2>1. CASE q # p
      BY <1>2, <1>4, <2>1 DEF QueueInv
    <2>2. CASE q = p
      <3>1. /\ DOMAIN queue'[p] = DOMAIN queue[p] \cup {Len(queue[p]) + 1}
            /\ \A j \in DOMAIN queue[p] : queue'[p][j] = queue[p][j]
            /\ queue'[p][Len(queue[p]) + 1] = r
        BY <1>1, <1>4, AppendPlaces
      <3>2. Len(queue[p]) + 1 \notin DOMAIN queue[p]
        BY <1>1, AppendPlaces
      <3>3. CASE i = Len(queue[p]) + 1
        BY <1>2, <1>3, <1>4, <1>5, <2>2, <3>1, <3>2, <3>3
      <3>4. CASE i \in DOMAIN queue[p]
        BY <1>2, <1>3, <1>4, <1>5, <2>2, <3>1, <3>2, <3>4 DEF QueueInv
      <3> QED BY <1>5, <2>2, <3>1, <3>3, <3>4
    <2> QED BY <2>1, <2>2
  <1>6. ASSUME NEW q \in Runs, pc'[q] = "queued"
        PROVE  q \in woken' \cup ToSet(queue'[poolOf'[q]])
    <2>1. ToSet(queue'[p]) = ToSet(queue[p]) \cup {r}
      BY <1>1, <1>4, AppendPlaces
    <2>2. CASE q = r
      BY <1>4, <2>1, <2>2
    <2>3. CASE q # r
      <3>1. poolOf[q] \in Pools /\ q \in woken \cup ToSet(queue[poolOf[q]])
        BY <1>4, <1>6, <2>3 DEF QueueInv, TypeOK
      <3> QED BY <1>4, <2>1, <2>3, <3>1
    <2> QED BY <2>2, <2>3
  <1>7. \A q \in woken' : pc'[q] = "queued"
    BY <1>3, <1>4 DEF QueueInv
  <1> QED BY <1>5, <1>6, <1>7 DEF QueueInv

LEMMA QueueWake ==
    ASSUME TypeOK, QueueInv, NEW r \in Runs, Wake(r)
    PROVE  QueueInv'
  <1>1. /\ r \in woken /\ pc[r] = "queued" /\ woken' = woken \ {r}
        /\ pc'[r] = "running" /\ \A q \in Runs \ {r} : pc'[q] = pc[q]
        /\ UNCHANGED <<queue, poolOf, up>>
    BY DEF Wake, EnterWoken, Started, QueueInv, TypeOK, processVars
  <1>2. \A q \in Pools : \A i \in DOMAIN queue[q] : queue[q][i] \in Runs \ {r}
    BY <1>1, LenProperties, ElementOfSeq DEF QueueInv, TypeOK
  <1>3. up
    BY <1>1 DEF QueueInv, TypeOK
  <1>4. ASSUME NEW p \in Pools, NEW i \in DOMAIN queue'[p]
        PROVE  /\ pc'[queue'[p][i]] = "queued" /\ poolOf'[queue'[p][i]] = p
               /\ queue'[p][i] \notin woken'
               /\ \A j \in DOMAIN queue'[p] : queue'[p][i] = queue'[p][j] => i = j
    BY <1>1, <1>2 DEF QueueInv
  <1>5. \A q \in Runs : pc'[q] = "queued" => q \in woken' \cup ToSet(queue'[poolOf'[q]])
    BY <1>1 DEF QueueInv
  <1>6. \A q \in woken' : pc'[q] = "queued"
    BY <1>1 DEF QueueInv, TypeOK
  <1> QED BY <1>1, <1>3, <1>4, <1>5, <1>6 DEF QueueInv

LEMMA QueueLeave ==
    ASSUME TypeOK, QueueInv, NEW r \in Runs, Settle(r)
    PROVE  QueueInv'
  <1> DEFINE p == poolOf[r]
             s == queue[p]
             h == Head(s)
  <1>1. /\ pc[r] = "running" /\ pc'[r] = "done" /\ p \in Pools /\ s \in Seq(Runs)
        /\ \A q \in Runs \ {r} : pc'[q] = pc[q]
        /\ UNCHANGED <<poolOf, up>> /\ up
    BY DEF Settle, QueueInv, TypeOK, processVars
  <1>2. CASE s = <<>>
    BY <1>1, <1>2, QueueMove DEF Settle, Leave
  <1>3. CASE s # <<>>
    <2>1. /\ queue'[p] = Tail(s) /\ \A q \in Pools \ {p} : queue'[q] = queue[q]
          /\ woken' = woken \cup {h}
      BY <1>1, <1>3 DEF Settle, Leave, TypeOK
    <2>2. \A q \in Pools : \A i \in DOMAIN queue[q] : queue[q][i] \in Runs \ {r}
      BY <1>1, LenProperties, ElementOfSeq DEF QueueInv, TypeOK
    <2>3. pc[h] = "queued" /\ poolOf[h] = p /\ h \in Runs \ {r} /\ 1 \in DOMAIN s /\ h = s[1]
      BY <1>1, <1>3, <2>2, TailPlaces DEF QueueInv
    <2>4. ASSUME NEW q \in Pools, NEW i \in DOMAIN queue'[q]
          PROVE  /\ pc'[queue'[q][i]] = "queued" /\ poolOf'[queue'[q][i]] = q
                 /\ queue'[q][i] \notin woken'
                 /\ \A j \in DOMAIN queue'[q] : queue'[q][i] = queue'[q][j] => i = j
      <3>1. CASE q # p
        <4>1. queue[q][i] # h /\ queue[q][i] \in Runs \ {r} /\ i \in DOMAIN queue[q]
          BY <2>1, <2>2, <2>3, <2>4, <3>1 DEF QueueInv
        <4> QED BY <1>1, <2>1, <3>1, <4>1 DEF QueueInv
      <3>2. CASE q = p
        <4>1. \A j \in DOMAIN Tail(s) :
                 j \in Nat /\ j + 1 \in DOMAIN s /\ j + 1 # 1 /\ Tail(s)[j] = s[j + 1]
          BY <1>1, <1>3, TailPlaces
        <4>2. i \in DOMAIN Tail(s) /\ queue'[q][i] = s[i + 1] /\ s[i + 1] \in Runs \ {r}
          BY <1>1, <2>1, <2>2, <3>2, <4>1
        <4>3. s[i + 1] # h
          BY <1>1, <2>3, <4>1, <4>2 DEF QueueInv
        <4>4. ASSUME NEW j \in DOMAIN queue'[q], queue'[q][i] = queue'[q][j] PROVE i = j
          <5>1. j \in DOMAIN Tail(s) /\ queue'[q][j] = s[j + 1]
            BY <2>1, <3>2, <4>1
          <5>2. i + 1 \in DOMAIN s /\ j + 1 \in DOMAIN s /\ s[i + 1] = s[j + 1]
            BY <4>1, <4>2, <4>4, <5>1
          <5>3. i + 1 = j + 1
            BY <1>1, <5>2 DEF QueueInv
          <5> QED BY <4>1, <4>2, <5>1, <5>3
        <4>5. /\ pc[s[i + 1]] = "queued" /\ poolOf[s[i + 1]] = p /\ s[i + 1] \notin woken
          BY <1>1, <4>1, <4>2 DEF QueueInv
        <4> QED BY <1>1, <2>1, <3>2, <4>2, <4>3, <4>4, <4>5
      <3> QED BY <3>1, <3>2
    <2>5. ASSUME NEW q \in Runs, pc'[q] = "queued"
          PROVE  q \in woken' \cup ToSet(queue'[poolOf'[q]])
      <3>1. poolOf[q] \in Pools /\ q \in woken \cup ToSet(queue[poolOf[q]])
        BY <1>1, <2>5 DEF QueueInv, TypeOK
      <3>2. ToSet(s) = ToSet(Tail(s)) \cup {h}
        BY <1>1, <1>3, TailPlaces
      <3> QED BY <1>1, <2>1, <3>1, <3>2
    <2>6. \A q \in woken' : pc'[q] = "queued"
      BY <1>1, <2>1, <2>3 DEF QueueInv, TypeOK
    <2> QED BY <1>1, <2>4, <2>5, <2>6 DEF QueueInv
  <1> QED BY <1>2, <1>3

LEMMA QueueNext == TypeOK /\ QueueInv /\ [Next]_vars => QueueInv'
  <1> SUFFICES ASSUME TypeOK, QueueInv, [Next]_vars PROVE QueueInv'
    OBVIOUS
  <1>1. ASSUME NEW r \in Runs, Dispatch(r) PROVE QueueInv'
    <2>1. /\ up /\ pc[r] = "idle" /\ pool \in Pools
          /\ poolOf' = [poolOf EXCEPT ![r] = pool] /\ UNCHANGED up
      BY <1>1 DEF Dispatch, TypeOK, pool, processVars
    <2>2. CASE Enter(pool) /\ Started(r)
      BY <2>1, <2>2, QueueMove DEF Enter, Started, TypeOK
    <2>3. CASE Wait(pool, r) /\ pc' = [pc EXCEPT ![r] = "queued"]
      BY <2>1, <2>3, QueueWait
    <2> QED BY <1>1, <2>2, <2>3 DEF Dispatch
  <1>2. ASSUME NEW r \in Runs, DispatchFails(r) PROVE QueueInv'
    BY <1>2, QueueMove DEF DispatchFails, poolVars, processVars, TypeOK
  <1>3. ASSUME NEW r \in Runs, Complete(r) \/ CompleteThrows(r) \/ Abort(r) PROVE QueueInv'
    BY <1>3, QueueLeave DEF Complete, CompleteThrows, Abort
  <1>4. CASE Die
    BY <1>4, DieClears
  <1>5. CASE UNCHANGED <<pc, poolOf, queue, woken>> /\ (up' \/ up' = up)
    BY <1>5 DEF QueueInv
  <1>6. (\E R : Pull(R)) \/ SessionStart \/ UNCHANGED vars
        => UNCHANGED <<pc, poolOf, queue, woken>> /\ (up' \/ up' = up)
    BY DEF Pull, SessionStart, vars, poolVars, processVars
  <1> QED
    BY <1>1, <1>2, <1>3, <1>4, <1>5, <1>6, QueueWake
       DEF Next, Crash, CrashAmid, Terminating

-----------------------------------------------------------------------------
(* Journals and what runs leave behind. *)

(* Only the run that steps has to be looked at.                            *)
LEMMA TellsStep ==
    ASSUME JournalInv, NEW r \in Runs,
           \A q \in Runs \ {r} : /\ pc'[q] = pc[q] /\ journal'[q] = journal[q]
                                /\ worktree'[q] = worktree[q] /\ branch'[q] = branch[q],
           Tells(r)'
    PROVE  \A q \in Runs : Tells(q)'
  BY DEF JournalInv, Tells, Tale

(* What the verdicts appended to a journal do to it.                       *)
LEMMA FinalAppend ==
    ASSUME NEW S, NEW s \in Seq(S), NEW e \in S,
           Final(s), e # "completed" \/ \A i \in DOMAIN s : s[i] # "aborted"
    PROVE  Final(Append(s, e))
  <1>1. /\ DOMAIN Append(s, e) = DOMAIN s \cup {Len(s) + 1}
        /\ \A i \in DOMAIN s : Append(s, e)[i] = s[i]
        /\ Append(s, e)[Len(s) + 1] = e
        /\ DOMAIN s = 1..Len(s) /\ Len(s) \in Nat
    BY AppendPlaces, LenProperties
  <1>2. \A i \in DOMAIN s : ~(Len(s) + 1 < i)
    BY <1>1
  <1> QED BY <1>1, <1>2 DEF Final

LEMMA JournalEnd ==
    ASSUME TypeOK, NEW r \in Runs, NEW v \in Verdicts, NEW j,
           j = Append(journal[r], v) \/ j = Append(Append(journal[r], v), "aborted")
    PROVE  /\ j # <<>> /\ Last(j) \in Verdicts
           /\ j = Append(Append(journal[r], v), "aborted") => Last(j) = "aborted"
           /\ j = Append(journal[r], v) => Last(j) = v
           /\ (\A i \in DOMAIN journal[r] : journal[r][i] \notin Verdicts) => Final(j)
  <1> DEFINE E == {"started"} \cup Verdicts
  <1>1. journal[r] \in Seq(E) /\ v \in E /\ "aborted" \in E /\ "aborted" \in Verdicts
    BY DEF TypeOK, Verdicts
  <1> HIDE DEF E
  <1>2. /\ Append(journal[r], v) \in Seq(E) /\ Append(journal[r], v) # <<>>
        /\ Last(Append(journal[r], v)) = v
    BY <1>1, AppendLast
  <1>3. /\ Append(Append(journal[r], v), "aborted") # <<>>
        /\ Last(Append(Append(journal[r], v), "aborted")) = "aborted"
    BY <1>1, <1>2, AppendLast
  <1>4. ASSUME \A i \in DOMAIN journal[r] : journal[r][i] \notin Verdicts
        PROVE  Final(j)
    <2>1. Final(journal[r]) /\ \A i \in DOMAIN journal[r] : journal[r][i] # "aborted"
      BY <1>1, <1>4 DEF Final
    <2>2. Final(Append(journal[r], v))
      BY <1>1, <2>1, FinalAppend
    <2>3. Final(Append(Append(journal[r], v), "aborted"))
      BY <1>1, <1>2, <2>2, FinalAppend
    <2> QED BY <2>2, <2>3
  <1> QED BY <1>1, <1>2, <1>3, <1>4

(* The end of a run, with all of its writes or some: the branch is there   *)
(* while the worktree is, and if the last verdict is that it completed.    *)
LEMMA EndTells ==
    ASSUME TypeOK, JournalInv, NEW r \in Runs, pc[r] = "running", EndsDisk(r)
    PROVE  /\ journal'[r] # <<>> /\ Last(journal'[r]) \in Verdicts
           /\ r \in Isolated => (worktree'[r] \/ Last(journal'[r]) = "completed" => branch'[r])
           /\ r \in Isolated \ CrossCwd => Final(journal'[r])
           /\ \A q \in Runs \ {r} : /\ journal'[q] = journal[q] /\ worktree'[q] = worktree[q]
                                    /\ branch'[q] = branch[q]
  <1>1. /\ r \in Isolated => worktree[r] /\ branch[r]
        /\ r \in Isolated \ CrossCwd =>
              \A i \in DOMAIN journal[r] : journal[r][i] \notin Verdicts
    BY DEF JournalInv, Tells, Tale
  <1>2. PICK k \in 1..3 : \/ CompleteUpTo(r, k) \/ AbortUpTo(r, k)
                          \/ \E v \in Verdicts : CatchUpTo(r, v, k)
    BY DEF EndsDisk
  <1>3. /\ worktree'[r] <=> worktree[r] /\ k < 2
        /\ CompleteUpTo(r, k) => (branch'[r] <=> branch[r])
        /\ ~CompleteUpTo(r, k) => (branch'[r] <=> branch[r] /\ k < 3)
    <2>1. /\ worktree' = [worktree EXCEPT ![r] = @ /\ k < 2]
          /\ CompleteUpTo(r, k) => branch' = branch
          /\ ~CompleteUpTo(r, k) => branch' = [branch EXCEPT ![r] = @ /\ k < 3]
      BY <1>2 DEF CompleteUpTo, AbortUpTo, CatchUpTo
    <2> QED BY <2>1, Zenon DEF TypeOK
  <1>4. /\ worktree'[r] => worktree[r]
        /\ ~CompleteUpTo(r, k) /\ worktree'[r] /\ branch[r] => branch'[r]
    BY <1>3
  <1>5. ASSUME NEW q \in Runs \ {r}
        PROVE  /\ journal'[q] = journal[q] /\ worktree'[q] = worktree[q]
               /\ branch'[q] = branch[q]
    BY <1>2 DEF CompleteUpTo, AbortUpTo, CatchUpTo, TypeOK
  <1>6. CASE CompleteUpTo(r, k)
    <2>1. journal'[r] = Append(journal[r], "completed")
      BY <1>6 DEF CompleteUpTo, TypeOK
    <2> QED BY <1>1, <1>3, <1>5, <1>6, <2>1, JournalEnd DEF Verdicts
  <1>7. CASE AbortUpTo(r, k) /\ ~CompleteUpTo(r, k)
    <2>1. journal'[r] = Append(journal[r], "aborted")
      BY <1>7 DEF AbortUpTo, TypeOK
    <2>2. Last(journal'[r]) = "aborted" /\ "aborted" \in Verdicts
      BY <2>1, JournalEnd DEF Verdicts
    <2> QED BY <1>1, <1>4, <1>5, <1>7, <2>1, <2>2, JournalEnd DEF Verdicts
  <1>8. CASE (\E v \in Verdicts : CatchUpTo(r, v, k)) /\ ~CompleteUpTo(r, k)
    <2>1. PICK v \in Verdicts : journal'[r] = Append(Append(journal[r], v), "aborted")
      BY <1>8 DEF CatchUpTo, TypeOK
    <2>2. Last(journal'[r]) = "aborted"
      BY <2>1, JournalEnd
    <2>3. /\ journal'[r] # <<>>
          /\ (\A i \in DOMAIN journal[r] : journal[r][i] \notin Verdicts) => Final(journal'[r])
      BY <2>1, JournalEnd
    <2> QED BY <1>1, <1>4, <1>5, <1>8, <2>2, <2>3 DEF Verdicts
  <1> QED BY <1>2, <1>6, <1>7, <1>8

(* A run that completed has no worktree, and what threw ended in an abort. *)
LEMMA TellsEnd ==
    ASSUME TypeOK, JournalInv, NEW r \in Runs,
           Complete(r) \/ CompleteThrows(r) \/ Abort(r)
    PROVE  Tells(r)' /\ pc'[r] = "done"
  <1>1. pc[r] = "running" /\ pc'[r] = "done" /\ EndsDisk(r)
    BY EndSteps DEF Complete, CompleteThrows, Abort, Settle, TypeOK
  <1>2. worktree'[r] => Last(journal'[r]) = "aborted"
    <2>1. CASE Complete(r)
      <3>1. worktree' = [worktree EXCEPT ![r] = @ /\ 2 < 2]
        BY <2>1 DEF Complete, CompleteUpTo
      <3>2. worktree'[r] <=> worktree[r] /\ 2 < 2
        BY <3>1, Zenon DEF TypeOK
      <3> QED BY <3>2
    <2>2. CASE CompleteThrows(r) \/ Abort(r)
      <3>1. \/ journal'[r] = Append(journal[r], "aborted")
            \/ \E v \in Verdicts : journal'[r] = Append(Append(journal[r], v), "aborted")
        BY <2>2 DEF CompleteThrows, Abort, AbortUpTo, CatchUpTo, TypeOK, Verdicts
      <3> QED BY <3>1, JournalEnd DEF Verdicts
    <2> QED BY <2>1, <2>2
  <1> QED BY <1>1, <1>2, EndTells DEF Tells, Tale

LEMMA TellsAmid ==
    ASSUME TypeOK, JournalInv, NEW r \in Runs, CrashAmid(r)
    PROVE  Tells(r)' /\ pc'[r] = "lost"
  <1>1. pc[r] = "running" /\ pc'[r] = "lost"
    BY DEF CrashAmid, Die, TypeOK
  <1> QED BY <1>1, EndSteps, EndTells DEF Tells, Tale

LEMMA TellsLost ==
    ASSUME TypeOK, JournalInv, NEW q \in Runs, Die, journal'[q] = journal[q],
           worktree'[q] = worktree[q], branch'[q] = branch[q]
    PROVE  Tells(q)'
  <1>1. \/ pc'[q] = pc[q] /\ pc[q] \notin {"queued", "running"}
        \/ pc'[q] = "lost" /\ pc[q] \in {"queued", "running"}
    BY DEF Die, TypeOK
  <1> QED BY <1>1 DEF JournalInv, Tells, Tale

LEMMA TellsStarted ==
    ASSUME TypeOK, JournalInv, NEW r \in Runs, Started(r), pc[r] \in {"idle", "queued"},
           r \in Isolated => worktree'[r] /\ branch'[r]
    PROVE  Tells(r)' /\ pc'[r] = "running"
  <1>1. journal[r] = <<>> /\ journal[r] \in Seq({"started"} \cup Verdicts)
    BY DEF JournalInv, Tells, Tale, TypeOK
  <1>2. pc'[r] = "running" /\ journal'[r] = Append(journal[r], "started")
    BY DEF Started, Log, TypeOK
  <1>3. journal'[r] # <<>>
    BY <1>1, <1>2, AppendLast
  <1>4. \A i \in DOMAIN journal'[r] : i = Len(journal[r]) + 1 /\ journal'[r][i] = "started"
    BY <1>1, <1>2, AppendPlaces, LenProperties
  <1>5. Final(journal'[r])
    BY <1>4 DEF Final
  <1> QED BY <1>2, <1>3, <1>4, <1>5 DEF Tells, Tale, Verdicts

(* A scan closes the journals of the runs it cannot offer.                 *)
LEMMA TellsScanned ==
    ASSUME TypeOK, JournalInv, SessionStart, NEW q \in Runs
    PROVE  /\ Tells(q)'
           /\ pc'[q] = "lost" /\ journal'[q] # <<>> =>
                 Last(journal'[q]) \in Verdicts \/ (q \in offered' /\ worktree'[q])
  <1> DEFINE gone == {r \in Interrupted : Unresumable(r)}
  <1>1. /\ journal'[q] = IF q \in gone THEN Append(journal[q], "aborted") ELSE journal[q]
        /\ offered' = Interrupted \ gone
        /\ UNCHANGED <<pc, worktree, branch>>
    BY DEF SessionStart
  <1>2. CASE q \notin gone
    BY <1>1, <1>2 DEF JournalInv, Tells, Tale, Interrupted, Unresumable
  <1>3. CASE q \in gone
    <2>1. journal[q] # <<>> /\ Last(journal[q]) \notin Verdicts /\ Unresumable(q)
      BY <1>3 DEF Interrupted
    <2>2. journal'[q] # <<>> /\ Last(journal'[q]) = "aborted" /\ "aborted" \in Verdicts
      BY <1>1, <1>3, JournalEnd DEF Verdicts
    <2>3. pc[q] \in {"running", "lost"}
      BY <2>1 DEF JournalInv, Tells, Tale, TypeOK
    <2>4. pc[q] = "running" => q \notin Isolated \ CrossCwd
      BY <2>1 DEF JournalInv, Tells, Tale, Unresumable
    <2>5. ASSUME q \in Isolated \ CrossCwd PROVE Final(journal'[q])
      <3>1. journal[q] \in Seq({"started"} \cup Verdicts) /\ Final(journal[q])
        BY <2>5 DEF JournalInv, Tells, Tale, TypeOK
      <3>2. Final(Append(journal[q], "aborted"))
        BY <3>1, FinalAppend DEF Verdicts
      <3> QED BY <1>1, <1>3, <3>2
    <2> QED BY <1>1, <2>1, <2>2, <2>3, <2>4, <2>5 DEF JournalInv, Tells, Tale
  <1> QED BY <1>2, <1>3

LEMMA JournalNext ==
    TypeOK /\ QueueInv /\ JournalInv /\ InterruptedRunOffered /\ [Next]_vars
    => JournalInv' /\ InterruptedRunOffered'
  <1> SUFFICES ASSUME TypeOK, QueueInv, JournalInv, InterruptedRunOffered, [Next]_vars
               PROVE  JournalInv' /\ InterruptedRunOffered'
    OBVIOUS
  <1>1. ASSUME NEW r \in Runs, Tells(r)', pc'[r] # "lost",
               \A q \in Runs \ {r} : /\ pc'[q] = pc[q] /\ journal'[q] = journal[q]
                                    /\ worktree'[q] = worktree[q] /\ branch'[q] = branch[q],
               up' = up, offered' = offered
        PROVE  JournalInv' /\ InterruptedRunOffered'
    <2>1. \A q \in Runs : Tells(q)'
      BY <1>1, TellsStep
    <2>2. InterruptedRunOffered'
      BY <1>1 DEF InterruptedRunOffered
    <2> QED BY <2>1, <2>2 DEF JournalInv
  <1>2. ASSUME NEW r \in Runs, Dispatch(r)
        PROVE  JournalInv' /\ InterruptedRunOffered'
    <2>1. /\ pc[r] = "idle"
          /\ UNCHANGED <<up, offered>>
          /\ \A q \in Runs \ {r} : worktree'[q] = worktree[q] /\ branch'[q] = branch[q]
          /\ r \in Isolated => worktree'[r] /\ branch'[r]
      BY <1>2 DEF Dispatch, processVars, TypeOK
    <2>2. CASE Started(r)
      <3>1. Tells(r)' /\ pc'[r] = "running"
        BY <2>1, <2>2, TellsStarted
      <3>2. \A q \in Runs \ {r} : pc'[q] = pc[q] /\ journal'[q] = journal[q]
        BY <2>2 DEF Started, Log, TypeOK
      <3> QED BY <1>1, <2>1, <3>1, <3>2
    <2>3. CASE pc' = [pc EXCEPT ![r] = "queued"] /\ UNCHANGED journal
      <3>1. journal[r] = <<>> /\ (r \in Isolated \ CrossCwd => Final(journal[r]))
        BY <2>1 DEF JournalInv, Tells, Tale
      <3>2. Tells(r)' /\ pc'[r] = "queued"
        BY <2>1, <2>3, <3>1 DEF Tells, Tale, TypeOK
      <3> QED BY <1>1, <2>1, <2>3, <3>2 DEF TypeOK
    <2> QED BY <1>2, <2>2, <2>3 DEF Dispatch
  <1>3. ASSUME NEW r \in Runs, DispatchFails(r)
        PROVE  JournalInv' /\ InterruptedRunOffered'
    <2>1. /\ pc[r] = "idle" /\ pc' = [pc EXCEPT ![r] = "done"]
          /\ UNCHANGED <<up, offered, journal, worktree, branch>>
      BY <1>3 DEF DispatchFails, processVars, diskVars
    <2>2. Tells(r)' /\ pc'[r] = "done"
      BY <2>1 DEF JournalInv, Tells, Tale, TypeOK
    <2> QED BY <1>1, <2>1, <2>2 DEF TypeOK
  <1>4. ASSUME NEW r \in Runs, Wake(r)
        PROVE  JournalInv' /\ InterruptedRunOffered'
    <2>1. /\ pc[r] = "queued" /\ Started(r)
          /\ UNCHANGED <<up, offered, worktree, branch>>
      BY <1>4 DEF Wake, EnterWoken, processVars, QueueInv
    <2>2. Tells(r)' /\ pc'[r] = "running"
      BY <2>1, TellsStarted DEF JournalInv, Tells, Tale
    <2>3. \A q \in Runs \ {r} : pc'[q] = pc[q] /\ journal'[q] = journal[q]
      BY <2>1 DEF Started, Log, TypeOK
    <2> QED BY <1>1, <2>1, <2>2, <2>3
  <1>5. ASSUME NEW r \in Runs, Complete(r) \/ CompleteThrows(r) \/ Abort(r)
        PROVE  JournalInv' /\ InterruptedRunOffered'
    <2>1. /\ pc[r] = "running" /\ EndsDisk(r)
          /\ UNCHANGED <<up, offered>>
          /\ \A q \in Runs \ {r} : pc'[q] = pc[q]
      BY <1>5, EndSteps
         DEF Complete, CompleteThrows, Abort, Settle, processVars, TypeOK
    <2>2. Tells(r)' /\ pc'[r] = "done"
      BY <1>5, TellsEnd
    <2> QED BY <1>1, <2>1, <2>2, EndTells
  <1>6. ASSUME Die, \A q \in Runs : Tells(q)'
        PROVE  JournalInv' /\ InterruptedRunOffered'
    BY <1>6 DEF Die, JournalInv, InterruptedRunOffered
  <1>7. CASE Crash
    BY <1>6, <1>7, TellsLost DEF Crash, diskVars
  <1>8. ASSUME NEW r \in Runs, CrashAmid(r)
        PROVE  JournalInv' /\ InterruptedRunOffered'
    <2>1. Die /\ pc[r] = "running" /\ EndsDisk(r)
      BY <1>8, EndSteps DEF CrashAmid
    <2>2. \A q \in Runs \ {r} : Tells(q)'
      BY <2>1, EndTells, TellsLost
    <2> QED BY <1>6, <1>8, <2>1, <2>2, TellsAmid
  <1>9. ASSUME NEW R, Pull(R)
        PROVE  JournalInv' /\ InterruptedRunOffered'
    BY <1>9 DEF Pull, processVars, diskVars, JournalInv, Tells, InterruptedRunOffered
  <1>10. CASE SessionStart
    BY <1>10, TellsScanned DEF JournalInv, InterruptedRunOffered
  <1>11. CASE UNCHANGED vars
    BY <1>11 DEF vars, processVars, diskVars, JournalInv, Tells, InterruptedRunOffered
  <1> QED
    BY <1>2, <1>3, <1>4, <1>5, <1>7, <1>8, <1>9, <1>10, <1>11 DEF Next, Terminating

-----------------------------------------------------------------------------
(* The theorems. *)

LEMMA InvInit == Init => IInv
  <1> SUFFICES ASSUME Init PROVE IInv
    OBVIOUS
  <1>1. TypeOK
    <2>1. worktree \in [Runs -> BOOLEAN] /\ branch \in [Runs -> BOOLEAN] /\ up \in BOOLEAN
      BY DEF Init
    <2> QED BY <2>1, BackgroundAssumption, EmptySeq DEF Init, PoolInit, TypeOK
  <1>2. QueueInv
    BY EmptySeq DEF Init, PoolInit, QueueInv
  <1>3. CountInv
    <2>1. \A p \in Pools : Resident(p) = {}
      BY DEF Init, Resident
    <2> QED BY <2>1, FS_EmptySet DEF Init, PoolInit, CountInv
  <1>4. JournalInv /\ InterruptedRunOffered
    BY DEF Init, JournalInv, Tells, Tale, Final, InterruptedRunOffered
  <1> QED BY <1>1, <1>2, <1>3, <1>4 DEF IInv

LEMMA InvNext == IInv /\ [Next]_vars => IInv'
  BY TypeNext, QueueNext, CountNext, JournalNext DEF IInv

(* The invariant that all of the following rest on: who is queued and      *)
(* woken, the count of the pools, and what journal, worktree and branch of *)
(* a run tell at each stage of its life.                                   *)
THEOREM BackgroundInvariant == Spec => []IInv
  BY InvInit, InvNext, PTL DEF Spec

(* The count of a pool is that of the runs at work in it, and every queued *)
(* run is in its queue or woken, once.                                     *)
THEOREM PoolMatchesRunsHolds == Spec => []PoolMatchesRuns
  <1>1. IInv => PoolMatchesRuns
    <2> SUFFICES ASSUME IInv PROVE PoolMatchesRuns
      OBVIOUS
    <2>1. \A p \in Pools : active[p] = Cardinality(Resident(p))
      BY DEF IInv, CountInv
    <2>2. ASSUME NEW r \in Runs
          PROVE  pc[r] = "queued" <=> r \in woken \cup ToSet(queue[poolOf[r]])
      <3>1. poolOf[r] \in Pools
        BY DEF IInv, TypeOK
      <3> QED BY <3>1 DEF IInv, QueueInv, ToSet
    <2>3. ASSUME NEW p \in Pools
          PROVE  /\ \A i, j \in DOMAIN queue[p] : queue[p][i] = queue[p][j] => i = j
                 /\ woken \cap ToSet(queue[p]) = {}
      BY DEF IInv, QueueInv, ToSet
    <2> QED BY <2>1, <2>2, <2>3 DEF PoolMatchesRuns
  <1> QED BY <1>1, BackgroundInvariant, PTL

(* What an isolated run leaves on disk agrees with its journal.            *)
THEOREM LeftoversMatchJournalHolds == Spec => []LeftoversMatchJournal
  <1>1. IInv => LeftoversMatchJournal
    BY BackgroundAssumption DEF IInv, JournalInv, Tells, Tale, LeftoversMatchJournal
  <1> QED BY <1>1, BackgroundInvariant, PTL

(* A crash loses no run that had started: it has a verdict, or it is       *)
(* offered and its worktree is there.                                      *)
THEOREM InterruptedRunOfferedHolds == Spec => []InterruptedRunOffered
  BY BackgroundInvariant, PTL DEF IInv

(* A run isolated in this repository that was aborted does not complete.   *)
THEOREM AbortIsFinalHolds == Spec => []AbortIsFinal
  <1>1. IInv => AbortIsFinal
    BY BackgroundAssumption DEF IInv, JournalInv, Tells, Tale, Final, AbortIsFinal
  <1> QED BY <1>1, BackgroundInvariant, PTL
=============================================================================
