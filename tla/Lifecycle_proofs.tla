-------------------------- MODULE Lifecycle_proofs --------------------------
(***************************************************************************)
(* Theorems about Lifecycle, for any number of runs, any definitions with  *)
(* any gates, and any revise budget.                                       *)
(***************************************************************************)
EXTENDS Lifecycle, TLAPS, WellFoundedInduction

-----------------------------------------------------------------------------
(* The inductive invariant. *)

Shape == phase = [q \in Runs |-> phase[q]] /\ block = [q \in Runs |-> block[q]]

(* What the todo, the block and the revise budget of a run are on its way, *)
(* not only at its end.                                                    *)
RunInv(q) ==
    /\ phase[q] \in 1..Len(Phases[life[q]])
    /\ block[q] \in [1..Len(Phases[life[q]]) -> Marks]
    /\ pc[q] = "idle" => phase[q] = 1 /\ todo[q] = "none"
    /\ pc[q] \notin {"idle", "ended"} => todo[q] = "in_progress"
    /\ pc[q] # "ended" => verdict[q] = "none" /\ revise[q] <= MaxRevise
    /\ pc[q] = "ended" =>
          \/ verdict[q] = "completed" /\ todo[q] = "done"
          \/ verdict[q] # "completed" /\ todo[q] \in {"none", "open"}
          \/ revise[q] > MaxRevise /\ todo[q] = "in_progress"
    /\ pc[q] = "asked" /\ last[q] = "completed" => block[q][phase[q]] = "done"
    /\ \A p \in 1..Len(Phases[life[q]]) :
          /\ p < phase[q] \/ verdict[q] = "completed" => block[q][p] = "done"
          /\ p > phase[q] => block[q][p] = "open"

(* The runs of the open panel are the panel's, and have been started.      *)
PanelInv ==
    /\ PendingIsAsked
    /\ \A q \in mine : open /\ pc[q] # "idle" /\ Caller[life[q]] = "panel"

Basic ==
    /\ pc \in [Runs -> {"idle", "enter", "spawn", "retry", "child", "judged", "asked",
                        "ended", "thrown"}]
    /\ life \in [Runs -> Lifecycles]
    /\ revise \in [Runs -> 0..(MaxRevise + 1)]
    /\ child \in [Runs -> {"none", "completed", "failed", "retryable", "aborted"}]
    /\ last \in [Runs -> {"none", "completed", "failed"}]
    /\ todo \in [Runs -> {"none", "open", "in_progress", "done"}]
    /\ verdict \in [Runs -> {"none", "completed", "failed", "aborted"}]
    /\ mine \subseteq Runs /\ open \in BOOLEAN /\ revising \in BOOLEAN
    /\ pending \in Runs \cup {NoRun}

IInv == Basic /\ Shape /\ PanelInv /\ \A q \in Runs : RunInv(q)

-----------------------------------------------------------------------------
(* The invariant holds at the start. *)
LEMMA InvInit == Init => IInv
  <1> SUFFICES ASSUME Init PROVE IInv
    OBVIOUS
  <1>1. \A q \in Runs : life[q] \in Lifecycles /\ Len(Phases[life[q]]) \in Nat \ {0}
    BY LifecycleAssumption DEF Init
  <1>2. Basic
    <2>1. (CHOOSE l \in Lifecycles : TRUE) \in Lifecycles
      BY LifecycleAssumption
    <2>2. life \in [Runs -> Lifecycles]
      BY <2>1 DEF Init
    <2>3. 0 \in 0..(MaxRevise + 1)
      BY LifecycleAssumption
    <2> QED BY <2>2, <2>3 DEF Init, Basic
  <1>3. Shape /\ PanelInv
    BY DEF Init, Shape, PanelInv, PendingIsAsked
  <1>4. ASSUME NEW q \in Runs PROVE RunInv(q)
    BY <1>1, LifecycleAssumption DEF Init, RunInv, Marks
  <1> QED BY <1>2, <1>3, <1>4 DEF IInv

(* A mark changes the block of its run at the present phase only.          *)
LEMMA MarkOnly ==
    ASSUME IInv, NEW r \in Runs, NEW m \in Marks, Mark(r, m)
    PROVE  /\ block' = [q \in Runs |-> block'[q]]
           /\ block'[r] \in [1..Len(Phases[life[r]]) -> Marks]
           /\ block'[r][phase[r]] = m
           /\ \A p \in 1..Len(Phases[life[r]]) : p # phase[r] => block'[r][p] = block[r][p]
           /\ \A q \in Runs \ {r} : block'[q] = block[q]
  <1>1. /\ block = [q \in Runs |-> block[q]]
        /\ block[r] \in [1..Len(Phases[life[r]]) -> Marks]
        /\ phase[r] \in 1..Len(Phases[life[r]])
    BY DEF IInv, Shape, RunInv
  <1>2. /\ block' = [q \in Runs |-> block'[q]]
        /\ block'[r] = [block[r] EXCEPT ![phase[r]] = m]
        /\ \A q \in Runs \ {r} : block'[q] = block[q]
    BY <1>1 DEF Mark
  <1> QED BY <1>1, <1>2

(* A phase that is accepted, its block marked by then or at once.          *)
LEMMA InvAccept ==
    ASSUME IInv, NEW r \in Runs, pc[r] \in {"judged", "asked"}, Accept(r),
           \/ UNCHANGED block /\ block[r][phase[r]] = "done"
           \/ Mark(r, "done"),
           UNCHANGED child, revising' \in BOOLEAN
    PROVE  IInv'
  <1>1. Basic'
    BY DEF IInv, Basic, Accept, End
  <1>2. Shape'
    BY DEF IInv, Shape, Accept, End, Mark
  <1>3. PanelInv'
    BY DEF IInv, Basic, PanelInv, PendingIsAsked, Accept, End
  <1>4. Len(Phases[life[r]]) \in Nat
    BY LifecycleAssumption DEF IInv, Basic
  <1>5. ASSUME NEW q \in Runs PROVE RunInv(q)'
    <2>1. CASE q = r
      <3> DEFINE n == Len(Phases[life[r]])
      <3>1. /\ life'[r] = life[r] /\ block'[r] \in [1..n -> Marks]
            /\ block'[r][phase[r]] = "done"
            /\ \A p \in 1..n : p # phase[r] => block'[r][p] = block[r][p]
        <4>1. life'[r] = life[r]
          BY DEF Accept, End
        <4>2. CASE UNCHANGED block /\ block[r][phase[r]] = "done"
          BY <4>1, <4>2 DEF IInv, RunInv
        <4>3. CASE Mark(r, "done")
          BY <4>1, <4>3, MarkOnly DEF Marks
        <4> QED BY <4>2, <4>3
      <3>2. /\ \A p \in 1..n : p < phase[r] + 1 => block'[r][p] = "done"
            /\ \A p \in 1..n : p > phase[r] => block'[r][p] = "open"
        <4>1. phase[r] \in Nat /\ RunInv(r)
          BY DEF IInv, RunInv
        <4>2. ASSUME NEW p \in 1..n
              PROVE  /\ p < phase[r] + 1 => p < phase[r] \/ p = phase[r]
                     /\ p > phase[r] => p # phase[r]
          BY <1>4, <4>1
        <4>3. ASSUME NEW p \in 1..n
              PROVE  /\ p < phase[r] => block[r][p] = "done"
                     /\ p > phase[r] => block[r][p] = "open"
          BY <4>1 DEF RunInv
        <4> QED BY <3>1, <4>2, <4>3
      <3>3. CASE Terminal(r)
        BY <1>4, <2>1, <3>1, <3>2, <3>3 DEF IInv, Basic, Shape, RunInv, Accept, End, Terminal
      <3>4. CASE ~Terminal(r)
        BY <1>4, <2>1, <3>1, <3>2, <3>4 DEF IInv, Basic, Shape, RunInv, Accept, End, Terminal
      <3> QED BY <3>3, <3>4
    <2>2. CASE q # r
      BY <2>2 DEF IInv, Basic, Shape, RunInv, Accept, End, Mark
    <2> QED BY <2>1, <2>2
  <1> QED BY <1>1, <1>2, <1>3, <1>5 DEF IInv

(* A revision, within the budget or beyond it.                             *)
LEMMA InvRevise ==
    ASSUME IInv, NEW r \in Runs, pc[r] \in {"judged", "asked"}, Revise(r),
           UNCHANGED child, revising' \in BOOLEAN
    PROVE  IInv'
  <1>1. revise[r] + 1 \in 0..(MaxRevise + 1)
    <2>1. revise[r] <= MaxRevise
      BY DEF IInv, RunInv
    <2> QED BY <2>1, LifecycleAssumption DEF IInv, Basic
  <1>2. Basic'
    BY <1>1 DEF IInv, Basic, Revise, CountRevision, End
  <1>3. Shape'
    BY DEF IInv, Shape, Revise, End, Mark
  <1>4. PanelInv'
    BY DEF IInv, Basic, PanelInv, PendingIsAsked, Revise, End
  <1>5. Len(Phases[life[r]]) \in Nat
    BY LifecycleAssumption DEF IInv, Basic
  <1>6. ASSUME NEW q \in Runs PROVE RunInv(q)'
    <2>1. CASE q = r
      <3> DEFINE n == Len(Phases[life[r]])
      <3>1. /\ life'[r] = life[r] /\ phase'[r] = phase[r]
            /\ block'[r] \in [1..n -> Marks]
            /\ \A p \in 1..n : p # phase[r] => block'[r][p] = block[r][p]
        <4>1. life'[r] = life[r] /\ phase'[r] = phase[r]
          BY DEF Revise, End
        <4> QED BY <4>1, MarkOnly DEF Revise, Marks
      <3>2. RunInv(r) /\ phase[r] \in Nat /\ todo[r] = "in_progress"
            /\ verdict[r] = "none"
        BY DEF IInv, RunInv
      <3>3. CASE CountRevision(r) <= MaxRevise
        <4>1. pc'[r] = "spawn" /\ revise'[r] <= MaxRevise
              /\ verdict'[r] = "none" /\ todo'[r] = "in_progress"
          BY <1>1, <3>2, <3>3, LifecycleAssumption
             DEF IInv, Basic, Revise, CountRevision
        <4> QED BY <2>1, <3>1, <3>2, <4>1 DEF RunInv
      <3>4. CASE CountRevision(r) > MaxRevise
        <4>1. pc'[r] = "ended" /\ revise'[r] > MaxRevise
              /\ verdict'[r] = "failed" /\ todo'[r] = "in_progress"
          BY <1>1, <3>2, <3>4, LifecycleAssumption
             DEF IInv, Basic, Revise, CountRevision, End
        <4> QED BY <2>1, <3>1, <3>2, <4>1 DEF RunInv
      <3> QED BY <1>1, <3>3, <3>4, LifecycleAssumption DEF CountRevision, IInv, Basic
    <2>2. CASE q # r
      BY <2>2 DEF IInv, Basic, Shape, RunInv, Revise, End, Mark
    <2> QED BY <2>1, <2>2
  <1> QED BY <1>2, <1>3, <1>4, <1>6 DEF IInv

(* An end that reverts the todo.                                           *)
LEMMA InvAbort ==
    ASSUME IInv, NEW r \in Runs, pc[r] \notin {"idle", "ended"},
           NEW v \in {"failed", "aborted"}, Abort(r, v),
           UNCHANGED child, revising' \in BOOLEAN
    PROVE  IInv'
  <1>1. Basic' /\ Shape'
    BY DEF IInv, Basic, Shape, Abort, Revert, End
  <1>2. PanelInv'
    BY DEF IInv, Basic, PanelInv, PendingIsAsked, Abort, End
  <1>3. ASSUME NEW q \in Runs PROVE RunInv(q)'
    BY DEF IInv, Basic, RunInv, Abort, Revert, End
  <1> QED BY <1>1, <1>2, <1>3 DEF IInv

(* runLifecycle, up to its loop.                                           *)
LEMMA InvStart ==
    ASSUME IInv, NEW r \in Runs, NEW l \in Lifecycles, Start(r, l)
    PROVE  IInv'
  <1>1. Len(Phases[l]) \in Nat \ {0}
    BY LifecycleAssumption
  <1>2. Basic'
    BY DEF IInv, Basic, Start, childVars
  <1>3. Shape'
    BY DEF IInv, Shape, Start
  <1>4. PanelInv'
    BY LifecycleAssumption DEF IInv, Basic, PanelInv, PendingIsAsked, Start
  <1>5. ASSUME NEW q \in Runs PROVE RunInv(q)'
    <2>1. CASE q = r
      <3>1. /\ block'[r] = [p \in 1..Len(Phases[l]) |-> "open"] /\ life'[r] = l
            /\ phase'[r] = 1 /\ revise'[r] <= MaxRevise
        BY DEF IInv, Basic, Shape, RunInv, Start
      <3>2. \/ pc'[r] = "enter" /\ todo'[r] = "in_progress" /\ verdict'[r] = "none"
            \/ pc'[r] = "ended" /\ todo'[r] = "none" /\ verdict'[r] = "failed"
        BY DEF IInv, Basic, RunInv, Start
      <3> QED BY <1>1, <2>1, <3>1, <3>2 DEF RunInv, Marks
    <2>2. CASE q # r
      BY <2>2 DEF IInv, Basic, Shape, RunInv, Start
    <2> QED BY <2>1, <2>2
  <1> QED BY <1>2, <1>3, <1>4, <1>5 DEF IInv

(* The steps of a phase up to its gates leave todo and block alone.        *)
LEMMA InvPhase ==
    ASSUME IInv, NEW r \in Runs,
           \/ Spawn(r)
           \/ \E res \in Results, listed \in BOOLEAN : ChildEnds(r, res, listed)
    PROVE  IInv'
  <1>1. /\ UNCHANGED <<life, phase, revise, block, todo, verdict, panelVars>>
        /\ pc[r] \in {"spawn", "retry", "child"}
        /\ \E s \in {"child", "retry", "judged"} : pc' = [pc EXCEPT ![r] = s]
    BY DEF Spawn, ChildEnds, Judged
  <1>2. child' \in [Runs -> {"none", "completed", "failed", "retryable", "aborted"}]
    BY DEF IInv, Basic, Spawn, ChildEnds, Judged, Results
  <1>3. last' \in [Runs -> {"none", "completed", "failed"}]
    BY DEF IInv, Basic, Spawn, ChildEnds, Judged
  <1>4. Basic' /\ Shape'
    <2>1. pc' \in [Runs -> {"idle", "enter", "spawn", "retry", "child", "judged", "asked",
                           "ended", "thrown"}]
      BY <1>1 DEF IInv, Basic
    <2>2. Shape'
      BY <1>1 DEF IInv, Shape
    <2> QED BY <1>1, <1>2, <1>3, <2>1, <2>2 DEF IInv, Basic, panelVars
  <1>5. PanelInv'
    BY <1>1 DEF IInv, Basic, PanelInv, PendingIsAsked, panelVars
  <1>6. ASSUME NEW q \in Runs PROVE RunInv(q)'
    <2>1. \/ q # r /\ pc'[q] = pc[q] /\ last'[q] = last[q]
          \/ q = r /\ pc'[q] \in {"child", "retry", "judged"}
      BY <1>1 DEF IInv, Basic, Spawn, ChildEnds, Judged
    <2>2. RunInv(q) /\ (q = r => pc[q] \in {"spawn", "retry", "child"})
      BY <1>1 DEF IInv
    <2> QED BY <1>1, <2>1, <2>2 DEF RunInv
  <1> QED BY <1>4, <1>5, <1>6 DEF IInv

(* A phase is entered, or cannot be.                                       *)
LEMMA InvEnter ==
    ASSUME IInv, NEW r \in Runs, EnterPhase(r)
    PROVE  IInv'
  <1>1. Basic' /\ Shape'
    <2>1. 0 \in 0..(MaxRevise + 1)
      BY LifecycleAssumption
    <2>2. revise' \in [Runs -> 0..(MaxRevise + 1)]
      BY <2>1 DEF IInv, Basic, EnterPhase
    <2>3. Basic'
      BY <2>2 DEF IInv, Basic, EnterPhase, Revert, End, childVars, panelVars
    <2>4. Shape'
      BY DEF IInv, Shape, EnterPhase, End
    <2> QED BY <2>3, <2>4
  <1>2. PanelInv'
    BY DEF IInv, Basic, PanelInv, PendingIsAsked, EnterPhase, End, panelVars
  <1>3. ASSUME NEW q \in Runs PROVE RunInv(q)'
    <2>1. RunInv(q) /\ block' = block /\ phase' = phase /\ life' = life
      BY DEF IInv, EnterPhase, End
    <2>2. CASE q # r
      BY <2>1, <2>2 DEF IInv, Basic, RunInv, EnterPhase, Revert, End
    <2>3. CASE q = r
      BY <2>1, <2>3, LifecycleAssumption DEF IInv, Basic, RunInv, EnterPhase, Revert, End
    <2> QED BY <2>2, <2>3
  <1> QED BY <1>1, <1>2, <1>3 DEF IInv

(* The block is marked after an attempt, then somebody is asked or nobody. *)
LEMMA InvAsk ==
    ASSUME IInv, NEW r \in Runs, pc[r] = "judged",
           Mark(r, IF last[r] = "completed" THEN "done" ELSE "open"), AskOrAccept(r),
           UNCHANGED child, revising' \in BOOLEAN
    PROVE  IInv'
  <1>1. CASE pc' = [pc EXCEPT ![r] = "asked"]
    <2> DEFINE m == IF last[r] = "completed" THEN "done" ELSE "open"
    <2>1. /\ UNCHANGED <<life, phase, revise, last, todo, verdict, mine, open>>
          /\ pending' = IF r \in mine THEN r ELSE pending
      <3>1. pc'[r] = "asked"
        BY <1>1 DEF IInv, Basic
      <3> QED BY <3>1 DEF AskOrAccept, Accept, End, IInv, Basic
    <2>2. m \in Marks
      BY DEF Marks
    <2>3. /\ block'[r] \in [1..Len(Phases[life[r]]) -> Marks]
          /\ block'[r][phase[r]] = m
          /\ \A p \in 1..Len(Phases[life[r]]) : p # phase[r] => block'[r][p] = block[r][p]
          /\ \A q \in Runs \ {r} : block'[q] = block[q]
      BY <2>2, MarkOnly
    <2>4. Basic'
      BY <1>1, <2>1 DEF IInv, Basic
    <2>5. Shape'
      BY <2>1 DEF IInv, Shape, Mark
    <2>6. PanelInv'
      BY <1>1, <2>1 DEF IInv, Basic, PanelInv, PendingIsAsked
    <2>7. ASSUME NEW q \in Runs PROVE RunInv(q)'
      <3>1. RunInv(q) /\ pc[r] = "judged"
        BY DEF IInv
      <3>2. CASE q # r
        <4>1. pc'[q] = pc[q] /\ block'[q] = block[q]
          BY <1>1, <2>3, <3>2 DEF IInv, Basic
        <4> QED BY <2>1, <3>1, <4>1 DEF RunInv
      <3>3. CASE q = r
        <4>1. pc'[q] = "asked"
          BY <1>1, <3>3 DEF IInv, Basic
        <4>2. phase[r] \in 1..Len(Phases[life[r]]) /\ Len(Phases[life[r]]) \in Nat
          BY <3>1, <3>3, LifecycleAssumption DEF RunInv, IInv, Basic
        <4>3. ASSUME NEW p \in 1..Len(Phases[life[r]])
              PROVE  /\ p < phase[r] => block'[r][p] = "done"
                     /\ p > phase[r] => block'[r][p] = "open"
          <5>1. (p < phase[r] => p # phase[r]) /\ (p > phase[r] => p # phase[r])
            BY <4>2
          <5> QED BY <2>3, <3>1, <3>3, <5>1 DEF RunInv
        <4> QED BY <2>1, <2>3, <3>1, <3>3, <4>1, <4>3 DEF RunInv
      <3> QED BY <3>2, <3>3
    <2> QED BY <2>4, <2>5, <2>6, <2>7 DEF IInv
  <1>2. CASE last[r] = "completed" /\ Accept(r)
    BY <1>2, InvAccept
  <1> QED BY <1>1, <1>2 DEF AskOrAccept

(* The gates of a phase, whatever they are and whichever fail.             *)
LEMMA InvGates ==
    ASSUME IInv, NEW r \in Runs, NEW failed, GatesRun(r, failed)
    PROVE  IInv'
  <1>0. pc[r] = "judged" /\ UNCHANGED child
    BY DEF GatesRun, childVars
  <1>1. CASE pc' = [pc EXCEPT ![r] = "thrown"]
             /\ UNCHANGED <<life, phase, revise, last, block, todo, verdict, panelVars>>
    <2>1. Basic'
      BY <1>0, <1>1 DEF IInv, Basic, panelVars
    <2>2. Shape'
      BY <1>1 DEF IInv, Shape
    <2>3. PanelInv'
      BY <1>0, <1>1 DEF IInv, Basic, PanelInv, PendingIsAsked, panelVars
    <2>4. ASSUME NEW q \in Runs PROVE RunInv(q)'
      <3>1. \/ q # r /\ pc'[q] = pc[q]
            \/ q = r /\ pc'[q] = "thrown"
        BY <1>1 DEF IInv, Basic
      <3>2. RunInv(q) /\ (q = r => pc[q] = "judged")
        BY <1>0 DEF IInv
      <3> QED BY <1>1, <3>1, <3>2 DEF RunInv
    <2> QED BY <2>1, <2>2, <2>3, <2>4 DEF IInv
  <1>2. CASE /\ Mark(r, IF last[r] = "completed" THEN "done" ELSE "open")
             /\ AskOrAccept(r) /\ UNCHANGED revising
    <2>1. revising' \in BOOLEAN
      BY <1>2 DEF IInv, Basic
    <2> QED BY <1>0, <1>2, <2>1, InvAsk
  <1>3. CASE Revise(r) /\ UNCHANGED revising
    <2>1. revising' \in BOOLEAN
      BY <1>3 DEF IInv, Basic
    <2> QED BY <1>0, <1>3, <2>1, InvRevise
  <1>4. CASE Abort(r, "failed") /\ UNCHANGED revising
    <2>1. revising' \in BOOLEAN
      BY <1>4 DEF IInv, Basic
    <2> QED BY <1>0, <1>4, <2>1, InvAbort
  <1> QED BY <1>1, <1>2, <1>3, <1>4 DEF GatesRun

(* An answer to a checkpoint: to continue, or to abort.                    *)
LEMMA InvAnswer ==
    ASSUME IInv, NEW r \in Runs, pc[r] = "asked", Continue(r) \/ AbortPhase(r),
           UNCHANGED childVars, UNCHANGED revising
    PROVE  IInv'
  <1>0. revising' \in BOOLEAN /\ UNCHANGED child
    BY DEF IInv, Basic, childVars
  <1>1. CASE Abort(r, "aborted")
    BY <1>0, <1>1, InvAbort
  <1>2. CASE Abort(r, "failed")
    BY <1>0, <1>2, InvAbort
  <1>3. CASE last[r] = "completed" /\ Accept(r) /\ UNCHANGED block
    <2>1. block[r][phase[r]] = "done"
      BY <1>3 DEF IInv, RunInv
    <2> QED BY <1>0, <1>3, <2>1, InvAccept
  <1> QED BY <1>1, <1>2, <1>3 DEF Continue, AbortPhase

(* The panel closes, its checkpoint answered with abort or not at all.     *)
LEMMA InvClose ==
    ASSUME IInv, Escape \/ Quit
    PROVE  IInv'
  <1>1. /\ Closed /\ UNCHANGED <<life, phase, revise, last, block, childVars>>
        /\ \/ UNCHANGED loopVars
           \/ /\ pending # NoRun /\ Revert(pending)
              /\ pc' = [pc EXCEPT ![pending] = "ended"]
              /\ \E v \in {"failed", "aborted"} : verdict' = [verdict EXCEPT ![pending] = v]
    BY DEF Escape, Quit, loopVars
  <1>2. Basic'
    <2>1. CASE UNCHANGED loopVars
      BY <1>1, <2>1 DEF IInv, Basic, Closed, childVars, loopVars
    <2>2. CASE /\ Revert(pending) /\ pc' = [pc EXCEPT ![pending] = "ended"]
               /\ \E v \in {"failed", "aborted"} : verdict' = [verdict EXCEPT ![pending] = v]
      <3>0. PICK v \in {"failed", "aborted"} : verdict' = [verdict EXCEPT ![pending] = v]
        BY <2>2
      <3>1. verdict' \in [Runs -> {"none", "completed", "failed", "aborted"}]
        BY <3>0 DEF IInv, Basic
      <3>3. todo' \in [Runs -> {"none", "open", "in_progress", "done"}]
        BY <2>2 DEF IInv, Basic, Revert
      <3>2. pc' \in [Runs -> {"idle", "enter", "spawn", "retry", "child", "judged", "asked",
                             "ended", "thrown"}]
        BY <2>2 DEF IInv, Basic
      <3> QED BY <1>1, <3>1, <3>2, <3>3 DEF IInv, Basic, Closed, childVars
    <2> QED BY <1>1, <2>1, <2>2
  <1>3. Shape' /\ PanelInv'
    BY <1>1 DEF IInv, Shape, PanelInv, PendingIsAsked, Closed, loopVars
  <1>4. ASSUME NEW q \in Runs PROVE RunInv(q)'
    <2>1. RunInv(q) /\ UNCHANGED <<life, phase, revise, last, block>>
      BY <1>1 DEF IInv
    <2>2. CASE UNCHANGED loopVars
      BY <2>1, <2>2 DEF RunInv, loopVars
    <2>3. CASE /\ pending # NoRun /\ Revert(pending)
               /\ pc' = [pc EXCEPT ![pending] = "ended"]
               /\ \E v \in {"failed", "aborted"} : verdict' = [verdict EXCEPT ![pending] = v]
      <3>1. pending \in Runs /\ pc[pending] = "asked"
        BY <2>3 DEF IInv, Basic, PanelInv, PendingIsAsked
      <3>2. CASE q = pending
        <4>1. /\ pc'[q] = "ended" /\ todo'[q] = "open" /\ verdict'[q] \in {"failed", "aborted"}
          BY <2>3, <3>1, <3>2 DEF IInv, Basic, Revert
        <4>2. verdict[q] = "none"
          BY <2>1, <3>1, <3>2 DEF RunInv
        <4> QED BY <2>1, <4>1, <4>2 DEF RunInv
      <3>3. CASE q # pending
        <4>1. pc'[q] = pc[q] /\ todo'[q] = todo[q] /\ verdict'[q] = verdict[q]
          BY <2>3, <3>3 DEF IInv, Basic, Revert
        <4> QED BY <2>1, <4>1 DEF RunInv
      <3> QED BY <3>2, <3>3
    <2> QED BY <1>1, <2>2, <2>3
  <1> QED BY <1>2, <1>3, <1>4 DEF IInv

(* Every step keeps the invariant.                                         *)
LEMMA InvNext == IInv /\ [Next]_vars => IInv'
  <1> SUFFICES ASSUME IInv, [Next]_vars PROVE IInv'
    OBVIOUS
  <1>1. ASSUME NEW r \in Runs, LoopStep(r) PROVE IInv'
    <2>1. CASE CallerDecides(r)
      <3>1. pc[r] = "asked" /\ (Continue(r) \/ AbortPhase(r)) /\ UNCHANGED <<revising, childVars>>
        BY <2>1 DEF CallerDecides
      <3> QED BY <3>1, InvAnswer
    <2> QED BY <1>1, <2>1, InvEnter, InvPhase, InvGates DEF LoopStep
  <1>2. ASSUME NEW r \in Runs, NEW l \in Lifecycles, Start(r, l) PROVE IInv'
    BY <1>2, InvStart
  <1>3. pending # NoRun => pending \in Runs /\ pc[pending] = "asked"
    BY DEF IInv, Basic, PanelInv, PendingIsAsked
  <1>4. CASE KeyContinue \/ KeyAbort
    <2>1. pending # NoRun /\ (Continue(pending) \/ AbortPhase(pending))
          /\ UNCHANGED <<revising, childVars>>
      BY <1>4 DEF KeyContinue, KeyAbort
    <2> QED BY <1>3, <2>1, InvAnswer
  <1>5. CASE SubmitFeedback /\ pending # NoRun
    <2>1. Revise(pending) /\ revising' \in BOOLEAN /\ UNCHANGED child
      BY <1>5 DEF SubmitFeedback, childVars
    <2> QED BY <1>3, <1>5, <2>1, InvRevise
  <1>6. CASE UNCHANGED <<loopVars, childVars, mine, pending>>
             /\ open' \in BOOLEAN /\ revising' \in BOOLEAN /\ (open => open')
    <2>1. Basic' /\ Shape' /\ PanelInv'
      BY <1>6 DEF IInv, Basic, Shape, PanelInv, PendingIsAsked, loopVars, childVars
    <2>2. ASSUME NEW q \in Runs PROVE RunInv(q)'
      BY <1>6 DEF IInv, RunInv, loopVars
    <2> QED BY <2>1, <2>2 DEF IInv
  <1>7. CASE OpenPanel \/ KeyRevise \/ (SubmitFeedback /\ pending = NoRun) \/ UNCHANGED vars
    <2>1. open \in BOOLEAN /\ revising \in BOOLEAN
      BY DEF IInv, Basic
    <2> QED BY <1>6, <1>7, <2>1
            DEF OpenPanel, KeyRevise, SubmitFeedback, vars, panelVars, loopVars, childVars
  <1>8. CASE Escape \/ Quit
    BY <1>8, InvClose
  <1> QED BY <1>1, <1>2, <1>4, <1>5, <1>7, <1>8 DEF Next, PanelStep

(* What the user sees of a lifecycle is where it is: its todo follows its  *)
(* verdict, its block its phase, and a key of the panel never answers a    *)
(* checkpoint that is no longer asked.                                     *)
THEOREM UserSeesTheRunHolds == Spec => []UserSeesTheRun
  <1>1. IInv => UserSeesTheRun
    <2> SUFFICES ASSUME IInv PROVE UserSeesTheRun
      OBVIOUS
    <2>1. TypeOK
      BY DEF IInv, Basic, RunInv, TypeOK
    <2>2. TodoFollowsVerdict
      BY DEF IInv, RunInv, TodoFollowsVerdict
    <2>3. BlockTellsProgress
      <3>1. ASSUME NEW q \in Runs PROVE RunInv(q) /\ DOMAIN block[q] = 1..Len(Phases[life[q]])
        BY DEF IInv, RunInv
      <3> QED BY <3>1 DEF RunInv, BlockTellsProgress
    <2>4. PendingIsAsked
      BY DEF IInv, PanelInv
    <2> QED BY <2>1, <2>2, <2>3, <2>4 DEF UserSeesTheRun
  <1> QED BY <1>1, InvInit, InvNext, PTL DEF Spec
-----------------------------------------------------------------------------
(* Lifecycle implements LifecyclePromise. *)

(* Only run r moves as far as the promise can tell.                        *)
Only(r) == \A q \in Runs \ {r} :
              UNCHANGED <<pc[q], phase[q], last[q], verdict[q], life[q]>>

(* The moves of a run that the promise allows.                             *)
Moves(r) ==
    \/ /\ State(r)' = State(r)
       /\ Accepted(r)' = Accepted(r) /\ Length(r)' = Length(r)
    \/ /\ State(r) = "idle" /\ State(r)' \in {"working", "stopped"}
       /\ Accepted(r)' = Accepted(r) /\ Length(r)' \in Nat \ {0}
    \/ /\ State(r) = "working" /\ State(r)' \in {"worked", "flawed"}
       /\ Accepted(r)' = Accepted(r) /\ Length(r)' = Length(r)
    \/ /\ State(r) \in {"worked", "flawed"} /\ State(r)' = "working"
       /\ Accepted(r)' = Accepted(r) /\ Length(r)' = Length(r)
    \/ /\ State(r) = "worked"
       /\ State(r)' = IF Accepted(r) + 1 = Length(r) THEN "completed" ELSE "working"
       /\ Accepted(r)' = Accepted(r) + 1 /\ Length(r)' = Length(r)
    \/ /\ State(r) \notin {"idle", "completed", "stopped"} /\ State(r)' = "stopped"
       /\ Accepted(r)' = Accepted(r) /\ Length(r)' = Length(r)

(* Such a move is a step of the promise, or none.                          *)
LEMMA MoveIsStep ==
    ASSUME NEW r \in Runs, Only(r), Moves(r)
    PROVE  [Promise!Next]_(Promise!promiseVars)
  <1> DEFINE S == [q \in Runs |-> State(q)]
             A == [q \in Runs |-> Accepted(q)]
             L == [q \in Runs |-> Length(q)]
  <1>1. /\ S' = [q \in Runs |-> State(q)'] /\ A' = [q \in Runs |-> Accepted(q)']
        /\ L' = [q \in Runs |-> Length(q)']
    OBVIOUS
  <1>2. \A q \in Runs \ {r} : State(q)' = State(q) /\ Accepted(q)' = Accepted(q)
                              /\ Length(q)' = Length(q)
    BY DEF Only, State, Accepted, Length
  <1>3. /\ S' = [S EXCEPT ![r] = State(r)'] /\ A' = [A EXCEPT ![r] = Accepted(r)']
        /\ L' = [L EXCEPT ![r] = Length(r)']
    BY <1>1, <1>2
  <1>4. S[r] = State(r) /\ A[r] = Accepted(r) /\ L[r] = Length(r) /\ L'[r] = Length(r)'
    BY <1>1
  <1>5. /\ Accepted(r)' = Accepted(r) => A' = A
        /\ Length(r)' = Length(r) => L' = L
        /\ State(r)' = State(r) => S' = S
    BY <1>1, <1>2
  <1>6. CASE Length(r)' = Length(r) /\ Accepted(r)' = Accepted(r) /\ State(r)' = State(r)
    BY <1>5, <1>6 DEF Promise!promiseVars
  <1>8. CASE State(r) = "idle" /\ State(r)' \in {"working", "stopped"}
             /\ Accepted(r)' = Accepted(r) /\ Length(r)' \in Nat \ {0}
    <2>1. S[r] = "idle" /\ A' = A
      BY <1>4, <1>5, <1>8
    <2>2. Promise!To(r, "working") \/ Promise!To(r, "stopped")
      BY <1>3, <1>8 DEF Promise!To
    <2>3. L'[r] \in Nat \ {0} /\ L' = [L EXCEPT ![r] = L'[r]]
      BY <1>3, <1>4, <1>8
    <2>4. Promise!Begin(r)
      BY ONLY <2>1, <2>2, <2>3 DEF Promise!Begin
    <2> QED BY <2>4 DEF Promise!Next
  <1>9. CASE /\ State(r) = "worked"
             /\ State(r)' = IF Accepted(r) + 1 = Length(r) THEN "completed" ELSE "working"
             /\ Accepted(r)' = Accepted(r) + 1 /\ Length(r)' = Length(r)
    <2>1. /\ S[r] = "worked" /\ A' = [A EXCEPT ![r] = A[r] + 1] /\ L' = L
          /\ S' = [S EXCEPT ![r] = IF A[r] + 1 = L[r] THEN "completed" ELSE "working"]
      BY <1>3, <1>4, <1>5, <1>9
    <2> QED BY <2>1 DEF Promise!Next, Promise!Accept, Promise!To
  <1>7. CASE Length(r)' = Length(r) /\ Accepted(r)' = Accepted(r) /\ State(r)' # State(r)
    <2>1. L' = L /\ A' = A
      BY <1>5, <1>7
    <2>3. CASE State(r) = "working" /\ State(r)' \in {"worked", "flawed"}
      <3>1. S[r] = "working" /\ (S' = [S EXCEPT ![r] = "worked"] \/ S' = [S EXCEPT ![r] = "flawed"])
        BY <1>3, <1>4, <2>3
      <3> QED BY <2>1, <3>1 DEF Promise!Next, Promise!Work, Promise!To
    <2>4. CASE State(r) \in {"worked", "flawed"} /\ State(r)' = "working"
      <3>1. S[r] \in {"worked", "flawed"} /\ S' = [S EXCEPT ![r] = "working"]
        BY <1>3, <1>4, <2>4
      <3> QED BY <2>1, <3>1 DEF Promise!Next, Promise!Redo, Promise!To
    <2>5. CASE State(r) \notin {"idle", "completed", "stopped"} /\ State(r)' = "stopped"
      <3>1. S[r] \notin {"idle", "completed", "stopped"} /\ S' = [S EXCEPT ![r] = "stopped"]
        BY <1>3, <1>4, <2>5
      <3>2. Promise!Stop(r)
        BY <2>1, <3>1 DEF Promise!Stop, Promise!To
      <3> QED BY <3>2 DEF Promise!Next
    <2> QED BY <1>7, <1>8, <1>9, <2>3, <2>4, <2>5 DEF Moves
  <1> QED BY <1>6, <1>7, <1>8, <1>9 DEF Moves

(* The end of a run that is not completed.                                 *)
LEMMA StopMoves ==
    ASSUME IInv, NEW r \in Runs, pc[r] \notin {"idle", "ended", "thrown"},
           pc' = [pc EXCEPT ![r] = "ended"], NEW v \in {"failed", "aborted"},
           verdict' = [verdict EXCEPT ![r] = v], UNCHANGED <<phase, last, life>>
    PROVE  Only(r) /\ Moves(r)
  <1>1. Only(r)
    BY DEF Only, IInv, Basic
  <1>2. pc'[r] = "ended" /\ verdict'[r] = v /\ verdict[r] = "none"
    BY DEF IInv, Basic, RunInv
  <1> QED BY <1>1, <1>2 DEF Moves, State, Accepted, Length

(* A phase is accepted after an attempt that succeeded.                    *)
LEMMA AcceptMoves ==
    ASSUME IInv, NEW r \in Runs, pc[r] \in {"judged", "asked"}, last[r] = "completed", Accept(r)
    PROVE  Only(r) /\ Moves(r)
  <1>1. Only(r)
    BY DEF Only, Accept, End, IInv, Basic, Shape
  <1>2. /\ verdict[r] = "none" /\ phase[r] \in 1..Length(r) /\ Length(r) \in Nat
        /\ Length(r)' = Length(r)
    BY LifecycleAssumption DEF IInv, Basic, RunInv, Length, Accept, End
  <1>3. State(r) = "worked" /\ Accepted(r) = phase[r] - 1
    BY <1>2 DEF State, Accepted
  <1>4. CASE Terminal(r)
    <2>1. State(r)' = "completed" /\ Accepted(r)' = Length(r) /\ phase[r] = Length(r)
      BY <1>4 DEF Accept, End, Terminal, State, Accepted, Length, IInv, Basic
    <2> QED BY <1>1, <1>2, <1>3, <2>1 DEF Moves
  <1>5. CASE ~Terminal(r)
    <2>1. /\ pc'[r] = "enter" /\ phase'[r] = phase[r] + 1 /\ verdict'[r] = "none"
          /\ phase[r] # Length(r)
      BY <1>2, <1>5 DEF Accept, Terminal, Length, IInv, Basic, Shape
    <2>2. State(r)' = "working" /\ Accepted(r)' = phase[r]
      BY <1>2, <2>1 DEF State, Accepted
    <2> QED BY <1>1, <1>2, <1>3, <2>1, <2>2 DEF Moves
  <1> QED BY <1>4, <1>5

(* A revision redoes the phase, or stops the lifecycle.                    *)
LEMMA ReviseMoves ==
    ASSUME IInv, NEW r \in Runs, pc[r] \in {"judged", "asked"}, Revise(r)
    PROVE  Only(r) /\ Moves(r)
  <1>1. CASE End(r, "failed")
    BY <1>1, StopMoves DEF Revise, End
  <1>2. CASE pc' = [pc EXCEPT ![r] = "spawn"] /\ UNCHANGED <<life, phase, verdict, last>>
    <2>1. Only(r) /\ pc'[r] = "spawn" /\ verdict[r] = "none"
      BY <1>2 DEF Only, IInv, Basic, RunInv
    <2>2. State(r) \in {"worked", "flawed"} /\ State(r)' = "working"
      BY <2>1 DEF State
    <2> QED BY <1>2, <2>1, <2>2 DEF Moves, Accepted, Length
  <1> QED BY <1>1, <1>2 DEF Revise

(* Up to its gates a run works, or fails to enter its phase.               *)
LEMMA PhaseMoves ==
    ASSUME IInv, NEW r \in Runs,
           \/ EnterPhase(r) \/ Spawn(r)
           \/ \E res \in Results, listed \in BOOLEAN : ChildEnds(r, res, listed)
    PROVE  Only(r) /\ Moves(r)
  <1>1. CASE EnterPhase(r) /\ End(r, "failed")
    <2>1. pc[r] = "enter" /\ UNCHANGED last
      BY <1>1 DEF EnterPhase, End, IInv, Basic
    <2> QED BY <1>1, <2>1, StopMoves DEF End
  <1>2. CASE /\ pc[r] \in {"enter", "spawn", "retry", "child"}
             /\ pc' = [pc EXCEPT ![r] = "judged"] \/ \E s \in {"spawn", "retry", "child"} :
                                                        pc' = [pc EXCEPT ![r] = s]
             /\ UNCHANGED <<life, phase, verdict>> /\ \A q \in Runs \ {r} : last'[q] = last[q]
    <2>1. Only(r)
      BY <1>2 DEF Only, IInv, Basic
    <2>2. State(r) = "working" /\ State(r)' \in {"working", "worked", "flawed"}
      BY <1>2 DEF State, IInv, Basic
    <2>3. Accepted(r)' = Accepted(r) /\ Length(r)' = Length(r)
      BY <1>2 DEF Accepted, Length
    <2> QED BY <2>1, <2>2, <2>3 DEF Moves
  <1>3. \A q \in Runs \ {r} : last'[q] = last[q]
    BY DEF EnterPhase, Spawn, ChildEnds, Judged, IInv, Basic
  <1> QED BY <1>1, <1>2, <1>3 DEF EnterPhase, Spawn, ChildEnds, Judged

(* A lifecycle begins.                                                     *)
LEMMA StartMoves ==
    ASSUME IInv, NEW r \in Runs, NEW l \in Lifecycles, Start(r, l)
    PROVE  Only(r) /\ Moves(r)
  <1>1. Only(r)
    BY DEF Only, Start, IInv, Basic
  <1>2. /\ pc[r] = "idle" /\ verdict[r] = "none" /\ phase'[r] = phase[r]
        /\ \/ pc'[r] = "enter" /\ verdict'[r] = "none"
           \/ pc'[r] = "ended" /\ verdict'[r] = "failed"
    BY DEF Start, IInv, Basic, RunInv
  <1>3. Length(r)' \in Nat \ {0}
    BY LifecycleAssumption DEF Start, IInv, Basic, Length
  <1> QED BY <1>1, <1>2, <1>3 DEF Moves, State, Accepted

(* The gates pass an attempt, ask about it, redo it or stop the lifecycle. *)
LEMMA GatesMove ==
    ASSUME IInv, NEW r \in Runs, NEW failed, GatesRun(r, failed)
    PROVE  Only(r) /\ Moves(r)
  <1>0. pc[r] = "judged"
    BY DEF GatesRun
  <1>1. CASE /\ \E s \in {"thrown", "asked"} : pc' = [pc EXCEPT ![r] = s]
             /\ UNCHANGED <<life, phase, last, verdict>>
    <2>1. Only(r) /\ pc'[r] \in {"thrown", "asked"} /\ verdict[r] = "none"
      BY <1>0, <1>1 DEF Only, IInv, Basic, RunInv
    <2> QED BY <1>0, <1>1, <2>1 DEF Moves, State, Accepted, Length
  <1>2. CASE last[r] = "completed" /\ Accept(r)
    BY <1>0, <1>2, AcceptMoves
  <1>3. CASE Revise(r)
    BY <1>0, <1>3, ReviseMoves
  <1>4. CASE Abort(r, "failed")
    BY <1>0, <1>4, StopMoves DEF Abort, End
  <1> QED BY <1>1, <1>2, <1>3, <1>4 DEF GatesRun, AskOrAccept

(* An answer accepts the phase, if it did not fail, or stops the lifecycle.*)
LEMMA AnswerMoves ==
    ASSUME IInv, NEW r \in Runs, pc[r] = "asked", Continue(r) \/ AbortPhase(r)
    PROVE  Only(r) /\ Moves(r)
  <1>1. CASE last[r] = "completed" /\ Accept(r)
    BY <1>1, AcceptMoves
  <1>2. CASE \E v \in {"failed", "aborted"} : Abort(r, v)
    BY <1>2, StopMoves DEF Abort, End
  <1> QED BY <1>1, <1>2 DEF Continue, AbortPhase

(* Every step is a step of the promise, or invisible to it.                *)
LEMMA PromiseNext == IInv /\ [Next]_vars => [Promise!Next]_(Promise!promiseVars)
  <1> SUFFICES ASSUME IInv, [Next]_vars PROVE [Promise!Next]_(Promise!promiseVars)
    OBVIOUS
  <1>1. ASSUME NEW r \in Runs, LoopStep(r) PROVE Only(r) /\ Moves(r)
    <2>1. CASE CallerDecides(r)
      BY <2>1, AnswerMoves DEF CallerDecides
    <2> QED BY <1>1, <2>1, PhaseMoves, GatesMove DEF LoopStep
  <1>2. pending # NoRun => pending \in Runs /\ pc[pending] = "asked"
    BY DEF IInv, Basic, PanelInv, PendingIsAsked
  <1>3. CASE KeyContinue \/ KeyAbort
    BY <1>2, <1>3, AnswerMoves, MoveIsStep DEF KeyContinue, KeyAbort
  <1>4. CASE SubmitFeedback /\ pending # NoRun
    BY <1>2, <1>4, ReviseMoves, MoveIsStep DEF SubmitFeedback
  <1>5. CASE Escape /\ pending # NoRun
    <2>1. /\ pc' = [pc EXCEPT ![pending] = "ended"]
          /\ \E v \in {"failed", "aborted"} : verdict' = [verdict EXCEPT ![pending] = v]
          /\ UNCHANGED <<phase, last, life>>
      BY <1>5 DEF Escape
    <2> QED BY <1>2, <1>5, <2>1, StopMoves, MoveIsStep
  <1>6. CASE UNCHANGED loopVars
    <2>1. UNCHANGED <<[q \in Runs |-> State(q)], [q \in Runs |-> Accepted(q)],
                      [q \in Runs |-> Length(q)]>>
      BY <1>6 DEF loopVars, State, Accepted, Length
    <2> QED BY <2>1 DEF Promise!promiseVars, Length
  <1>7. CASE OpenPanel \/ KeyRevise \/ (SubmitFeedback /\ pending = NoRun) \/ UNCHANGED vars
             \/ (Escape /\ pending = NoRun) \/ Quit
    BY <1>6, <1>7 DEF OpenPanel, KeyRevise, SubmitFeedback, vars, Escape, Quit
  <1> QED BY <1>1, <1>3, <1>4, <1>5, <1>7, StartMoves, MoveIsStep DEF Next, PanelStep

(* A lifecycle keeps its promise: its phases are accepted in their order,  *)
(* each after an attempt that succeeded, and it completes when all are,    *)
(* whatever its gates, its panel and its user do.                          *)
THEOREM PromiseKept == Spec => KeepsPromise
  <1>1. Init => Promise!Init
    <2> SUFFICES ASSUME Init PROVE Promise!Init
      OBVIOUS
    <2>1. \A q \in Runs : State(q) = "idle" /\ Accepted(q) = 0 /\ Length(q) \in Nat
      BY InvInit, LifecycleAssumption DEF Init, IInv, Basic, State, Accepted, Length
    <2> QED BY <2>1 DEF Promise!Init, Length
  <1> QED BY <1>1, InvInit, InvNext, PromiseNext, PTL DEF Spec, KeepsPromise, Promise!Spec

-----------------------------------------------------------------------------
(* The models a child works on. *)

(* A model that the chain of a tier may hold.                              *)
Allows(tier, m) == \/ m = Parent /\ Contains(tier.models, Inherit)
                   \/ Contains(tier.models, m) /\ Eligible(m, tier.floor)

(* A set of naturals with an element has a least one.                      *)
LEMMA LeastOf ==
    ASSUME NEW S, S \subseteq Nat, S # {}
    PROVE  \E x \in S : \A y \in S : x <= y
  <1>1. \E x \in S : \A y \in S : ~(<<y, x>> \in OpToRel(<, Nat))
    BY NatLessThanWellFounded, WFMin
  <1>2. OpToRel(<, Nat) = {ss \in Nat \X Nat : ss[1] < ss[2]}
    BY DEF OpToRel
  <1>3. PICK x \in S : \A y \in S : ~(<<y, x>> \in OpToRel(<, Nat))
    BY <1>1
  <1>4. ASSUME NEW y \in S PROVE x <= y
    <2>1. ~(y < x) /\ x \in Nat /\ y \in Nat
      BY <1>2, <1>3
    <2> QED BY <2>1
  <1> QED BY <1>4

(* The models of a tier, one after the other, make a chain of allowed ones.*)
LEMMA CandidatesAllowed ==
    ASSUME NEW tier, Len(tier.models) \in Nat
    PROVE  \A j \in DOMAIN Candidates(tier) : Allows(tier, Candidates(tier)[j])
  <1> DEFINE n == Len(tier.models)
             Good == {m \in DOMAIN Window \cup {Parent} : Allows(tier, m)}
             Made(g, i) == IF i = 0 THEN <<>> ELSE AddModel(g[i - 1], tier.models[i], tier.floor)
             Has(g, k) == g = [i \in 0..k |-> Made(g, i)]
             F == CHOOSE g : Has(g, n)
  <1>1. Candidates(tier) = F[n]
    BY DEF Candidates
  <1>2. \A k \in 0..n : \E g : Has(g, k)
    <2> DEFINE Bad == {k \in 0..n : ~\E g : Has(g, k)}
    <2> SUFFICES ASSUME Bad # {} PROVE FALSE
      OBVIOUS
    <2>0. Bad \subseteq Nat
      OBVIOUS
    <2>1. PICK k \in Bad : \A y \in Bad : k <= y
      <3> HIDE DEF Bad
      <3> QED BY <2>0, LeastOf
    <2>2. CASE k = 0
      <3>1. Has([i \in 0..0 |-> <<>>], 0)
        OBVIOUS
      <3> QED BY <2>1, <2>2, <3>1
    <2>3. CASE k # 0
      <3>1. k - 1 \in 0..n /\ ~(k <= k - 1) /\ k \in Nat
        BY <2>1, <2>3
      <3>2. PICK g : Has(g, k - 1)
        BY <2>1, <3>1
      <3> DEFINE h == [i \in 0..k |-> IF i = k THEN Made(g, k) ELSE g[i]]
      <3>3. ASSUME NEW i \in 0..k PROVE h[i] = Made(h, i)
        <4>1. CASE i = 0
          BY <2>3, <3>1, <3>2, <4>1
        <4>2. CASE i # 0
          <5>1. i - 1 \in 0..k /\ i - 1 # k /\ h[i - 1] = g[i - 1]
            BY <3>1, <4>2
          <5>2. h[i] = Made(g, i)
            BY <3>1, <3>2, <4>2
          <5> QED BY <4>2, <5>1, <5>2
        <4> QED BY <4>1, <4>2
      <3>4. h = [i \in 0..k |-> h[i]]
        OBVIOUS
      <3> HIDE DEF h
      <3>5. Has(h, k)
        BY <3>3, <3>4
      <3> QED BY <2>1, <3>5
    <2> QED BY <2>2, <2>3
  <1>3. Has(F, n)
    <2>1. n \in 0..n
      OBVIOUS
    <2> HIDE DEF Has, n
    <2>2. \E g : Has(g, n)
      BY <1>2, <2>1
    <2> QED BY <2>2
  <1> HIDE DEF F
  <1>4. ASSUME NEW i \in 0..n PROVE F[i] \in Seq(Good)
    <2> DEFINE Bad == {k \in 0..n : F[k] \notin Seq(Good)}
    <2> SUFFICES ASSUME Bad # {} PROVE FALSE
      OBVIOUS
    <2>0. Bad \subseteq Nat
      OBVIOUS
    <2>1. PICK k \in Bad : \A y \in Bad : k <= y
      <3> HIDE DEF Bad
      <3> QED BY <2>0, LeastOf
    <2>2. F[k] = Made(F, k)
      BY <1>3, <2>1
    <2>3. CASE k = 0
      <3>1. Made(F, k) = <<>> /\ <<>> \in Seq(Good)
        BY <2>3
      <3>2. F[k] \notin Seq(Good)
        BY <2>1
      <3> HIDE DEF Made, Good
      <3> QED BY <2>2, <3>1, <3>2
    <2>4. CASE k # 0
      <3>1. k - 1 \in 0..n /\ ~(k <= k - 1) /\ k \in 1..n
        BY <2>1, <2>4
      <3>2. F[k - 1] \in Seq(Good)
        BY <2>1, <3>1
      <3>3. Contains(tier.models, tier.models[k])
        BY <3>1 DEF Contains
      <3>4. AddModel(F[k - 1], tier.models[k], tier.floor) \in Seq(Good)
        <4>1. CASE tier.models[k] = Inherit
          <5>1. Parent \in Good
            BY <3>3, <4>1 DEF Allows
          <5> QED BY <3>2, <4>1, <5>1 DEF AddModel
        <4>2. CASE tier.models[k] # Inherit /\ Eligible(tier.models[k], tier.floor)
          <5>1. tier.models[k] \in Good
            BY <3>3, <4>2 DEF Allows, Eligible
          <5> QED BY <3>2, <4>2, <5>1 DEF AddModel
        <4>3. CASE tier.models[k] # Inherit /\ ~Eligible(tier.models[k], tier.floor)
          BY <3>2, <4>3 DEF AddModel
        <4> QED BY <4>1, <4>2, <4>3
      <3> QED BY <2>1, <2>2, <2>4, <3>4
    <2> QED BY <2>3, <2>4
  <1>5. F[n] \in Seq(Good)
    BY <1>4
  <1>6. ASSUME NEW j \in DOMAIN F[n] PROVE Allows(tier, F[n][j])
    BY <1>5
  <1> QED BY <1>1, <1>6

(* What ModelAllowed says of one run, and where its child is.              *)
ChildAllowed(r) ==
    \/ model[r] = Fallback(r) /\ child[r] = "retryable"
    \/ Def(r).agent.tier = NoTier /\ model[r] \in {Def(r).agent.model, Parent}
    \/ /\ Def(r).agent.tier \in DOMAIN Tiers(r)
       /\ Allows(Tiers(r)[Def(r).agent.tier], model[r])

ModelInv ==
    /\ model = [q \in Runs |-> model[q]]
    /\ \A q \in Runs : model[q] # NoModel => pc[q] = "child" /\ ChildAllowed(q)

(* The models that a dispatch tries are those that its agent allows.       *)
LEMMA ChainAllowed ==
    ASSUME NEW agent, NEW asked, NEW tiers,
           \A t \in DOMAIN tiers : Len(tiers[t].models) \in Nat,
           NEW i \in DOMAIN Resolve(agent, asked, tiers)
    PROVE  LET m == Resolve(agent, asked, tiers)[i] IN
           \/ asked # NoModel /\ m = asked
           \/ asked = NoModel /\ agent.tier = NoTier /\ m \in {agent.model, Parent}
           \/ /\ asked = NoModel /\ agent.tier \in DOMAIN tiers
              /\ Allows(tiers[agent.tier], m)
  <1>1. CASE asked # NoModel
    BY <1>1 DEF Resolve
  <1>2. CASE asked = NoModel /\ agent.tier = NoTier
    BY <1>2 DEF Resolve
  <1>3. CASE asked = NoModel /\ agent.tier # NoTier /\ agent.tier \in DOMAIN tiers
    <2>1. Resolve(agent, asked, tiers) = Candidates(tiers[agent.tier])
      BY <1>3 DEF Resolve
    <2>2. Len(tiers[agent.tier].models) \in Nat
      BY <1>3
    <2> QED BY <1>3, <2>1, <2>2, CandidatesAllowed
  <1>4. CASE asked = NoModel /\ agent.tier # NoTier /\ agent.tier \notin DOMAIN tiers
    BY <1>4 DEF Resolve
  <1> QED BY <1>1, <1>2, <1>3, <1>4

LEMMA TiersTyped ==
    ASSUME NEW r, NEW t \in DOMAIN Tiers(r)
    PROVE  Len(Tiers(r)[t].models) \in Nat
  <1>1. CASE Caller[life[r]] = "panel"
    BY <1>1 DEF Tiers
  <1>2. CASE Caller[life[r]] # "panel"
    BY <1>2, LifecycleAssumption DEF Tiers, AllTiers, MergeTiers
  <1> QED BY <1>1, <1>2

(* Def and Fallback of a run follow its definition and its phase.          *)
LEMMA SameChild ==
    ASSUME NEW q, life'[q] = life[q], phase'[q] = phase[q], model'[q] = model[q],
           child'[q] = child[q], ChildAllowed(q)
    PROVE  ChildAllowed(q)'
  <1>1. Def(q)' = Def(q) /\ Tiers(q)' = Tiers(q) /\ Fallback(q)' = Fallback(q)
    BY DEF Def, Tiers, Fallback
  <1> QED BY <1>1 DEF ChildAllowed

(* A step that leaves the children alone starts at no run with a child.    *)
LEMMA ModelKept ==
    ASSUME IInv, ModelInv, UNCHANGED childVars,
           \A q \in Runs : pc[q] = "child" => /\ pc'[q] = pc[q] /\ life'[q] = life[q]
                                              /\ phase'[q] = phase[q]
    PROVE  ModelInv'
  <1>1. model' = model /\ child' = child
    BY DEF childVars
  <1>2. ASSUME NEW q \in Runs, model'[q] # NoModel PROVE pc'[q] = "child" /\ ChildAllowed(q)'
    <2>1. pc[q] = "child" /\ ChildAllowed(q)
      BY <1>1, <1>2 DEF ModelInv
    <2> QED BY <1>1, <2>1, SameChild
  <1> QED BY <1>1, <1>2 DEF ModelInv

(* A child starts on a model of its chain, or on the fallback.             *)
LEMMA ModelSpawn ==
    ASSUME IInv, ModelInv, NEW r \in Runs, Spawn(r)
    PROVE  ModelInv'
  <1> DEFINE asked == IF pc[r] = "retry" THEN Fallback(r) ELSE NoModel
             chain == Resolve(Def(r).agent, asked, Tiers(r))
  <1>0. UNCHANGED <<life, phase>> /\ model = [q \in Runs |-> model[q]]
    BY DEF Spawn, ModelInv
  <1>1. PICK m : /\ model' = [model EXCEPT ![r] = m]
                 /\ \/ m = NoModel
                    \/ /\ \E i \in DOMAIN chain : m = chain[i]
                       /\ pc'[r] = "child"
                       /\ child'[r] = IF asked = NoModel THEN "none" ELSE "retryable"
    <2>1. pc \in [Runs -> {"idle", "enter", "spawn", "retry", "child", "judged", "asked",
                           "ended", "thrown"}] /\ DOMAIN child = Runs
      BY DEF IInv, Basic
    <2>2. CASE Judged(r, "failed", FALSE)
      BY <2>2 DEF Judged
    <2>3. CASE /\ \E i \in DOMAIN chain : model' = [model EXCEPT ![r] = chain[i]]
               /\ pc' = [pc EXCEPT ![r] = "child"]
               /\ child' = [child EXCEPT ![r] = IF asked = NoModel THEN "none" ELSE "retryable"]
      BY <2>1, <2>3
    <2> QED BY <2>2, <2>3 DEF Spawn
  <1>2. \A q \in Runs \ {r} : pc'[q] = pc[q] /\ child'[q] = child[q] /\ model'[q] = model[q]
    BY <1>1 DEF Spawn, Judged, IInv, Basic
  <1>3. model' = [q \in Runs |-> model'[q]] /\ model'[r] = m
    BY <1>0, <1>1
  <1>4. ASSUME NEW q \in Runs \ {r}, model'[q] # NoModel
        PROVE  pc'[q] = "child" /\ ChildAllowed(q)'
    BY <1>0, <1>2, <1>4, SameChild DEF ModelInv
  <1>5. ASSUME m # NoModel PROVE pc'[r] = "child" /\ ChildAllowed(r)'
    <2>1. Def(r)' = Def(r) /\ Tiers(r)' = Tiers(r) /\ Fallback(r)' = Fallback(r)
      BY <1>0 DEF Def, Tiers, Fallback
    <2>2. PICK i \in DOMAIN chain : m = chain[i]
      BY <1>1, <1>5
    <2>3. \/ asked # NoModel /\ m = asked
          \/ asked = NoModel /\ Def(r).agent.tier = NoTier /\ m \in {Def(r).agent.model, Parent}
          \/ /\ asked = NoModel /\ Def(r).agent.tier \in DOMAIN Tiers(r)
             /\ Allows(Tiers(r)[Def(r).agent.tier], m)
      <3> HIDE DEF asked
      <3> QED BY <2>2, TiersTyped, ChainAllowed
    <2>4. pc'[r] = "child" /\ child'[r] = IF asked = NoModel THEN "none" ELSE "retryable"
      BY <1>1, <1>5
    <2> QED BY <1>3, <2>1, <2>3, <2>4 DEF ChildAllowed
  <1> QED BY <1>3, <1>4, <1>5 DEF ModelInv

(* With its child the model of a run is gone.                              *)
LEMMA ModelEnds ==
    ASSUME IInv, ModelInv, NEW r \in Runs, NEW res, NEW listed, ChildEnds(r, res, listed)
    PROVE  ModelInv'
  <1>1. /\ model' = [model EXCEPT ![r] = NoModel] /\ UNCHANGED <<life, phase>>
        /\ \A q \in Runs \ {r} : pc'[q] = pc[q] /\ child'[q] = child[q]
    BY DEF ChildEnds, Judged, IInv, Basic
  <1>2. ASSUME NEW q \in Runs, model'[q] # NoModel PROVE pc'[q] = "child" /\ ChildAllowed(q)'
    <2>1. q # r /\ model'[q] = model[q]
      BY <1>1, <1>2 DEF ModelInv
    <2> QED BY <1>1, <1>2, <2>1, SameChild DEF ModelInv
  <1> QED BY <1>1, <1>2 DEF ModelInv

(* Only run r moves.                                                       *)
Away(r) == \A q \in Runs \ {r} : pc'[q] = pc[q] /\ life'[q] = life[q] /\ phase'[q] = phase[q]

LEMMA StepAway ==
    ASSUME IInv, NEW r \in Runs,
           \/ EnterPhase(r) \/ CallerDecides(r)
           \/ \E failed \in SUBSET DOMAIN Def(r).gates : GatesRun(r, failed)
           \/ \E l \in Lifecycles : Start(r, l)
           \/ r = pending /\ pending # NoRun
              /\ (KeyContinue \/ KeyAbort \/ SubmitFeedback \/ Escape)
    PROVE  Away(r)
  <1>1. Only(r) => Away(r)
    BY DEF Only, Away
  <1>2. CASE CallerDecides(r)
    BY <1>1, <1>2, AnswerMoves DEF CallerDecides
  <1>3. CASE r = pending /\ pending # NoRun
             /\ (KeyContinue \/ KeyAbort \/ SubmitFeedback \/ Escape)
    <2>1. pc[r] = "asked"
      BY <1>3 DEF IInv, PanelInv, PendingIsAsked
    <2>2. CASE KeyContinue \/ KeyAbort
      BY <1>1, <1>3, <2>1, <2>2, AnswerMoves DEF KeyContinue, KeyAbort
    <2>3. CASE SubmitFeedback
      BY <1>1, <1>3, <2>1, <2>3, ReviseMoves DEF SubmitFeedback
    <2>4. CASE Escape
      BY <1>3, <2>4 DEF Escape, Away, IInv, Basic
    <2> QED BY <1>3, <2>2, <2>3, <2>4
  <1> QED BY <1>1, <1>2, <1>3, PhaseMoves, GatesMove, StartMoves

(* Every step keeps the children on models they are allowed.               *)
LEMMA ModelNext == IInv /\ ModelInv /\ [Next]_vars => ModelInv'
  <1> SUFFICES ASSUME IInv, ModelInv, [Next]_vars PROVE ModelInv'
    OBVIOUS
  <1>1. ASSUME NEW r \in Runs, pc[r] # "child", UNCHANGED childVars, Away(r) PROVE ModelInv'
    BY <1>1, ModelKept DEF Away
  <1>2. ASSUME NEW r \in Runs, LoopStep(r) PROVE ModelInv'
    <2>1. CASE EnterPhase(r) \/ \E failed \in SUBSET DOMAIN Def(r).gates : GatesRun(r, failed)
               \/ CallerDecides(r)
      <3>1. pc[r] # "child" /\ UNCHANGED childVars
        BY <2>1 DEF EnterPhase, GatesRun, CallerDecides
      <3>2. Away(r)
        BY <2>1, StepAway
      <3> QED BY <1>1, <3>1, <3>2
    <2> QED BY <1>2, <2>1, ModelSpawn, ModelEnds DEF LoopStep
  <1>3. ASSUME NEW r \in Runs, NEW l \in Lifecycles, Start(r, l) PROVE ModelInv'
    <2>1. pc[r] # "child" /\ UNCHANGED childVars
      BY <1>3 DEF Start
    <2> QED BY <1>1, <1>3, <2>1, StepAway
  <1>4. pending # NoRun => pending \in Runs /\ pc[pending] = "asked"
    BY DEF IInv, Basic, PanelInv, PendingIsAsked
  <1>5. CASE pending # NoRun /\ (KeyContinue \/ KeyAbort \/ SubmitFeedback \/ Escape)
    <2>1. UNCHANGED childVars
      BY <1>5 DEF KeyContinue, KeyAbort, SubmitFeedback, Escape
    <2> QED BY <1>1, <1>4, <1>5, <2>1, StepAway
  <1>6. CASE UNCHANGED <<loopVars, childVars>>
    BY <1>6, ModelKept DEF loopVars
  <1>7. CASE PanelStep /\ ~(pending # NoRun /\ (KeyContinue \/ KeyAbort \/ SubmitFeedback \/ Escape))
    BY <1>6, <1>7 DEF PanelStep, OpenPanel, KeyContinue, KeyAbort, KeyRevise, SubmitFeedback,
                      Escape, Quit
  <1>8. CASE UNCHANGED vars
    BY <1>6, <1>8 DEF vars
  <1> QED BY <1>2, <1>3, <1>5, <1>7, <1>8 DEF Next

(* A child works on a model that its agent's chain allows, in the catalog  *)
(* and large enough for the tier, on the session's where the tier names    *)
(* it, or on the fallback if it is a retry: whatever the definitions, the  *)
(* tiers, the catalog and the answers at the checkpoints are.              *)
THEOREM ModelAllowedHolds == Spec => []ModelAllowed
  <1>1. Init => ModelInv
    BY DEF Init, ModelInv
  <1>2. ModelInv => ModelAllowed
    BY DEF ModelInv, ChildAllowed, Allows, Eligible, ModelAllowed
  <1> QED BY <1>1, <1>2, InvInit, InvNext, ModelNext, PTL DEF Spec
=============================================================================
