--------------------------- MODULE Workflow_proofs ---------------------------
(***************************************************************************)
(* Theorems about Workflow, for every script, every number of runs,        *)
(* branches, workers, slots and retries, and every budget.                 *)
(***************************************************************************)
EXTENDS Workflow, FiniteSetTheorems, WellFoundedInduction, TLAPS

-----------------------------------------------------------------------------
(* The inductive invariant. *)

(* A branch is in a call, or on its way to the next one. *)
Active(r, b) == pc[r][b] \notin {"idle", "done", "dead", "lost"}

(* ... and its call is the last pending entry of the journal that is its.  *)
Holds(r, b) == \/ pc[r][b] \in {"child", "phase", "wrapping", "asked"}
               \/ pc[r][b] \in {"gated", "free"} /\ Kind(r, b) # "checkpoint"

Statuses == {"none", "running", "paused", "checkpoint", "completed", "aborted"}
Hydrations == {"none", "completed", "aborted", "interrupted"}
Places   == {"idle", "next", "gated", "free", "rejected", "child", "phase", "wrapping", "asked",
             "done", "dead", "lost"}
States   == {"pending", "completed", "failed", "given", "undefined"}
CallSet  == [kind : Kinds, prompt : Prompts, st : States, via : {"child", "cache", "default", "human"}]
Verdicts == {"completed", "aborted"}

ControlTypes == /\ status \in [Runs -> Statuses] /\ main \in [Runs -> {"none", "on", "over", "lost"}]
                /\ source \in [Runs -> Sources] /\ resumeOf \in [Runs -> Runs \cup {NoRun}]
                /\ ctrl \in [Runs -> BOOLEAN] /\ signal \in [Runs -> BOOLEAN]
                /\ paused \in [Runs -> BOOLEAN] /\ resolver \in [Runs -> Branches \cup {NoBranch}]
                /\ inbox \subseteq Runs
SessionTypes == /\ session \in Sessions /\ home \in [Runs -> Sessions]
                /\ foreground \in [Runs -> BOOLEAN] /\ hydrated \in [Runs -> Hydrations]
                /\ blind \subseteq Runs
BranchTypes == /\ pc \in [Runs -> [Branches -> Places]]
               /\ step \in [Runs -> [Branches -> Nat \ {0}]]
               /\ idx \in [Runs -> [Branches -> Nat]]
               /\ attempt \in [Runs -> [Branches -> 0..Retries]]
JournalTypes == /\ calls \in [Runs -> Seq(CallSet)] /\ ended \in [Runs -> Seq(Verdicts)]
                /\ agentCount \in [Runs -> 0..MaxAgents] /\ spent \in [Runs -> Nat]
                /\ worktree \subseteq Runs \X Branches
PoolTypes == /\ queue \in [Sessions -> Seq(Callers)]
             /\ working \subseteq Callers /\ woken \subseteq Callers

(* A run that nobody has started is as it was.                             *)
Unstarted(r) == /\ status[r] = "none" /\ ~signal[r] /\ ~paused[r] /\ resolver[r] = NoBranch
                /\ ended[r] = <<>> /\ calls[r] = <<>> /\ spent[r] = 0 /\ hydrated[r] = "none"
                /\ \A b \in Branches : pc[r][b] = "idle"

(* Who is stopped, held or asked knows it, and the list shows it.          *)
Controlled(r) == /\ (main[r] = "none" => Unstarted(r))
                 /\ (ctrl[r] => main[r] = "on")
                 /\ (main[r] = "on" => ctrl[r] \/ signal[r])
                 /\ (main[r] = "on" => (signal[r] <=> status[r] = "aborted"))
                 /\ (main[r] = "on" => (paused[r] <=> status[r] = "paused"))
                 /\ (paused[r] => \A b \in Branches : pc[r][b] # "free")
                 /\ (resolver[r] # NoBranch => pc[r][resolver[r]] = "asked")

(* A branch at work has a call in the script. *)
InScript(r) == /\ \A b \in Branches : Active(r, b) =>
                     /\ b \in 1..Width(r) /\ step[r][b] \in 1..Len(Script[source[r]][b])
                     /\ (pc[r][b] = "asked" => Kind(r, b) = "checkpoint")
                     /\ (pc[r][b] \in {"child", "phase", "wrapping"} => Kind(r, b) # "checkpoint")
               /\ \A b \in Branches : pc[r][b] = "idle" => step[r][b] = 1
               /\ (main[r] = "on" \/ (\E b \in Branches : Active(r, b))) =>
                     \A b \in Branches : b > Width(r) => pc[r][b] = "done"
               /\ (main[r] \in {"none", "lost"} => \A b \in Branches : pc[r][b] \in {"idle", "lost"})

(* The calls under way are pending in the journal, each at its own place.  *)
Pending(r) == /\ \A b \in Branches : Holds(r, b) =>
                    /\ idx[r][b] \in 1..Len(calls[r])
                    /\ calls[r][idx[r][b]].st = "pending"
                    /\ calls[r][idx[r][b]].kind = Kind(r, b)
              /\ \A b, c \in Branches : Holds(r, b) /\ Holds(r, c) /\ idx[r][b] = idx[r][c] => b = c
              /\ \A i \in 1..Len(calls[r]) : calls[r][i].kind \in AgentKinds =>
                    calls[r][i].st \in {"pending", "completed", "failed"}

(* An answer from the cache is that of an old call that had ended.         *)
Cached(r) == \A i \in 1..Len(calls[r]) :
                calls[r][i].via = "cache" /\ calls[r][i].kind \in AgentKinds =>
                    /\ resumeOf[r] # NoRun /\ i \in 1..Len(calls[resumeOf[r]])
                    /\ calls[resumeOf[r]][i].prompt = calls[r][i].prompt
                    /\ calls[resumeOf[r]][i].st = calls[r][i].st
                    /\ calls[r][i].st \in {"completed", "failed"}

(* What the store of its session may show of a run. *)
Listed(r) == /\ (main[r] = "on" => status[r] \in {"running", "paused", "checkpoint", "aborted"})
             /\ (main[r] = "on" /\ status[r] = "checkpoint" => resolver[r] # NoBranch)
             /\ (main[r] # "on" => status[r] \in {"none", "checkpoint", "completed", "aborted"})
             /\ (main[r] = "lost" => status[r] = "none")

(* A run has at most one verdict, and it is the one that every list shows, *)
(* unless it was stopped as interrupted while it was not dead.             *)
OneVerdict(r) == ended[r] = <<>> \/ \E v \in Verdicts : ToSet(ended[r]) = {v}
Judged(r) == r \notin blind =>
             /\ OneVerdict(r)
             /\ (main[r] = "on" => ended[r] = <<>>)
             /\ (main[r] # "on" =>
                    /\ (status[r] \in {"completed", "aborted"} => ToSet(ended[r]) = {status[r]})
                    /\ (status[r] = "checkpoint" \/ (\E b \in Branches : Active(r, b)) =>
                           ToSet(ended[r]) = {"aborted"}))
             /\ (hydrated[r] \in {"completed", "aborted"} => ToSet(ended[r]) = {hydrated[r]})
             /\ (hydrated[r] = "interrupted" /\ main[r] = "lost" => ended[r] = <<>>)

(* The branches that may still add a token without a look at the budget.   *)
Counted(r) == {b \in Branches : \/ pc[r][b] \in {"child", "phase", "wrapping"}
                                \/ pc[r][b] \in {"gated", "free"} /\ Kind(r, b) = "lifecycle"}
Bounded(r) == spent[r] + Cardinality(Counted(r)) < Budget + Width(r)

TypeInv == ControlTypes /\ BranchTypes /\ JournalTypes /\ PoolTypes /\ SessionTypes
Fine(r) == /\ Controlled(r) /\ InScript(r) /\ Pending(r) /\ Cached(r)
           /\ Listed(r) /\ Judged(r) /\ Bounded(r)
IInv == TypeInv /\ (\A r \in Runs : Fine(r)) /\ WorktreesInUse

LEMMA TypeInvMeans == TypeInv => TypeOK
  <1> SUFFICES ASSUME TypeInv PROVE TypeOK
    OBVIOUS
  <1>1. /\ \A p \in Sessions : queue[p] \in Seq(Callers)
        /\ working \subseteq Callers /\ woken \subseteq Callers
    BY DEF TypeInv, PoolTypes
  <1>2. \A p \in Sessions : ToSet(queue[p]) \subseteq Callers
    BY <1>1 DEF ToSet
  <1>3. InPool \subseteq Callers
    BY <1>1, <1>2 DEF InPool
  <1> QED
    BY <1>3 DEF TypeInv, ControlTypes, BranchTypes, JournalTypes, SessionTypes, TypeOK, Statuses,
                Hydrations, Places

-----------------------------------------------------------------------------
(* The branches of a run. *)

LEMMA ScriptTyped ==
    ASSUME NEW s \in Sources
    PROVE  /\ Script[s] \in Seq(Seq([kind : Kinds, prompt : Prompts]))
           /\ Len(Script[s]) \in Branches
           /\ \A b \in 1..Len(Script[s]) :
                 Len(Script[s][b]) \in Nat \ {0} /\ Script[s][b] \in Seq([kind : Kinds, prompt : Prompts])
  <1> DEFINE C == [kind : Kinds, prompt : Prompts]
  <1>1. /\ Script[s] \in Seq(Seq(C)) /\ Len(Script[s]) \in Branches
        /\ \A b \in 1..Len(Script[s]) : Script[s][b] # <<>>
    BY WorkflowAssumption
  <1> HIDE DEF C
  <1>2. \A t \in Seq(C) : t # <<>> => Len(t) \in Nat \ {0}
    OBVIOUS
  <1>3. \A b \in 1..Len(Script[s]) : Script[s][b] \in Seq(C)
    BY <1>1
  <1> QED
    BY <1>1, <1>2, <1>3 DEF C

LEMMA WidthTyped ==
    ASSUME TypeInv, NEW r \in Runs
    PROVE  Width(r) \in Nat \ {0} /\ Width(r) <= NBranches
  BY ScriptTyped DEF TypeInv, ControlTypes, Width, Branches

(* A worker that is free takes the first thunk that nobody has, if any.    *)
LEMMA ThunkTaken ==
    ASSUME NEW p \in [Branches -> Places]
    PROVE  /\ TakeThunk(p) \in [Branches -> Places]
           /\ \A c \in Branches : \/ TakeThunk(p)[c] = p[c]
                                  \/ p[c] = "idle" /\ TakeThunk(p)[c] = "next"
  <1> DEFINE left == {b \in DOMAIN p : p[b] = "idle"}
             first == CHOOSE b \in left : \A c \in left : b <= c
  <1>1. CASE left = {}
    BY <1>1 DEF TakeThunk
  <1>2. CASE left # {}
    <2>1. left \subseteq Nat
      BY DEF Branches
    <2>2. \E x \in left : \A y \in left : ~(<<y, x>> \in OpToRel(<, Nat))
      BY <1>2, <2>1, NatLessThanWellFounded, WFMin
    <2>3. \E x \in left : \A y \in left : x <= y
      <3>1. OpToRel(<, Nat) = {ss \in Nat \X Nat : ss[1] < ss[2]}
        BY DEF OpToRel
      <3>2. PICK x \in left : \A y \in left : ~(<<y, x>> \in OpToRel(<, Nat))
        BY <2>2
      <3>3. ASSUME NEW y \in left PROVE x <= y
        <4>1. ~(y < x) /\ x \in Nat /\ y \in Nat
          BY <2>1, <3>1, <3>2
        <4> QED
          BY <4>1
      <3> QED
        BY <3>3
    <2>4. first \in left
      BY <2>3
    <2>5. TakeThunk(p) = [p EXCEPT ![first] = "next"]
      BY <1>2 DEF TakeThunk
    <2> HIDE DEF first
    <2> QED
      BY <2>4, <2>5 DEF Places
  <1> QED
    BY <1>1, <1>2

(* What a step makes of the branches of its run: branch b goes to the      *)
(* place, a worker that is free may take another, and the signal rejects   *)
(* those at the gate.                                                      *)
Goes(r, b, to) ==
    /\ pc' \in [Runs -> [Branches -> Places]] /\ step' \in [Runs -> [Branches -> Nat \ {0}]]
    /\ pc'[r][b] = to
    /\ (to \notin {"next", "done"} => step'[r][b] = step[r][b])
    /\ (to = "next" => step'[r][b] \in 1..Len(Script[source[r]][b]))
    /\ \A c \in Branches \ {b} :
          /\ step'[r][c] = step[r][c]
          /\ \/ pc'[r][c] = pc[r][c]
             \/ pc[r][c] = "idle" /\ pc'[r][c] = "next"
             \/ pc[r][c] = "gated" /\ pc'[r][c] = "rejected"
    /\ \A q \in Runs \ {r} : pc'[q] = pc[q] /\ step'[q] = step[q]

LEMMA MoveGoes ==
    ASSUME TypeInv, NEW r \in Runs, NEW b \in Branches, NEW to \in Places \ {"next", "done"},
           pc' = [pc EXCEPT ![r][b] = to], step' = step
    PROVE  Goes(r, b, to)
  BY DEF TypeInv, BranchTypes, Goes

LEMMA ReturnsGoes ==
    ASSUME TypeInv, NEW r \in Runs, NEW b \in Branches, InScript(r), Active(r, b), Returns(r, b)
    PROVE  /\ Goes(r, b, IF LastCall(r, b) THEN "done" ELSE "next")
           /\ attempt' \in [Runs -> [Branches -> 0..Retries]]
  <1> DEFINE p == [pc[r] EXCEPT ![b] = "done"]
             after == IF LastCall(r, b) THEN TakeThunk(p) ELSE [pc[r] EXCEPT ![b] = "next"]
  <1>1. /\ step' = [step EXCEPT ![r][b] = @ + 1] /\ attempt' = [attempt EXCEPT ![r][b] = 0]
        /\ pc' = [pc EXCEPT ![r] = after]
    BY DEF Returns
  <1>2. /\ pc \in [Runs -> [Branches -> Places]] /\ step \in [Runs -> [Branches -> Nat \ {0}]]
        /\ attempt \in [Runs -> [Branches -> 0..Retries]]
    BY DEF TypeInv, BranchTypes
  <1>3. step[r][b] \in 1..Len(Script[source[r]][b])
    BY DEF InScript
  <1>4. p \in [Branches -> Places] /\ p[b] = "done" /\ \A c \in Branches \ {b} : p[c] = pc[r][c]
    BY <1>2 DEF Places
  <1> HIDE DEF p
  <1>5. /\ after \in [Branches -> Places] /\ after[b] = IF LastCall(r, b) THEN "done" ELSE "next"
        /\ \A c \in Branches \ {b} : after[c] = pc[r][c] \/ (pc[r][c] = "idle" /\ after[c] = "next")
    <2>1. CASE LastCall(r, b)
      BY <1>4, <2>1, ThunkTaken
    <2>2. CASE ~LastCall(r, b)
      BY <1>2, <2>2 DEF Places
    <2> QED
      BY <2>1, <2>2
  <1> HIDE DEF after
  <1>6. ~LastCall(r, b) => step[r][b] + 1 \in 1..Len(Script[source[r]][b])
    BY <1>3 DEF LastCall
  <1>7. /\ step' \in [Runs -> [Branches -> Nat \ {0}]] /\ step'[r][b] = step[r][b] + 1
        /\ \A c \in Branches \ {b} : step'[r][c] = step[r][c]
        /\ \A q \in Runs \ {r} : step'[q] = step[q]
    BY <1>1, <1>2
  <1>8. /\ pc' \in [Runs -> [Branches -> Places]] /\ pc'[r] = after
        /\ \A q \in Runs \ {r} : pc'[q] = pc[q]
    BY <1>1, <1>2, <1>5
  <1>9. attempt' \in [Runs -> [Branches -> 0..Retries]]
    BY <1>1, <1>2, WorkflowAssumption
  <1> QED
    BY <1>5, <1>6, <1>7, <1>8, <1>9 DEF Goes

(* The call is made again. *)
LEMMA AgainGoes ==
    ASSUME TypeInv, NEW r \in Runs, NEW b \in Branches, InScript(r), Active(r, b),
           pc' = [pc EXCEPT ![r][b] = "next"], step' = step
    PROVE  Goes(r, b, "next")
  <1>1. step[r][b] \in 1..Len(Script[source[r]][b])
    BY DEF InScript
  <1> QED
    BY <1>1 DEF TypeInv, BranchTypes, Goes, Places

(* The gate: a run that is held lets nobody pass. *)
LEMMA GateGoes ==
    ASSUME TypeInv, NEW r \in Runs, NEW b \in Branches, AtGate(r, b), step' = step
    PROVE  /\ Goes(r, b, IF paused[r] THEN "gated" ELSE "free")
           /\ (IF paused[r] THEN "gated" ELSE "free") \in {"gated", "free"}
  BY MoveGoes DEF AtGate, Places

-----------------------------------------------------------------------------
(* What a step of one run leaves of the others. *)

SameControl(q) == /\ status'[q] = status[q] /\ main'[q] = main[q] /\ source'[q] = source[q]
                  /\ resumeOf'[q] = resumeOf[q] /\ ctrl'[q] = ctrl[q] /\ signal'[q] = signal[q]
                  /\ paused'[q] = paused[q] /\ resolver'[q] = resolver[q]
                  /\ hydrated'[q] = hydrated[q] /\ (q \in blind' <=> q \in blind)
SameBranches(q) == pc'[q] = pc[q] /\ step'[q] = step[q] /\ idx'[q] = idx[q]
SameJournal(q) == calls'[q] = calls[q] /\ ended'[q] = ended[q] /\ spent'[q] = spent[q]
Elsewhere(r) == \A q \in Runs \ {r} : SameControl(q) /\ SameBranches(q) /\ SameJournal(q)

(* The journal of a run keeps its entries, and what had ended as it ended. *)
CallsGrow(r) == /\ Len(calls'[r]) \in Nat /\ Len(calls[r]) <= Len(calls'[r])
                /\ \A i \in 1..Len(calls[r]) :
                      /\ calls'[r][i].prompt = calls[r][i].prompt
                      /\ (calls[r][i].st \in {"completed", "failed"} =>
                             calls'[r][i].st = calls[r][i].st)

LEMMA CallsLength ==
    ASSUME TypeInv, NEW r \in Runs
    PROVE  calls[r] \in Seq(CallSet) /\ Len(calls[r]) \in Nat /\ DOMAIN calls[r] = 1..Len(calls[r])
  BY DEF TypeInv, JournalTypes

LEMMA CallsStay ==
    ASSUME TypeInv, NEW r \in Runs, calls'[r] = calls[r]
    PROVE  CallsGrow(r)
  BY CallsLength DEF CallsGrow

LEMMA CallsGrowCached ==
    ASSUME TypeInv, NEW r \in Runs, \A q \in Runs \ {r} : calls'[q] = calls[q], CallsGrow(r),
           NEW q \in Runs, NEW i \in 1..Len(calls[q]),
           calls[q][i].st \in {"completed", "failed"}
    PROVE  /\ i \in 1..Len(calls'[q]) /\ calls'[q][i].prompt = calls[q][i].prompt
           /\ calls'[q][i].st = calls[q][i].st
  <1>1. CASE q # r
    BY <1>1
  <1>2. CASE q = r
    <2>1. Len(calls[r]) \in Nat
      BY CallsLength
    <2> QED
      BY <1>2, <2>1 DEF CallsGrow
  <1> QED
    BY <1>1, <1>2

(* The other runs are fine as they were. *)
LEMMA OthersFine ==
    ASSUME TypeInv, \A q \in Runs : Fine(q), NEW r \in Runs, Elsewhere(r), CallsGrow(r),
           NEW q \in Runs \ {r}
    PROVE  Fine(q)'
  <1>1. Fine(q) /\ SameControl(q) /\ SameBranches(q) /\ SameJournal(q)
    BY DEF Elsewhere
  <1>2. \A b \in Branches : Kind(q, b)' = Kind(q, b) /\ (Active(q, b)' <=> Active(q, b))
    BY <1>1 DEF SameControl, SameBranches, Kind, Call, Active
  <1>3. Controlled(q)'
    BY <1>1 DEF Fine, SameControl, SameBranches, SameJournal, Controlled, Unstarted
  <1>4. InScript(q)'
    BY <1>1, <1>2 DEF Fine, SameControl, SameBranches, InScript, Width
  <1>5. Pending(q)'
    BY <1>1, <1>2 DEF Fine, SameBranches, SameJournal, Pending, Holds
  <1>6. Cached(q)'
    <2> SUFFICES ASSUME NEW i \in 1..Len(calls[q]), calls[q][i].via = "cache",
                        calls[q][i].kind \in AgentKinds
                 PROVE  /\ resumeOf[q] # NoRun /\ i \in 1..Len(calls'[resumeOf[q]])
                        /\ calls'[resumeOf[q]][i].prompt = calls[q][i].prompt
                        /\ calls'[resumeOf[q]][i].st = calls[q][i].st
                        /\ calls[q][i].st \in {"completed", "failed"}
      BY <1>1 DEF SameControl, SameJournal, Cached
    <2> DEFINE x == resumeOf[q]
    <2>1. /\ x # NoRun /\ i \in 1..Len(calls[x]) /\ calls[x][i].prompt = calls[q][i].prompt
          /\ calls[x][i].st = calls[q][i].st /\ calls[q][i].st \in {"completed", "failed"}
      BY <1>1 DEF Fine, Cached
    <2>2. x \in Runs
      BY <2>1 DEF TypeInv, ControlTypes
    <2>3. \A u \in Runs \ {r} : calls'[u] = calls[u]
      BY DEF Elsewhere, SameJournal
    <2>4. /\ i \in 1..Len(calls'[x]) /\ calls'[x][i].prompt = calls[x][i].prompt
          /\ calls'[x][i].st = calls[x][i].st
      BY <2>1, <2>2, <2>3, CallsGrowCached
    <2> QED
      BY <2>1, <2>4
  <1>7. Listed(q)' /\ Judged(q)'
    BY <1>1, <1>2 DEF Fine, SameControl, SameJournal, Listed, Judged, OneVerdict
  <1>8. Bounded(q)'
    <2>1. Counted(q)' = Counted(q) /\ Width(q)' = Width(q)
      BY <1>1, <1>2 DEF SameControl, SameBranches, Counted, Width
    <2> QED
      BY <1>1, <2>1 DEF Fine, SameJournal, Bounded
  <1> QED
    BY <1>3, <1>4, <1>5, <1>6, <1>7, <1>8 DEF Fine

LEMMA OneRun ==
    ASSUME IInv, TypeInv', NEW r \in Runs, Elsewhere(r), CallsGrow(r), Fine(r)', WorktreesInUse'
    PROVE  IInv'
  <1>1. \A q \in Runs \ {r} : Fine(q)'
    BY OthersFine DEF IInv
  <1>2. \A q \in Runs : Fine(q)'
    BY <1>1
  <1> QED
    BY <1>2 DEF IInv

-----------------------------------------------------------------------------
(* What a step of a branch keeps of its run. *)

LEMMA InScriptKept ==
    ASSUME TypeInv, NEW r \in Runs, NEW b \in Branches, NEW to, InScript(r), Active(r, b),
           Goes(r, b, to), to \notin {"idle", "lost"},
           to = "asked" => Kind(r, b) = "checkpoint",
           to \in {"child", "phase", "wrapping"} => Kind(r, b) # "checkpoint",
           source' = source, main' = main
    PROVE  InScript(r)'
  <1>1. /\ b \in 1..Width(r) /\ step[r][b] \in 1..Len(Script[source[r]][b])
        /\ \A c \in Branches : c > Width(r) => pc[r][c] = "done"
        /\ main[r] \notin {"none", "lost"}
    BY DEF InScript, Active
  <1>2. Width(r)' = Width(r) /\ Width(r) \in Nat
    BY WidthTyped DEF Width
  <1>3. source[r] \in Sources /\ Len(Script[source[r]][b]) \in Nat
    BY <1>1, ScriptTyped DEF TypeInv, ControlTypes, Width
  <1>4. \A c \in Branches \ {b} : Kind(r, c)' = Kind(r, c)
    BY DEF Goes, Kind, Call
  <1>5. to \notin {"next", "done"} => Kind(r, b)' = Kind(r, b)
    BY DEF Goes, Kind, Call
  <1>6. ASSUME NEW c \in Branches, Active(r, c)'
        PROVE  /\ c \in 1..Width(r) /\ step'[r][c] \in 1..Len(Script[source[r]][c])
               /\ (pc'[r][c] = "asked" => Kind(r, c)' = "checkpoint")
               /\ (pc'[r][c] \in {"child", "phase", "wrapping"} => Kind(r, c)' # "checkpoint")
    <2>1. CASE c = b
      <3>1. pc'[r][b] = to /\ to # "done" /\ step[r][b] \in Nat
        BY <1>6, <2>1 DEF Goes, Active, TypeInv, BranchTypes
      <3>2. step'[r][b] \in 1..Len(Script[source[r]][b])
        BY <1>1, <1>3, <3>1 DEF Goes
      <3> QED
        BY <1>1, <1>5, <2>1, <3>1, <3>2
    <2>2. CASE c # b /\ pc'[r][c] = pc[r][c]
      BY <1>4, <1>6, <2>2 DEF Goes, InScript, Active
    <2>3. CASE c # b /\ pc[r][c] = "idle" /\ pc'[r][c] = "next"
      <3>1. c \in 1..Width(r)
        BY <1>1, <1>2, <2>3 DEF Branches
      <3>2. step'[r][c] = 1
        BY <2>3 DEF Goes, InScript
      <3>3. 1 \in 1..Len(Script[source[r]][c])
        <4>1. Len(Script[source[r]][c]) \in Nat \ {0}
          BY <1>3, <3>1, ScriptTyped DEF Width
        <4> QED
          BY <4>1
      <3> QED
        BY <2>3, <3>1, <3>2, <3>3
    <2>4. CASE c # b /\ pc[r][c] = "gated" /\ pc'[r][c] = "rejected"
      BY <1>4, <1>6, <2>4 DEF Goes, InScript, Active
    <2> QED
      BY <2>1, <2>2, <2>3, <2>4 DEF Goes
  <1>7. ASSUME NEW c \in Branches, pc'[r][c] = "idle" PROVE step'[r][c] = 1
    BY <1>7 DEF Goes, InScript
  <1>8. ASSUME NEW c \in Branches, c > Width(r) PROVE pc'[r][c] = "done"
    <2>1. c # b /\ pc[r][c] = "done"
      BY <1>1, <1>2, <1>8
    <2> QED
      BY <2>1 DEF Goes
  <1> QED
    BY <1>1, <1>2, <1>6, <1>7, <1>8 DEF InScript

(* The controls are as they were. *)
LEMMA ControlKept ==
    ASSUME TypeInv, NEW r \in Runs, NEW b \in Branches, NEW to, Controlled(r), Active(r, b),
           pc[r][b] # "asked", Goes(r, b, to), to = "free" => ~paused[r],
           SameControl(r)
    PROVE  Controlled(r)'
  <1>1. main[r] # "none"
    BY DEF Controlled, Unstarted, Active
  <1>2. ASSUME paused[r], NEW c \in Branches PROVE pc'[r][c] # "free"
    <2>1. pc[r][c] # "free" /\ to # "free"
      BY <1>2 DEF Controlled
    <2>2. \/ c = b /\ pc'[r][c] = to
          \/ pc'[r][c] \in {pc[r][c], "next", "rejected"}
      BY DEF Goes
    <2> QED
      BY <2>1, <2>2
  <1>3. resolver[r] # NoBranch => pc'[r][resolver[r]] = "asked"
    BY DEF TypeInv, ControlTypes, Goes, Controlled
  <1> QED
    BY <1>1, <1>2, <1>3 DEF SameControl, Controlled

LEMMA JudgedKept ==
    ASSUME NEW r \in Runs, NEW b \in Branches, Listed(r), Judged(r), Active(r, b), SameControl(r),
           ended'[r] = ended[r]
    PROVE  Listed(r)' /\ Judged(r)'
  <1>1. r \notin blind /\ main[r] # "on" => ToSet(ended[r]) = {"aborted"}
    BY DEF Judged
  <1> QED
    BY <1>1 DEF SameControl, Listed, Judged, OneVerdict

LEMMA OtherBranches ==
    ASSUME NEW r \in Runs, NEW b \in Branches, NEW to, Goes(r, b, to), source' = source,
           NEW c \in Branches \ {b}
    PROVE  /\ Kind(r, c)' = Kind(r, c) /\ (Holds(r, c)' => Holds(r, c))
           /\ (c \in Counted(r)' => c \in Counted(r))
  <1>1. Kind(r, c)' = Kind(r, c)
    BY DEF Goes, Kind, Call
  <1>2. \/ pc'[r][c] = pc[r][c]
        \/ pc[r][c] = "idle" /\ pc'[r][c] = "next"
        \/ pc[r][c] = "gated" /\ pc'[r][c] = "rejected"
    BY DEF Goes
  <1> QED
    BY <1>1, <1>2 DEF Holds, Counted

LEMMA ThisBranch ==
    ASSUME NEW r \in Runs, NEW b \in Branches, NEW to, Goes(r, b, to), source' = source,
           to \notin {"next", "done"}
    PROVE  Kind(r, b)' = Kind(r, b)
  BY DEF Goes, Kind, Call

-----------------------------------------------------------------------------
(* The journal of calls. *)

(* It is left alone. *)
LEMMA PendingKept ==
    ASSUME TypeInv, NEW r \in Runs, NEW b \in Branches, NEW to, Pending(r), Cached(r),
           Goes(r, b, to), source' = source, resumeOf' = resumeOf,
           calls' = calls, idx' = idx, Holds(r, b)' => Holds(r, b)
    PROVE  Pending(r)' /\ Cached(r)' /\ CallsGrow(r)
  <1>1. \A c \in Branches : Holds(r, c)' => Holds(r, c)
    BY OtherBranches
  <1>2. \A c \in Branches : Holds(r, c)' => Kind(r, c)' = Kind(r, c)
    <2>1. Holds(r, b)' => to \notin {"next", "done"}
      BY DEF Holds, Goes
    <2> QED
      BY <2>1, OtherBranches, ThisBranch
  <1>3. ASSUME NEW c \in Branches, Holds(r, c)'
        PROVE  /\ idx'[r][c] \in 1..Len(calls'[r])
               /\ calls'[r][idx'[r][c]].st = "pending"
               /\ calls'[r][idx'[r][c]].kind = Kind(r, c)'
    BY <1>1, <1>2, <1>3 DEF Pending
  <1>4. ASSUME NEW c \in Branches, NEW d \in Branches, Holds(r, c)', Holds(r, d)',
               idx'[r][c] = idx'[r][d]
        PROVE  c = d
    BY <1>1, <1>4 DEF Pending
  <1>5. Pending(r)'
    BY <1>3, <1>4 DEF Pending
  <1>6. Cached(r)'
    BY DEF Cached
  <1> QED
    BY <1>5, <1>6, CallsStay

(* A pending entry gets its answer. *)
LEMMA PendingAnswered ==
    ASSUME TypeInv, NEW r \in Runs, NEW b \in Branches, NEW to, NEW st, Pending(r), Cached(r),
           Goes(r, b, to), source' = source, resumeOf' = resumeOf, idx' = idx,
           Holds(r, b), ~Holds(r, b)', Answer(r, b, st),
           st \in {"completed", "failed"} \/ (st \in {"given", "undefined"} /\ Kind(r, b) = "checkpoint")
    PROVE  /\ Pending(r)' /\ Cached(r)' /\ CallsGrow(r) /\ calls' \in [Runs -> Seq(CallSet)]
           /\ \A q \in Runs \ {r} : calls'[q] = calls[q]
  <1> DEFINE n == Len(calls[r])
             x == idx[r][b]
             a == [calls[r][x] EXCEPT !.st = st]
  <1>1. /\ calls[r] \in Seq(CallSet) /\ n \in Nat /\ x \in 1..n /\ calls[r][x] \in CallSet
        /\ calls[r][x].st = "pending" /\ calls[r][x].kind = Kind(r, b)
    BY CallsLength DEF Pending
  <1>2. a \in CallSet /\ a.st = st /\ a.kind = Kind(r, b) /\ a.prompt = calls[r][x].prompt
        /\ a.via = calls[r][x].via
    BY <1>1 DEF CallSet, States
  <1>3. calls' = [calls EXCEPT ![r] = [calls[r] EXCEPT ![x] = a]]
    BY DEF Answer
  <1> HIDE DEF a
  <1>4. calls \in [Runs -> Seq(CallSet)]
    BY DEF TypeInv, JournalTypes
  <1>5. [calls[r] EXCEPT ![x] = a] \in Seq(CallSet)
    BY <1>1, <1>2
  <1>6. calls' \in [Runs -> Seq(CallSet)] /\ \A q \in Runs \ {r} : calls'[q] = calls[q]
    BY <1>3, <1>4, <1>5
  <1>7. calls'[r] = [calls[r] EXCEPT ![x] = a]
    BY <1>3, <1>4
  <1>8. /\ Len(calls'[r]) = n /\ calls'[r][x] = a
        /\ \A i \in 1..n : i # x => calls'[r][i] = calls[r][i]
    BY <1>1, <1>7
  <1> HIDE DEF n, x
  <1>9. CallsGrow(r)
    <2>1. ASSUME NEW i \in 1..n
          PROVE  /\ calls'[r][i].prompt = calls[r][i].prompt
                 /\ (calls[r][i].st \in {"completed", "failed"} => calls'[r][i].st = calls[r][i].st)
      BY <1>1, <1>2, <1>8
    <2> QED
      BY <1>1, <1>8, <2>1 DEF CallsGrow, n
  <1>10. Pending(r)'
    <2>1. ASSUME NEW c \in Branches, Holds(r, c)'
          PROVE  /\ idx'[r][c] \in 1..n /\ calls'[r][idx'[r][c]].st = "pending"
                 /\ calls'[r][idx'[r][c]].kind = Kind(r, c)' /\ Holds(r, c)
      <3>1. c # b
        BY <2>1
      <3>2. Holds(r, c) /\ Kind(r, c)' = Kind(r, c)
        BY <2>1, <3>1, OtherBranches
      <3>3. idx[r][c] # x /\ idx[r][c] \in 1..n
        BY <3>1, <3>2 DEF Pending, x, n
      <3> QED
        BY <1>8, <3>2, <3>3 DEF Pending, n
    <2>2. ASSUME NEW i \in 1..n, calls'[r][i].kind \in AgentKinds
          PROVE  calls'[r][i].st \in {"pending", "completed", "failed"}
      <3>1. CASE i = x
        BY <1>2, <1>8, <2>2, <3>1 DEF AgentKinds
      <3>2. CASE i # x
        BY <1>8, <2>2, <3>2 DEF Pending, n
      <3> QED
        BY <3>1, <3>2
    <2>3. ASSUME NEW c \in Branches, NEW d \in Branches, Holds(r, c)', Holds(r, d)',
                 idx'[r][c] = idx'[r][d]
          PROVE  c = d
      BY <2>1, <2>3 DEF Pending
    <2> QED
      BY <1>8, <2>1, <2>2, <2>3 DEF Pending
  <1>11. Cached(r)'
    <2> SUFFICES ASSUME NEW i \in 1..n, calls'[r][i].via = "cache", calls'[r][i].kind \in AgentKinds
                 PROVE  /\ resumeOf[r] # NoRun /\ i \in 1..Len(calls'[resumeOf[r]])
                        /\ calls'[resumeOf[r]][i].prompt = calls'[r][i].prompt
                        /\ calls'[resumeOf[r]][i].st = calls'[r][i].st
                        /\ calls'[r][i].st \in {"completed", "failed"}
      BY <1>8 DEF Cached
    <2>1. calls[r][i].via = "cache" /\ calls[r][i].kind \in AgentKinds
      BY <1>1, <1>2, <1>8
    <2>2. /\ resumeOf[r] # NoRun /\ i \in 1..Len(calls[resumeOf[r]])
          /\ calls[resumeOf[r]][i].prompt = calls[r][i].prompt
          /\ calls[resumeOf[r]][i].st = calls[r][i].st
          /\ calls[r][i].st \in {"completed", "failed"}
      BY <2>1 DEF Cached, n
    <2>3. i # x /\ calls'[r][i] = calls[r][i]
      BY <1>1, <1>8, <2>2
    <2>4. resumeOf[r] \in Runs
      BY <2>2 DEF TypeInv, ControlTypes
    <2>5. /\ i \in 1..Len(calls'[resumeOf[r]])
          /\ calls'[resumeOf[r]][i].prompt = calls[resumeOf[r]][i].prompt
          /\ calls'[resumeOf[r]][i].st = calls[resumeOf[r]][i].st
      BY <1>6, <1>9, <2>2, <2>4, CallsGrowCached
    <2> QED
      BY <2>2, <2>3, <2>5
  <1> QED
    BY <1>6, <1>9, <1>10, <1>11

(* A call is appended. *)
LEMMA PendingAdded ==
    ASSUME TypeInv, NEW r \in Runs, NEW b \in Branches, NEW to, NEW st \in States,
           NEW via \in {"child", "cache", "default", "human"},
           \A q \in Runs : Pending(q), Cached(r), InScript(r), Active(r, b),
           Goes(r, b, to), source' = source, resumeOf' = resumeOf, NewCall(r, b, st, via),
           to \notin {"next", "done"} => st = "pending",
           Kind(r, b) \in AgentKinds => st \in {"pending", "completed", "failed"},
           via = "cache" /\ Kind(r, b) \in AgentKinds => AgentCached(r, b) /\ st = OldAnswer(r)
    PROVE  /\ Pending(r)' /\ Cached(r)' /\ CallsGrow(r) /\ calls' \in [Runs -> Seq(CallSet)]
           /\ \A q \in Runs \ {r} : calls'[q] = calls[q]
           /\ idx' \in [Runs -> [Branches -> Nat]] /\ \A q \in Runs \ {r} : idx'[q] = idx[q]
  <1> DEFINE n == Len(calls[r])
             a == [kind |-> Kind(r, b), prompt |-> Call(r, b).prompt, st |-> st, via |-> via]
  <1>1. Call(r, b) \in [kind : Kinds, prompt : Prompts]
    <2>1. b \in 1..Width(r) /\ step[r][b] \in 1..Len(Script[source[r]][b]) /\ source[r] \in Sources
      BY DEF InScript, TypeInv, ControlTypes
    <2>2. Script[source[r]][b] \in Seq([kind : Kinds, prompt : Prompts])
      BY <2>1, ScriptTyped DEF Width
    <2> DEFINE C == [kind : Kinds, prompt : Prompts]
    <2> HIDE DEF C
    <2>3. \A t \in Seq(C) : \A i \in 1..Len(t) : t[i] \in C
      OBVIOUS
    <2> QED
      BY <2>1, <2>2, <2>3 DEF Call, C
  <1>2. a \in CallSet /\ a.kind = Kind(r, b) /\ a.prompt = Call(r, b).prompt /\ a.st = st /\ a.via = via
    BY <1>1 DEF CallSet, Kind
  <1>3. /\ calls' = [calls EXCEPT ![r] = Append(calls[r], a)]
        /\ idx' = [idx EXCEPT ![r][b] = n + 1]
    BY DEF NewCall
  <1> HIDE DEF a
  <1>4. calls \in [Runs -> Seq(CallSet)] /\ idx \in [Runs -> [Branches -> Nat]]
    BY DEF TypeInv, JournalTypes, BranchTypes
  <1>5. calls[r] \in Seq(CallSet) /\ n \in Nat
    BY <1>4
  <1>6. /\ calls' \in [Runs -> Seq(CallSet)] /\ calls'[r] = Append(calls[r], a)
        /\ \A q \in Runs \ {r} : calls'[q] = calls[q]
    <2>1. Append(calls[r], a) \in Seq(CallSet)
      BY <1>2, <1>5
    <2> QED
      BY <1>3, <1>4, <2>1
  <1>7. /\ Len(calls'[r]) = n + 1 /\ calls'[r][n + 1] = a
        /\ \A i \in 1..n : calls'[r][i] = calls[r][i]
    BY <1>5, <1>6
  <1>8. /\ idx' \in [Runs -> [Branches -> Nat]] /\ idx'[r][b] = n + 1
        /\ \A c \in Branches \ {b} : idx'[r][c] = idx[r][c]
        /\ \A q \in Runs \ {r} : idx'[q] = idx[q]
    <2>1. n + 1 \in Nat
      BY <1>5
    <2> HIDE DEF n
    <2> QED
      BY <1>3, <1>4, <2>1
  <1> HIDE DEF n
  <1>9. n \in Nat /\ (\A i \in 1..n : i \in 1..(n + 1)) /\ n + 1 \in 1..(n + 1)
        /\ \A i \in 1..(n + 1) : i \in 1..n \/ i = n + 1
    BY <1>5 DEF n
  <1>10. CallsGrow(r)
    <2>1. \A i \in 1..Len(calls[r]) : calls'[r][i] = calls[r][i]
      BY <1>7 DEF n
    <2>2. Len(calls'[r]) \in Nat /\ Len(calls[r]) <= Len(calls'[r])
      BY <1>7, <1>9 DEF n
    <2> QED
      BY <2>1, <2>2 DEF CallsGrow
  <1>11. Pending(r)'
    <2>1. ASSUME NEW c \in Branches \ {b}, Holds(r, c)'
          PROVE  /\ idx'[r][c] \in 1..n /\ calls'[r][idx'[r][c]].st = "pending"
                 /\ calls'[r][idx'[r][c]].kind = Kind(r, c)' /\ Holds(r, c)
      <3>1. Holds(r, c) /\ Kind(r, c)' = Kind(r, c)
        BY <2>1, OtherBranches
      <3>2. /\ idx[r][c] \in 1..n /\ calls[r][idx[r][c]].st = "pending"
            /\ calls[r][idx[r][c]].kind = Kind(r, c)
        BY <3>1 DEF Pending, n
      <3> QED
        BY <1>7, <1>8, <3>1, <3>2
    <2>2. ASSUME Holds(r, b)'
          PROVE  calls'[r][idx'[r][b]].st = "pending" /\ calls'[r][idx'[r][b]].kind = Kind(r, b)'
      <3>1. to \notin {"next", "done"}
        BY <2>2 DEF Holds, Goes
      <3> QED
        BY <1>2, <1>7, <1>8, <3>1, ThisBranch
    <2>3. ASSUME NEW c \in Branches, Holds(r, c)'
          PROVE  /\ idx'[r][c] \in 1..(n + 1) /\ calls'[r][idx'[r][c]].st = "pending"
                 /\ calls'[r][idx'[r][c]].kind = Kind(r, c)'
      BY <1>8, <1>9, <2>1, <2>2, <2>3
    <2>4. ASSUME NEW c \in Branches, NEW d \in Branches, Holds(r, c)', Holds(r, d)',
                 idx'[r][c] = idx'[r][d]
          PROVE  c = d
      <3>1. CASE c # b /\ d # b
        BY <1>8, <2>1, <2>4, <3>1 DEF Pending
      <3>2. CASE c = b /\ d # b
        BY <1>8, <1>9, <2>1, <2>4, <3>2
      <3>3. CASE c # b /\ d = b
        BY <1>8, <1>9, <2>1, <2>4, <3>3
      <3> QED
        BY <3>1, <3>2, <3>3
    <2>5. ASSUME NEW i \in 1..(n + 1), calls'[r][i].kind \in AgentKinds
          PROVE  calls'[r][i].st \in {"pending", "completed", "failed"}
      <3>1. CASE i \in 1..n
        BY <1>7, <2>5, <3>1 DEF Pending, n
      <3>2. CASE i = n + 1
        BY <1>2, <1>7, <2>5, <3>2
      <3> QED
        BY <1>9, <3>1, <3>2
    <2> QED
      BY <1>7, <2>3, <2>4, <2>5 DEF Pending
  <1>12. Cached(r)'
    <2> SUFFICES ASSUME NEW i \in 1..(n + 1), calls'[r][i].via = "cache",
                        calls'[r][i].kind \in AgentKinds
                 PROVE  /\ resumeOf[r] # NoRun /\ i \in 1..Len(calls'[resumeOf[r]])
                        /\ calls'[resumeOf[r]][i].prompt = calls'[r][i].prompt
                        /\ calls'[resumeOf[r]][i].st = calls'[r][i].st
                        /\ calls'[r][i].st \in {"completed", "failed"}
      BY <1>7 DEF Cached
    <2>1. CASE i \in 1..n
      <3>1. /\ resumeOf[r] # NoRun /\ i \in 1..Len(calls[resumeOf[r]])
            /\ calls[resumeOf[r]][i].prompt = calls[r][i].prompt
            /\ calls[resumeOf[r]][i].st = calls[r][i].st
            /\ calls[r][i].st \in {"completed", "failed"} /\ calls'[r][i] = calls[r][i]
        BY <1>7, <2>1 DEF Cached, n
      <3>2. resumeOf[r] \in Runs
        BY <3>1 DEF TypeInv, ControlTypes
      <3>3. /\ i \in 1..Len(calls'[resumeOf[r]])
            /\ calls'[resumeOf[r]][i].prompt = calls[resumeOf[r]][i].prompt
            /\ calls'[resumeOf[r]][i].st = calls[resumeOf[r]][i].st
        BY <1>6, <1>10, <3>1, <3>2, CallsGrowCached
      <3> QED
        BY <3>1, <3>3
    <2>2. CASE i = n + 1
      <3> DEFINE x == resumeOf[r]
      <3>1. AgentCached(r, b) /\ st = OldAnswer(r) /\ Kind(r, b) \in AgentKinds
        BY <1>2, <1>7, <2>2
      <3>2. /\ x # NoRun /\ n + 1 <= Len(calls[x]) /\ calls[x][n + 1].kind = Kind(r, b)
            /\ calls[x][n + 1].prompt = Call(r, b).prompt
            /\ calls[x][n + 1].st = st /\ st # "pending"
        BY <3>1 DEF AgentCached, SameCall, OldAnswer, n
      <3>3. x \in Runs
        BY <3>2 DEF TypeInv, ControlTypes
      <3>4. x # r
        BY <1>9, <3>2 DEF n
      <3>5. n + 1 \in 1..Len(calls[x]) /\ calls'[x] = calls[x]
        BY <1>6, <1>9, <3>2, <3>3, <3>4, CallsLength
      <3>6. st \in {"completed", "failed"}
        BY <3>1, <3>2
      <3> QED
        BY <1>2, <1>7, <2>2, <3>2, <3>5, <3>6
    <2> QED
      BY <1>9, <2>1, <2>2
  <1> QED
    BY <1>6, <1>8, <1>10, <1>11, <1>12

-----------------------------------------------------------------------------
(* The budget, the worktrees and the pool. *)

LEMMA CountedFinite ==
    ASSUME TypeInv, NEW r \in Runs, InScript(r)
    PROVE  /\ Counted(r) \subseteq 1..Width(r) /\ IsFiniteSet(Counted(r))
           /\ Cardinality(Counted(r)) \in Nat /\ Cardinality(Counted(r)) <= Width(r)
  <1>1. Width(r) \in Nat
    BY WidthTyped
  <1>2. Counted(r) \subseteq 1..Width(r)
    BY DEF Counted, InScript, Active
  <1>3. IsFiniteSet(1..Width(r)) /\ Cardinality(1..Width(r)) = Width(r)
    BY <1>1, FS_Interval
  <1>4. IsFiniteSet(Counted(r)) /\ Cardinality(Counted(r)) <= Width(r)
    BY <1>2, <1>3, FS_Subset
  <1>5. Cardinality(Counted(r)) \in Nat
    BY <1>4, FS_CardinalityType
  <1> QED
    BY <1>2, <1>4, <1>5

(* Nobody joins those that count. *)
LEMMA BoundedKept ==
    ASSUME TypeInv, NEW r \in Runs, NEW b \in Branches, NEW to, InScript(r), Bounded(r),
           Goes(r, b, to), source' = source, spent'[r] = spent[r],
           b \in Counted(r)' => b \in Counted(r)
    PROVE  Bounded(r)'
  <1>1. Counted(r)' \subseteq Counted(r)
    <2>1. ASSUME NEW c \in Counted(r)' PROVE c \in Counted(r)
      <3>1. c \in Branches
        BY <2>1 DEF Counted
      <3> QED
        BY <2>1, <3>1, OtherBranches
    <2> QED
      BY <2>1
  <1>2. IsFiniteSet(Counted(r)) /\ Cardinality(Counted(r)) \in Nat
    BY CountedFinite
  <1>3. Cardinality(Counted(r)') <= Cardinality(Counted(r)) /\ Cardinality(Counted(r)') \in Nat
    BY <1>1, <1>2, FS_Subset, FS_CardinalityType
  <1>4. spent[r] \in Nat /\ Width(r) \in Nat /\ Width(r)' = Width(r) /\ Budget \in Nat
    BY WidthTyped, WorkflowAssumption DEF TypeInv, JournalTypes, Width
  <1>5. spent'[r] + Cardinality(Counted(r)') < Budget + Width(r)
    BY <1>2, <1>3, <1>4 DEF Bounded
  <1> QED
    BY <1>4, <1>5 DEF Bounded

(* Whoever joins has seen that there are tokens left. *)
LEMMA BoundedJoins ==
    ASSUME NEW r \in Runs, source'[r] \in Sources, InScript(r)',
           spent'[r] \in Nat, spent'[r] < Budget
    PROVE  Bounded(r)'
  <1>1. Width(r)' \in Nat /\ Budget \in Nat
    BY ScriptTyped, WorkflowAssumption DEF Width, Branches
  <1>2. Counted(r)' \subseteq 1..Width(r)'
    BY DEF Counted, InScript, Active
  <1>3. IsFiniteSet(1..Width(r)') /\ Cardinality(1..Width(r)') = Width(r)'
    BY <1>1, FS_Interval
  <1>4. IsFiniteSet(Counted(r)') /\ Cardinality(Counted(r)') <= Width(r)'
    BY <1>2, <1>3, FS_Subset
  <1>5. Cardinality(Counted(r)') \in Nat
    BY <1>4, FS_CardinalityType
  <1>6. spent'[r] + Cardinality(Counted(r)') < Budget + Width(r)'
    BY <1>1, <1>4, <1>5
  <1> QED
    BY <1>6 DEF Bounded

(* Whoever adds a token leaves. *)
LEMMA BoundedLeaves ==
    ASSUME TypeInv, NEW r \in Runs, NEW b \in Branches, NEW to, InScript(r), Bounded(r),
           Goes(r, b, to), source' = source, spent'[r] = spent[r] + 1,
           b \in Counted(r), b \notin Counted(r)'
    PROVE  Bounded(r)'
  <1>1. Counted(r)' \subseteq Counted(r) \ {b}
    <2>1. ASSUME NEW c \in Counted(r)' PROVE c \in Counted(r) /\ c # b
      <3>1. c \in Branches /\ c # b
        BY <2>1 DEF Counted
      <3> QED
        BY <2>1, <3>1, OtherBranches
    <2> QED
      BY <2>1
  <1>2. IsFiniteSet(Counted(r)) /\ Cardinality(Counted(r)) \in Nat
    BY CountedFinite
  <1>3. /\ Cardinality(Counted(r) \ {b}) = Cardinality(Counted(r)) - 1
        /\ IsFiniteSet(Counted(r) \ {b})
    BY <1>2, FS_RemoveElement
  <1>4. /\ Cardinality(Counted(r)') <= Cardinality(Counted(r)) - 1
        /\ Cardinality(Counted(r)') \in Nat
    BY <1>1, <1>3, FS_Subset, FS_CardinalityType
  <1>5. spent[r] \in Nat /\ Width(r) \in Nat /\ Width(r)' = Width(r) /\ Budget \in Nat
    BY WidthTyped, WorkflowAssumption DEF TypeInv, JournalTypes, Width
  <1>6. spent'[r] + Cardinality(Counted(r)') < Budget + Width(r)
    BY <1>2, <1>4, <1>5 DEF Bounded
  <1> QED
    BY <1>5, <1>6 DEF Bounded

LEMMA WorktreeKept ==
    ASSUME WorktreesInUse, TypeInv, NEW r \in Runs, NEW b \in Branches, NEW to,
           Goes(r, b, to), source' = source, worktree' \subseteq worktree \cup {<<r, b>>},
           <<r, b>> \in worktree' => /\ to \in {"gated", "free", "rejected", "child"}
                                     /\ Kind(r, b) = "isolated"
    PROVE  WorktreesInUse'
  <1> SUFFICES ASSUME NEW w \in worktree'
               PROVE  \/ pc'[w[1]][w[2]] = "lost"
                      \/ /\ pc'[w[1]][w[2]] \in {"gated", "free", "rejected", "child"}
                         /\ Kind(w[1], w[2])' = "isolated"
    BY DEF WorktreesInUse
  <1>1. CASE w = <<r, b>>
    <2>1. pc'[r][b] = to /\ Kind(r, b)' = "isolated"
      BY <1>1, ThisBranch DEF Goes
    <2> QED
      BY <1>1, <2>1
  <1>2. CASE w # <<r, b>>
    <2>1. w \in worktree
      BY <1>2
    <2>2. PICK q \in Runs, c \in Branches : w = <<q, c>>
      BY <2>1 DEF TypeInv, JournalTypes
    <2>3. \/ pc[q][c] = "lost"
          \/ pc[q][c] \in {"gated", "free", "rejected", "child"} /\ Kind(q, c) = "isolated"
      BY <2>1, <2>2 DEF WorktreesInUse
    <2>4. CASE q # r
      <3>1. pc'[q] = pc[q] /\ step'[q] = step[q]
        BY <2>4 DEF Goes
      <3>2. Kind(q, c)' = Kind(q, c)
        BY <3>1 DEF Kind, Call
      <3> QED
        BY <2>2, <2>3, <3>1, <3>2
    <2>5. CASE q = r
      <3>1. c # b
        BY <1>2, <2>2, <2>5
      <3>2. pc'[r][c] = pc[r][c] \/ (pc[r][c] = "gated" /\ pc'[r][c] = "rejected")
        BY <2>3, <2>5, <3>1 DEF Goes
      <3>3. Kind(r, c)' = Kind(r, c)
        BY <3>1, OtherBranches
      <3> QED
        BY <2>2, <2>3, <2>5, <3>2, <3>3
    <2> QED
      BY <2>4, <2>5
  <1> QED
    BY <1>1, <1>2

(* Who has a worktree is in an isolated call that has not ended.           *)
LEMMA WorktreeOf ==
    ASSUME WorktreesInUse, NEW r \in Runs, NEW b \in Branches, Active(r, b), <<r, b>> \in worktree
    PROVE  pc[r][b] \in {"gated", "free", "rejected", "child"} /\ Kind(r, b) = "isolated"
  BY DEF WorktreesInUse, Active

LEMMA CallerTyped ==
    ASSUME TypeInv, NEW r \in Runs, NEW b \in Branches, NEW layer \in {"call", "phase"}
    PROVE  Caller(r, b, layer) \in Callers /\ RunOf(Caller(r, b, layer)) = r
  <1>1. step[r][b] \in Nat \ {0} /\ attempt[r][b] \in Nat
    BY WorkflowAssumption DEF TypeInv, BranchTypes
  <1> QED
    BY <1>1 DEF Caller, Callers, RunOf

LEMMA PoolOfTyped ==
    ASSUME SessionTypes, NEW c \in Callers
    PROVE  PoolOf(c) \in Sessions
  BY DEF SessionTypes, Callers, RunOf, PoolOf

(* Only a caller that asks for a slot comes to the pool. *)
LEMMA TakeSlotPool ==
    ASSUME PoolTypes, SessionTypes, NEW c \in Callers, TakeSlot(c)
    PROVE  PoolTypes' /\ InPool' \subseteq InPool \cup {c}
  <1> DEFINE p == PoolOf(c)
  <1>1. /\ queue \in [Sessions -> Seq(Callers)] /\ woken \subseteq Callers /\ p \in Sessions
        /\ queue[p] \in Seq(Callers)
    BY PoolOfTyped DEF PoolTypes
  <1>2. CASE Pool!Enter(p) /\ working' = working \cup {c}
    BY <1>2 DEF PoolTypes, Pool!Enter, InPool
  <1>3. CASE Pool!Wait(p, c) /\ working' = working
    <2>1. queue' = [queue EXCEPT ![p] = Append(queue[p], c)] /\ woken' = woken
      BY <1>3 DEF Pool!Wait
    <2> HIDE DEF p
    <2>2. Append(queue[p], c) \in Seq(Callers)
      BY <1>1
    <2>3. /\ queue' \in [Sessions -> Seq(Callers)] /\ queue'[p] = Append(queue[p], c)
          /\ \A s \in Sessions \ {p} : queue'[s] = queue[s]
      BY <1>1, <2>1, <2>2
    <2>4. ToSet(Append(queue[p], c)) \subseteq ToSet(queue[p]) \cup {c}
      BY <1>1 DEF ToSet
    <2>5. \A s \in Sessions : ToSet(queue'[s]) \subseteq ToSet(queue[s]) \cup {c}
      BY <2>3, <2>4
    <2> QED
      BY <1>3, <2>1, <2>3, <2>5 DEF PoolTypes, InPool
  <1> QED
    BY <1>2, <1>3 DEF TakeSlot

LEMMA LeavesPoolPool ==
    ASSUME PoolTypes, SessionTypes, NEW c, LeavesPool(c)
    PROVE  PoolTypes' /\ InPool' \subseteq InPool
  <1> DEFINE p == PoolOf(c)
  <1>1. /\ queue \in [Sessions -> Seq(Callers)] /\ woken \subseteq Callers /\ p \in Sessions
        /\ queue[p] \in Seq(Callers)
    BY PoolOfTyped DEF LeavesPool, PoolTypes
  <1>2. working' \subseteq working
    BY DEF LeavesPool
  <1>3. CASE queue' = queue /\ woken' = woken
    BY <1>2, <1>3 DEF PoolTypes, InPool
  <1>4. CASE /\ queue[p] # <<>> /\ woken' = woken \cup {Head(queue[p])}
             /\ queue' = [queue EXCEPT ![p] = Tail(queue[p])]
    <2> HIDE DEF p
    <2>1. /\ Head(queue[p]) \in Callers /\ Head(queue[p]) \in ToSet(queue[p])
          /\ Tail(queue[p]) \in Seq(Callers)
      BY <1>1, <1>4 DEF ToSet
    <2>2. /\ queue' \in [Sessions -> Seq(Callers)] /\ queue'[p] = Tail(queue[p])
          /\ \A s \in Sessions \ {p} : queue'[s] = queue[s]
      BY <1>1, <1>4, <2>1
    <2>3. ToSet(Tail(queue[p])) \subseteq ToSet(queue[p])
      BY <1>1, <1>4 DEF ToSet
    <2>4. \A s \in Sessions : ToSet(queue'[s]) \subseteq ToSet(queue[s])
      BY <2>2, <2>3
    <2> QED
      BY <1>1, <1>2, <1>4, <2>1, <2>2, <2>4 DEF PoolTypes, InPool
  <1> QED
    BY <1>3, <1>4 DEF LeavesPool, Pool!Leave

LEMMA SlotFreePool ==
    ASSUME PoolTypes, NEW c \in woken, SlotFree(c)
    PROVE  PoolTypes' /\ InPool' \subseteq InPool
  BY DEF SlotFree, Pool!EnterWoken, PoolTypes, InPool

LEMMA PoolSame ==
    ASSUME PoolTypes, UNCHANGED poolVars
    PROVE  PoolTypes' /\ InPool' = InPool
  BY DEF poolVars, PoolTypes, InPool

LEMMA SessionSame ==
    ASSUME IInv, UNCHANGED sessionVars
    PROVE  SessionTypes' /\ hydrated' = hydrated /\ blind' = blind
  BY DEF IInv, TypeInv, sessionVars, SessionTypes

-----------------------------------------------------------------------------
(* Steps of a branch, with the controls of its run left alone. *)

LEMMA Steady ==
    ASSUME UNCHANGED <<controlVars, sessionVars>>
    PROVE  /\ status' = status /\ main' = main /\ source' = source /\ resumeOf' = resumeOf
           /\ ctrl' = ctrl /\ signal' = signal /\ paused' = paused /\ resolver' = resolver
           /\ inbox' = inbox /\ \A q \in Runs : SameControl(q)
           /\ session' = session /\ home' = home /\ foreground' = foreground
           /\ hydrated' = hydrated /\ blind' = blind
  BY DEF controlVars, sessionVars, SameControl

(* What a step of a branch keeps typed. *)
BranchFrame(r, b) ==
    /\ UNCHANGED controlVars /\ ended' = ended /\ UNCHANGED sessionVars
    /\ attempt' \in [Runs -> [Branches -> 0..Retries]]
    /\ agentCount' \in [Runs -> 0..MaxAgents]
    /\ spent' \in [Runs -> Nat] /\ \A q \in Runs \ {r} : spent'[q] = spent[q]
    /\ PoolTypes'

LEMMA BranchStep ==
    ASSUME IInv, NEW r \in Runs, NEW b \in Branches, NEW to, Active(r, b), pc[r][b] # "asked",
           Goes(r, b, to), to \notin {"idle", "lost", "asked"},
           to \in {"child", "phase", "wrapping"} => Kind(r, b) # "checkpoint",
           to = "free" => ~paused[r],
           BranchFrame(r, b),
           calls' \in [Runs -> Seq(CallSet)], idx' \in [Runs -> [Branches -> Nat]],
           \A q \in Runs \ {r} : calls'[q] = calls[q] /\ idx'[q] = idx[q],
           Pending(r)', Cached(r)', CallsGrow(r), Bounded(r)',
           worktree' \subseteq worktree \cup {<<r, b>>},
           <<r, b>> \in worktree' => /\ to \in {"gated", "free", "rejected", "child"}
                                     /\ Kind(r, b) = "isolated"
    PROVE  IInv'
  <1>1. TypeInv /\ Fine(r) /\ WorktreesInUse
    BY DEF IInv
  <1>2. UNCHANGED controlVars /\ ended' = ended /\ UNCHANGED sessionVars
    BY DEF BranchFrame
  <1>3. /\ status' = status /\ main' = main /\ source' = source /\ resumeOf' = resumeOf
        /\ ctrl' = ctrl /\ signal' = signal /\ paused' = paused /\ resolver' = resolver
        /\ inbox' = inbox /\ \A q \in Runs : SameControl(q)
    BY <1>2, Steady
  <1>4. TypeInv'
    <2>1. ControlTypes'
      BY <1>1, <1>2, <1>3 DEF TypeInv, ControlTypes
    <2>2. BranchTypes'
      BY DEF BranchFrame, Goes, BranchTypes
    <2>3. JournalTypes'
      BY <1>1 DEF TypeInv, BranchFrame, JournalTypes
    <2> QED
      BY <1>2, <2>1, <2>2, <2>3, SessionSame DEF TypeInv, BranchFrame
  <1>5. Elsewhere(r)
    BY <1>3 DEF Elsewhere, BranchFrame, SameBranches, SameJournal, Goes
  <1>6. Controlled(r)'
    BY <1>1, <1>3, ControlKept DEF Fine
  <1>7. InScript(r)'
    BY <1>1, <1>3, InScriptKept DEF Fine
  <1>8. Listed(r)' /\ Judged(r)'
    BY <1>1, <1>2, <1>3, JudgedKept DEF Fine
  <1>9. Fine(r)'
    BY <1>6, <1>7, <1>8 DEF Fine
  <1>10. WorktreesInUse'
    BY <1>1, <1>3, WorktreeKept
  <1> QED
    BY <1>4, <1>5, <1>9, <1>10, OneRun

LEMMA ThrowsGoes ==
    ASSUME TypeInv, NEW r \in Runs, NEW b \in Branches, InScript(r), Active(r, b), Throws(r, b)
    PROVE  /\ \E to \in {"next", "done", "dead"} : Goes(r, b, to)
           /\ attempt' \in [Runs -> [Branches -> 0..Retries]]
  <1>1. CASE Returns(r, b)
    BY <1>1, ReturnsGoes
  <1>2. CASE pc' = [pc EXCEPT ![r][b] = "dead"] /\ UNCHANGED <<step, attempt>>
    BY <1>2, MoveGoes DEF Places, TypeInv, BranchTypes
  <1>3. CASE /\ pc' = [pc EXCEPT ![r][b] = "next"]
             /\ attempt' = [attempt EXCEPT ![r][b] = 0] /\ step' = step
    <2>1. attempt' \in [Runs -> [Branches -> 0..Retries]]
      BY <1>3, WorkflowAssumption DEF TypeInv, BranchTypes
    <2>2. Goes(r, b, "next")
      BY <1>3, AgainGoes
    <2> QED
      BY <2>1, <2>2
  <1> QED
    BY <1>1, <1>2, <1>3 DEF Throws

(* A branch that does not get on, or goes on without an answer. *)
LEMMA QuietStep ==
    ASSUME IInv, NEW r \in Runs, NEW b \in Branches, Active(r, b), pc[r][b] # "asked",
           NEW to \in {"next", "done", "dead"}, Goes(r, b, to), BranchFrame(r, b),
           calls' = calls, idx' = idx, spent' = spent,
           worktree' \subseteq worktree, <<r, b>> \notin worktree'
    PROVE  IInv'
  <1>1. TypeInv /\ Fine(r)
    BY DEF IInv
  <1>2. source' = source /\ resumeOf' = resumeOf
    BY Steady DEF BranchFrame
  <1>3. ~Holds(r, b)' /\ b \notin Counted(r)'
    BY DEF Goes, Holds, Counted
  <1>4. Pending(r)' /\ Cached(r)' /\ CallsGrow(r)
    BY <1>1, <1>2, <1>3, PendingKept DEF Fine
  <1>5. Bounded(r)'
    BY <1>1, <1>2, <1>3, BoundedKept DEF Fine
  <1>6. calls' \in [Runs -> Seq(CallSet)] /\ idx' \in [Runs -> [Branches -> Nat]]
    BY <1>1 DEF TypeInv, JournalTypes, BranchTypes
  <1> QED
    BY <1>4, <1>5, <1>6, BranchStep

LEMMA OldAnswerTyped ==
    ASSUME IInv, NEW r \in Runs, NEW b \in Branches, SameCall(r, b)
    PROVE  /\ OldAnswer(r) \in States
           /\ Kind(r, b) \in AgentKinds /\ OldAnswer(r) # "pending" =>
                 OldAnswer(r) \in {"completed", "failed"}
  <1> DEFINE x == resumeOf[r]
             n == Len(calls[r]) + 1
  <1>1. x \in Runs
    BY DEF SameCall, IInv, TypeInv, ControlTypes
  <1>2. /\ Len(calls[r]) \in Nat /\ calls[x] \in Seq(CallSet) /\ Len(calls[x]) \in Nat
        /\ Pending(x)
    BY <1>1, CallsLength DEF IInv, Fine
  <1>3. n \in 1..Len(calls[x]) /\ calls[x][n].kind = Kind(r, b) /\ OldAnswer(r) = calls[x][n].st
    BY <1>2 DEF SameCall, OldAnswer
  <1> HIDE DEF n, x
  <1>4. calls[x][n] \in CallSet
    BY <1>2, <1>3
  <1>5. calls[x][n].st \in States
    BY <1>4 DEF CallSet
  <1> QED
    BY <1>2, <1>3, <1>5 DEF Pending

(* agent(): refused, answered from the cache, or on its way to a child.    *)
LEMMA AgentCallsStep ==
    ASSUME IInv, NEW r \in Runs, NEW b \in Branches, AgentCalls(r, b)
    PROVE  IInv'
  <1>1. /\ TypeInv /\ Fine(r) /\ WorktreesInUse /\ \A q \in Runs : Pending(q)
        /\ pc[r][b] = "next" /\ Active(r, b) /\ Kind(r, b) \in AgentKinds
    BY DEF IInv, Fine, AgentCalls, Active
  <1>2. <<r, b>> \notin worktree
    BY <1>1, WorktreeOf
  <1>3. /\ UNCHANGED controlVars /\ spent' = spent /\ ended' = ended /\ UNCHANGED sessionVars
        /\ UNCHANGED poolVars
    BY DEF AgentCalls
  <1>4. source' = source /\ resumeOf' = resumeOf
    BY <1>3, Steady
  <1>5. PoolTypes' /\ spent \in [Runs -> Nat] /\ agentCount \in [Runs -> 0..MaxAgents]
    BY <1>1, <1>3, PoolSame DEF TypeInv, JournalTypes
  <1>6. CASE /\ Throws(r, b)
             /\ UNCHANGED <<idx, agentCount, calls, worktree>>
    <2>1. PICK to \in {"next", "done", "dead"} : Goes(r, b, to)
      BY <1>1, <1>6, ThrowsGoes DEF Fine
    <2>2. BranchFrame(r, b)
      BY <1>1, <1>3, <1>5, <1>6, ThrowsGoes DEF Fine, BranchFrame
    <2> QED
      BY <1>1, <1>2, <1>3, <1>6, <2>1, <2>2, QuietStep
  <1>7. CASE /\ AgentCached(r, b)
             /\ NewCall(r, b, OldAnswer(r), "cache")
             /\ Returns(r, b)
             /\ UNCHANGED <<agentCount, worktree>>
    <2> DEFINE to == IF LastCall(r, b) THEN "done" ELSE "next"
    <2>1. Goes(r, b, to) /\ attempt' \in [Runs -> [Branches -> 0..Retries]]
      BY <1>1, <1>7, ReturnsGoes DEF Fine
    <2>2. to \in {"next", "done"}
      OBVIOUS
    <2> HIDE DEF to
    <2>3. BranchFrame(r, b)
      BY <1>3, <1>5, <1>7, <2>1 DEF BranchFrame
    <2>4. OldAnswer(r) \in {"completed", "failed"} /\ OldAnswer(r) \in States
      BY <1>1, <1>7, OldAnswerTyped DEF AgentCached
    <2>5. /\ Pending(r)' /\ Cached(r)' /\ CallsGrow(r) /\ calls' \in [Runs -> Seq(CallSet)]
          /\ \A q \in Runs \ {r} : calls'[q] = calls[q]
          /\ idx' \in [Runs -> [Branches -> Nat]] /\ \A q \in Runs \ {r} : idx'[q] = idx[q]
      BY <1>1, <1>4, <1>7, <2>1, <2>2, <2>4, PendingAdded DEF Fine
    <2>6. b \notin Counted(r)'
      BY <2>1, <2>2 DEF Goes, Counted
    <2>7. Bounded(r)'
      BY <1>1, <1>3, <1>4, <2>1, <2>6, BoundedKept DEF Fine
    <2> QED
      BY <1>1, <1>2, <1>7, <2>1, <2>2, <2>3, <2>5, <2>7, BranchStep
  <1>8. CASE /\ agentCount[r] < MaxAgents /\ spent[r] < Budget
             /\ NewCall(r, b, "pending", "child")
             /\ agentCount' = [agentCount EXCEPT ![r] = @ + 1]
             /\ worktree' = worktree \cup (IF Kind(r, b) = "isolated" THEN {<<r, b>>} ELSE {})
             /\ AtGate(r, b)
             /\ UNCHANGED <<step, attempt>>
    <2> DEFINE to == IF paused[r] THEN "gated" ELSE "free"
    <2>1. Goes(r, b, to) /\ to \in {"gated", "free"} /\ (to = "free" => ~paused[r])
      BY <1>1, <1>8, GateGoes
    <2> HIDE DEF to
    <2>2. agentCount' \in [Runs -> 0..MaxAgents]
      BY <1>5, <1>8, WorkflowAssumption
    <2>3. BranchFrame(r, b)
      BY <1>1, <1>3, <1>5, <1>8, <2>2 DEF BranchFrame, TypeInv, BranchTypes
    <2>4. "pending" \in States /\ "child" # "cache"
      BY DEF States
    <2>5. /\ Pending(r)' /\ Cached(r)' /\ CallsGrow(r) /\ calls' \in [Runs -> Seq(CallSet)]
          /\ \A q \in Runs \ {r} : calls'[q] = calls[q]
          /\ idx' \in [Runs -> [Branches -> Nat]] /\ \A q \in Runs \ {r} : idx'[q] = idx[q]
      BY <1>1, <1>4, <1>8, <2>1, <2>4, PendingAdded DEF Fine
    <2>6. InScript(r)'
      BY <1>1, <1>3, <2>1, InScriptKept, Steady DEF Fine
    <2>7. Bounded(r)'
      BY <1>1, <1>3, <1>4, <1>5, <1>8, <2>6, BoundedJoins DEF TypeInv, ControlTypes
    <2> QED
      BY <1>1, <1>2, <1>8, <2>1, <2>3, <2>5, <2>7, BranchStep
  <1>9. ASSUME agentCount[r] < MaxAgents, agentCount' = [agentCount EXCEPT ![r] = @ + 1],
               worktree' = worktree, NEW st \in {"failed", "pending"}, NewCall(r, b, st, "child"),
               NEW to \in {"next", "done", "dead"}, Goes(r, b, to), to = "dead" => st = "pending",
               attempt' \in [Runs -> [Branches -> 0..Retries]]
        PROVE  IInv'
    <2>1. agentCount' \in [Runs -> 0..MaxAgents]
      BY <1>5, <1>9, WorkflowAssumption
    <2>2. BranchFrame(r, b)
      BY <1>3, <1>5, <1>9, <2>1 DEF BranchFrame
    <2>3. st \in States /\ "child" # "cache"
      BY DEF States
    <2>4. /\ Pending(r)' /\ Cached(r)' /\ CallsGrow(r) /\ calls' \in [Runs -> Seq(CallSet)]
          /\ \A q \in Runs \ {r} : calls'[q] = calls[q]
          /\ idx' \in [Runs -> [Branches -> Nat]] /\ \A q \in Runs \ {r} : idx'[q] = idx[q]
      BY <1>1, <1>4, <1>9, <2>3, PendingAdded DEF Fine
    <2>5. b \notin Counted(r)'
      BY <1>9 DEF Goes, Counted
    <2>6. Bounded(r)'
      BY <1>1, <1>3, <1>4, <1>9, <2>5, BoundedKept DEF Fine
    <2> QED
      BY <1>1, <1>2, <1>9, <2>2, <2>4, <2>6, BranchStep
  <1>10. CASE /\ agentCount[r] < MaxAgents /\ NoWorktree(r, b)
              /\ agentCount' = [agentCount EXCEPT ![r] = @ + 1]
              /\ worktree' = worktree
    <2>1. CASE NewCall(r, b, "failed", "child") /\ Returns(r, b)
      <3> DEFINE to == IF LastCall(r, b) THEN "done" ELSE "next"
      <3>1. Goes(r, b, to) /\ attempt' \in [Runs -> [Branches -> 0..Retries]]
        BY <1>1, <2>1, ReturnsGoes DEF Fine
      <3>2. to \in {"next", "done"}
        OBVIOUS
      <3> HIDE DEF to
      <3> QED
        BY <1>9, <1>10, <2>1, <3>1, <3>2
    <2>2. CASE NewCall(r, b, "pending", "child") /\ Throws(r, b)
      <3>1. PICK to \in {"next", "done", "dead"} : Goes(r, b, to)
        BY <1>1, <2>2, ThrowsGoes DEF Fine
      <3>2. attempt' \in [Runs -> [Branches -> 0..Retries]]
        BY <1>1, <2>2, ThrowsGoes DEF Fine
      <3> QED
        BY <1>9, <1>10, <2>2, <3>1, <3>2
    <2> QED
      BY <1>10, <2>1, <2>2 DEF NoWorktree
  <1> QED
    BY <1>6, <1>7, <1>8, <1>10 DEF AgentCalls

LEMMA CallTyped ==
    ASSUME TypeInv, NEW r \in Runs, NEW b \in Branches, InScript(r), Active(r, b)
    PROVE  Call(r, b) \in [kind : Kinds, prompt : Prompts] /\ Kind(r, b) \in Kinds
  <1>1. b \in 1..Width(r) /\ step[r][b] \in 1..Len(Script[source[r]][b]) /\ source[r] \in Sources
    BY DEF InScript, TypeInv, ControlTypes
  <1>2. Script[source[r]][b] \in Seq([kind : Kinds, prompt : Prompts])
    BY <1>1, ScriptTyped DEF Width
  <1> DEFINE C == [kind : Kinds, prompt : Prompts]
  <1>3. \A c \in C : c.kind \in Kinds
    OBVIOUS
  <1> HIDE DEF C
  <1>4. \A t \in Seq(C) : \A i \in 1..Len(t) : t[i] \in C
    OBVIOUS
  <1>5. Call(r, b) \in C
    BY <1>1, <1>2, <1>4 DEF Call, C
  <1> QED
    BY <1>3, <1>5 DEF Kind, C

(* A helper, or a checkpoint that waits for the gate. *)
LEMMA HelperCallsStep ==
    ASSUME IInv, NEW r \in Runs, NEW b \in Branches, HelperCalls(r, b)
    PROVE  IInv'
  <1>1. /\ TypeInv /\ Fine(r) /\ WorktreesInUse /\ \A q \in Runs : Pending(q)
        /\ pc[r][b] = "next" /\ Active(r, b) /\ Kind(r, b) \notin AgentKinds
    BY DEF IInv, Fine, HelperCalls, Active
  <1>2. <<r, b>> \notin worktree
    BY <1>1, WorktreeOf
  <1>3. /\ UNCHANGED controlVars /\ spent' = spent /\ ended' = ended /\ UNCHANGED sessionVars
        /\ UNCHANGED poolVars /\ agentCount' = agentCount /\ step' = step /\ attempt' = attempt
        /\ worktree' = worktree /\ AtGate(r, b)
    BY DEF HelperCalls, countVars
  <1>4. source' = source /\ resumeOf' = resumeOf
    BY <1>3, Steady
  <1>5. BranchFrame(r, b)
    BY <1>1, <1>3, PoolSame DEF TypeInv, JournalTypes, BranchTypes, BranchFrame
  <1> DEFINE to == IF paused[r] THEN "gated" ELSE "free"
  <1>6. Goes(r, b, to) /\ to \in {"gated", "free"} /\ (to = "free" => ~paused[r])
    BY <1>1, <1>3, GateGoes
  <1> HIDE DEF to
  <1>7. Kind(r, b)' = Kind(r, b) /\ pc'[r][b] = to
    BY <1>4, <1>6, ThisBranch DEF Goes
  <1>8. b \notin Counted(r)'
    BY <1>1, <1>6, <1>7 DEF Counted, AgentKinds
  <1>9. Bounded(r)'
    BY <1>1, <1>3, <1>4, <1>6, <1>8, BoundedKept DEF Fine
  <1>10. CASE NewCall(r, b, "pending", "child")
    <2>1. "pending" \in States
      BY DEF States
    <2>2. /\ Pending(r)' /\ Cached(r)' /\ CallsGrow(r) /\ calls' \in [Runs -> Seq(CallSet)]
          /\ \A q \in Runs \ {r} : calls'[q] = calls[q]
          /\ idx' \in [Runs -> [Branches -> Nat]] /\ \A q \in Runs \ {r} : idx'[q] = idx[q]
      BY <1>1, <1>4, <1>6, <1>10, <2>1, PendingAdded DEF Fine
    <2> QED
      BY <1>1, <1>2, <1>3, <1>5, <1>6, <1>9, <2>2, BranchStep
  <1>11. CASE Kind(r, b) # "helper" /\ UNCHANGED <<calls, idx>>
    <2>1. Kind(r, b) = "checkpoint"
      BY <1>1, <1>11, CallTyped DEF Fine, Kinds, AgentKinds
    <2>2. ~Holds(r, b)'
      BY <1>6, <1>7, <2>1 DEF Holds
    <2>3. Pending(r)' /\ Cached(r)' /\ CallsGrow(r)
      BY <1>1, <1>4, <1>6, <1>11, <2>2, PendingKept DEF Fine
    <2>4. calls' \in [Runs -> Seq(CallSet)] /\ idx' \in [Runs -> [Branches -> Nat]]
      BY <1>1, <1>11 DEF TypeInv, JournalTypes, BranchTypes
    <2> QED
      BY <1>1, <1>2, <1>3, <1>5, <1>6, <1>9, <1>11, <2>3, <2>4, BranchStep
  <1> QED
    BY <1>10, <1>11 DEF HelperCalls

(* The gate is behind, and the run was stopped or is out of tokens. *)
LEMMA DispatchThrowsStep ==
    ASSUME IInv, NEW r \in Runs, NEW b \in Branches, DispatchThrows(r, b)
    PROVE  IInv'
  <1>1. /\ TypeInv /\ Fine(r) /\ pc[r][b] \in {"rejected", "free"} /\ Active(r, b)
        /\ Throws(r, b) /\ pc[r][b] # "asked"
    BY DEF IInv, DispatchThrows, Active
  <1>2. /\ UNCHANGED controlVars /\ spent' = spent /\ ended' = ended /\ UNCHANGED sessionVars
        /\ UNCHANGED poolVars /\ agentCount' = agentCount /\ idx' = idx /\ calls' = calls
        /\ worktree' = worktree \ {<<r, b>>}
    BY DEF DispatchThrows, countVars, journalVars, RemoveWorktree
  <1>3. PICK to \in {"next", "done", "dead"} : Goes(r, b, to)
    BY <1>1, ThrowsGoes DEF Fine
  <1>4. attempt' \in [Runs -> [Branches -> 0..Retries]]
    BY <1>1, ThrowsGoes DEF Fine
  <1>5. BranchFrame(r, b)
    BY <1>1, <1>2, <1>4, PoolSame DEF TypeInv, JournalTypes, BranchFrame
  <1>6. worktree' \subseteq worktree /\ <<r, b>> \notin worktree'
    BY <1>2
  <1> QED
    BY <1>1, <1>2, <1>3, <1>5, <1>6, QuietStep

(* The call goes to the pool: it counts already, or there are tokens. *)
LEMMA DispatchStep ==
    ASSUME IInv, NEW r \in Runs, NEW b \in Branches, Dispatch(r, b)
    PROVE  IInv'
  <1>1. /\ TypeInv /\ Fine(r) /\ WorktreesInUse /\ pc[r][b] = "free" /\ Active(r, b)
        /\ Kind(r, b) # "checkpoint"
    BY DEF IInv, Dispatch, Active
  <1>2. /\ UNCHANGED controlVars /\ spent' = spent /\ ended' = ended /\ UNCHANGED sessionVars
        /\ agentCount' = agentCount /\ step' = step /\ attempt' = attempt
        /\ idx' = idx /\ calls' = calls /\ worktree' = worktree
        /\ TakeSlot(Caller(r, b, "call")) /\ pc' = [pc EXCEPT ![r][b] = "child"]
    BY DEF Dispatch, countVars, journalVars
  <1>3. source' = source /\ resumeOf' = resumeOf
    BY <1>2, Steady
  <1>4. Goes(r, b, "child")
    BY <1>1, <1>2, MoveGoes DEF Places
  <1>5. PoolTypes'
    BY <1>1, <1>2, CallerTyped, TakeSlotPool DEF TypeInv
  <1>6. BranchFrame(r, b)
    BY <1>1, <1>2, <1>5 DEF TypeInv, JournalTypes, BranchTypes, BranchFrame
  <1>7. Holds(r, b)
    BY <1>1 DEF Holds
  <1>8. Pending(r)' /\ Cached(r)' /\ CallsGrow(r)
    BY <1>1, <1>2, <1>3, <1>4, <1>7, PendingKept DEF Fine
  <1>9. Bounded(r)'
    <2>1. CASE Kind(r, b) = "lifecycle"
      <3>1. b \in Counted(r)
        BY <1>1, <2>1 DEF Counted
      <3> QED
        BY <1>1, <1>2, <1>3, <1>4, <3>1, BoundedKept DEF Fine
    <2>2. CASE Kind(r, b) # "lifecycle"
      <3>1. spent[r] < Budget
        <4>1. spent[r] \in Nat /\ Budget \in Nat /\ ~(spent[r] >= Budget)
          BY <1>1, <2>2, WorkflowAssumption DEF Dispatch, Refused, TypeInv, JournalTypes
        <4> QED
          BY <4>1
      <3>2. InScript(r)'
        BY <1>1, <1>2, <1>4, InScriptKept, Steady DEF Fine
      <3> QED
        BY <1>1, <1>2, <1>3, <3>1, <3>2, BoundedJoins DEF TypeInv, ControlTypes, JournalTypes
    <2> QED
      BY <2>1, <2>2
  <1>10. <<r, b>> \in worktree' => Kind(r, b) = "isolated"
    BY <1>1, <1>2, WorktreeOf
  <1>11. calls' \in [Runs -> Seq(CallSet)] /\ idx' \in [Runs -> [Branches -> Nat]]
    BY <1>1, <1>2 DEF TypeInv, JournalTypes, BranchTypes
  <1> QED
    BY <1>1, <1>2, <1>4, <1>6, <1>8, <1>9, <1>10, <1>11, BranchStep

(* A checkpoint that is answered without the human. *)
LEMMA AnsweredAtOnce ==
    ASSUME IInv, NEW r \in Runs, NEW b \in Branches, pc[r][b] = "free", Kind(r, b) = "checkpoint",
           NEW st \in States, NEW via \in {"cache", "default"}, NewCall(r, b, st, via),
           Returns(r, b),
           UNCHANGED <<controlVars, countVars, ended, worktree, poolVars, sessionVars>>
    PROVE  IInv'
  <1>1. /\ TypeInv /\ Fine(r) /\ WorktreesInUse /\ \A q \in Runs : Pending(q) /\ Active(r, b)
        /\ Kind(r, b) \notin AgentKinds
    BY DEF IInv, Fine, Active, AgentKinds
  <1>2. <<r, b>> \notin worktree
    BY <1>1, WorktreeOf
  <1>3. source' = source /\ resumeOf' = resumeOf /\ spent' = spent /\ agentCount' = agentCount
    BY Steady DEF countVars
  <1> DEFINE to == IF LastCall(r, b) THEN "done" ELSE "next"
  <1>4. Goes(r, b, to) /\ attempt' \in [Runs -> [Branches -> 0..Retries]]
    BY <1>1, ReturnsGoes DEF Fine
  <1>5. to \in {"next", "done"}
    OBVIOUS
  <1> HIDE DEF to
  <1>6. BranchFrame(r, b)
    BY <1>1, <1>3, <1>4, PoolSame DEF TypeInv, JournalTypes, BranchFrame
  <1>7. via \in {"child", "cache", "default", "human"}
    OBVIOUS
  <1>8. /\ Pending(r)' /\ Cached(r)' /\ CallsGrow(r) /\ calls' \in [Runs -> Seq(CallSet)]
        /\ \A q \in Runs \ {r} : calls'[q] = calls[q]
        /\ idx' \in [Runs -> [Branches -> Nat]] /\ \A q \in Runs \ {r} : idx'[q] = idx[q]
    BY <1>1, <1>3, <1>4, <1>5, <1>7, PendingAdded DEF Fine
  <1>9. b \notin Counted(r)'
    BY <1>4, <1>5 DEF Goes, Counted
  <1>10. Bounded(r)'
    BY <1>1, <1>3, <1>4, <1>9, BoundedKept DEF Fine
  <1> QED
    BY <1>1, <1>2, <1>4, <1>5, <1>6, <1>8, <1>10, BranchStep

(* The human is asked: the list shows it, and the answer finds the branch. *)
LEMMA HumanAsked ==
    ASSUME IInv, NEW r \in Runs, NEW b \in Branches, pc[r][b] = "free", Kind(r, b) = "checkpoint",
           ~signal[r], NewCall(r, b, "pending", "human"),
           pc' = [pc EXCEPT ![r][b] = "asked"],
           status' = [status EXCEPT ![r] = "checkpoint"],
           resolver' = [resolver EXCEPT ![r] = b],
           UNCHANGED <<step, attempt>>,
           UNCHANGED <<main, source, resumeOf, ctrl, signal, paused, inbox, countVars,
                       ended, worktree, poolVars, sessionVars>>
    PROVE  IInv'
  <1>1. /\ TypeInv /\ Fine(r) /\ WorktreesInUse /\ \A q \in Runs : Pending(q) /\ Active(r, b)
        /\ Kind(r, b) \notin AgentKinds
    BY DEF IInv, Fine, Active, AgentKinds
  <1>2. <<r, b>> \notin worktree
    BY <1>1, WorktreeOf
  <1>3. spent' = spent /\ agentCount' = agentCount
    BY DEF countVars
  <1>4. Goes(r, b, "asked") /\ step' = step
    BY <1>1, MoveGoes DEF Places
  <1>5. "pending" \in States /\ "human" \in {"child", "cache", "default", "human"}
    BY DEF States
  <1>6. /\ Pending(r)' /\ Cached(r)' /\ CallsGrow(r) /\ calls' \in [Runs -> Seq(CallSet)]
        /\ \A q \in Runs \ {r} : calls'[q] = calls[q]
        /\ idx' \in [Runs -> [Branches -> Nat]] /\ \A q \in Runs \ {r} : idx'[q] = idx[q]
    BY <1>1, <1>4, <1>5, PendingAdded DEF Fine
  <1>7. Bounded(r)'
    <2>1. b \notin Counted(r)'
      BY <1>4 DEF Goes, Counted
    <2> QED
      BY <1>1, <1>3, <1>4, <2>1, BoundedKept DEF Fine
  <1>8. /\ status' \in [Runs -> Statuses] /\ status'[r] = "checkpoint"
        /\ \A q \in Runs \ {r} : status'[q] = status[q]
    BY <1>1 DEF TypeInv, ControlTypes, Statuses
  <1>9. /\ resolver' \in [Runs -> Branches \cup {NoBranch}] /\ resolver'[r] = b
        /\ \A q \in Runs \ {r} : resolver'[q] = resolver[q]
    BY <1>1 DEF TypeInv, ControlTypes
  <1>10. TypeInv'
    <2>1. ControlTypes'
      BY <1>1, <1>8, <1>9 DEF TypeInv, ControlTypes
    <2>2. BranchTypes'
      BY <1>1, <1>4, <1>6 DEF TypeInv, BranchTypes, Goes
    <2>3. JournalTypes'
      BY <1>1, <1>3, <1>6 DEF TypeInv, JournalTypes
    <2> QED
      BY <1>1, <2>1, <2>2, <2>3, PoolSame, SessionSame DEF TypeInv
  <1>11. Elsewhere(r)
    BY <1>3, <1>4, <1>6, <1>8, <1>9, SessionSame DEF Elsewhere, SameControl, SameBranches, SameJournal, Goes
  <1>12. Controlled(r)'
    <2>1. ~paused[r] /\ main[r] # "none"
      BY <1>1 DEF Fine, Controlled, Unstarted
    <2>2. \A c \in Branches : paused'[r] => pc'[r][c] # "free"
      BY <2>1
    <2>3. pc'[r][resolver'[r]] = "asked"
      BY <1>4, <1>9 DEF Goes
    <2> QED
      BY <1>1, <1>8, <2>1, <2>2, <2>3 DEF Fine, Controlled
  <1>13. InScript(r)'
    BY <1>1, <1>4, InScriptKept DEF Fine
  <1>14. Listed(r)' /\ Judged(r)'
    <2>1. r \notin blind /\ main[r] # "on" => ToSet(ended[r]) = {"aborted"}
      BY <1>1 DEF Fine, Judged
    <2>2. b # NoBranch
      BY DEF Branches, NoBranch
    <2>3. main[r] # "lost"
      BY <1>1 DEF Fine, InScript, Active
    <2>4. Listed(r)'
      BY <1>8, <1>9, <2>2, <2>3 DEF Listed
    <2>5. Judged(r)'
      BY <1>1, <1>8, <2>1, SessionSame DEF Fine, Judged, OneVerdict
    <2> QED
      BY <2>4, <2>5
  <1>15. WorktreesInUse'
    BY <1>1, <1>2, <1>4, WorktreeKept
  <1>16. Fine(r)'
    BY <1>6, <1>7, <1>12, <1>13, <1>14 DEF Fine
  <1> QED
    BY <1>6, <1>10, <1>11, <1>15, <1>16, OneRun

LEMMA AskStep ==
    ASSUME IInv, NEW r \in Runs, NEW b \in Branches, Ask(r, b)
    PROVE  IInv'
  <1>1. /\ pc[r][b] = "free" /\ Kind(r, b) = "checkpoint" /\ ~signal[r]
        /\ UNCHANGED <<main, source, resumeOf, ctrl, signal, paused, inbox, countVars,
                       ended, worktree, poolVars, sessionVars>>
    BY DEF Ask, Refused
  <1>2. CASE /\ SameCall(r, b)
             /\ NewCall(r, b, IF OldAnswer(r) = "pending" THEN "undefined" ELSE OldAnswer(r), "cache")
             /\ Returns(r, b) /\ UNCHANGED <<status, resolver>>
    <2> DEFINE st == IF OldAnswer(r) = "pending" THEN "undefined" ELSE OldAnswer(r)
    <2>1. st \in States
      BY <1>2, OldAnswerTyped DEF States
    <2> HIDE DEF st
    <2>2. UNCHANGED <<controlVars, countVars, ended, worktree, poolVars, sessionVars>>
      BY <1>1, <1>2 DEF controlVars
    <2>3. NewCall(r, b, st, "cache")
      BY <1>2 DEF st
    <2> QED
      BY <1>1, <1>2, <2>1, <2>2, <2>3, AnsweredAtOnce
  <1>3. CASE /\ NewCall(r, b, "undefined", "default")
             /\ Returns(r, b) /\ UNCHANGED <<status, resolver>>
    <2>1. UNCHANGED <<controlVars, countVars, ended, worktree, poolVars, sessionVars>>
      BY <1>1, <1>3 DEF controlVars
    <2>2. "undefined" \in States
      BY DEF States
    <2> QED
      BY <1>1, <1>3, <2>1, <2>2, AnsweredAtOnce
  <1>4. CASE /\ NewCall(r, b, "pending", "human")
             /\ pc' = [pc EXCEPT ![r][b] = "asked"]
             /\ status' = [status EXCEPT ![r] = "checkpoint"]
             /\ resolver' = [resolver EXCEPT ![r] = b]
             /\ UNCHANGED <<step, attempt>>
    BY <1>1, <1>4, HumanAsked
  <1> QED
    BY <1>2, <1>3, <1>4 DEF Ask

-----------------------------------------------------------------------------
(* Children end. *)

(* An answer, or another attempt, with or without the tokens counted. *)
LEMMA ResultStep ==
    ASSUME IInv, NEW r \in Runs, NEW b \in Branches, NEW ok \in BOOLEAN,
           pc[r][b] \in {"child", "wrapping"}, Result(r, b, ok),
           Tokens(r) \/ spent' = spent, PoolTypes',
           UNCHANGED <<controlVars, idx, agentCount, ended, sessionVars>>
    PROVE  IInv'
  <1>1. /\ TypeInv /\ Fine(r) /\ WorktreesInUse /\ Active(r, b) /\ pc[r][b] # "asked"
        /\ Holds(r, b) /\ b \in Counted(r)
    BY DEF IInv, Fine, Active, Holds, Counted
  <1>2. /\ source' = source /\ resumeOf' = resumeOf
    BY Steady
  <1>3. spent' \in [Runs -> Nat] /\ \A q \in Runs \ {r} : spent'[q] = spent[q]
    <2>1. spent \in [Runs -> Nat]
      BY <1>1 DEF TypeInv, JournalTypes
    <2>2. CASE spent' = spent
      BY <2>1, <2>2
    <2>3. CASE spent' = [spent EXCEPT ![r] = spent[r] + 1]
      <3>1. spent[r] + 1 \in Nat
        BY <2>1
      <3> QED
        BY <2>1, <2>3, <3>1
    <2> QED
      BY <2>2, <2>3 DEF Tokens
  <1>4. spent'[r] = spent[r] + 1 \/ spent'[r] = spent[r]
    BY <1>1 DEF TypeInv, JournalTypes, Tokens
  <1>5. /\ attempt \in [Runs -> [Branches -> 0..Retries]] /\ idx' \in [Runs -> [Branches -> Nat]]
        /\ agentCount' \in [Runs -> 0..MaxAgents]
    BY <1>1 DEF TypeInv, BranchTypes, JournalTypes
  <1>6. ASSUME NEW to, Goes(r, b, to), b \notin Counted(r)' PROVE Bounded(r)'
    BY <1>1, <1>2, <1>4, <1>6, BoundedKept, BoundedLeaves DEF Fine
  <1>7. CASE /\ Again(r, b)
             /\ attempt' = [attempt EXCEPT ![r][b] = @ + 1]
             /\ AtGate(r, b)
             /\ UNCHANGED <<step, calls, worktree>>
    <2> DEFINE to == IF paused[r] THEN "gated" ELSE "free"
    <2>1. Goes(r, b, to) /\ to \in {"gated", "free"} /\ (to = "free" => ~paused[r])
      BY <1>1, <1>7, GateGoes
    <2> HIDE DEF to
    <2>2. attempt' \in [Runs -> [Branches -> 0..Retries]]
      <3>1. attempt[r][b] + 1 \in 0..Retries
        BY <1>5, <1>7, WorkflowAssumption DEF Again
      <3> QED
        BY <1>5, <1>7, <3>1
    <2>3. BranchFrame(r, b)
      BY <1>3, <1>5, <2>2 DEF BranchFrame
    <2>4. Pending(r)' /\ Cached(r)' /\ CallsGrow(r)
      BY <1>1, <1>2, <1>7, <2>1, PendingKept DEF Fine
    <2>5. Kind(r, b)' = Kind(r, b) /\ Kind(r, b) \in {"agent", "retry"} /\ pc'[r][b] = to
      BY <1>2, <1>7, <2>1, ThisBranch DEF Again, Goes
    <2>6. b \notin Counted(r)'
      BY <2>1, <2>5 DEF Counted
    <2>7. <<r, b>> \notin worktree
      BY <1>1, <2>5, WorktreeOf
    <2>8. calls' \in [Runs -> Seq(CallSet)]
      BY <1>1, <1>7 DEF TypeInv, JournalTypes
    <2> QED
      BY <1>1, <1>5, <1>6, <1>7, <2>1, <2>3, <2>4, <2>6, <2>7, <2>8, BranchStep
  <1>8. CASE /\ Answer(r, b, IF ok THEN "completed" ELSE "failed")
             /\ RemoveWorktree(r, b)
             /\ Returns(r, b)
    <2> DEFINE to == IF LastCall(r, b) THEN "done" ELSE "next"
               st == IF ok THEN "completed" ELSE "failed"
    <2>1. Goes(r, b, to) /\ attempt' \in [Runs -> [Branches -> 0..Retries]]
      BY <1>1, <1>8, ReturnsGoes DEF Fine
    <2>2. to \in {"next", "done"} /\ st \in {"completed", "failed"} /\ Answer(r, b, st)
      BY <1>8
    <2> HIDE DEF to, st
    <2>3. BranchFrame(r, b)
      BY <1>3, <1>5, <2>1 DEF BranchFrame
    <2>4. ~Holds(r, b)' /\ b \notin Counted(r)'
      BY <2>1, <2>2 DEF Goes, Holds, Counted
    <2>5. /\ Pending(r)' /\ Cached(r)' /\ CallsGrow(r) /\ calls' \in [Runs -> Seq(CallSet)]
          /\ \A q \in Runs \ {r} : calls'[q] = calls[q]
      BY <1>1, <1>2, <2>1, <2>2, <2>4, PendingAnswered DEF Fine
    <2>6. worktree' \subseteq worktree /\ <<r, b>> \notin worktree'
      BY <1>8 DEF RemoveWorktree
    <2> QED
      BY <1>1, <1>5, <1>6, <2>1, <2>2, <2>3, <2>4, <2>5, <2>6, BranchStep
  <1> QED
    BY <1>7, <1>8 DEF Result

LEMMA ChildEndsStep ==
    ASSUME IInv, NEW r \in Runs, NEW b \in Branches, NEW ok \in BOOLEAN,
           ChildEnds(r, b, ok) \/ LifecycleEnds(r, b, ok)
    PROVE  IInv'
  <1>1. /\ pc[r][b] \in {"child", "wrapping"} /\ Result(r, b, ok) /\ Tokens(r)
        /\ LeavesPool(Caller(r, b, "call"))
        /\ UNCHANGED <<controlVars, idx, agentCount, ended, sessionVars>>
    BY DEF ChildEnds, LifecycleEnds
  <1>2. PoolTypes'
    BY <1>1, LeavesPoolPool DEF IInv, TypeInv
  <1> QED
    BY <1>1, <1>2, ResultStep

LEMMA TimesOutStep ==
    ASSUME IInv, NEW r \in Runs, NEW b \in Branches, TimesOut(r, b)
    PROVE  IInv'
  <1>1. /\ TypeInv /\ Fine(r) /\ pc[r][b] = "child" /\ Active(r, b) /\ pc[r][b] # "asked"
    BY DEF IInv, TimesOut, Active
  <1>2. /\ UNCHANGED controlVars /\ spent' = spent /\ ended' = ended /\ UNCHANGED sessionVars
        /\ UNCHANGED poolVars /\ agentCount' = agentCount /\ idx' = idx
    BY DEF TimesOut, countVars
  <1>3. PoolTypes'
    BY <1>1, <1>2, PoolSame DEF TypeInv
  <1>4. CASE Result(r, b, FALSE)
    BY <1>1, <1>2, <1>3, <1>4, ResultStep
  <1>5. CASE Throws(r, b) /\ RemoveWorktree(r, b) /\ calls' = calls
    <2>1. PICK to \in {"next", "done", "dead"} : Goes(r, b, to)
      BY <1>1, <1>5, ThrowsGoes DEF Fine
    <2>2. attempt' \in [Runs -> [Branches -> 0..Retries]]
      BY <1>1, <1>5, ThrowsGoes DEF Fine
    <2>3. BranchFrame(r, b)
      BY <1>1, <1>2, <1>3, <2>2 DEF TypeInv, JournalTypes, BranchFrame
    <2>4. worktree' \subseteq worktree /\ <<r, b>> \notin worktree'
      BY <1>5 DEF RemoveWorktree
    <2> QED
      BY <1>1, <1>2, <1>5, <2>1, <2>3, <2>4, QuietStep
  <1> QED
    BY <1>4, <1>5 DEF TimesOut

(* A lifecycle that throws. *)
LEMMA LifecycleThrowsStep ==
    ASSUME IInv, NEW r \in Runs, NEW b \in Branches, LifecycleThrows(r, b)
    PROVE  IInv'
  <1>1. /\ TypeInv /\ Fine(r) /\ WorktreesInUse /\ Kind(r, b) = "lifecycle" /\ Throws(r, b)
        /\ Active(r, b) /\ pc[r][b] # "asked" /\ LeavesPool(Caller(r, b, "call"))
    BY DEF IInv, LifecycleThrows, Active
  <1>2. /\ UNCHANGED controlVars /\ spent' = spent /\ ended' = ended /\ UNCHANGED sessionVars
        /\ agentCount' = agentCount /\ idx' = idx /\ calls' = calls /\ worktree' = worktree
    BY DEF LifecycleThrows, countVars, journalVars
  <1>3. <<r, b>> \notin worktree
    BY <1>1, WorktreeOf
  <1>4. PoolTypes'
    BY <1>1, LeavesPoolPool DEF TypeInv
  <1>5. PICK to \in {"next", "done", "dead"} : Goes(r, b, to)
    BY <1>1, ThrowsGoes DEF Fine
  <1>6. attempt' \in [Runs -> [Branches -> 0..Retries]]
    BY <1>1, ThrowsGoes DEF Fine
  <1>7. BranchFrame(r, b)
    BY <1>1, <1>2, <1>4, <1>6 DEF TypeInv, JournalTypes, BranchFrame
  <1> QED
    BY <1>1, <1>2, <1>3, <1>5, <1>7, QuietStep

(* A lifecycle sends its phase to the pool, and the phase ends. *)
LEMMA PhaseStep ==
    ASSUME IInv, NEW r \in Runs, NEW b \in Branches, NEW to \in {"phase", "wrapping"},
           pc[r][b] \in {"child", "phase"}, <<r, b>> \notin worktree, PoolTypes',
           pc' = [pc EXCEPT ![r][b] = to],
           UNCHANGED <<controlVars, step, idx, attempt, countVars, journalVars, worktree, sessionVars>>
    PROVE  IInv'
  <1>1. /\ TypeInv /\ Fine(r) /\ WorktreesInUse /\ Active(r, b) /\ pc[r][b] # "asked"
        /\ Holds(r, b) /\ b \in Counted(r)
    BY DEF IInv, Fine, Active, Holds, Counted
  <1>2. Kind(r, b) # "checkpoint"
    BY <1>1 DEF Fine, InScript
  <1>4. source' = source /\ resumeOf' = resumeOf
    BY Steady
  <1>5. spent' = spent /\ agentCount' = agentCount /\ calls' = calls /\ ended' = ended
    BY DEF countVars, journalVars
  <1>6. Goes(r, b, to)
    BY <1>1, MoveGoes DEF Places
  <1>7. BranchFrame(r, b)
    BY <1>1, <1>5 DEF TypeInv, JournalTypes, BranchTypes, BranchFrame
  <1>8. Pending(r)' /\ Cached(r)' /\ CallsGrow(r)
    BY <1>1, <1>4, <1>5, <1>6, PendingKept DEF Fine
  <1>9. Bounded(r)'
    BY <1>1, <1>4, <1>5, <1>6, BoundedKept DEF Fine
  <1>10. calls' \in [Runs -> Seq(CallSet)] /\ idx' \in [Runs -> [Branches -> Nat]]
    BY <1>1, <1>5 DEF TypeInv, JournalTypes, BranchTypes
  <1> QED
    BY <1>1, <1>2, <1>5, <1>6, <1>7, <1>8, <1>9, <1>10, BranchStep

LEMMA PhasesStep ==
    ASSUME IInv, NEW r \in Runs, NEW b \in Branches, PhaseDispatched(r, b) \/ PhaseEnds(r, b)
    PROVE  IInv'
  <1>1. TypeInv /\ WorktreesInUse
    BY DEF IInv
  <1>2. CASE PhaseDispatched(r, b)
    <2>1. /\ pc[r][b] = "child" /\ Kind(r, b) = "lifecycle" /\ TakeSlot(Caller(r, b, "phase"))
          /\ pc' = [pc EXCEPT ![r][b] = "phase"]
          /\ UNCHANGED <<controlVars, step, idx, attempt, countVars, journalVars, worktree, sessionVars>>
      BY <1>2 DEF PhaseDispatched
    <2>2. PoolTypes'
      BY <1>1, <2>1, CallerTyped, TakeSlotPool DEF TypeInv
    <2>3. <<r, b>> \notin worktree
      BY <1>1, <2>1, WorktreeOf DEF Active
    <2> QED
      BY <2>1, <2>2, <2>3, PhaseStep
  <1>3. CASE PhaseEnds(r, b)
    <2>1. /\ pc[r][b] = "phase" /\ LeavesPool(Caller(r, b, "phase"))
          /\ pc' = [pc EXCEPT ![r][b] = "wrapping"]
          /\ UNCHANGED <<controlVars, step, idx, attempt, countVars, journalVars, worktree, sessionVars>>
      BY <1>3 DEF PhaseEnds
    <2>2. PoolTypes'
      BY <1>1, <2>1, LeavesPoolPool DEF TypeInv
    <2>3. <<r, b>> \notin worktree
      BY <1>1, <2>1, WorktreeOf DEF Active
    <2> QED
      BY <2>1, <2>2, <2>3, PhaseStep
  <1> QED
    BY <1>2, <1>3

-----------------------------------------------------------------------------
(* Steps that leave the branches of every run alone. *)

(* What the next session reads in the journal of a run. *)
LEMMA HydratedIs ==
    ASSUME IInv, NEW r \in Runs
    PROVE  /\ Hydrated(r) \in Hydrations
           /\ (main[r] = "none" => Hydrated(r) = "none")
           /\ (Hydrated(r) = "interrupted" => ended[r] = <<>>)
           /\ (r \notin blind /\ Hydrated(r) \in {"completed", "aborted"} =>
                  ToSet(ended[r]) = {Hydrated(r)})
  <1>1. Fine(r) /\ ended[r] \in Seq(Verdicts)
    BY DEF IInv, TypeInv, JournalTypes
  <1>2. CASE main[r] = "none" \/ ended[r] = <<>>
    BY <1>2 DEF Hydrated, Hydrations
  <1>3. CASE main[r] # "none" /\ ended[r] # <<>>
    <2>1. Len(ended[r]) \in DOMAIN ended[r] /\ Hydrated(r) = ended[r][Len(ended[r])]
      BY <1>1, <1>3 DEF Hydrated, Last
    <2>2. Hydrated(r) \in ToSet(ended[r]) /\ Hydrated(r) \in Verdicts
      BY <1>1, <2>1 DEF ToSet
    <2>3. r \notin blind => \E v \in Verdicts : ToSet(ended[r]) = {v}
      BY <1>1, <1>3 DEF Fine, Judged, OneVerdict
    <2> QED
      BY <1>3, <2>2, <2>3 DEF Verdicts, Hydrations
  <1> QED
    BY <1>2, <1>3

LEMMA NewSessionIs ==
    ASSUME IInv, NewSession
    PROVE  /\ SessionTypes' /\ blind' = blind /\ \A r \in Runs : hydrated'[r] = Hydrated(r)
  <1>1. \A r \in Runs : Hydrated(r) \in Hydrations
    BY HydratedIs
  <1>2. session' \in Sessions
    BY WorkflowAssumption DEF IInv, TypeInv, SessionTypes, Sessions, NewSession
  <1> QED
    BY <1>1, <1>2 DEF IInv, TypeInv, SessionTypes, NewSession

(* The pool goes on, or the user comes into a new session.                 *)
LEMMA SessionStep ==
    ASSUME IInv, PoolTypes', SessionTypes', blind' = blind,
           \A r \in Runs : hydrated'[r] \in {hydrated[r], Hydrated(r)},
           UNCHANGED <<controlVars, branchVars, countVars, journalVars, worktree>>
    PROVE  IInv'
  <1>1. /\ status' = status /\ main' = main /\ source' = source /\ resumeOf' = resumeOf
        /\ ctrl' = ctrl /\ signal' = signal /\ paused' = paused /\ resolver' = resolver
        /\ inbox' = inbox
    BY DEF controlVars
  <1>2. /\ pc' = pc /\ step' = step /\ idx' = idx /\ attempt' = attempt
        /\ agentCount' = agentCount /\ spent' = spent /\ calls' = calls /\ ended' = ended
        /\ worktree' = worktree
    BY DEF branchVars, countVars, journalVars
  <1>3. TypeInv'
    BY <1>1, <1>2 DEF IInv, TypeInv, ControlTypes, BranchTypes, JournalTypes
  <1>4. ASSUME NEW r \in Runs PROVE Fine(r)'
    <2>1. Fine(r)
      BY DEF IInv
    <2>2. \A b \in Branches : Kind(r, b)' = Kind(r, b) /\ (Active(r, b)' <=> Active(r, b))
      BY <1>1, <1>2 DEF Kind, Call, Active
    <2>3. Controlled(r)'
      BY <1>1, <1>2, <2>1, HydratedIs DEF Fine, Controlled, Unstarted
    <2>4. InScript(r)'
      BY <1>1, <1>2, <2>1, <2>2 DEF Fine, InScript, Width
    <2>5. Pending(r)'
      BY <1>1, <1>2, <2>1, <2>2 DEF Fine, Pending, Holds
    <2>6. Cached(r)'
      BY <1>1, <1>2, <2>1 DEF Fine, Cached
    <2>7. Listed(r)' /\ Judged(r)'
      BY <1>1, <1>2, <2>1, <2>2, HydratedIs DEF Fine, Listed, Judged, OneVerdict
    <2>8. Bounded(r)'
      <3>1. Counted(r)' = Counted(r) /\ Width(r)' = Width(r)
        BY <1>1, <1>2, <2>2 DEF Counted, Width
      <3> QED
        BY <1>2, <2>1, <3>1 DEF Fine, Bounded
    <2> QED
      BY <2>3, <2>4, <2>5, <2>6, <2>7, <2>8 DEF Fine
  <1>5. WorktreesInUse'
    BY <1>1, <1>2 DEF IInv, WorktreesInUse, Kind, Call
  <1> QED
    BY <1>3, <1>4, <1>5 DEF IInv

LEMMA PoolStep ==
    ASSUME IInv, PoolTypes',
           UNCHANGED <<controlVars, branchVars, countVars, journalVars, worktree, sessionVars>>
    PROVE  IInv'
  BY SessionSame, SessionStep

LEMMA ReenterStep ==
    ASSUME IInv, Reenter
    PROVE  IInv'
  <1>1. PoolTypes'
    BY PoolSame DEF IInv, TypeInv, Reenter
  <1> QED
    BY <1>1, NewSessionIs, SessionStep DEF Reenter

-----------------------------------------------------------------------------
(* The controls of one run change. *)

LEMMA ControlStep ==
    ASSUME IInv, NEW r \in Runs, ControlTypes', SessionTypes', BranchTypes',
           ended' \in [Runs -> Seq(Verdicts)],
           calls' \in [Runs -> Seq(CallSet)], CallsGrow(r), Elsewhere(r),
           UNCHANGED <<countVars, worktree, poolVars>>,
           Fine(r)', WorktreesInUse'
    PROVE  IInv'
  <1>1. TypeInv /\ PoolTypes
    BY DEF IInv, TypeInv
  <1>2. JournalTypes'
    BY <1>1 DEF TypeInv, JournalTypes, countVars
  <1>3. TypeInv'
    BY <1>1, <1>2, PoolSame DEF TypeInv
  <1> QED
    BY <1>3, OneRun

(* ... and no branch moves. *)
LEMMA BranchesStay ==
    ASSUME IInv, NEW r \in Runs, UNCHANGED <<source, resumeOf, branchVars, countVars, calls, worktree>>
    PROVE  /\ BranchTypes' /\ CallsGrow(r) /\ calls' \in [Runs -> Seq(CallSet)]
           /\ Pending(r)' /\ Cached(r)' /\ Bounded(r)' /\ WorktreesInUse'
           /\ \A q \in Runs : SameBranches(q) /\ calls'[q] = calls[q] /\ spent'[q] = spent[q]
           /\ \A b \in Branches : Kind(r, b)' = Kind(r, b) /\ (Active(r, b)' <=> Active(r, b))
  <1>1. /\ pc' = pc /\ step' = step /\ idx' = idx /\ attempt' = attempt /\ calls' = calls
        /\ source' = source /\ resumeOf' = resumeOf /\ spent' = spent /\ worktree' = worktree
    BY DEF branchVars, countVars
  <1>2. TypeInv /\ Fine(r)
    BY DEF IInv
  <1>3. BranchTypes' /\ calls' \in [Runs -> Seq(CallSet)]
    BY <1>1, <1>2 DEF TypeInv, BranchTypes, JournalTypes
  <1>4. \A b \in Branches : Kind(r, b)' = Kind(r, b) /\ (Active(r, b)' <=> Active(r, b))
    BY <1>1 DEF Kind, Call, Active
  <1>5. Pending(r)'
    BY <1>1, <1>2, <1>4 DEF Fine, Pending, Holds
  <1>6. Cached(r)'
    BY <1>1, <1>2 DEF Fine, Cached
  <1>7. Bounded(r)'
    <2>1. Counted(r)' = Counted(r) /\ Width(r)' = Width(r)
      BY <1>1, <1>4 DEF Counted, Width
    <2> QED
      BY <1>1, <1>2, <2>1 DEF Fine, Bounded
  <1>8. WorktreesInUse'
    BY <1>1 DEF IInv, WorktreesInUse, Kind, Call
  <1> QED
    BY <1>1, <1>2, <1>3, <1>4, <1>5, <1>6, <1>7, <1>8, CallsStay DEF SameBranches

LEMMA OneVerdictAdded ==
    ASSUME NEW t, t = <<>>, NEW v
    PROVE  ToSet(Append(t, v)) = {v}
  BY DEF ToSet

LEMMA SameVerdictAdded ==
    ASSUME NEW t \in Seq(Verdicts), NEW v, ToSet(t) = {v}
    PROVE  ToSet(Append(t, v)) = {v}
  <1>1. ASSUME NEW i \in 1..Len(t) PROVE t[i] = v
    <2>1. i \in DOMAIN t
      OBVIOUS
    <2>2. t[i] \in {t[j] : j \in DOMAIN t}
      BY <2>1
    <2> QED
      BY <2>2 DEF ToSet
  <1>2. \A i \in 1..(Len(t) + 1) : Append(t, v)[i] = v
    BY <1>1
  <1>3. Len(Append(t, v)) = Len(t) + 1 /\ Len(t) \in Nat /\ DOMAIN Append(t, v) = 1..(Len(t) + 1)
    OBVIOUS
  <1> QED
    BY <1>2, <1>3 DEF ToSet

(* The run is over: who is still at work, or asks, saw a branch die.       *)
LEMMA RunEndsStep ==
    ASSUME IInv, NEW r \in Runs, RunEnds(r)
    PROVE  IInv'
  <1>0. SessionTypes' /\ hydrated' = hydrated /\ blind' = blind
    BY SessionSame DEF RunEnds
  <1>1. /\ TypeInv /\ Fine(r) /\ main[r] = "on" /\ Over(r)
        /\ status[r] \in {"running", "paused", "checkpoint", "aborted"}
    BY DEF IInv, RunEnds, Over, Fine, Listed
  <1>2. /\ UNCHANGED <<source, resumeOf, signal, paused, resolver, branchVars, countVars,
                       calls, worktree, poolVars, sessionVars>>
        /\ main' = [main EXCEPT ![r] = "over"] /\ ctrl' = [ctrl EXCEPT ![r] = FALSE]
        /\ ended' = [ended EXCEPT ![r] = Append(ended[r], Verdict(r))]
        /\ inbox' \subseteq Runs
    BY DEF RunEnds, ForgetControls, IInv, TypeInv, ControlTypes
  <1>3. Verdict(r) \in Verdicts
    BY DEF Verdict, Verdicts
  <1>4. PICK st \in {status[r], Verdict(r)} :
           /\ status' = [status EXCEPT ![r] = st]
           /\ st = Verdict(r) \/ st = "checkpoint" \/ (st = "aborted" /\ Verdict(r) = "completed")
    BY DEF RunEnds
  <1>5. st \in {"completed", "aborted", "checkpoint"}
    BY <1>1, <1>3, <1>4 DEF Verdicts
  <1>6. /\ status \in [Runs -> Statuses] /\ main \in [Runs -> {"none", "on", "over", "lost"}]
        /\ ended \in [Runs -> Seq(Verdicts)] /\ ctrl \in [Runs -> BOOLEAN]
    BY <1>1 DEF TypeInv, ControlTypes, JournalTypes
  <1>7. /\ status' \in [Runs -> Statuses] /\ status'[r] = st
        /\ \A q \in Runs \ {r} : status'[q] = status[q]
    BY <1>4, <1>5, <1>6 DEF Statuses
  <1>8. /\ main' \in [Runs -> {"none", "on", "over", "lost"}] /\ main'[r] = "over"
        /\ \A q \in Runs \ {r} : main'[q] = main[q]
    BY <1>2, <1>6
  <1>9. /\ ctrl' \in [Runs -> BOOLEAN] /\ ctrl'[r] = FALSE
        /\ \A q \in Runs \ {r} : ctrl'[q] = ctrl[q]
    BY <1>2, <1>6
  <1>10. /\ ended' \in [Runs -> Seq(Verdicts)] /\ ended'[r] = Append(ended[r], Verdict(r))
         /\ \A q \in Runs \ {r} : ended'[q] = ended[q]
    <2>1. Append(ended[r], Verdict(r)) \in Seq(Verdicts)
      BY <1>3, <1>6
    <2> QED
      BY <1>2, <1>6, <2>1
  <1>11. ControlTypes'
    BY <1>1, <1>2, <1>7, <1>8, <1>9 DEF TypeInv, ControlTypes
  <1>12. /\ BranchTypes' /\ CallsGrow(r) /\ calls' \in [Runs -> Seq(CallSet)]
         /\ Pending(r)' /\ Cached(r)' /\ Bounded(r)' /\ WorktreesInUse'
         /\ \A q \in Runs : SameBranches(q) /\ calls'[q] = calls[q] /\ spent'[q] = spent[q]
         /\ \A b \in Branches : Kind(r, b)' = Kind(r, b) /\ (Active(r, b)' <=> Active(r, b))
    BY <1>2, BranchesStay
  <1>13. Elsewhere(r)
    BY <1>0, <1>2, <1>7, <1>8, <1>9, <1>10, <1>12 DEF Elsewhere, SameControl, SameJournal
  <1>14. pc' = pc /\ step' = step
    BY <1>2 DEF branchVars
  <1>15. Controlled(r)'
    BY <1>1, <1>2, <1>5, <1>7, <1>8, <1>9, <1>14 DEF Fine, Controlled
  <1>16. InScript(r)'
    BY <1>1, <1>2, <1>8, <1>12, <1>14 DEF Fine, InScript, Width
  <1>17. Listed(r)' /\ Judged(r)'
    <2>1. r \notin blind => ended[r] = <<>> /\ ToSet(ended'[r]) = {Verdict(r)}
      <3>1. r \notin blind => ended[r] = <<>>
        BY <1>1 DEF Fine, Judged
      <3> QED
        BY <1>10, <3>1, OneVerdictAdded
    <2>2. ASSUME NEW b \in Branches, Active(r, b) PROVE Verdict(r) = "aborted"
      <3>1. b \in 1..Width(r) /\ pc[r][b] # "done"
        BY <1>1, <2>2 DEF Fine, InScript, Active
      <3>2. PICK c \in 1..Width(r) : pc[r][c] = "dead"
        BY <1>1, <3>1 DEF Over
      <3>3. c \in Branches
        BY <1>1, <3>2, WidthTyped, WorkflowAssumption DEF Branches
      <3> QED
        BY <3>2, <3>3 DEF Verdict
    <2>3. status[r] = "aborted" => Verdict(r) = "aborted"
      BY <1>1 DEF Fine, Controlled, Verdict
    <2>4. status[r] = "checkpoint" => Verdict(r) = "aborted"
      <3>1. status[r] = "checkpoint" => resolver[r] \in Branches /\ pc[r][resolver[r]] = "asked"
        BY <1>1 DEF Fine, Listed, Controlled, TypeInv, ControlTypes
      <3> QED
        BY <2>2, <3>1 DEF Active
    <2>5. /\ st = "completed" => Verdict(r) = "completed"
          /\ st = "aborted" => Verdict(r) = "aborted"
          /\ st = "checkpoint" => Verdict(r) = "aborted"
      BY <1>1, <1>3, <1>4, <2>3, <2>4 DEF Verdicts
    <2>6. Listed(r)'
      BY <1>5, <1>7, <1>8 DEF Listed
    <2>7. r \notin blind => ~(hydrated[r] \in {"completed", "aborted"})
      <3>1. ToSet(<<>>) = {}
        BY DEF ToSet
      <3> QED
        BY <1>1, <2>1, <3>1 DEF Fine, Judged
    <2>8. Judged(r)'
      BY <1>0, <1>3, <1>5, <1>7, <1>8, <1>12, <2>1, <2>2, <2>5, <2>7 DEF Judged, OneVerdict
    <2> QED
      BY <2>6, <2>8
  <1>18. Fine(r)'
    BY <1>12, <1>15, <1>16, <1>17 DEF Fine
  <1> QED
    BY <1>0, <1>2, <1>10, <1>11, <1>12, <1>13, <1>18, ControlStep

(* The gate is shut when nobody is past it. *)
LEMMA PauseStep ==
    ASSUME IInv, NEW r \in Runs, Pause(r)
    PROVE  IInv'
  <1>0. SessionTypes' /\ hydrated' = hydrated /\ blind' = blind
    BY SessionSame DEF Pause
  <1>1. TypeInv /\ Fine(r) /\ status[r] = "running" /\ main[r] = "on" /\ ctrl[r] = TRUE
    BY DEF IInv, Pause, Fine, Listed, Controlled, TypeInv, ControlTypes
  <1>2. /\ UNCHANGED <<main, source, resumeOf, ctrl, signal, resolver, inbox, branchVars,
                       countVars, ended, calls, worktree, poolVars, sessionVars>>
        /\ paused' = [paused EXCEPT ![r] = ctrl[r]]
        /\ status' = [status EXCEPT ![r] = "paused"]
    BY DEF Pause, journalVars
  <1>3. /\ status \in [Runs -> Statuses] /\ paused \in [Runs -> BOOLEAN]
        /\ ended \in [Runs -> Seq(Verdicts)]
    BY <1>1 DEF TypeInv, ControlTypes, JournalTypes
  <1>4. /\ status' \in [Runs -> Statuses] /\ status'[r] = "paused"
        /\ \A q \in Runs \ {r} : status'[q] = status[q]
    BY <1>2, <1>3 DEF Statuses
  <1>5. /\ paused' \in [Runs -> BOOLEAN] /\ paused'[r] = TRUE
        /\ \A q \in Runs \ {r} : paused'[q] = paused[q]
    BY <1>1, <1>2, <1>3
  <1>6. ControlTypes' /\ ended' \in [Runs -> Seq(Verdicts)]
    BY <1>1, <1>2, <1>3, <1>4, <1>5 DEF TypeInv, ControlTypes
  <1>7. /\ BranchTypes' /\ CallsGrow(r) /\ calls' \in [Runs -> Seq(CallSet)]
        /\ Pending(r)' /\ Cached(r)' /\ Bounded(r)' /\ WorktreesInUse'
        /\ \A q \in Runs : SameBranches(q) /\ calls'[q] = calls[q] /\ spent'[q] = spent[q]
        /\ \A b \in Branches : Kind(r, b)' = Kind(r, b) /\ (Active(r, b)' <=> Active(r, b))
    BY <1>2, BranchesStay
  <1>8. Elsewhere(r)
    BY <1>0, <1>2, <1>4, <1>5, <1>7 DEF Elsewhere, SameControl, SameJournal
  <1>9. pc' = pc /\ step' = step
    BY <1>2 DEF branchVars
  <1>10. \A b \in Branches : pc[r][b] # "free"
    BY DEF Pause, Quiet, Due
  <1>11. Controlled(r)'
    BY <1>1, <1>2, <1>4, <1>5, <1>9, <1>10 DEF Fine, Controlled
  <1>12. InScript(r)'
    BY <1>1, <1>2, <1>7, <1>9 DEF Fine, InScript, Width
  <1>13. Listed(r)' /\ Judged(r)'
    BY <1>0, <1>1, <1>2, <1>4, <1>7 DEF Fine, Listed, Judged, OneVerdict
  <1>14. Fine(r)'
    BY <1>7, <1>11, <1>12, <1>13 DEF Fine
  <1> QED
    BY <1>0, <1>2, <1>6, <1>7, <1>8, <1>14, ControlStep

(* Those at the gate go on, or are rejected. *)
LEMMA BranchesReleased ==
    ASSUME IInv, NEW r \in Runs, NEW to \in {"free", "rejected"},
           pc' = [pc EXCEPT ![r] = Released(@, to)],
           UNCHANGED <<main, source, resumeOf, step, attempt, idx, countVars, calls, worktree>>
    PROVE  /\ BranchTypes' /\ CallsGrow(r) /\ calls' \in [Runs -> Seq(CallSet)]
           /\ InScript(r)' /\ Pending(r)' /\ Cached(r)' /\ Bounded(r)' /\ WorktreesInUse'
           /\ \A q \in Runs : calls'[q] = calls[q] /\ spent'[q] = spent[q]
           /\ \A q \in Runs \ {r} : SameBranches(q)
           /\ \A b \in Branches : /\ (Active(r, b)' <=> Active(r, b))
                                  /\ (pc[r][b] = "asked" => pc'[r][b] = "asked")
  <1>1. TypeInv /\ Fine(r) /\ WorktreesInUse
    BY DEF IInv
  <1>2. pc \in [Runs -> [Branches -> Places]] /\ pc[r] \in [Branches -> Places]
    BY <1>1 DEF TypeInv, BranchTypes
  <1>3. /\ Released(pc[r], to) \in [Branches -> Places]
        /\ \A b \in Branches : Released(pc[r], to)[b] = IF pc[r][b] = "gated" THEN to ELSE pc[r][b]
    BY <1>2 DEF Released, Places
  <1>4. /\ pc' \in [Runs -> [Branches -> Places]] /\ pc'[r] = Released(pc[r], to)
        /\ \A q \in Runs \ {r} : pc'[q] = pc[q]
    BY <1>2, <1>3
  <1>5. \A b \in Branches : pc'[r][b] = IF pc[r][b] = "gated" THEN to ELSE pc[r][b]
    BY <1>3, <1>4
  <1>6. \A q \in Runs, b \in Branches : Kind(q, b)' = Kind(q, b)
    BY DEF Kind, Call
  <1>7. \A b \in Branches : /\ (Active(r, b)' <=> Active(r, b))
                            /\ (Holds(r, b)' => Holds(r, b))
                            /\ (b \in Counted(r)' => b \in Counted(r))
    BY <1>5, <1>6 DEF Active, Holds, Counted
  <1>8. spent' = spent
    BY DEF countVars
  <1>9. InScript(r)'
    <2>1. \A b \in Branches : /\ (pc'[r][b] \in {"asked", "child", "phase", "wrapping", "idle", "lost", "done"}
                                    => pc[r][b] = pc'[r][b])
                              /\ (pc[r][b] \in {"idle", "lost", "done"} => pc'[r][b] = pc[r][b])
      BY <1>5
    <2> QED
      BY <1>1, <1>6, <1>7, <2>1 DEF Fine, InScript, Width
  <1>10. Pending(r)'
    BY <1>1, <1>6, <1>7 DEF Fine, Pending
  <1>11. Cached(r)'
    BY <1>1 DEF Fine, Cached
  <1>12. Bounded(r)'
    <2>1. Counted(r)' \subseteq Counted(r)
      <3>1. \A b \in Counted(r)' : b \in Branches
        BY DEF Counted
      <3> QED
        BY <1>7, <3>1
    <2>2. IsFiniteSet(Counted(r)) /\ Cardinality(Counted(r)) \in Nat
      BY <1>1, CountedFinite DEF Fine
    <2>3. Cardinality(Counted(r)') <= Cardinality(Counted(r)) /\ Cardinality(Counted(r)') \in Nat
      BY <2>1, <2>2, FS_Subset, FS_CardinalityType
    <2>4. spent[r] \in Nat /\ Width(r) \in Nat /\ Width(r)' = Width(r) /\ Budget \in Nat
      BY <1>1, WidthTyped, WorkflowAssumption DEF TypeInv, JournalTypes, Width
    <2>5. spent'[r] + Cardinality(Counted(r)') < Budget + Width(r)
      BY <1>1, <1>8, <2>2, <2>3, <2>4 DEF Fine, Bounded
    <2> QED
      BY <2>4, <2>5 DEF Bounded
  <1>13. WorktreesInUse'
    <2> SUFFICES ASSUME NEW w \in worktree
                 PROVE  \/ pc'[w[1]][w[2]] = "lost"
                        \/ /\ pc'[w[1]][w[2]] \in {"gated", "free", "rejected", "child"}
                           /\ Kind(w[1], w[2])' = "isolated"
      BY DEF WorktreesInUse
    <2>1. PICK q \in Runs, c \in Branches : w = <<q, c>>
      BY <1>1 DEF TypeInv, JournalTypes
    <2>2. \/ pc[q][c] = "lost"
          \/ pc[q][c] \in {"gated", "free", "rejected", "child"} /\ Kind(q, c) = "isolated"
      BY <1>1, <2>1 DEF WorktreesInUse
    <2>3. pc'[q][c] = pc[q][c] \/ (pc[q][c] = "gated" /\ pc'[q][c] = to)
      BY <1>4, <1>5
    <2> QED
      BY <1>6, <2>1, <2>2, <2>3
  <1>14. BranchTypes' /\ calls' \in [Runs -> Seq(CallSet)]
    BY <1>1, <1>4 DEF TypeInv, BranchTypes, JournalTypes
  <1>15. \A b \in Branches : pc[r][b] = "asked" => pc'[r][b] = "asked"
    BY <1>5
  <1> QED
    BY <1>1, <1>4, <1>7, <1>8, <1>9, <1>10, <1>11, <1>12, <1>13, <1>14, <1>15, CallsStay
    DEF SameBranches

(* What a change of status and gate means for the controls of the run. *)
LEMMA StatusAndGate ==
    ASSUME TypeInv, NEW r \in Runs, NEW st \in Statuses,
           status' = [status EXCEPT ![r] = st], paused' = [paused EXCEPT ![r] = FALSE]
    PROVE  /\ status' \in [Runs -> Statuses] /\ status'[r] = st
           /\ paused' \in [Runs -> BOOLEAN] /\ paused'[r] = FALSE
           /\ \A q \in Runs \ {r} : status'[q] = status[q] /\ paused'[q] = paused[q]
  <1>1. status \in [Runs -> Statuses] /\ paused \in [Runs -> BOOLEAN]
    BY DEF TypeInv, ControlTypes
  <1> QED
    BY <1>1

LEMMA ResumeStep ==
    ASSUME IInv, NEW r \in Runs, Resume(r)
    PROVE  IInv'
  <1>0. SessionTypes' /\ hydrated' = hydrated /\ blind' = blind
    BY SessionSame DEF Resume
  <1>1. TypeInv /\ Fine(r) /\ status[r] = "paused" /\ main[r] = "on"
    BY DEF IInv, Resume, Fine, Listed
  <1>2. /\ UNCHANGED <<main, source, resumeOf, ctrl, signal, resolver, inbox, step, idx, attempt,
                       countVars, ended, calls, worktree, poolVars, sessionVars>>
        /\ paused' = [paused EXCEPT ![r] = FALSE]
        /\ status' = [status EXCEPT ![r] = "running"]
        /\ pc' = [pc EXCEPT ![r] = Released(@, "free")]
    BY DEF Resume, OpenGate, journalVars
  <1>3. /\ status' \in [Runs -> Statuses] /\ status'[r] = "running"
        /\ paused' \in [Runs -> BOOLEAN] /\ paused'[r] = FALSE
        /\ \A q \in Runs \ {r} : status'[q] = status[q] /\ paused'[q] = paused[q]
    BY <1>1, <1>2, StatusAndGate DEF Statuses
  <1>4. ControlTypes' /\ ended' \in [Runs -> Seq(Verdicts)]
    BY <1>1, <1>2, <1>3 DEF TypeInv, ControlTypes, JournalTypes
  <1>5. /\ BranchTypes' /\ CallsGrow(r) /\ calls' \in [Runs -> Seq(CallSet)]
        /\ InScript(r)' /\ Pending(r)' /\ Cached(r)' /\ Bounded(r)' /\ WorktreesInUse'
        /\ \A q \in Runs : calls'[q] = calls[q] /\ spent'[q] = spent[q]
        /\ \A q \in Runs \ {r} : SameBranches(q)
        /\ \A b \in Branches : pc[r][b] = "asked" => pc'[r][b] = "asked"
    BY <1>2, BranchesReleased
  <1>6. Elsewhere(r)
    BY <1>0, <1>2, <1>3, <1>5 DEF Elsewhere, SameControl, SameJournal
  <1>7. Controlled(r)'
    <2>1. resolver'[r] # NoBranch => pc'[r][resolver'[r]] = "asked"
      BY <1>1, <1>2, <1>5 DEF Fine, Controlled, TypeInv, ControlTypes
    <2> QED
      BY <1>1, <1>2, <1>3, <2>1 DEF Fine, Controlled
  <1>8. Listed(r)' /\ Judged(r)'
    BY <1>0, <1>1, <1>2, <1>3 DEF Fine, Listed, Judged, OneVerdict
  <1>9. Fine(r)'
    BY <1>5, <1>7, <1>8 DEF Fine
  <1> QED
    BY <1>0, <1>2, <1>4, <1>5, <1>6, <1>9, ControlStep

(* The question is answered: its branch goes on, the others stay or are    *)
(* rejected at the gate.                                                   *)
LEMMA QuestionAnswered ==
    ASSUME IInv, NEW r \in Runs, NEW b \in Branches, pc[r][b] = "asked",
           Goes(r, b, IF LastCall(r, b) THEN "done" ELSE "next"),
           NEW st \in {"given", "undefined"}, Answer(r, b, st),
           attempt' \in [Runs -> [Branches -> 0..Retries]],
           UNCHANGED <<main, source, resumeOf, idx, countVars, worktree>>
    PROVE  /\ BranchTypes' /\ CallsGrow(r) /\ calls' \in [Runs -> Seq(CallSet)]
           /\ InScript(r)' /\ Pending(r)' /\ Cached(r)' /\ Bounded(r)' /\ WorktreesInUse'
           /\ \A q \in Runs : spent'[q] = spent[q]
           /\ \A q \in Runs \ {r} : SameBranches(q) /\ calls'[q] = calls[q]
  <1>1. /\ TypeInv /\ Fine(r) /\ WorktreesInUse /\ Active(r, b) /\ Holds(r, b)
    BY DEF IInv, Active, Holds
  <1>2. Kind(r, b) = "checkpoint" /\ spent' = spent
    BY <1>1 DEF Fine, InScript, countVars
  <1>3. <<r, b>> \notin worktree
    BY <1>1, WorktreeOf
  <1> DEFINE to == IF LastCall(r, b) THEN "done" ELSE "next"
  <1>4. Goes(r, b, to) /\ to \in {"done", "next"}
    OBVIOUS
  <1> HIDE DEF to
  <1>5. ~Holds(r, b)' /\ b \notin Counted(r)'
    BY <1>4 DEF Goes, Holds, Counted
  <1>6. /\ Pending(r)' /\ Cached(r)' /\ CallsGrow(r) /\ calls' \in [Runs -> Seq(CallSet)]
        /\ \A q \in Runs \ {r} : calls'[q] = calls[q]
    BY <1>1, <1>2, <1>4, <1>5, PendingAnswered DEF Fine
  <1>7. InScript(r)'
    BY <1>1, <1>4, InScriptKept DEF Fine
  <1>8. Bounded(r)'
    BY <1>1, <1>2, <1>4, <1>5, BoundedKept DEF Fine
  <1>9. WorktreesInUse'
    BY <1>1, <1>3, <1>4, WorktreeKept
  <1>10. BranchTypes'
    BY <1>1, <1>4 DEF TypeInv, BranchTypes, Goes
  <1>11. \A q \in Runs \ {r} : SameBranches(q)
    BY <1>4 DEF Goes, SameBranches
  <1> QED
    BY <1>2, <1>6, <1>7, <1>8, <1>9, <1>10, <1>11

LEMMA RespondStep ==
    ASSUME IInv, NEW r \in Runs, RespondToCheckpoint(r)
    PROVE  IInv'
  <1>0. SessionTypes' /\ hydrated' = hydrated /\ blind' = blind
    BY SessionSame DEF RespondToCheckpoint
  <1>1. /\ TypeInv /\ Fine(r) /\ status[r] = "checkpoint" /\ main[r] = "on"
        /\ resolver[r] # NoBranch /\ ~paused[r]
    BY DEF IInv, RespondToCheckpoint, Fine, Controlled
  <1>2. /\ UNCHANGED <<main, source, resumeOf, ctrl, signal, paused, inbox, idx, countVars,
                       ended, worktree, poolVars, sessionVars>>
        /\ status' = [status EXCEPT ![r] = "running"]
        /\ resolver' = [resolver EXCEPT ![r] = NoBranch]
    BY DEF RespondToCheckpoint
  <1>3. PICK b \in Branches : b = resolver[r] /\ pc[r][b] = "asked"
    BY <1>1 DEF Fine, Controlled, TypeInv, ControlTypes
  <1>4. Answer(r, b, "given") /\ Returns(r, b)
    BY <1>3 DEF RespondToCheckpoint
  <1>5. /\ Goes(r, b, IF LastCall(r, b) THEN "done" ELSE "next")
        /\ attempt' \in [Runs -> [Branches -> 0..Retries]]
    <2>1. InScript(r) /\ Active(r, b)
      BY <1>1, <1>3 DEF Fine, Active
    <2> QED
      BY <1>1, <1>4, <2>1, ReturnsGoes
  <1>6. /\ BranchTypes' /\ CallsGrow(r) /\ calls' \in [Runs -> Seq(CallSet)]
        /\ InScript(r)' /\ Pending(r)' /\ Cached(r)' /\ Bounded(r)' /\ WorktreesInUse'
        /\ \A q \in Runs : spent'[q] = spent[q]
        /\ \A q \in Runs \ {r} : SameBranches(q) /\ calls'[q] = calls[q]
    BY <1>2, <1>3, <1>4, <1>5, QuestionAnswered
  <1>7. /\ status \in [Runs -> Statuses] /\ resolver \in [Runs -> Branches \cup {NoBranch}]
        /\ ended \in [Runs -> Seq(Verdicts)]
    BY <1>1 DEF TypeInv, ControlTypes, JournalTypes
  <1>8. /\ status' \in [Runs -> Statuses] /\ status'[r] = "running"
        /\ \A q \in Runs \ {r} : status'[q] = status[q]
    BY <1>2, <1>7 DEF Statuses
  <1>9. /\ resolver' \in [Runs -> Branches \cup {NoBranch}] /\ resolver'[r] = NoBranch
        /\ \A q \in Runs \ {r} : resolver'[q] = resolver[q]
    BY <1>2, <1>7
  <1>10. ControlTypes' /\ ended' \in [Runs -> Seq(Verdicts)]
    BY <1>1, <1>2, <1>7, <1>8, <1>9 DEF TypeInv, ControlTypes
  <1>11. Elsewhere(r)
    BY <1>0, <1>2, <1>6, <1>8, <1>9 DEF Elsewhere, SameControl, SameJournal
  <1>12. Controlled(r)'
    BY <1>1, <1>2, <1>8, <1>9 DEF Fine, Controlled
  <1>13. Listed(r)' /\ Judged(r)'
    BY <1>0, <1>1, <1>2, <1>8 DEF Fine, Listed, Judged, OneVerdict
  <1>14. Fine(r)'
    BY <1>6, <1>12, <1>13 DEF Fine
  <1> QED
    BY <1>0, <1>2, <1>6, <1>10, <1>11, <1>14, ControlStep

(* Stop with a question open: what becomes of the branches. *)
LEMMA AskedAndStopped ==
    ASSUME TypeInv, NEW r \in Runs, NEW b \in Branches, InScript(r), pc[r][b] = "asked",
           step' = [step EXCEPT ![r][b] = @ + 1],
           pc' = [pc EXCEPT ![r] =
                    LET p == Released(@, "rejected") IN
                    IF LastCall(r, b) THEN TakeThunk([p EXCEPT ![b] = "done"])
                    ELSE [p EXCEPT ![b] = "next"]]
    PROVE  Goes(r, b, IF LastCall(r, b) THEN "done" ELSE "next")
  <1> DEFINE p == Released(pc[r], "rejected")
             d == [p EXCEPT ![b] = "done"]
             after == IF LastCall(r, b) THEN TakeThunk(d) ELSE [p EXCEPT ![b] = "next"]
             to == IF LastCall(r, b) THEN "done" ELSE "next"
  <1>1. /\ pc \in [Runs -> [Branches -> Places]] /\ step \in [Runs -> [Branches -> Nat \ {0}]]
    BY DEF TypeInv, BranchTypes
  <1>2. step[r][b] \in 1..Len(Script[source[r]][b])
    BY DEF InScript, Active
  <1>3. pc' = [pc EXCEPT ![r] = after]
    OBVIOUS
  <1>4. /\ p \in [Branches -> Places]
        /\ \A c \in Branches : p[c] = IF pc[r][c] = "gated" THEN "rejected" ELSE pc[r][c]
    BY <1>1 DEF Released, Places
  <1> HIDE DEF p
  <1>5. d \in [Branches -> Places] /\ d[b] = "done" /\ \A c \in Branches \ {b} : d[c] = p[c]
    BY <1>4 DEF Places
  <1> HIDE DEF d
  <1>6. /\ after \in [Branches -> Places] /\ after[b] = to
        /\ \A c \in Branches \ {b} : after[c] = p[c] \/ (p[c] = "idle" /\ after[c] = "next")
    <2>1. CASE LastCall(r, b)
      BY <1>5, <2>1, ThunkTaken
    <2>2. CASE ~LastCall(r, b)
      BY <1>4, <2>2 DEF Places
    <2> QED
      BY <2>1, <2>2
  <1> HIDE DEF after
  <1>7. \A c \in Branches \ {b} : \/ after[c] = pc[r][c]
                                  \/ pc[r][c] = "idle" /\ after[c] = "next"
                                  \/ pc[r][c] = "gated" /\ after[c] = "rejected"
    BY <1>4, <1>6
  <1>8. /\ pc' \in [Runs -> [Branches -> Places]] /\ pc'[r] = after
        /\ \A q \in Runs \ {r} : pc'[q] = pc[q]
    BY <1>1, <1>3, <1>6
  <1>9. /\ step' \in [Runs -> [Branches -> Nat \ {0}]] /\ step'[r][b] = step[r][b] + 1
        /\ \A c \in Branches \ {b} : step'[r][c] = step[r][c]
        /\ \A q \in Runs \ {r} : step'[q] = step[q]
    BY <1>1
  <1>10. to = "next" => step[r][b] + 1 \in 1..Len(Script[source[r]][b])
    BY <1>2 DEF LastCall
  <1>11. to \in {"next", "done"}
    OBVIOUS
  <1> HIDE DEF to
  <1>12. Goes(r, b, to)
    BY <1>6, <1>7, <1>8, <1>9, <1>10, <1>11 DEF Goes
  <1> QED
    BY <1>12 DEF to

(* Stop: the signal fires, or a run without controls gets its verdict.     *)
LEMMA StopStep ==
    ASSUME IInv, NEW r \in Runs, Stop(r)
    PROVE  IInv'
  <1>0. SessionTypes' /\ hydrated' = hydrated /\ blind' = blind
    BY SessionSame DEF Stop
  <1>1. /\ TypeInv /\ Fine(r) /\ main[r] # "none"
        /\ status[r] \in {"running", "paused", "checkpoint"}
    BY DEF IInv, Stop, Fine, Controlled, Unstarted
  <1>2. /\ UNCHANGED <<main, source, resumeOf, inbox, idx, countVars, worktree,
                       poolVars, sessionVars>>
        /\ ctrl' = ctrl \/ ctrl' = [ctrl EXCEPT ![r] = FALSE]
        /\ status' = [status EXCEPT ![r] = "aborted"]
        /\ signal' = [signal EXCEPT ![r] = ctrl[r]]
        /\ paused' = [paused EXCEPT ![r] = FALSE]
        /\ resolver' = [resolver EXCEPT ![r] = NoBranch]
        /\ ended' = IF ctrl[r] THEN ended ELSE [ended EXCEPT ![r] = Append(@, "aborted")]
    BY DEF Stop, OpenGate, ForgetControls
  <1>3. /\ signal \in [Runs -> BOOLEAN] /\ ctrl \in [Runs -> BOOLEAN]
        /\ resolver \in [Runs -> Branches \cup {NoBranch}] /\ ended \in [Runs -> Seq(Verdicts)]
    BY <1>1 DEF TypeInv, ControlTypes, JournalTypes
  <1>4. /\ status' \in [Runs -> Statuses] /\ status'[r] = "aborted"
        /\ paused' \in [Runs -> BOOLEAN] /\ paused'[r] = FALSE
        /\ \A q \in Runs \ {r} : status'[q] = status[q] /\ paused'[q] = paused[q]
    BY <1>1, <1>2, StatusAndGate DEF Statuses
  <1>5. /\ signal' \in [Runs -> BOOLEAN] /\ signal'[r] = ctrl[r]
        /\ \A q \in Runs \ {r} : signal'[q] = signal[q]
        /\ ctrl' \in [Runs -> BOOLEAN] /\ (ctrl'[r] => ctrl[r])
        /\ \A q \in Runs \ {r} : ctrl'[q] = ctrl[q]
    <2>1. /\ signal' \in [Runs -> BOOLEAN] /\ signal'[r] = ctrl[r]
          /\ \A q \in Runs \ {r} : signal'[q] = signal[q]
      BY <1>2, <1>3
    <2>2. /\ ctrl' \in [Runs -> BOOLEAN] /\ (ctrl'[r] => ctrl[r])
          /\ \A q \in Runs \ {r} : ctrl'[q] = ctrl[q]
      BY <1>2, <1>3
    <2> QED
      BY <2>1, <2>2
  <1>6. /\ resolver' \in [Runs -> Branches \cup {NoBranch}] /\ resolver'[r] = NoBranch
        /\ \A q \in Runs \ {r} : resolver'[q] = resolver[q]
    BY <1>2, <1>3
  <1>7. /\ ended' \in [Runs -> Seq(Verdicts)] /\ \A q \in Runs \ {r} : ended'[q] = ended[q]
        /\ ended'[r] = IF ctrl[r] THEN ended[r] ELSE Append(ended[r], "aborted")
    <2>1. Append(ended[r], "aborted") \in Seq(Verdicts)
      BY <1>3 DEF Verdicts
    <2> QED
      BY <1>2, <1>3, <2>1
  <1>8. ControlTypes'
    BY <1>1, <1>2, <1>4, <1>5, <1>6 DEF TypeInv, ControlTypes
  <1>9. /\ BranchTypes' /\ CallsGrow(r) /\ calls' \in [Runs -> Seq(CallSet)]
        /\ InScript(r)' /\ Pending(r)' /\ Cached(r)' /\ Bounded(r)' /\ WorktreesInUse'
        /\ \A q \in Runs : spent'[q] = spent[q]
        /\ \A q \in Runs \ {r} : SameBranches(q) /\ calls'[q] = calls[q]
    <2>1. CASE /\ pc' = [pc EXCEPT ![r] = Released(@, "rejected")]
               /\ UNCHANGED <<step, attempt, calls>>
      BY <1>2, <2>1, BranchesReleased
    <2>2. CASE resolver[r] # NoBranch
      <3>1. PICK b \in Branches : b = resolver[r] /\ pc[r][b] = "asked"
        BY <1>1, <2>2 DEF Fine, Controlled, TypeInv, ControlTypes
      <3>2. /\ Answer(r, b, "undefined") /\ step' = [step EXCEPT ![r][b] = @ + 1]
            /\ pc' = [pc EXCEPT ![r] =
                        LET p == Released(@, "rejected") IN
                        IF LastCall(r, b) THEN TakeThunk([p EXCEPT ![b] = "done"])
                        ELSE [p EXCEPT ![b] = "next"]]
            /\ attempt' = attempt
        BY <2>2, <3>1 DEF Stop
      <3>3. Goes(r, b, IF LastCall(r, b) THEN "done" ELSE "next")
        BY <1>1, <3>1, <3>2, AskedAndStopped DEF Fine
      <3>4. attempt' \in [Runs -> [Branches -> 0..Retries]]
        BY <1>1, <3>2 DEF TypeInv, BranchTypes
      <3> QED
        BY <1>2, <3>1, <3>2, <3>3, <3>4, QuestionAnswered
    <2> QED
      BY <2>1, <2>2 DEF Stop
  <1>10. Elsewhere(r)
    BY <1>0, <1>2, <1>4, <1>5, <1>6, <1>7, <1>9 DEF Elsewhere, SameControl, SameJournal
  <1>11. main[r] = "on" => ctrl[r]
    BY <1>1 DEF Fine, Controlled
  <1>12. Controlled(r)'
    BY <1>1, <1>2, <1>4, <1>5, <1>6, <1>11 DEF Fine, Controlled
  <1>13. Listed(r)'
    BY <1>1, <1>2, <1>4 DEF Fine, Listed
  <1>14. Judged(r)'
    <2>1. CASE main[r] = "on"
      BY <1>0, <1>1, <1>2, <1>4, <1>7, <1>11, <2>1 DEF Fine, Judged, OneVerdict
    <2>2. CASE main[r] # "on" /\ r \notin blind
      <3>1. ~ctrl[r] /\ status[r] = "checkpoint"
        BY <1>1, <2>2 DEF Fine, Controlled, Listed
      <3>2. ToSet(ended[r]) = {"aborted"}
        BY <1>1, <2>2, <3>1 DEF Fine, Judged
      <3>3. ToSet(ended'[r]) = {"aborted"}
        BY <1>3, <1>7, <3>1, <3>2, SameVerdictAdded
      <3>4. main[r] # "lost"
        BY <1>1, <3>1 DEF Fine, Listed
      <3> QED
        BY <1>0, <1>1, <1>2, <1>4, <2>2, <3>2, <3>3, <3>4 DEF Fine, Judged, OneVerdict, Verdicts
    <2>3. CASE r \in blind
      BY <1>0, <2>3 DEF Judged
    <2> QED
      BY <2>1, <2>2, <2>3
  <1>15. Fine(r)'
    BY <1>9, <1>12, <1>13, <1>14 DEF Fine
  <1> QED
    BY <1>0, <1>2, <1>7, <1>8, <1>9, <1>10, <1>15, ControlStep

(* Stop of a run that the list takes for interrupted: the verdict is       *)
(* written, and if the run is not dead it may have another.                *)
LEMMA StopInterruptedStep ==
    ASSUME IInv, NEW r \in Runs, StopInterrupted(r)
    PROVE  IInv'
  <1>1. TypeInv /\ Fine(r) /\ hydrated[r] = "interrupted" /\ main[r] # "none"
    BY DEF IInv, StopInterrupted, Fine, Controlled, Unstarted
  <1>2. /\ UNCHANGED <<controlVars, branchVars, countVars, calls, worktree, poolVars>>
        /\ session' = session /\ home' = home /\ foreground' = foreground
        /\ hydrated' = [hydrated EXCEPT ![r] = "aborted"]
        /\ ended' = [ended EXCEPT ![r] = Append(ended[r], "aborted")]
        /\ blind' = IF main[r] = "lost" THEN blind ELSE blind \cup {r}
    BY DEF StopInterrupted
  <1>3. /\ status' = status /\ main' = main /\ source' = source /\ resumeOf' = resumeOf
        /\ ctrl' = ctrl /\ signal' = signal /\ paused' = paused /\ resolver' = resolver
        /\ inbox' = inbox /\ pc' = pc /\ step' = step
    BY <1>2 DEF controlVars, branchVars
  <1>4. /\ hydrated \in [Runs -> Hydrations] /\ ended \in [Runs -> Seq(Verdicts)]
    BY <1>1 DEF TypeInv, SessionTypes, JournalTypes
  <1>5. /\ hydrated' \in [Runs -> Hydrations] /\ hydrated'[r] = "aborted"
        /\ \A q \in Runs \ {r} : hydrated'[q] = hydrated[q]
    BY <1>2, <1>4 DEF Hydrations
  <1>6. /\ ended' \in [Runs -> Seq(Verdicts)] /\ ended'[r] = Append(ended[r], "aborted")
        /\ \A q \in Runs \ {r} : ended'[q] = ended[q]
    <2>1. Append(ended[r], "aborted") \in Seq(Verdicts)
      BY <1>4 DEF Verdicts
    <2> QED
      BY <1>2, <1>4, <2>1
  <1>7. blind' \subseteq Runs /\ \A q \in Runs \ {r} : q \in blind' <=> q \in blind
    BY <1>1, <1>2 DEF TypeInv, SessionTypes
  <1>8. ControlTypes' /\ SessionTypes'
    BY <1>1, <1>2, <1>3, <1>5, <1>7 DEF TypeInv, ControlTypes, SessionTypes
  <1>9. /\ BranchTypes' /\ CallsGrow(r) /\ calls' \in [Runs -> Seq(CallSet)]
        /\ Pending(r)' /\ Cached(r)' /\ Bounded(r)' /\ WorktreesInUse'
        /\ \A q \in Runs : SameBranches(q) /\ calls'[q] = calls[q] /\ spent'[q] = spent[q]
        /\ \A b \in Branches : Kind(r, b)' = Kind(r, b) /\ (Active(r, b)' <=> Active(r, b))
    BY <1>2, <1>3, BranchesStay
  <1>10. Elsewhere(r)
    BY <1>3, <1>5, <1>6, <1>7, <1>9 DEF Elsewhere, SameControl, SameJournal
  <1>11. Controlled(r)'
    BY <1>1, <1>3 DEF Fine, Controlled
  <1>12. InScript(r)'
    BY <1>1, <1>3, <1>9 DEF Fine, InScript, Width
  <1>13. Listed(r)'
    BY <1>1, <1>3 DEF Fine, Listed
  <1>14. Judged(r)'
    <2>1. CASE main[r] # "lost" \/ r \in blind
      BY <1>2, <2>1 DEF Judged
    <2>2. CASE main[r] = "lost" /\ r \notin blind
      <3>1. ended[r] = <<>> /\ status[r] = "none"
        BY <1>1, <2>2 DEF Fine, Judged, Listed
      <3>2. ToSet(ended'[r]) = {"aborted"}
        BY <1>6, <3>1, OneVerdictAdded
      <3> QED
        BY <1>3, <1>5, <2>2, <3>1, <3>2 DEF Judged, OneVerdict, Verdicts
    <2> QED
      BY <2>1, <2>2
  <1>15. Fine(r)'
    BY <1>9, <1>11, <1>12, <1>13, <1>14 DEF Fine
  <1> QED
    BY <1>2, <1>6, <1>8, <1>9, <1>10, <1>15, ControlStep

-----------------------------------------------------------------------------
(* A run starts, and pi crashes. *)

LEMMA StartRunStep ==
    ASSUME IInv, NEW r \in Runs, NEW s \in Sources, NEW from \in Runs \cup {NoRun},
           NEW inFront \in BOOLEAN, StartRun(r, s, from, inFront)
    PROVE  IInv'
  <1>0. SessionTypes' /\ hydrated' = hydrated /\ blind' = blind
    BY DEF IInv, TypeInv, SessionTypes, StartRun
  <1>1. TypeInv /\ Fine(r) /\ WorktreesInUse /\ Unstarted(r)
    BY DEF IInv, StartRun, Fine, Controlled
  <1> DEFINE at == [b \in Branches |-> IF b > Len(Script[s]) THEN "done"
                                       ELSE IF b <= Workers THEN "next" ELSE "idle"]
  <1>2. /\ UNCHANGED <<signal, paused, resolver, inbox, step, idx, attempt, countVars,
                       calls, ended, worktree, poolVars>>
        /\ status' = [status EXCEPT ![r] = "running"] /\ main' = [main EXCEPT ![r] = "on"]
        /\ source' = [source EXCEPT ![r] = s] /\ resumeOf' = [resumeOf EXCEPT ![r] = from]
        /\ ctrl' = [ctrl EXCEPT ![r] = TRUE] /\ pc' = [pc EXCEPT ![r] = at]
    BY DEF StartRun, journalVars
  <1>3. /\ at \in [Branches -> Places]
        /\ \A b \in Branches : /\ (b > Len(Script[s]) => at[b] = "done")
                               /\ (~(b > Len(Script[s])) => at[b] \in {"next", "idle"})
    BY DEF Places
  <1> HIDE DEF at
  <1>4. /\ status \in [Runs -> Statuses] /\ main \in [Runs -> {"none", "on", "over", "lost"}]
        /\ source \in [Runs -> Sources] /\ resumeOf \in [Runs -> Runs \cup {NoRun}]
        /\ ctrl \in [Runs -> BOOLEAN] /\ pc \in [Runs -> [Branches -> Places]]
    BY <1>1 DEF TypeInv, ControlTypes, BranchTypes
  <1>5. /\ status' \in [Runs -> Statuses] /\ status'[r] = "running"
        /\ \A q \in Runs \ {r} : status'[q] = status[q]
    BY <1>2, <1>4 DEF Statuses
  <1>6. /\ main' \in [Runs -> {"none", "on", "over", "lost"}] /\ main'[r] = "on"
        /\ \A q \in Runs \ {r} : main'[q] = main[q]
    BY <1>2, <1>4
  <1>7. /\ source' \in [Runs -> Sources] /\ source'[r] = s
        /\ \A q \in Runs \ {r} : source'[q] = source[q]
    BY <1>2, <1>4
  <1>8. /\ resumeOf' \in [Runs -> Runs \cup {NoRun}]
        /\ \A q \in Runs \ {r} : resumeOf'[q] = resumeOf[q]
    BY <1>2, <1>4
  <1>9. /\ ctrl' \in [Runs -> BOOLEAN] /\ ctrl'[r] = TRUE
        /\ \A q \in Runs \ {r} : ctrl'[q] = ctrl[q]
    BY <1>2, <1>4
  <1>10. /\ pc' \in [Runs -> [Branches -> Places]] /\ pc'[r] = at
         /\ \A q \in Runs \ {r} : pc'[q] = pc[q]
    BY <1>2, <1>3, <1>4
  <1>11. ControlTypes' /\ BranchTypes'
    BY <1>1, <1>2, <1>5, <1>6, <1>7, <1>8, <1>9, <1>10 DEF TypeInv, ControlTypes, BranchTypes
  <1>12. /\ ended' \in [Runs -> Seq(Verdicts)] /\ calls' \in [Runs -> Seq(CallSet)]
         /\ calls'[r] = <<>> /\ ended'[r] = <<>> /\ spent' = spent /\ spent'[r] = 0
    BY <1>1, <1>2 DEF TypeInv, JournalTypes, countVars, Unstarted
  <1>13. CallsGrow(r)
    BY <1>1, <1>2, CallsStay
  <1>14. Elsewhere(r)
    BY <1>0, <1>2, <1>5, <1>6, <1>7, <1>8, <1>9, <1>10, <1>12
    DEF Elsewhere, SameControl, SameBranches, SameJournal
  <1>15. Controlled(r)'
    BY <1>1, <1>2, <1>5, <1>6, <1>9 DEF Unstarted, Controlled
  <1>16. Width(r)' = Len(Script[s]) /\ Len(Script[s]) \in Nat /\ NBranches \in Nat
    BY <1>7, ScriptTyped, WorkflowAssumption DEF Width, Branches
  <1>17. InScript(r)'
    <2>1. \A b \in Branches : step'[r][b] = 1
      BY <1>1, <1>2 DEF Unstarted, Fine, InScript
    <2>2. \A b \in Branches : /\ (b > Len(Script[s]) => pc'[r][b] = "done")
                              /\ (~(b > Len(Script[s])) => pc'[r][b] \in {"next", "idle"})
      BY <1>3, <1>10
    <2>3. ASSUME NEW b \in Branches, Active(r, b)'
          PROVE  /\ b \in 1..Width(r)' /\ step'[r][b] \in 1..Len(Script[source'[r]][b])
                 /\ pc'[r][b] \notin {"asked", "child", "phase", "wrapping"}
      <3>1. ~(b > Len(Script[s])) /\ pc'[r][b] = "next"
        BY <2>2, <2>3 DEF Active
      <3>2. b \in 1..Len(Script[s])
        BY <1>16, <3>1 DEF Branches
      <3>3. Len(Script[s][b]) \in Nat \ {0}
        BY <3>2, ScriptTyped
      <3>4. 1 \in 1..Len(Script[s][b])
        BY <3>3
      <3> QED
        BY <1>7, <1>16, <2>1, <3>1, <3>2, <3>4
    <2>4. \A b \in Branches : b > Width(r)' => pc'[r][b] = "done"
      BY <1>16, <2>2
    <2>5. main'[r] \notin {"none", "lost"}
      BY <1>6
    <2> QED
      BY <2>1, <2>3, <2>4, <2>5 DEF InScript
  <1>18. \A b \in Branches : pc'[r][b] \in {"done", "next", "idle"}
    BY <1>3, <1>10
  <1>19. Pending(r)'
    <2>1. \A b \in Branches : ~Holds(r, b)'
      BY <1>18 DEF Holds
    <2>2. Len(calls'[r]) = 0
      BY <1>12
    <2>3. \A i \in 1..Len(calls'[r]) : FALSE
      BY <2>2
    <2> QED
      BY <2>1, <2>3 DEF Pending
  <1>20. Cached(r)'
    <2>1. \A i \in 1..Len(calls'[r]) : FALSE
      BY <1>12
    <2> QED
      BY <2>1 DEF Cached
  <1>21. Listed(r)' /\ Judged(r)'
    BY <1>0, <1>1, <1>5, <1>6, <1>12 DEF Unstarted, Listed, Judged, OneVerdict
  <1>22. Bounded(r)'
    <2>1. Counted(r)' = {}
      BY <1>18 DEF Counted
    <2>2. Cardinality(Counted(r)') = 0
      BY <2>1, FS_EmptySet
    <2>3. 0 + 0 < Budget + Width(r)'
      BY <1>16, WorkflowAssumption
    <2> QED
      BY <1>12, <2>2, <2>3 DEF Bounded
  <1>23. WorktreesInUse'
    <2> SUFFICES ASSUME NEW w \in worktree
                 PROVE  \/ pc'[w[1]][w[2]] = "lost"
                        \/ /\ pc'[w[1]][w[2]] \in {"gated", "free", "rejected", "child"}
                           /\ Kind(w[1], w[2])' = "isolated"
      BY <1>2 DEF WorktreesInUse
    <2>1. PICK q \in Runs, c \in Branches : w = <<q, c>>
      BY <1>1 DEF TypeInv, JournalTypes
    <2>2. \/ pc[q][c] = "lost"
          \/ pc[q][c] \in {"gated", "free", "rejected", "child"} /\ Kind(q, c) = "isolated"
      BY <1>1, <2>1 DEF WorktreesInUse
    <2>3. q # r
      BY <1>1, <2>2 DEF Unstarted
    <2>4. Kind(q, c)' = Kind(q, c)
      BY <1>2, <1>7, <2>3 DEF Kind, Call
    <2> QED
      BY <1>10, <2>1, <2>2, <2>3, <2>4
  <1>24. Fine(r)'
    BY <1>15, <1>17, <1>19, <1>20, <1>21, <1>22 DEF Fine
  <1> QED
    BY <1>0, <1>2, <1>11, <1>12, <1>13, <1>14, <1>23, <1>24, ControlStep

LEMMA CrashStep ==
    ASSUME IInv, Crash
    PROVE  IInv'
  <1>1. TypeInv
    BY DEF IInv
  <1>0. SessionTypes' /\ blind' = blind /\ \A r \in Runs : hydrated'[r] = Hydrated(r)
    BY NewSessionIs DEF Crash
  <1>2. /\ status' = [r \in Runs |-> "none"]
        /\ main' = [r \in Runs |-> IF main[r] = "on" THEN "lost" ELSE main[r]]
        /\ ctrl' = [r \in Runs |-> FALSE] /\ signal' = [r \in Runs |-> FALSE]
        /\ paused' = [r \in Runs |-> FALSE] /\ resolver' = [r \in Runs |-> NoBranch]
        /\ pc' = [r \in Runs |->
                    [b \in Branches |-> IF <<r, b>> \in worktree THEN "lost" ELSE "idle"]]
        /\ step' = [r \in Runs |-> [b \in Branches |-> 1]]
        /\ idx' = [r \in Runs |-> [b \in Branches |-> 0]]
        /\ attempt' = [r \in Runs |-> [b \in Branches |-> 0]]
        /\ agentCount' = [r \in Runs |-> 0] /\ spent' = [r \in Runs |-> 0]
        /\ source' = source /\ resumeOf' = resumeOf /\ calls' = calls /\ ended' = ended
        /\ worktree' = worktree
    BY DEF Crash, journalVars
  <1>3. inbox' = {} /\ working' = {} /\ queue' = [p \in Sessions |-> <<>>] /\ woken' = {}
    BY DEF Crash
  <1>5. TypeInv'
    <2>1. status' \in [Runs -> Statuses]
      BY <1>2 DEF Statuses
    <2>2. main' \in [Runs -> {"none", "on", "over", "lost"}]
      BY <1>1, <1>2 DEF TypeInv, ControlTypes
    <2>3. ControlTypes'
      BY <1>1, <1>2, <1>3, <2>1, <2>2 DEF TypeInv, ControlTypes
    <2>4. BranchTypes'
      BY <1>2, WorkflowAssumption DEF BranchTypes, Places
    <2>5. JournalTypes'
      BY <1>1, <1>2, WorkflowAssumption DEF TypeInv, JournalTypes
    <2>6. PoolTypes'
      BY <1>3 DEF PoolTypes
    <2> QED
      BY <1>0, <2>3, <2>4, <2>5, <2>6 DEF TypeInv
  <1>6. ASSUME NEW r \in Runs PROVE Fine(r)'
    <2>1. Fine(r) /\ WorktreesInUse
      BY DEF IInv
    <2>2. /\ \A b \in Branches : pc'[r][b] \in {"lost", "idle"} /\ step'[r][b] = 1
          /\ \A b \in Branches : <<r, b>> \notin worktree => pc'[r][b] = "idle"
      BY <1>2
    <2>3. \A b \in Branches : ~Active(r, b)' /\ ~Holds(r, b)'
      BY <2>2 DEF Active, Holds
    <2>4. /\ status'[r] = "none" /\ main'[r] = IF main[r] = "on" THEN "lost" ELSE main[r]
          /\ ctrl'[r] = FALSE /\ paused'[r] = FALSE /\ resolver'[r] = NoBranch /\ spent'[r] = 0
      BY <1>2
    <2>5. Controlled(r)'
      <3>1. ASSUME main'[r] = "none" PROVE Unstarted(r)'
        <4>1. main[r] = "none" /\ Unstarted(r)
          BY <2>1, <2>4, <3>1 DEF Fine, Controlled
        <4>2. \A b \in Branches : <<r, b>> \notin worktree
          BY <2>1, <4>1 DEF WorktreesInUse, Unstarted
        <4>3. hydrated'[r] = "none"
          BY <1>0, <4>1, HydratedIs
        <4> QED
          BY <1>2, <2>2, <2>4, <4>1, <4>2, <4>3 DEF Unstarted
      <3>2. main'[r] # "on"
        BY <2>4
      <3> QED
        BY <2>4, <3>1, <3>2 DEF Controlled
    <2>6. InScript(r)'
      <3>1. main'[r] # "on"
        BY <2>4
      <3> QED
        BY <2>2, <2>3, <3>1 DEF InScript
    <2>7. Pending(r)'
      BY <1>2, <2>1, <2>3 DEF Fine, Pending
    <2>8. Cached(r)'
      BY <1>2, <2>1 DEF Fine, Cached
    <2>9. Listed(r)' /\ Judged(r)'
      <3>1. main'[r] # "on"
        BY <2>4
      <3>2. r \notin blind => OneVerdict(r)
        BY <2>1 DEF Fine, Judged
      <3> QED
        BY <1>0, <1>2, <2>3, <2>4, <3>1, <3>2, HydratedIs DEF Listed, Judged, OneVerdict
    <2>10. Bounded(r)'
      <3>1. Counted(r)' = {}
        BY <2>2 DEF Counted
      <3>2. Cardinality(Counted(r)') = 0
        BY <3>1, FS_EmptySet
      <3>3. Width(r)' = Width(r) /\ Width(r) \in Nat
        BY <1>1, <1>2, WidthTyped DEF Width
      <3>4. 0 + 0 < Budget + Width(r)
        BY <3>3, WorkflowAssumption
      <3> QED
        BY <2>4, <3>2, <3>3, <3>4 DEF Bounded
    <2> QED
      BY <2>5, <2>6, <2>7, <2>8, <2>9, <2>10 DEF Fine
  <1>7. WorktreesInUse'
    <2>1. \A w \in worktree : \E q \in Runs, c \in Branches : w = <<q, c>>
      BY <1>1 DEF TypeInv, JournalTypes
    <2>2. \A w \in worktree : pc'[w[1]][w[2]] = "lost"
      BY <1>2, <2>1
    <2> QED
      BY <1>2, <2>2 DEF WorktreesInUse
  <1> QED
    BY <1>5, <1>6, <1>7 DEF IInv

LEMMA IInit == Init => IInv
  <1> SUFFICES ASSUME Init PROVE IInv
    OBVIOUS
  <1>1. /\ status = [r \in Runs |-> "none"] /\ main = [r \in Runs |-> "none"]
        /\ resumeOf = [r \in Runs |-> NoRun]
        /\ ctrl = [r \in Runs |-> FALSE] /\ signal = [r \in Runs |-> FALSE]
        /\ paused = [r \in Runs |-> FALSE] /\ resolver = [r \in Runs |-> NoBranch]
        /\ pc = [r \in Runs |-> [b \in Branches |-> "idle"]]
        /\ step = [r \in Runs |-> [b \in Branches |-> 1]]
        /\ idx = [r \in Runs |-> [b \in Branches |-> 0]]
        /\ attempt = [r \in Runs |-> [b \in Branches |-> 0]]
        /\ agentCount = [r \in Runs |-> 0] /\ spent = [r \in Runs |-> 0]
        /\ calls = [r \in Runs |-> <<>>] /\ ended = [r \in Runs |-> <<>>]
        /\ worktree = {} /\ inbox = {} /\ working = {}
        /\ session = 0 /\ home = [r \in Runs |-> 0] /\ foreground = [r \in Runs |-> FALSE]
        /\ hydrated = [r \in Runs |-> "none"] /\ blind = {}
    BY DEF Init
  <1>2. source \in [Runs -> Sources]
    <2>1. (CHOOSE s \in Sources : TRUE) \in Sources
      BY WorkflowAssumption
    <2> DEFINE first == CHOOSE s \in Sources : TRUE
    <2> HIDE DEF first
    <2>2. source \in [Runs -> {first}] /\ first \in Sources
      BY <2>1 DEF Init, first
    <2> QED
      BY <2>2
  <1>3. queue = [p \in Sessions |-> <<>>] /\ woken = {}
    BY DEF Init, Pool!PoolInit
  <1>4. TypeInv
    <2>1. ControlTypes
      BY <1>1, <1>2, WorkflowAssumption DEF ControlTypes, Statuses
    <2>2. BranchTypes
      BY <1>1, WorkflowAssumption DEF BranchTypes, Places
    <2>3. JournalTypes
      BY <1>1, WorkflowAssumption DEF JournalTypes
    <2>4. PoolTypes
      BY <1>1, <1>3 DEF PoolTypes
    <2>5. SessionTypes
      BY <1>1, WorkflowAssumption DEF SessionTypes, Sessions, Hydrations
    <2> QED
      BY <2>1, <2>2, <2>3, <2>4, <2>5 DEF TypeInv
  <1>5. ASSUME NEW r \in Runs PROVE Fine(r)
    <2>1. \A b \in Branches : pc[r][b] = "idle" /\ step[r][b] = 1 /\ ~Active(r, b) /\ ~Holds(r, b)
      BY <1>1 DEF Active, Holds
    <2>2. Controlled(r)
      BY <1>1, <2>1 DEF Controlled, Unstarted
    <2>3. InScript(r)
      BY <1>1, <2>1 DEF InScript
    <2>4. Len(calls[r]) = 0 /\ \A i \in 1..Len(calls[r]) : FALSE
      BY <1>1
    <2>5. Pending(r) /\ Cached(r)
      BY <2>1, <2>4 DEF Pending, Cached
    <2>6. Listed(r) /\ Judged(r)
      BY <1>1, <2>1 DEF Listed, Judged, OneVerdict
    <2>7. Bounded(r)
      <3>1. Counted(r) = {}
        BY <2>1 DEF Counted
      <3>2. Cardinality(Counted(r)) = 0
        BY <3>1, FS_EmptySet
      <3>3. Width(r) \in Nat /\ Budget \in Nat \ {0}
        BY <1>4, WidthTyped, WorkflowAssumption
      <3>4. 0 + 0 < Budget + Width(r)
        BY <3>3
      <3> QED
        BY <1>1, <3>2, <3>4 DEF Bounded
    <2> QED
      BY <2>2, <2>3, <2>5, <2>6, <2>7 DEF Fine
  <1>6. WorktreesInUse
    BY <1>1 DEF WorktreesInUse
  <1> QED
    BY <1>4, <1>5, <1>6 DEF IInv

-----------------------------------------------------------------------------
(* Every step. *)

BranchActs(r, b) ==
    \/ AgentCalls(r, b) \/ HelperCalls(r, b) \/ Ask(r, b) \/ DispatchThrows(r, b) \/ Dispatch(r, b)
    \/ (\E ok \in BOOLEAN : ChildEnds(r, b, ok) \/ LifecycleEnds(r, b, ok))
    \/ TimesOut(r, b) \/ PhaseDispatched(r, b) \/ PhaseEnds(r, b) \/ LifecycleThrows(r, b)
RunActs(r) ==
    \/ RunEnds(r) \/ Pause(r) \/ Resume(r) \/ Stop(r) \/ RespondToCheckpoint(r)
    \/ StopInterrupted(r)
    \/ \E s \in Sources, from \in Runs \cup {NoRun}, inFront \in BOOLEAN :
           StartRun(r, s, from, inFront)

LEMMA NextIs ==
    ASSUME IInv, Next
    PROVE  \/ \E r \in Runs, b \in Branches : BranchActs(r, b)
           \/ \E r \in Runs : RunActs(r)
           \/ \E c \in woken : SlotFree(c)
           \/ \E c \in working : StrayEnds(c)
           \/ Reenter
           \/ Crash
  <1>1. source \in [Runs -> Sources]
    BY DEF IInv, TypeInv, ControlTypes
  <1>2. CASE LoopStep
    BY <1>2 DEF LoopStep, EventLoop, BranchActs, RunActs
  <1>3. CASE ChildStep
    BY <1>3 DEF ChildStep, Children, BranchActs
  <1>4. ASSUME NEW r \in Runs, Users(r) PROVE RunActs(r)
    <2>1. ASSUME NEW s \in Sources, Start(r, s) PROVE RunActs(r)
      <3>1. (s \in Foreground) \in BOOLEAN
        OBVIOUS
      <3> QED
        BY <2>1, <3>1 DEF Start, RunActs
    <2>2. ASSUME NEW q \in Runs, NEW s \in Sources, EditAndResume(q, r, s) PROVE RunActs(r)
      BY <2>2 DEF EditAndResume, RunActs
    <2>3. ASSUME NEW q \in Runs, ResumeInterrupted(q, r) PROVE RunActs(r)
      BY <1>1, <2>3 DEF ResumeInterrupted, RunActs
    <2>4. CASE Pause(r) \/ Resume(r) \/ Stop(r) \/ RespondToCheckpoint(r) \/ StopInterrupted(r)
      BY <2>4 DEF RunActs
    <2> QED
      BY <1>4, <2>1, <2>2, <2>3, <2>4 DEF Users
  <1> QED
    BY <1>2, <1>3, <1>4 DEF Next

LEMMA INext == IInv /\ [Next]_vars => IInv'
  <1> SUFFICES ASSUME IInv, [Next]_vars PROVE IInv'
    OBVIOUS
  <1>1. ASSUME NEW r \in Runs, NEW b \in Branches, BranchActs(r, b) PROVE IInv'
    BY <1>1, AgentCallsStep, HelperCallsStep, AskStep, DispatchThrowsStep, DispatchStep,
       ChildEndsStep, TimesOutStep, PhasesStep, LifecycleThrowsStep DEF BranchActs
  <1>2. ASSUME NEW r \in Runs, RunActs(r) PROVE IInv'
    BY <1>2, RunEndsStep, PauseStep, ResumeStep, StopStep, StopInterruptedStep, RespondStep,
       StartRunStep DEF RunActs
  <1>3. ASSUME NEW c \in woken, SlotFree(c) PROVE IInv'
    <2>1. PoolTypes'
      BY <1>3, SlotFreePool DEF IInv, TypeInv
    <2> QED
      BY <1>3, <2>1, PoolStep DEF SlotFree
  <1>4. ASSUME NEW c \in working, StrayEnds(c) PROVE IInv'
    <2>1. PoolTypes'
      BY <1>4, LeavesPoolPool DEF IInv, TypeInv, StrayEnds
    <2> QED
      BY <1>4, <2>1, PoolStep DEF StrayEnds
  <1>5. CASE UNCHANGED vars
    <2>1. UNCHANGED <<controlVars, branchVars, countVars, journalVars, worktree, poolVars, sessionVars>>
      BY <1>5 DEF vars
    <2>2. PoolTypes'
      BY <2>1, PoolSame DEF IInv, TypeInv
    <2> QED
      BY <2>1, <2>2, PoolStep
  <1> QED
    BY <1>1, <1>2, <1>3, <1>4, <1>5, ReenterStep, CrashStep, NextIs

(* The invariant of every reachable state: for each run, that its controls,*)
(* its calls, its journal, the cache, its verdict and its budget agree, and*)
(* that a worktree has a call that uses it.                                *)
THEOREM WorkflowInvariant == Spec => []IInv
  <1>1. Init => IInv
    BY IInit
  <1>2. IInv /\ [Next]_vars => IInv'
    BY INext
  <1> QED
    BY <1>1, <1>2, PTL DEF Spec

-----------------------------------------------------------------------------
(* What the runs check. *)

(* What the workflow view shows and offers is what a run of the session    *)
(* obeys: its gate is shut exactly while it is shown as paused, and as     *)
(* long as it is live it has its controls, or has been told to stop.       *)
THEOREM ControlsMatchHolds == Spec => []ControlsMatch
  <1>1. ASSUME IInv, NEW r \in Runs, main[r] = "on"
        PROVE  /\ (paused[r] <=> status[r] = "paused")
               /\ \/ status[r] = "aborted" /\ signal[r]
                  \/ status[r] \in {"running", "paused", "checkpoint"} /\ ctrl[r] /\ ~signal[r]
    BY <1>1 DEF IInv, Fine, Controlled, Listed
  <1>2. IInv => ControlsMatch
    BY <1>1, TypeInvMeans DEF IInv, ControlsMatch, PausedIsShown, LiveRunHasControls, LiveHere
  <1> QED
    BY <1>2, WorkflowInvariant, PTL

(* The token budget is overrun by less than a child for each branch, and   *)
(* no worktree outlives its call, except in a crash.                       *)
THEOREM InFlightBoundedHolds == Spec => []InFlightBounded
  <1>1. ASSUME IInv, NEW r \in Runs
        PROVE  spent[r] + Cardinality({b \in Branches : pc[r][b] \in {"child", "phase", "wrapping"}})
                  < Budget + Width(r)
    <2> DEFINE inFlight == {b \in Branches : pc[r][b] \in {"child", "phase", "wrapping"}}
    <2>1. TypeInv /\ InScript(r) /\ Bounded(r)
      BY <1>1 DEF IInv, Fine
    <2>2. IsFiniteSet(Counted(r)) /\ Cardinality(Counted(r)) \in Nat
      BY <2>1, CountedFinite
    <2>3. inFlight \subseteq Counted(r)
      BY DEF Counted
    <2>4. Cardinality(inFlight) <= Cardinality(Counted(r)) /\ Cardinality(inFlight) \in Nat
      BY <2>2, <2>3, FS_Subset, FS_CardinalityType
    <2>5. spent[r] \in Nat /\ Budget \in Nat /\ Width(r) \in Nat
      BY <2>1, WidthTyped, WorkflowAssumption DEF TypeInv, JournalTypes
    <2> HIDE DEF inFlight
    <2>6. spent[r] + Cardinality(inFlight) < Budget + Width(r)
      BY <2>1, <2>2, <2>4, <2>5 DEF Bounded
    <2> QED
      BY <2>6 DEF inFlight
  <1>2. IInv => InFlightBounded
    BY <1>1 DEF IInv, InFlightBounded, BudgetOverrun
  <1> QED
    BY <1>2, WorkflowInvariant, PTL

(* A resumed run takes from the old journal only the answers of agents     *)
(* that had ended, and they never change under it.                         *)
THEOREM CachedAnswersEndedHolds == Spec => []CachedAnswersEnded
  <1>1. IInv => CachedAnswersEnded
    BY DEF IInv, Fine, Cached, CachedAnswersEnded
  <1> QED
    BY <1>1, WorkflowInvariant, PTL

(* However a run was stopped, crashed, resumed or ended, in one session or *)
(* over several, its journal holds one verdict and no list shows another,  *)
(* unless somebody stopped it as interrupted while it was not dead.        *)
THEOREM VerdictsAgreeHolds == Spec => []VerdictsAgree
  <1>1. ASSUME IInv, NEW r \in Runs \ blind
        PROVE  /\ Cardinality(ToSet(ended[r])) <= 1
               /\ main[r] # "on" /\ Shown(r) \in {"completed", "aborted"} =>
                     Shown(r) \in ToSet(ended[r])
    <2>1. Judged(r)
      BY <1>1 DEF IInv, Fine
    <2>2. ended[r] = <<>> \/ \E v \in Verdicts : ToSet(ended[r]) = {v}
      BY <2>1 DEF Judged, OneVerdict
    <2>3. Cardinality(ToSet(ended[r])) <= 1
      <3>1. CASE ended[r] = <<>>
        <4>1. ToSet(ended[r]) = {}
          BY <3>1 DEF ToSet
        <4>2. Cardinality(ToSet(ended[r])) = 0
          BY <4>1, FS_EmptySet
        <4> QED
          BY <4>2
      <3>2. ASSUME NEW v \in Verdicts, ToSet(ended[r]) = {v}
            PROVE  Cardinality(ToSet(ended[r])) <= 1
        <4>1. Cardinality(ToSet(ended[r])) = 1
          BY <3>2, FS_Singleton
        <4> QED
          BY <4>1
      <3> QED
        BY <2>2, <3>1, <3>2
    <2>4. main[r] # "on" /\ Shown(r) \in {"completed", "aborted"} =>
             Shown(r) \in ToSet(ended[r])
      BY <2>1 DEF Judged, Shown
    <2> QED
      BY <2>3, <2>4
  <1>2. IInv => VerdictsAgree
    BY <1>1 DEF VerdictsAgree
  <1> QED
    BY <1>2, WorkflowInvariant, PTL

(* Who can come to the pool in a step: nobody, a phase, or a call of a run *)
(* that is neither stopped nor held.                                       *)
LEMMA WhoComes ==
    ASSUME IInv, [Next]_vars
    PROVE  \/ InPool' \subseteq InPool
           \/ \E r \in Runs, b \in Branches : InPool' \subseteq InPool \cup {Caller(r, b, "phase")}
           \/ \E r \in Runs, b \in Branches : /\ ~signal[r] /\ ~paused[r]
                                              /\ InPool' \subseteq InPool \cup {Caller(r, b, "call")}
  <1>1. TypeInv /\ PoolTypes /\ SessionTypes
    BY DEF IInv, TypeInv
  <1>2. UNCHANGED poolVars => InPool' \subseteq InPool
    BY <1>1, PoolSame
  <1>3. ASSUME NEW r \in Runs, NEW b \in Branches, Dispatch(r, b)
        PROVE  ~signal[r] /\ ~paused[r] /\ InPool' \subseteq InPool \cup {Caller(r, b, "call")}
    <2>1. ~paused[r]
      BY <1>3 DEF Dispatch, IInv, Fine, Controlled
    <2>2. InPool' \subseteq InPool \cup {Caller(r, b, "call")}
      BY <1>1, <1>3, CallerTyped, TakeSlotPool DEF Dispatch
    <2> QED
      BY <1>3, <2>1, <2>2 DEF Dispatch, Refused
  <1>4. ASSUME NEW r \in Runs, NEW b \in Branches, PhaseDispatched(r, b)
        PROVE  InPool' \subseteq InPool \cup {Caller(r, b, "phase")}
    BY <1>1, <1>4, CallerTyped, TakeSlotPool DEF PhaseDispatched
  <1>5. ASSUME NEW r \in Runs, NEW b \in Branches, NEW ok \in BOOLEAN,
               \/ ChildEnds(r, b, ok) \/ LifecycleEnds(r, b, ok)
               \/ LifecycleThrows(r, b) \/ PhaseEnds(r, b)
        PROVE  InPool' \subseteq InPool
    BY <1>1, <1>5, LeavesPoolPool DEF ChildEnds, LifecycleEnds, LifecycleThrows, PhaseEnds
  <1>6. ASSUME NEW r \in Runs, NEW b \in Branches,
               \/ AgentCalls(r, b) \/ HelperCalls(r, b) \/ Ask(r, b) \/ DispatchThrows(r, b)
               \/ TimesOut(r, b)
        PROVE  UNCHANGED poolVars
    BY <1>6 DEF AgentCalls, HelperCalls, Ask, DispatchThrows, TimesOut
  <1>7. ASSUME NEW r \in Runs, RunActs(r) PROVE UNCHANGED poolVars
    BY <1>7 DEF RunActs, RunEnds, Pause, Resume, Stop, StopInterrupted, RespondToCheckpoint, StartRun
  <1>8. ASSUME NEW c \in woken, SlotFree(c) PROVE InPool' \subseteq InPool
    BY <1>1, <1>8, SlotFreePool
  <1>9. ASSUME NEW c \in working, StrayEnds(c) PROVE InPool' \subseteq InPool
    BY <1>1, <1>9, LeavesPoolPool DEF StrayEnds
  <1>10. ASSUME Crash PROVE InPool' \subseteq InPool
    <2>1. working' = {} /\ woken' = {} /\ \A p \in Sessions : queue'[p] = <<>>
      BY <1>10 DEF Crash
    <2>2. \A p \in Sessions : ToSet(queue'[p]) = {}
      BY <2>1 DEF ToSet
    <2> QED
      BY <2>1, <2>2 DEF InPool
  <1>11. CASE UNCHANGED vars
    BY <1>2, <1>11 DEF vars
  <1>12. ASSUME NEW r \in Runs, NEW b \in Branches, BranchActs(r, b)
         PROVE  \/ InPool' \subseteq InPool
                \/ InPool' \subseteq InPool \cup {Caller(r, b, "phase")}
                \/ ~signal[r] /\ ~paused[r] /\ InPool' \subseteq InPool \cup {Caller(r, b, "call")}
    BY <1>2, <1>3, <1>4, <1>5, <1>6, <1>12 DEF BranchActs
  <1>13. CASE Next
    BY <1>2, <1>7, <1>8, <1>9, <1>10, <1>12, <1>13, NextIs DEF Reenter
  <1> QED
    BY <1>11, <1>13

(* While its gate is shut, and for ever once its signal has fired, a run   *)
(* puts no call in the pool.                                               *)
THEOREM HeldRunCallsNobodyHolds == Spec => HeldRunCallsNobody
  <1>1. ASSUME IInv, [Next]_vars, NEW r \in Runs, signal[r] \/ paused[r]
        PROVE  Waiting(r)' \subseteq Waiting(r)
    <2>1. SUFFICES ASSUME NEW c \in InPool', RunOf(c) = r, c[5] = "call" PROVE c \in InPool
      BY DEF Waiting, RunOf
    <2>2. TypeInv
      BY <1>1 DEF IInv
    <2>3. ASSUME NEW q \in Runs, NEW b \in Branches
          PROVE  Caller(q, b, "phase")[5] = "phase" /\ RunOf(Caller(q, b, "call")) = q
      BY <2>2, CallerTyped DEF Caller
    <2> QED
      BY <1>1, <2>1, <2>3, WhoComes
  <1>2. IInv /\ [Next]_vars =>
           [\A r \in Runs : signal[r] \/ paused[r] => Waiting(r)' \subseteq Waiting(r)]_vars
    BY <1>1
  <1> QED
    BY <1>2, WorkflowInvariant, PTL DEF Spec, HeldRunCallsNobody
=============================================================================
