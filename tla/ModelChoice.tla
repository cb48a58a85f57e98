----------------------------- MODULE ModelChoice -----------------------------
(***************************************************************************)
(* The model of a child (src/tiers/resolve.ts, src/tiers/tier-registry.ts, *)
(* src/engine/auto-fallback.ts): what the dispatch asks for, else the tier *)
(* of the agent, else the agent's own model, else the session's.           *)
(***************************************************************************)
EXTENDS Naturals, Sequences, SequencesExt

CONSTANTS Window,   \* the catalog: the context window of each known model
          Provider, \* ... and its provider
          Parent,   \* the model of the session, or NoModel
          Inherit,  \* the sentinel that stands for it in a tier
          NoModel, NoTier

(* Mutated form: the floor of the tier is not looked at.                   *)
Known(m, floor) == m \in DOMAIN Window

Eligible(m, floor) == m \in DOMAIN Window /\ Window[m] >= floor

(* A model of a tier: the session's is not measured, and is listed once.   *)
AddModel(found, m, floor) ==
    IF m = Inherit
    THEN IF Parent = NoModel \/ Contains(found, Parent) THEN found ELSE Append(found, Parent)
    ELSE IF Eligible(m, floor) THEN Append(found, m) ELSE found

(* The chain of a tier without the models that are unknown or too small.   *)
Candidates(tier) ==
    LET found[i \in 0..Len(tier.models)] ==
          IF i = 0 THEN <<>> ELSE AddModel(found[i - 1], tier.models[i], tier.floor)
    IN  found[Len(tier.models)]

(* resolveAgentModel: the models to try in order; none is an error.  An    *)
(* agent names a tier that the dispatch may not know.                      *)
Resolve(agent, asked, tiers) ==
    IF asked # NoModel THEN <<asked>>
    ELSE IF agent.tier # NoTier
         THEN IF agent.tier \in DOMAIN tiers THEN Candidates(tiers[agent.tier]) ELSE <<>>
         ELSE <<IF agent.model # NoModel THEN agent.model ELSE Parent>>

(* Tiers by name: those of the project win over the global ones, and these *)
(* over the built-in ones.                                                 *)
MergeTiers(builtin, global, project) ==
    [n \in DOMAIN builtin \cup DOMAIN global \cup DOMAIN project |->
        IF n \in DOMAIN project THEN project[n]
        ELSE IF n \in DOMAIN global THEN global[n] ELSE builtin[n]]

(* The fallback of ARMORY_FLEET_MODEL_FALLBACK=auto: the first available   *)
(* model of another provider, or another model of the same one.            *)
AutoFallback(available) ==
    LET others == SelectSeq(available, LAMBDA m : Provider[m] # Provider[Parent])
        pool == SelectSeq(IF others # <<>> THEN others ELSE available, LAMBDA m : m # Parent)
    IN  IF pool = <<>> THEN NoModel ELSE Head(pool)
=============================================================================
