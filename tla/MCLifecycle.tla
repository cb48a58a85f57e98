----------------------------- MODULE MCLifecycle -----------------------------
(* Definitions, tiers and models for the runs of Lifecycle.                *)
EXTENDS Lifecycle, TLC

CONSTANTS d, c, p, u,            \* lifecycles
          big, other, small, own \* models

tiered == [tier |-> "fast", model |-> NoModel]
plain == [tier |-> NoTier, model |-> NoModel]
fixed == [tier |-> NoTier, model |-> big]

Ph(agent, checkpoint, gates) == [agent |-> agent, checkpoint |-> checkpoint, gates |-> gates]

(* The tool's lifecycle has gates and tiers; the command's and the panel's *)
(* have checkpoints; one names a gate that nobody registered.              *)
MCPhases ==
    d :> <<Ph(tiered, TRUE, <<"revise", "abort">>), Ph(fixed, TRUE, <<"advise">>)>>
    @@ c :> <<Ph(plain, TRUE, <<>>), Ph(tiered, TRUE, <<>>)>>
    @@ p :> <<Ph(plain, TRUE, <<>>), Ph(fixed, FALSE, <<>>)>>
    @@ u :> <<Ph(plain, TRUE, <<"advise", "unknown">>)>>
MCMayRun == <<{d, c, p, u}, {p}>>
MCCaller == d :> "tool" @@ c :> "command" @@ p :> "panel" @@ u :> "tool"
MCMode == d :> "auto" @@ c :> "checkpointed" @@ p :> "checkpointed" @@ u :> "auto"

Tier(models, floor) == [models |-> models, floor |-> floor]
MCBuiltin == "fast" :> Tier(<<small>>, 0)
MCProject == "fast" :> Tier(<<small, big, other, Inherit>>, 2)
MCWindow == big :> 2 @@ other :> 2 @@ small :> 1 @@ own :> 1
MCProvider == big :> "x" @@ other :> "y" @@ small :> "x" @@ own :> "x"
MCAvailable == <<own, small, other>>
=============================================================================
