----------------------------- MODULE MCBackground -----------------------------
(* Model values for the runs of BackgroundRuns.                            *)
EXTENDS BackgroundRuns

CONSTANTS a, b, c

MCPools == 0..MaxReentries
=============================================================================
