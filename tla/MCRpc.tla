------------------------------- MODULE MCRpc -------------------------------
(* Model values for FleetRpc.                                              *)
EXTENDS FleetRpc

CONSTANTS a,      \* a run, with a pi session
          p, q    \* requests
=============================================================================
