------------------------- MODULE MC_GatewayRequests -------------------------
(***************************************************************************)
(* Two threads, two keys, and two requests of which one is answered with a *)
(* one-time secret; each thread serves two requests, one gateway dies.     *)
(***************************************************************************)
EXTENDS GatewayRequests

CONSTANTS t1, t2, k1, k2, lease, approval
=============================================================================
