------------------------- MODULE MC_OperationLedger -------------------------
(***************************************************************************)
(* Two threads, either of one process or of the gateway and the CLI.       *)
(***************************************************************************)
EXTENDS OperationLedger, TLC

CONSTANTS gateway, cli, t1, t2, event

MCPlacements == {t1 :> gateway @@ t2 :> gateway, t1 :> gateway @@ t2 :> cli}
MCQuota == t1 :> 2 @@ t2 :> 1
=============================================================================
