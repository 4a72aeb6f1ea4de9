---------------------------- MODULE MC_Delivery ----------------------------
(***************************************************************************)
(* An icon and its manifest, exported to one engine, and the icon of a     *)
(* later revision, which has other content and no manifest.                *)
(***************************************************************************)
EXTENDS Delivery

CONSTANTS icon, manifest, first, second, before, edited, unity1, unity2, b1

Icons == {unity1, unity2}
ItemsOfIcons == [e \in Icons |-> IF e = unity2 THEN <<icon>> ELSE <<icon, manifest>>]
ContentOfIcons == [e \in Icons |-> [f \in {icon, manifest} |-> IF e = unity2 THEN second ELSE first]]
TargetOfIcons == [e \in Icons |-> "unity"]
GenerationsOfIcons == <<{unity1}, {unity2}>>
OneThere == {{icon}}
OneGateShut == {{}, {"visual-export-gate"}}
=============================================================================
