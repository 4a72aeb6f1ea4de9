------------------------- MODULE MC_TaskProduction -------------------------
(***************************************************************************)
(* Two instances of the production of one task.  In the first a job has    *)
(* the result x, and the revision fixX of it the results r and s.  In the  *)
(* second the review of the replacement r proposes a revision of its own.  *)
(***************************************************************************)
EXTENDS TaskProduction

CONSTANTS x, r, s, fixX, goneX, fixR, c1

Results == {x, r, s}
JobOfResults == [a \in Results |-> IF a = x THEN Main ELSE fixX]
Replacement == {x, r}
JobOfReplacement == [a \in Replacement |-> IF a = x THEN Main ELSE fixX]

PlansOfX == {fixX, goneX}
PlansOfR == {fixX, fixR}
SourceOfX == [p \in PlansOfX |-> x]
SourceOfR == [p \in PlansOfR |-> IF p = fixR THEN r ELSE x]
AboutX == [p \in PlansOfX |-> IF p = goneX THEN "stale" ELSE "flaws"]
AboutR == [p \in PlansOfR |-> "flaws"]
=============================================================================
