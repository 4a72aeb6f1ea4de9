---------------------------- MODULE MC_TaskLease ----------------------------
(***************************************************************************)
(* Two clients and the command line, two calls at once, over one task and  *)
(* one approval, which is decided again and again.  The clients and the    *)
(* calls are each interchangeable.                                         *)
(***************************************************************************)
EXTENDS TaskLease, TLC

CONSTANTS alice, bob, a1, c1, c2

\* Bound: three decisions, or two and a call that dies.
MCBound == decisions + crashes <= MaxDecisions

MCSymmetry == Permutations(Clients) \cup Permutations(Calls)
=============================================================================
