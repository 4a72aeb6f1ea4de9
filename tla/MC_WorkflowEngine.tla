------------------------- MODULE MC_WorkflowEngine -------------------------
(***************************************************************************)
(* Workflow graphs for model checking WorkflowEngine.                      *)
(*   "gate"   an action, an approval, an action with the declared output   *)
(*   "choice" a selector over a condition and a review: the condition      *)
(*            leads to an action nobody registered or to a registered one  *)
(*   "deep"   a workflow that calls itself until the stack is full         *)
(*   "outer"  an action, then a call of "inner"                            *)
(*   "inner"  an action, then an approval                                  *)
(***************************************************************************)
EXTENDS WorkflowEngine

MCWorkflows == {"gate", "choice", "deep", "outer", "inner"}
MCNodes == {"g0", "g1", "g2", "g3", "c0", "c1", "c2", "c3", "c4", "c5",
            "d0", "d1", "o0", "o1", "o2", "i0", "i1", "i2"}
MCRoot == [gate |-> "g0", choice |-> "c0", deep |-> "d0", outer |-> "o0", inner |-> "i0"]

Tree ==
    [ g0 |-> [kind |-> "sequence", children |-> <<"g1", "g2", "g3">>, owner |-> "gate"],
      g1 |-> [kind |-> "action", children |-> <<>>, owner |-> "gate"],
      g2 |-> [kind |-> "approval", children |-> <<>>, owner |-> "gate"],
      g3 |-> [kind |-> "action", children |-> <<>>, owner |-> "gate"],
      c0 |-> [kind |-> "selector", children |-> <<"c1", "c4">>, owner |-> "choice"],
      c1 |-> [kind |-> "condition", children |-> <<"c2", "c3">>, owner |-> "choice"],
      c2 |-> [kind |-> "action", children |-> <<>>, owner |-> "choice"],
      c3 |-> [kind |-> "action", children |-> <<>>, owner |-> "choice"],
      c4 |-> [kind |-> "review", children |-> <<"c5">>, owner |-> "choice"],
      c5 |-> [kind |-> "action", children |-> <<>>, owner |-> "choice"],
      d0 |-> [kind |-> "parallel", children |-> <<"d1">>, owner |-> "deep"],
      d1 |-> [kind |-> "subworkflow", children |-> <<>>, owner |-> "deep"],
      o0 |-> [kind |-> "sequence", children |-> <<"o1", "o2">>, owner |-> "outer"],
      o1 |-> [kind |-> "action", children |-> <<>>, owner |-> "outer"],
      o2 |-> [kind |-> "subworkflow", children |-> <<>>, owner |-> "outer"],
      i0 |-> [kind |-> "sequence", children |-> <<"i1", "i2">>, owner |-> "inner"],
      i1 |-> [kind |-> "action", children |-> <<>>, owner |-> "inner"],
      i2 |-> [kind |-> "approval", children |-> <<>>, owner |-> "inner"] ]

MCKind == [n \in MCNodes |-> Tree[n].kind]
MCChildren == [n \in MCNodes |-> Tree[n].children]
MCOwner == [n \in MCNodes |-> Tree[n].owner]
MCSub == [n \in MCNodes |-> CASE n = "d1" -> "deep" [] OTHER -> "inner"]
MCRegistered == MCNodes \ {"c2"}
MCNames == {"image"}
MCResult == [n \in MCNodes |-> IF n \in {"g3", "c3", "i1"} THEN {"image"} ELSE {}]
MCOutputs == [w \in MCWorkflows |-> IF w \in {"gate", "choice", "outer"} THEN {"image"} ELSE {}]
=============================================================================
