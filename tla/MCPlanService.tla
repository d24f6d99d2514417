--------------------------- MODULE MCPlanService ---------------------------
(* "top" has the child "mid", which has the children "leaf" and "tip".     *)
EXTENDS PlanService

CONSTANTS a1, a2, h, v

MCPlans == {"top", "mid", "leaf", "tip"}
MCChildren == [p \in MCPlans |->
    CASE p = "top" -> <<"mid">> [] p = "mid" -> <<"leaf", "tip">>
      [] OTHER -> <<>>]
MCComponentsOf == [p \in MCPlans |->
    CASE p = "top" -> <<"t">> [] p = "mid" -> <<"m1", "m2">>
      [] p = "leaf" -> <<"l">> [] p = "tip" -> <<"k">>]
MCComponentIds == {"t", "m1", "m2", "l", "k"}

MCRole == (a1 :> "apply") @@ (a2 :> "apply") @@ (h :> "helm") @@ (v :> "preview")
MCRoleIn(S) == [c \in S |-> MCRole[c]]
MCRoot == [c \in Callers |->
    CASE c = a1 -> "top" [] c = a2 -> "mid" [] OTHER -> "leaf"]

MCCallerRole == MCRoleIn(Callers)

Remote == [yaml |-> TRUE, reads |-> TRUE, csa |-> FALSE, onFailure |-> "unset"]
Local(o) == [yaml |-> TRUE, reads |-> TRUE, csa |-> TRUE, onFailure |-> o]

(* An empty directory, and two bundles that may fail in different ways.    *)
MCTrees == {<<>>, << <<Local("abort"), Remote>> >>, << <<Local("continue"), Local("unset")>> >>}

(* For the run of one caller.                                              *)
AbortTrees == {<< <<Local("abort"), Remote>> >>}
=============================================================================
