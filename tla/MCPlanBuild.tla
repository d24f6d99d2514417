---------------------------- MODULE MCPlanBuild ----------------------------
(* Instances of PlanBuild: a receiver r, a plan b, and two objects a1 and  *)
(* a2 of one name, over every well-named choice of up to MaxKids children. *)
EXTENDS PlanBuild, TLC

CONSTANTS r, a1, a2, b, MaxKids

MCPlans == {r, a1, a2, b}
MCNames == {"r", "a", "b"}
MCNameOf == (r :> "r") @@ (a1 :> "a") @@ (a2 :> "a") @@ (b :> "b")
MCChildLists == UNION {[1..n -> MCPlans] : n \in 0..MaxKids}
=============================================================================
