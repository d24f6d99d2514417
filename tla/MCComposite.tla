---------------------------- MODULE MCComposite ----------------------------
(* Argument lists of up to MaxComps components drawn from Kinds, in every  *)
(* order and with repetitions.  A and B are pointer types, V a struct      *)
(* type, I an interface that A and B implement.  "IMapper" has the         *)
(* signature of configmap/v2's ComponentMapper.                            *)
EXTENDS Composite

CONSTANTS Kinds, MaxComps

One(t) == [slice |-> FALSE, type |-> t]
Many(t) == [slice |-> TRUE, type |-> t]
Make(c, p) == [callable |-> TRUE, consumes |-> c, produces |-> p, dynamic |-> p,
               key |-> Own, mayFail |-> FALSE]

MCTypes == {"A", "B", "V", "I", "error", "context.Context", "*valueCtx",
            "IChartFactory", "*ChartFactory"}
MCInterfaces == {"I", "error", "context.Context", "IChartFactory"}
MCImplements == {<<"A", "I">>, <<"B", "I">>, <<"*valueCtx", "context.Context">>,
                 <<"*ChartFactory", "IChartFactory">>}

Kind == [k \in {"A", "A->B", "B->A", "A->", "[]A->", "[]B->A", "bad",
                "V", "[]V->", "I->", "IMapper", "A->I", "IB->A", "context"} |->
    CASE k = "A"      -> Make(<<>>, "A")
      [] k = "A->B"   -> Make(<<One("A")>>, "B")
      [] k = "B->A"   -> Make(<<One("B")>>, "A")
      [] k = "A->"    -> Make(<<One("context.Context"), One("A")>>, NoType)
      [] k = "[]A->"  -> Make(<<Many("A")>>, NoType)
      [] k = "[]B->A" -> [Make(<<Many("B")>>, "A") EXCEPT !.mayFail = TRUE]
      [] k = "bad"    -> [Make(<<>>, NoType) EXCEPT !.callable = FALSE]
      [] k = "V"      -> [Make(<<One("IChartFactory")>>, "V") EXCEPT !.key = "same"]
      [] k = "[]V->"  -> Make(<<Many("V")>>, NoType)
      [] k = "IMapper" -> [Make(<<One("context.Context"), Many("I")>>, "error")
                             EXCEPT !.dynamic = NilType, !.mayFail = TRUE]
      [] k = "A->I"   -> [Make(<<One("A")>>, "I") EXCEPT !.dynamic = "B"]
      [] k = "I->"    -> Make(<<One("I")>>, NoType)
      [] k = "IB->A"  -> Make(<<One("I"), One("B")>>, "A")
      [] k = "context" -> [Make(<<>>, "context.Context") EXCEPT !.dynamic = "*valueCtx"]]

MCInputs == UNION {[1..n -> {Kind[k] : k \in Kinds}] : n \in 1..MaxComps}
=============================================================================
