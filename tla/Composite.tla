----------------------------- MODULE Composite -----------------------------
(***************************************************************************)
(* The composite engine, internal/core/service/composite.go: scalar        *)
(* components are registered, a dependency graph is built from what their  *)
(* Apply methods take and return, and the graph is executed depth first.   *)
(*                                                                         *)
(* CompositeSet.Apply puts two components of its own in front of those it  *)
(* is given.  A component is named by its position in that list (the code  *)
(* prefixes names with "idx::"), and described by                          *)
(*   callable  it is a constructor of a value with an Apply method (one    *)
(*             that returns an error instead, or panics, is not told apart)*)
(*   consumes  the parameters of Apply: [slice, type] records              *)
(*   produces  the static type of the first result, or NoType              *)
(*   dynamic   the dynamic type of that result, NoType without one;        *)
(*             NilType when it is a nil interface, as the result of an     *)
(*             Apply that returns only a nil error is                      *)
(*   key       what createUniqueKey makes of the result: Own for a pointer *)
(*             (its address), else the printed value                       *)
(*   mayFail   Apply may return a non-nil error                            *)
(* reflect's Implements is the relation Implements on types.               *)
(***************************************************************************)
EXTENDS SequencesExt

CONSTANTS
    Types,       \* Go types
    Interfaces,  \* those of kind interface
    Implements,  \* set of <<dynamic type, interface>> pairs
    Inputs,      \* argument lists of NewComposite
    NoType,      \* produces of an Apply without results
    NilType,     \* dynamic type of a nil interface value
    Own,         \* key of a pointer result
    Context,       \* the interface context.Context
    ContextValue,  \* the type of the chart's context
    IChartFactory, \* the interface the builtin factory returns
    ChartFactory   \* the type of that factory, a pointer

(* The components CompositeSet.Apply prepends: chartContext returns the    *)
(* chart's context, and ChartFactory takes a context and returns itself.   *)
Builtins ==
    LET builtin == [callable |-> TRUE, consumes |-> <<>>, produces |-> Context,
                    dynamic |-> ContextValue, key |-> Own, mayFail |-> FALSE]
    IN  <<builtin,
          [builtin EXCEPT !.consumes = <<[slice |-> FALSE, type |-> Context]>>,
                          !.produces = IChartFactory,
                          !.dynamic = ChartFactory]>>

ASSUME CompositeAssumption ==
    /\ Interfaces \subseteq Types
    /\ NoType \notin Types /\ NilType \notin Types
    /\ Implements \subseteq Types \X Interfaces
    /\ <<ContextValue, Context>> \in Implements
    /\ <<ChartFactory, IChartFactory>> \in Implements
    /\ \A input \in Inputs :
        /\ Len(input) \in Nat /\ input = [i \in 1..Len(input) |-> input[i]]
        /\ \A i \in 1..Len(input) :
            /\ input[i].consumes \in Seq([slice: BOOLEAN, type: Types])
            /\ input[i].produces \in Types \cup {NoType}
            /\ input[i].produces = NoType => input[i].dynamic = NoType
            /\ input[i].produces \in Interfaces =>
                  \/ input[i].dynamic = NilType
                  \/ <<input[i].dynamic, input[i].produces>> \in Implements

VARIABLES
    comps,       \* Composite.components
    edges,       \* dependency graph: for each component those it waits for
    path,        \* open calls of visit, outermost first
    pending,     \* rest of the loop over edges[name] of every open call
    visiting,    \* visiting map
    executed,    \* executed map
    results,     \* Composite.results: producer of the last value of a type
    slices,      \* Composite.sliceResults: producers of the values of a type
    got,         \* history: producers whose values each parameter was given
    status       \* "register", "graph", "execute", "done" or how it failed

vars == <<comps, edges, path, pending, visiting, executed, results, slices,
          got, status>>

Failures == {"invalid", "multiple", "circular", "missing", "failed", "panic"}

Init ==
    /\ \E input \in Inputs : comps = Builtins \o input
    /\ edges = <<>>
    /\ path = <<>>
    /\ pending = <<>>
    /\ visiting = {}
    /\ executed = {}
    /\ results = [t \in {} |-> 0]
    /\ slices = [t \in {} |-> <<>>]
    /\ got = [i \in DOMAIN comps |-> <<>>]
    /\ status = "register"

----------------------------------------------------------------------------
(* registerComponents: every constructor is called and analyzed; any error *)
(* keeps the composite from starting.                                      *)
Register ==
    /\ status = "register"
    /\ status' = IF \A i \in DOMAIN comps : comps[i].callable
                 THEN "graph" ELSE "invalid"
    /\ UNCHANGED <<comps, edges, path, pending, visiting, executed, results,
                   slices, got>>

(* The producers a parameter of consumer i is matched with: other          *)
(* components whose static result type is the parameter's (element) type.  *)
Producers(i, param) ==
    {j \in DOMAIN comps \ {i} : comps[j].produces = param.type}

Ascending(S) ==
    CHOOSE s \in [1..Cardinality(S) -> S] :
        \A a, b \in DOMAIN s : a < b => s[a] < s[b]

(* Mutant of Edges: slice parameters make no edges.                        *)
EdgesOfSingles(i) ==
    FlattenSeq([k \in DOMAIN comps[i].consumes |->
        IF comps[i].consumes[k].slice THEN <<>>
        ELSE Ascending(Producers(i, comps[i].consumes[k]))])

(* The edges of component i, in the order of its parameters and, within    *)
(* one, of the components.                                                 *)
Edges(i) ==
    FlattenSeq([k \in DOMAIN comps[i].consumes |->
        Ascending(Producers(i, comps[i].consumes[k]))])

(* A parameter that is not a slice and has several producers.              *)
Ambiguous(i) ==
    \E k \in DOMAIN comps[i].consumes :
        /\ ~comps[i].consumes[k].slice
        /\ Cardinality(Producers(i, comps[i].consumes[k])) > 1

BuildGraph ==
    /\ status = "graph"
    /\ IF \E i \in DOMAIN comps : Ambiguous(i)
       THEN status' = "multiple" /\ UNCHANGED edges
       ELSE /\ status' = "execute"
            /\ edges' = [i \in DOMAIN comps |-> Edges(i)]
    /\ pending' = [i \in DOMAIN comps |-> <<>>]
    /\ UNCHANGED <<comps, path, visiting, executed, results, slices, got>>

----------------------------------------------------------------------------
Top == path[Len(path)]

Open(i) ==
    /\ path' = Append(path, i)
    /\ visiting' = visiting \cup {i}

(* Mutant of VisitNext: the loop ranges over componentMap, in any order.    *)
VisitAny ==
    /\ status = "execute"
    /\ path = <<>>
    /\ \E i \in DOMAIN comps \ executed :
        /\ Open(i)
        /\ pending' = [pending EXCEPT ![i] = edges[i]]
    /\ UNCHANGED <<comps, edges, executed, results, slices, got, status>>

(* executeGraph's loop calls visit for the first component not executed.   *)
VisitNext ==
    /\ status = "execute"
    /\ path = <<>>
    /\ \E i \in DOMAIN comps \ executed :
        /\ \A j \in 1..(i - 1) : j \in executed
        /\ Open(i)
        /\ pending' = [pending EXCEPT ![i] = edges[i]]
    /\ UNCHANGED <<comps, edges, executed, results, slices, got, status>>

(* visit(depName): executed already, being visited, or to be visited.      *)
SkipDependency ==
    /\ status = "execute"
    /\ path # <<>>
    /\ pending[Top] # <<>>
    /\ Head(pending[Top]) \in executed
    /\ pending' = [pending EXCEPT ![Top] = Tail(@)]
    /\ UNCHANGED <<comps, edges, path, visiting, executed, results, slices,
                   got, status>>

(* Mutant of DetectCycle: only a component that waits for itself is seen.  *)
DetectSelf ==
    /\ status = "execute"
    /\ path # <<>>
    /\ pending[Top] # <<>>
    /\ Head(pending[Top]) = Top
    /\ status' = "circular"
    /\ UNCHANGED <<comps, edges, path, pending, visiting, executed, results,
                   slices, got>>

DetectCycle ==
    /\ status = "execute"
    /\ path # <<>>
    /\ pending[Top] # <<>>
    /\ Head(pending[Top]) \in visiting \ executed
    /\ status' = "circular"
    /\ UNCHANGED <<comps, edges, path, pending, visiting, executed, results,
                   slices, got>>

VisitDependency ==
    /\ status = "execute"
    /\ path # <<>>
    /\ pending[Top] # <<>>
    /\ LET dep == Head(pending[Top]) IN
        /\ dep \notin executed \cup visiting
        /\ Open(dep)
        /\ pending' = [pending EXCEPT ![Top] = Tail(@), ![dep] = edges[dep]]
    /\ UNCHANGED <<comps, edges, executed, results, slices, got, status>>

----------------------------------------------------------------------------
(* Mutant of Key: a pointer's address is not part of its key.              *)
KeyOfType(j) == <<comps[j].dynamic, comps[j].key>>

(* createUniqueKey of the value component j produced.                      *)
Key(j) ==
    <<comps[j].dynamic, comps[j].key, IF comps[j].key = Own THEN j ELSE 0>>

(* findImplementations: of the values with one key only one is kept.  For  *)
(* an interface the maps are searched in an order Go leaves open, so any   *)
(* of them may be it; for a concrete type it is the first.                 *)
Distinct(S) ==
    {D \in SUBSET S :
        /\ \A a, b \in D : Key(a) = Key(b) => a = b
        /\ \A a \in S : \E b \in D : Key(a) = Key(b)}

(* Mutant of Stored: only the last value of a type is searched.            *)
StoredLast == {results[t] : t \in DOMAIN results}

Stored == UNION {{slices[t][n] : n \in DOMAIN slices[t]} : t \in DOMAIN slices}

Implementing(S, iface) == {j \in S : <<comps[j].dynamic, iface>> \in Implements}

(* valueForType: the sets of producers whose values a parameter may get;   *)
(* none if the dependency is missing.                                      *)
Candidates(param) ==
    IF param.slice
    THEN IF param.type \in Interfaces
         THEN Distinct(Implementing(Stored, param.type))
         ELSE {IF param.type \notin DOMAIN slices THEN {}
               ELSE LET s == slices[param.type] IN
                    {s[n] : n \in {m \in DOMAIN s :
                        \A l \in 1..(m - 1) : Key(s[l]) # Key(s[m])}}}
    ELSE IF param.type \in Interfaces
         THEN LET last == {results[t] : t \in DOMAIN results}
                  inLast == Implementing(last, param.type)
              IN  {{j} : j \in IF inLast # {} THEN inLast
                               ELSE Implementing(Stored, param.type)}
         ELSE IF param.type \in DOMAIN results THEN {{results[param.type]}}
         ELSE {}

(* reflect.TypeOf(nil).Implements: searching for an interface dereferences *)
(* every stored value's type, and a stored nil has none.  Parameters are   *)
(* looked up in order, and the first without a value ends the lookup.      *)
Panics(i) ==
    /\ \E j \in Stored : comps[j].dynamic = NilType
    /\ \E k \in DOMAIN comps[i].consumes :
        /\ comps[i].consumes[k].type \in Interfaces
        /\ \A l \in 1..(k - 1) : Candidates(comps[i].consumes[l]) # {}

(* The top component's dependencies are done: ExecuteComponent.            *)
Ready ==
    /\ status = "execute"
    /\ path # <<>>
    /\ pending[Top] = <<>>

Leave == visiting' = visiting \ {Top}

Params == DOMAIN comps[Top].consumes

(* A parameter has no value: the error ends everything.                    *)
MissingDependency ==
    /\ Ready
    /\ ~Panics(Top)
    /\ \E k \in Params : Candidates(comps[Top].consumes[k]) = {}
    /\ status' = "missing"
    /\ Leave
    /\ UNCHANGED <<comps, edges, path, pending, executed, results, slices, got>>

(* Looking for an interface meets the nil a component returned.            *)
PanicOnNil ==
    /\ Ready
    /\ Panics(Top)
    /\ status' = "panic"
    /\ Leave
    /\ UNCHANGED <<comps, edges, path, pending, executed, results, slices, got>>

(* Apply is called and returns an error.                                   *)
ApplyFails ==
    /\ Ready
    /\ ~Panics(Top)
    /\ \A k \in Params : Candidates(comps[Top].consumes[k]) # {}
    /\ comps[Top].mayFail
    /\ status' = "failed"
    /\ Leave
    /\ UNCHANGED <<comps, edges, path, pending, executed, results, slices, got>>

(* Storing a result: the value of component i becomes the last of its type *)
(* and joins the slice of that type.                                       *)
Store(i, t) ==
    IF t = NoType THEN UNCHANGED <<results, slices>>
    ELSE /\ results' = [u \in DOMAIN results \cup {t} |->
                            IF u = t THEN i ELSE results[u]]
         /\ slices' = [u \in DOMAIN slices \cup {t} |->
                            IF u # t THEN slices[u]
                            ELSE Append(IF t \in DOMAIN slices
                                        THEN slices[t] ELSE <<>>, i)]

(* Apply is called and returns; its first result is stored and visit       *)
(* returns to the caller.                                                  *)
ApplySucceeds ==
    /\ Ready
    /\ ~Panics(Top)
    /\ \A k \in Params : Candidates(comps[Top].consumes[k]) # {}
    /\ \E g \in [Params -> SUBSET DOMAIN comps] :
        /\ \A k \in Params : g[k] \in Candidates(comps[Top].consumes[k])
        /\ got' = [got EXCEPT ![Top] = g]
    /\ Store(Top, comps[Top].produces)
    /\ executed' = executed \cup {Top}
    /\ path' = SubSeq(path, 1, Len(path) - 1)
    /\ Leave
    /\ UNCHANGED <<comps, edges, pending, status>>

(* executeGraph's loop is over.                                            *)
Finish ==
    /\ status = "execute"
    /\ path = <<>>
    /\ executed = DOMAIN comps
    /\ status' = "done"
    /\ UNCHANGED <<comps, edges, path, pending, visiting, executed, results,
                   slices, got>>

Next ==
    \/ Register \/ BuildGraph
    \/ VisitNext \/ SkipDependency \/ DetectCycle \/ VisitDependency
    \/ MissingDependency \/ PanicOnNil \/ ApplyFails \/ ApplySucceeds
    \/ Finish

Spec == Init /\ [][Next]_vars

(* One goroutine, started by fx, runs the whole of Composite.Apply.        *)
FairSpec == Spec /\ WF_vars(Next)

----------------------------------------------------------------------------
(* A component is executed after every component whose result it is        *)
(* matched with by type, wherever the two stand in the argument list.      *)
DependenciesFirst ==
    \A i \in executed : \A k \in DOMAIN comps[i].consumes :
        Producers(i, comps[i].consumes[k]) \subseteq executed

(* The components that could give a parameter its value: the result type   *)
(* is the parameter's (element) type, or implements it.                    *)
Expected(i, param) ==
    {j \in DOMAIN comps \ {i} :
        \/ comps[j].produces = param.type
        \/ <<comps[j].dynamic, param.type>> \in Implements}

(* The components that could are those the graph knows: none whose result  *)
(* implements an interface is declared to return another type.             *)
Declared(i, param) == Expected(i, param) = Producers(i, param)

(* The components whose results the graph makes component i wait for.      *)
DependsOn(i) ==
    UNION {Producers(i, comps[i].consumes[k]) : k \in DOMAIN comps[i].consumes}

(* Component j is listed before i and before all that wait for i, directly *)
(* or not: some set of components that includes those up to j and what     *)
(* they wait for does without i.                                           *)
ListedFirst(j, i) ==
    \E S \in SUBSET DOMAIN comps :
        /\ 1..j \subseteq S
        /\ i \notin S
        /\ \A l \in S : DependsOn(l) \subseteq S

(* What the graph does not know of a parameter, the argument list settles. *)
Settled(i, param) ==
    \A j \in Expected(i, param) \ Producers(i, param) : ListedFirst(j, i)

AllSettled ==
    \A i \in DOMAIN comps : \A k \in DOMAIN comps[i].consumes :
        Settled(i, comps[i].consumes[k])

Unmet ==
    \E i \in DOMAIN comps : \E k \in DOMAIN comps[i].consumes :
        /\ ~comps[i].consumes[k].slice
        /\ Expected(i, comps[i].consumes[k]) = {}

HasCycle ==
    \E T \in SUBSET DOMAIN comps :
        /\ T # {}
        /\ \A i \in T : \E k \in DOMAIN comps[i].consumes :
            Expected(i, comps[i].consumes[k]) \cap T # {}

(* "The ordering of Scalar Components within the Composite does not matter *)
(* as the graph of producers vs consumers is calculated"                   *)
(* (crib/composite.go:13-15), as far as it goes: how a run ends is decided *)
(* by what the components produce and consume, a criterion that knows no   *)
(* order, and a component runs after all that could give it a value, if    *)
(* every result that implements an interface without being declared to be  *)
(* one comes, in the list, before the consumer and all that wait for it    *)
(* (composite.go:386).                                                     *)
OrderDoesNotMatter ==
    /\ status = "circular" => HasCycle
    /\ status = "done" => ~Unmet
    /\ status = "missing" /\ AllSettled => Unmet
    /\ status = "done" /\ AllSettled => ~HasCycle
    /\ \A i \in executed : \A k \in DOMAIN comps[i].consumes :
           Settled(i, comps[i].consumes[k]) =>
               Expected(i, comps[i].consumes[k]) \subseteq executed

SameValue(i, j) == i = j \/ (comps[i].key # Own /\ comps[i].key = comps[j].key)

(* What a parameter is given whose type the graph matches.  "the result    *)
(* will be automatically be collected as a slice of that result-type and   *)
(* provided to the consumer" (crib/composite.go:17-19): a slice holds the  *)
(* results of all its producers; only results that print the same, which   *)
(* no pointers do, stand for one another.  dependencyGraph "validates that *)
(* consumers expecting single items don't have multiple producers"         *)
(* (composite.go:347): a single value is never one of several.             *)
ParametersAreComplete ==
    \A i \in executed : \A k \in DOMAIN comps[i].consumes :
        LET param == comps[i].consumes[k]
            expected == Expected(i, param)
        IN  Declared(i, param) =>
                /\ got[i][k] \subseteq expected
                /\ \A j \in expected : \E l \in got[i][k] :
                      IF param.slice THEN SameValue(l, j) ELSE l = j

(* A parameter that is an interface or a slice of one is given values that *)
(* implement it, and the slice every such value there is at that moment,   *)
(* one of each key.                                                        *)
InterfacesSeeExecuted ==
    [][\A i \in executed' \ executed : \A k \in DOMAIN comps[i].consumes :
        LET param == comps[i].consumes[k]
            now == Implementing(executed, param.type)
        IN  param.type \in Interfaces =>
                /\ got'[i][k] \subseteq now
                /\ param.slice => {Key(j) : j \in got'[i][k]} = {Key(j) : j \in now}
                /\ ~param.slice => got'[i][k] # {}]_vars

(* Every run ends: with all components executed or with one failure.       *)
RunEnds == <>(status \in Failures \cup {"done"})
=============================================================================
