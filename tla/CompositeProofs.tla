-------------------------- MODULE CompositeProofs --------------------------
(***************************************************************************)
(* The composite engine for any components in any order: what the depth    *)
(* first execution guarantees about dependencies, about the values the     *)
(* parameters are given, and about how a run ends.                         *)
(***************************************************************************)
EXTENDS Composite, Lemmas

(* A component is named by its position among the arguments.               *)
Components == DOMAIN comps

(* What has to be executed before component i: what the graph makes it     *)
(* wait for, and what the list has before all that lead to it.             *)
Precede(i) == DependsOn(i) \cup {j \in Components : ListedFirst(j, i)}

InputsOK ==
    /\ Len(comps) \in Nat /\ Components = 1..Len(comps)
    /\ \A i \in Components :
        /\ comps[i].consumes \in Seq([slice: BOOLEAN, type: Types])
        /\ comps[i].produces \in Types \cup {NoType}
        /\ comps[i].produces = NoType => comps[i].dynamic = NoType
        /\ comps[i].produces \in Interfaces =>
              \/ comps[i].dynamic = NilType
              \/ <<comps[i].dynamic, comps[i].produces>> \in Implements

(* Every argument list with the builtins in front is as the constants'     *)
(* assumption says of the list.                                            *)
LEMMA InputFacts ==
    ASSUME Init
    PROVE  InputsOK
<1>1. PICK input \in Inputs : comps = Builtins \o input
    BY DEF Init
<1> DEFINE n == Len(input)
           S == {Builtins[1], Builtins[2]} \cup {input[i] : i \in 1..n}
           OK(c) == /\ c.consumes \in Seq([slice: BOOLEAN, type: Types])
                    /\ c.produces \in Types \cup {NoType}
                    /\ c.produces = NoType => c.dynamic = NoType
                    /\ c.produces \in Interfaces =>
                          \/ c.dynamic = NilType
                          \/ <<c.dynamic, c.produces>> \in Implements
<1>2. n \in Nat /\ input = [i \in 1..n |-> input[i]] /\ \A i \in 1..n : OK(input[i])
    BY CompositeAssumption
<1>3. Context \in Types /\ IChartFactory \in Types
    BY CompositeAssumption
<1>4. /\ Builtins = <<Builtins[1], Builtins[2]>>
      /\ Builtins[1].consumes = <<>> /\ Builtins[1].produces = Context
      /\ Builtins[1].dynamic = ContextValue
      /\ Builtins[2].consumes = <<[slice |-> FALSE, type |-> Context]>>
      /\ Builtins[2].produces = IChartFactory /\ Builtins[2].dynamic = ChartFactory
    BY DEF Builtins
<1>5. OK(Builtins[1]) /\ OK(Builtins[2])
    <2>1. <<>> \in Seq([slice: BOOLEAN, type: Types])
        BY EmptySeq
    <2>2. <<[slice |-> FALSE, type |-> Context]>> \in Seq([slice: BOOLEAN, type: Types])
        BY <1>3
    <2> QED
        BY <1>3, <1>4, <2>1, <2>2, CompositeAssumption
<1> HIDE DEF OK
<1>6. Builtins \in Seq(S) /\ Len(Builtins) = 2
    <2>1. ASSUME NEW a \in S, NEW b \in S PROVE <<a, b>> \in Seq(S) /\ Len(<<a, b>>) = 2
        <3> HIDE DEF S
        <3> QED
            OBVIOUS
    <2>2. Builtins[1] \in S /\ Builtins[2] \in S
        OBVIOUS
    <2> HIDE DEF S
    <2> QED
        BY <1>4, <2>1, <2>2
<1>7. input \in Seq(S)
    BY <1>2
<1>8. \A c \in S : OK(c)
    BY <1>2, <1>5
<1> HIDE DEF S
<1>9. /\ comps \in Seq(S) /\ Len(comps) = 2 + n
    BY <1>1, <1>6, <1>7, ConcatProperties
<1>10. Len(comps) \in Nat /\ Components = 1..Len(comps) /\ \A i \in Components : comps[i] \in S
    BY <1>2, <1>9, LenProperties, ElementOfSeq DEF Components
<1> QED
    BY <1>8, <1>10 DEF InputsOK, OK

(* A parameter's producers, in the order of the arguments, are all there.  *)
LEMMA AscendingFacts ==
    ASSUME InputsOK, NEW S \in SUBSET Components
    PROVE  Ascending(S) \in Seq(Components) /\ ToSet(Ascending(S)) = S
<1>1. S \in SUBSET (1..Len(comps)) /\ Len(comps) \in Nat
    BY DEF InputsOK
<1>2. PICK s : IsAscending(s, S)
    BY <1>1, AscendingExists
<1>3. IsAscending(Ascending(S), S)
    BY <1>2 DEF Ascending, IsAscending
<1>4. IsFiniteSet(S)
    <2>1. IsFiniteSet(1..Len(comps))
        BY <1>1, FS_Interval
    <2> QED BY <2>1, <1>1, FS_Subset
<1>5. S \in SUBSET Nat
    BY <1>1
<1>6. /\ Ascending(S) \in Seq(S)
      /\ {Ascending(S)[a] : a \in 1..Len(Ascending(S))} = S
    BY <1>3, <1>4, <1>5, AscendingIsOnto
<1>7. DOMAIN Ascending(S) = 1..Len(Ascending(S))
    BY <1>6, LenProperties
<1> QED BY <1>6, <1>7, SeqMonotonic DEF ToSet

(* The edges of a component lead to the components it depends on.          *)
LEMMA EdgesFacts ==
    ASSUME InputsOK, NEW i \in Components
    PROVE  Edges(i) \in Seq(Components) /\ ToSet(Edges(i)) = DependsOn(i)
<1> DEFINE consumes == comps[i].consumes
           lists == [k \in DOMAIN consumes |-> Ascending(Producers(i, consumes[k]))]
           n == Len(consumes)
<1>1. n \in Nat /\ DOMAIN consumes = 1..n
    BY LenProperties DEF InputsOK
<1>2. \A k \in 1..n : Producers(i, consumes[k]) \in SUBSET Components
    BY DEF Producers, Components
<1>3. \A k \in 1..n : /\ Ascending(Producers(i, consumes[k])) \in Seq(Components)
                      /\ ToSet(Ascending(Producers(i, consumes[k])))
                            = Producers(i, consumes[k])
    BY <1>2, AscendingFacts
<1>4. /\ lists \in Seq(Seq(Components)) /\ Len(lists) = n
      /\ \A k \in 1..n : lists[k] = Ascending(Producers(i, consumes[k]))
    BY <1>1, <1>3
<1>5. Edges(i) = FlattenSeq(lists)
    BY DEF Edges
<1> HIDE DEF lists
<1>6. Edges(i) \in Seq(Components)
    BY <1>4, <1>5, FlattenSeqFacts
<1>7. PICK at : IsPlacement(at, n, lists, Edges(i))
    BY <1>4, <1>5, FlattenSeqFacts
<1>8. DOMAIN Edges(i) = 1..Len(Edges(i)) /\ Len(Edges(i)) \in Nat
    BY <1>6, LenProperties
<1>9. \A k \in 1..n : /\ lists[k] \in Seq(Components)
                      /\ DOMAIN lists[k] = 1..Len(lists[k]) /\ Len(lists[k]) \in Nat
    BY <1>3, <1>4, LenProperties
<1>10. ASSUME NEW x \in ToSet(Edges(i)) PROVE x \in DependsOn(i)
    <2>1. PICK m \in 1..Len(Edges(i)) : x = Edges(i)[m]
        BY <1>8 DEF ToSet
    <2>2. PICK k \in 1..n : \E a \in 1..Len(lists[k]) : m = at[k] + a
        BY <1>7 DEF IsPlacement
    <2>3. PICK a \in 1..Len(lists[k]) : m = at[k] + a
        BY <2>2
    <2>4. x = lists[k][a]
        BY <1>7, <2>1, <2>3 DEF IsPlacement
    <2>5. x \in Producers(i, consumes[k])
        BY <2>4, <1>3, <1>4, <1>9 DEF ToSet
    <2> QED BY <2>5, <1>1 DEF DependsOn
<1>11. ASSUME NEW x \in DependsOn(i) PROVE x \in ToSet(Edges(i))
    <2>1. PICK k \in 1..n : x \in Producers(i, consumes[k])
        BY <1>1 DEF DependsOn
    <2>2. PICK a \in 1..Len(lists[k]) : x = lists[k][a]
        <3>1. x \in ToSet(lists[k])
            BY <2>1, <1>3, <1>4
        <3>2. DOMAIN lists[k] = 1..Len(lists[k])
            BY <1>9
        <3> QED BY <3>1, <3>2 DEF ToSet
    <2>3. Edges(i)[at[k] + a] = x
        BY <1>7, <2>2 DEF IsPlacement
    <2>4. at[k] + a \in 1..Len(Edges(i))
        <3> DEFINE c == Len(lists[k])
                   d == at[k]
                   e == Len(Edges(i))
        <3>1. d \in Nat /\ c \in Nat /\ e \in Nat /\ a \in 1..c /\ d + c <= e
            BY <1>7, <1>8, <1>9 DEF IsPlacement
        <3> HIDE DEF c, d, e
        <3>2. d + a \in 1..e
            BY <3>1
        <3> QED BY <3>2 DEF d, e
    <2> QED BY <2>3, <2>4, <1>8 DEF ToSet
<1> QED BY <1>6, <1>10, <1>11

----------------------------------------------------------------------------
(* The depth first search.  On[n] is the n-th open call of visit.  Calls   *)
(* are open for different components, those being visited; each waits for  *)
(* the next one, and has behind it the dependencies that are executed and  *)
(* before it those still pending.                                          *)
Started == status \notin {"register", "graph", "invalid", "multiple"}

SearchTypes ==
    /\ InputsOK
    /\ path \in Seq(Components)
    /\ executed \subseteq Components
    /\ visiting \subseteq Components
    /\ status \in Failures \cup {"register", "graph", "execute", "done"}
    /\ ~Started => path = <<>> /\ executed = {} /\ visiting = {}
    /\ Started => /\ edges \in [Components -> Seq(Components)]
                  /\ \A i \in Components : ToSet(edges[i]) = DependsOn(i)
                  /\ pending \in [Components -> Seq(Components)]
                  /\ \A i \in Components : ~Ambiguous(i)
    /\ status = "done" => executed = Components

OpenCalls ==
    status = "execute" =>
        /\ \A m, n \in DOMAIN path : path[m] = path[n] => m = n
        /\ visiting = {path[n] : n \in DOMAIN path}
        /\ visiting \cap executed = {}

Awaits ==
    status = "execute" =>
        /\ \A n \in DOMAIN path :
              DependsOn(path[n]) \subseteq
                  executed \cup ToSet(pending[path[n]])
                      \cup (IF n < Len(path) THEN {path[n+1]} ELSE {})
        /\ \A n \in DOMAIN path : ToSet(pending[path[n]]) \subseteq DependsOn(path[n])
        /\ \A n \in 1..Len(path)-1 : path[n+1] \in DependsOn(path[n])

(* An outermost call has the components before its own behind it, and the  *)
(* calls within it are for what that one waits for, directly or not.       *)
Roots ==
    status = "execute" /\ path # <<>> =>
        /\ 1..path[1]-1 \subseteq executed
        /\ \A S \in SUBSET Components :
              path[1] \in S /\ (\A l \in S : DependsOn(l) \subseteq S) =>
                  \A n \in DOMAIN path : path[n] \in S

ExecutedClosed == \A i \in executed : Precede(i) \subseteq executed

(* Every set of executed components has one that none of them has to       *)
(* precede: the one that was executed first.                               *)
ExecutedAcyclic ==
    \A T \in SUBSET executed : T # {} => \E i \in T : Precede(i) \cap T = {}

SearchInv ==
    SearchTypes /\ OpenCalls /\ Awaits /\ Roots /\ ExecutedClosed /\ ExecutedAcyclic

(* Components and what they depend on never change.                        *)
LEMMA SameInputs ==
    ASSUME InputsOK, comps' = comps
    PROVE  /\ InputsOK' /\ Components' = Components
           /\ \A i : DependsOn(i)' = DependsOn(i)
           /\ \A i : Ambiguous(i)' = Ambiguous(i)
           /\ \A i : Precede(i)' = Precede(i)
<1>1. InputsOK' /\ Components' = Components
    BY DEF InputsOK, Components
<1>2. \A i, param : Producers(i, param)' = Producers(i, param)
    BY DEF Producers
<1>3. \A i : DependsOn(i)' = DependsOn(i)
    BY <1>2 DEF DependsOn
<1>4. \A i : Ambiguous(i)' = Ambiguous(i)
    BY <1>2 DEF Ambiguous
<1>5. \A i, j : ListedFirst(j, i)' = ListedFirst(j, i)
    BY <1>3 DEF ListedFirst
<1>6. \A i : Precede(i)' = Precede(i)
    BY <1>1, <1>3, <1>5 DEF Precede
<1> QED
    BY <1>1, <1>3, <1>4, <1>6

(* No component depends on itself.                                         *)
LEMMA DependsOnOthers ==
    ASSUME NEW i
    PROVE  DependsOn(i) \subseteq Components \ {i}
BY DEF DependsOn, Producers, Components

LEMMA TopFacts ==
    ASSUME SearchTypes, path # <<>>
    PROVE  /\ Len(path) \in Nat \ {0} /\ DOMAIN path = 1..Len(path)
           /\ Len(path) \in DOMAIN path
           /\ Top = path[Len(path)] /\ Top \in Components
<1>1. Len(path) \in Nat \ {0} /\ DOMAIN path = 1..Len(path)
    BY EmptySeq, LenProperties DEF SearchTypes
<1> QED
    BY <1>1 DEF Top, SearchTypes

LEMMA HeadAndTail ==
    ASSUME NEW S, NEW s \in Seq(S), s # <<>>
    PROVE  /\ Head(s) \in S /\ Tail(s) \in Seq(S)
           /\ ToSet(s) = {Head(s)} \cup ToSet(Tail(s))
<1>1. /\ Head(s) = s[1] /\ Head(s) \in S /\ Tail(s) \in Seq(S)
      /\ Len(s) \in Nat \ {0} /\ DOMAIN s = 1..Len(s)
      /\ Len(Tail(s)) = Len(s) - 1 /\ DOMAIN Tail(s) = 1..Len(s)-1
      /\ \A n \in 1..Len(s)-1 : Tail(s)[n] = s[n+1]
    BY HeadTailProperties, LenProperties, EmptySeq
<1>2. ASSUME NEW x \in ToSet(s) PROVE x = Head(s) \/ x \in ToSet(Tail(s))
    <2>1. PICK n \in 1..Len(s) : x = s[n]
        BY <1>1 DEF ToSet
    <2>2. CASE n = 1
        BY <1>1, <2>1, <2>2
    <2>3. CASE n # 1
        <3>1. n - 1 \in 1..Len(s)-1 /\ (n - 1) + 1 = n
            BY <1>1, <2>3
        <3>2. Tail(s)[n-1] = x
            BY <1>1, <2>1, <3>1
        <3> QED
            BY <1>1, <3>1, <3>2 DEF ToSet
    <2> QED
        BY <2>2, <2>3
<1>3. ASSUME NEW x \in ToSet(Tail(s)) PROVE x \in ToSet(s)
    <2>1. PICK n \in 1..Len(s)-1 : x = Tail(s)[n]
        BY <1>1 DEF ToSet
    <2>2. n + 1 \in DOMAIN s /\ x = s[n+1]
        BY <1>1, <2>1
    <2> QED
        BY <2>2 DEF ToSet
<1>4. Head(s) \in ToSet(s)
    BY <1>1 DEF ToSet
<1> QED
    BY <1>1, <1>2, <1>3, <1>4

(* Opening a call for a component that is neither executed nor visited.    *)
LEMMA OpenStep ==
    ASSUME SearchTypes, OpenCalls, status = "execute", UNCHANGED <<executed, status>>,
           NEW i \in Components \ (executed \cup visiting), Open(i)
    PROVE  /\ path' \in Seq(Components) /\ visiting' \subseteq Components
           /\ Len(path') = Len(path) + 1 /\ DOMAIN path' = 1..Len(path)+1
           /\ \A n \in DOMAIN path : path'[n] = path[n] /\ path[n] # i
           /\ path'[Len(path) + 1] = i
           /\ OpenCalls'
<1>1. Len(path) \in Nat /\ DOMAIN path = 1..Len(path) /\ path \in Seq(Components)
    BY LenProperties DEF SearchTypes
<1>2. /\ path' \in Seq(Components) /\ Len(path') = Len(path) + 1
      /\ \A n \in 1..Len(path) : path'[n] = path[n]
      /\ path'[Len(path) + 1] = i
    BY <1>1, AppendProperties DEF Open
<1>3. DOMAIN path' = 1..Len(path)+1
    BY <1>2, LenProperties
<1>4. \A n \in DOMAIN path : path[n] # i
    BY DEF OpenCalls
<1>5. \A n \in DOMAIN path' : n \in DOMAIN path \/ n = Len(path) + 1
    BY <1>1, <1>3
<1>6. OpenCalls'
    <2>1. \A m, n \in DOMAIN path' : path'[m] = path'[n] => m = n
        BY <1>1, <1>2, <1>4, <1>5 DEF OpenCalls
    <2>2. visiting' = {path'[n] : n \in DOMAIN path'}
        <3>1. Len(path) + 1 \in DOMAIN path' /\ \A n \in DOMAIN path : n \in DOMAIN path'
            BY <1>1, <1>3
        <3> QED
            BY <1>1, <1>2, <1>5, <3>1 DEF OpenCalls, Open
    <2>3. visiting' \cap executed' = {}
        BY DEF OpenCalls, Open
    <2> QED
        BY <2>1, <2>2, <2>3 DEF OpenCalls
<1> QED
    BY <1>1, <1>2, <1>3, <1>4, <1>6 DEF Open, SearchTypes

LEMMA VisitNextKeepsSearchInv ==
    ASSUME SearchInv, VisitNext
    PROVE  SearchInv'
<1> USE DEF VisitNext
<1>1. PICK i \in Components \ executed : /\ Open(i) /\ pending' = [pending EXCEPT ![i] = edges[i]]
                                         /\ 1..i-1 \subseteq executed
    BY DEF Components
<1>2. SearchTypes /\ OpenCalls /\ Started /\ status = "execute" /\ path = <<>> /\ path \in Seq(Components)
    BY DEF SearchInv, Started, SearchTypes
<1>3. visiting = {} /\ Len(path) = 0 /\ DOMAIN path = {}
    BY <1>2, EmptySeq DEF OpenCalls
<1>4. /\ path' \in Seq(Components) /\ visiting' \subseteq Components
      /\ Len(path') = 1 /\ DOMAIN path' = 1..1 /\ path'[1] = i
      /\ OpenCalls'
    BY <1>1, <1>2, <1>3, OpenStep
<1>5. /\ InputsOK' /\ Components' = Components
      /\ (\A j : DependsOn(j)' = DependsOn(j)) /\ (\A j : Ambiguous(j)' = Ambiguous(j))
      /\ (\A j : Precede(j)' = Precede(j))
    BY <1>2, SameInputs DEF SearchTypes
<1>6. pending' \in [Components -> Seq(Components)] /\ pending'[i] = edges[i]
    BY <1>1, <1>2 DEF SearchTypes
<1>7. SearchTypes' /\ Started'
    BY <1>2, <1>4, <1>5, <1>6 DEF SearchTypes, Started
<1>8. Awaits'
    <2>1. ToSet(pending'[i]) = DependsOn(i)
        BY <1>1, <1>2, <1>6 DEF SearchTypes
    <2>2. \A n \in DOMAIN path' : n = 1 /\ path'[n] = i
        BY <1>4
    <2>3. 1..Len(path')-1 = {}
        BY <1>4
    <2> QED
        BY <1>5, <2>1, <2>2, <2>3 DEF Awaits
<1>9. ExecutedClosed' /\ ExecutedAcyclic'
    BY <1>5 DEF SearchInv, ExecutedClosed, ExecutedAcyclic
<1>10. Roots'
    <2>1. path'[1] = i /\ \A n \in DOMAIN path' : path'[n] = i
        BY <1>4
    <2> QED
        BY <1>1, <1>5, <2>1 DEF Roots
<1> QED
    BY <1>4, <1>7, <1>8, <1>9, <1>10 DEF SearchInv

LEMMA SkipDependencyKeepsSearchInv ==
    ASSUME SearchInv, SkipDependency
    PROVE  SearchInv'
<1> USE DEF SkipDependency
<1>1. SearchTypes /\ OpenCalls /\ Started /\ status = "execute" /\ path # <<>>
    BY DEF SearchInv, Started
<1>2. /\ Len(path) \in Nat \ {0} /\ DOMAIN path = 1..Len(path)
      /\ Len(path) \in DOMAIN path /\ Top = path[Len(path)] /\ Top \in Components
    BY <1>1, TopFacts
<1>3. /\ pending \in [Components -> Seq(Components)]
      /\ pending[Top] \in Seq(Components) /\ pending[Top] # <<>>
    BY <1>1, <1>2 DEF SearchTypes
<1>4. /\ Tail(pending[Top]) \in Seq(Components)
      /\ ToSet(pending[Top]) = {Head(pending[Top])} \cup ToSet(Tail(pending[Top]))
    BY <1>3, HeadAndTail
<1>5. /\ InputsOK' /\ Components' = Components
      /\ (\A j : DependsOn(j)' = DependsOn(j)) /\ (\A j : Ambiguous(j)' = Ambiguous(j))
      /\ (\A j : Precede(j)' = Precede(j))
    BY <1>1, SameInputs DEF SearchTypes
<1>6. /\ pending' \in [Components -> Seq(Components)]
      /\ pending'[Top] = Tail(pending[Top])
      /\ \A j \in Components : j # Top => pending'[j] = pending[j]
    BY <1>2, <1>3, <1>4
<1>7. SearchTypes' /\ Started'
    BY <1>1, <1>5, <1>6 DEF SearchTypes, Started
<1>8. OpenCalls'
    BY DEF SearchInv, OpenCalls
<1>9. \A j \in Components :
          /\ ToSet(pending'[j]) \subseteq ToSet(pending[j])
          /\ ToSet(pending[j]) \subseteq ToSet(pending'[j]) \cup executed
    BY <1>4, <1>6
<1>10. Awaits'
    <2>1. \A n \in DOMAIN path : path[n] \in Components
        BY <1>1 DEF SearchTypes
    <2> QED
        BY <1>1, <1>5, <1>9, <2>1 DEF Awaits, SearchInv
<1>11. ExecutedClosed' /\ ExecutedAcyclic'
    BY <1>5 DEF SearchInv, ExecutedClosed, ExecutedAcyclic
<1>12. Roots'
    BY <1>5 DEF SearchInv, Roots
<1> QED
    BY <1>7, <1>8, <1>10, <1>11, <1>12 DEF SearchInv

LEMMA VisitDependencyKeepsSearchInv ==
    ASSUME SearchInv, VisitDependency
    PROVE  SearchInv'
<1> USE DEF VisitDependency
<1> DEFINE dep == Head(pending[Top])
           rest == Tail(pending[Top])
           n == Len(path)
<1>1. SearchTypes /\ OpenCalls /\ Started /\ status = "execute" /\ path # <<>>
    BY DEF SearchInv, Started
<1>2. /\ n \in Nat \ {0} /\ DOMAIN path = 1..n
      /\ n \in DOMAIN path /\ Top = path[n] /\ Top \in Components
    BY <1>1, TopFacts
<1>3. /\ pending \in [Components -> Seq(Components)]
      /\ pending[Top] \in Seq(Components) /\ pending[Top] # <<>>
    BY <1>1, <1>2 DEF SearchTypes
<1>4. /\ rest \in Seq(Components) /\ dep \in Components
      /\ ToSet(pending[Top]) = {dep} \cup ToSet(rest)
    BY <1>3, HeadAndTail
<1>5. /\ InputsOK' /\ Components' = Components
      /\ (\A j : DependsOn(j)' = DependsOn(j)) /\ (\A j : Ambiguous(j)' = Ambiguous(j))
      /\ (\A j : Precede(j)' = Precede(j))
    BY <1>1, SameInputs DEF SearchTypes
<1>6. dep \in Components \ (executed \cup visiting)
    BY <1>4
<1>7. /\ path' \in Seq(Components) /\ visiting' \subseteq Components
      /\ Len(path') = n + 1 /\ DOMAIN path' = 1..n+1
      /\ \A m \in DOMAIN path : path'[m] = path[m] /\ path[m] # dep
      /\ path'[n + 1] = dep
      /\ OpenCalls'
    BY <1>1, <1>6, OpenStep
<1>8. edges \in [Components -> Seq(Components)] /\ ToSet(edges[dep]) = DependsOn(dep)
    BY <1>1, <1>4 DEF SearchTypes
<1>9. Top # dep
    BY <1>2, <1>7
<1>10. pending' = [pending EXCEPT ![Top] = rest, ![dep] = edges[dep]]
    OBVIOUS
<1> HIDE DEF dep, rest
<1>11. /\ pending' \in [Components -> Seq(Components)]
       /\ pending'[Top] = rest /\ pending'[dep] = edges[dep]
       /\ \A j \in Components : j # Top /\ j # dep => pending'[j] = pending[j]
    <2>1. rest \in Seq(Components) /\ edges[dep] \in Seq(Components)
        BY <1>4, <1>8
    <2>2. pending' \in [Components -> Seq(Components)]
        BY <1>3, <1>10, <2>1
    <2>3. DOMAIN pending = Components
        BY <1>3
    <2> QED
        BY <1>2, <1>4, <1>9, <1>10, <2>2, <2>3
<1>12. SearchTypes' /\ Started'
    BY <1>1, <1>5, <1>7, <1>11 DEF SearchTypes, Started
<1>13. \A m \in 1..n : path[m] \in Components
    BY <1>1, <1>2 DEF SearchTypes
<1>14. \A m \in 1..n-1 : /\ m \in 1..n /\ m + 1 \in 1..n /\ m < n /\ m < n + 1
                         /\ path[m] # Top
    BY <1>1, <1>2 DEF OpenCalls
<1> HIDE DEF n
<1>15. ASSUME NEW m \in 1..n+1
       PROVE  /\ DependsOn(path'[m]) \subseteq executed \cup ToSet(pending'[path'[m]])
                    \cup (IF m < n + 1 THEN {path'[m+1]} ELSE {})
              /\ ToSet(pending'[path'[m]]) \subseteq DependsOn(path'[m])
              /\ m < n + 1 => path'[m+1] \in DependsOn(path'[m])
    <2>1. CASE m = n + 1
        <3>1. ToSet(pending'[path'[m]]) = DependsOn(path'[m])
            BY <2>1, <1>7, <1>8, <1>11
        <3>2. ~(m < n + 1)
            BY <2>1, <1>2
        <3> QED
            BY <3>1, <3>2
    <2>2. CASE m = n
        <3>1. m < n + 1 /\ ~(m < n) /\ m + 1 = n + 1
            BY <2>2, <1>2
        <3>2. path'[m] = Top /\ path'[m+1] = dep /\ pending'[path'[m]] = rest
            BY <2>2, <1>2, <1>7, <1>11
        <3>3. /\ DependsOn(Top) \subseteq executed \cup ToSet(pending[Top])
              /\ ToSet(pending[Top]) \subseteq DependsOn(Top)
            BY <1>1, <1>2, <2>2, <3>1 DEF SearchInv, Awaits, n
        <3> QED
            BY <3>1, <3>2, <3>3, <1>4
    <2>3. CASE m \in 1..n-1
        <3>1. path'[m] = path[m] /\ path'[m+1] = path[m+1] /\ path[m] # dep
            BY <2>3, <1>2, <1>7, <1>14
        <3>2. pending'[path[m]] = pending[path[m]]
            BY <2>3, <1>11, <1>13, <1>14, <3>1
        <3>3. /\ DependsOn(path[m]) \subseteq executed \cup ToSet(pending[path[m]]) \cup {path[m+1]}
              /\ ToSet(pending[path[m]]) \subseteq DependsOn(path[m])
              /\ path[m+1] \in DependsOn(path[m])
            <4>1. m \in DOMAIN path /\ m < Len(path) /\ m \in 1..Len(path)-1
                BY <2>3, <1>2, <1>14 DEF n
            <4> QED
                BY <1>1, <4>1 DEF SearchInv, Awaits
        <3> QED
            BY <2>3, <1>14, <3>1, <3>2, <3>3
    <2>4. m \in 1..n-1 \/ m = n \/ m = n + 1
        BY <1>2
    <2> QED
        BY <2>1, <2>2, <2>3, <2>4, Zenon
<1>16. Awaits'
    <2>1. executed' = executed
        OBVIOUS
    <2>2. \A m \in DOMAIN path' :
              DependsOn(path'[m]) \subseteq executed' \cup ToSet(pending'[path'[m]])
                  \cup (IF m < Len(path') THEN {path'[m+1]} ELSE {})
        <3> SUFFICES ASSUME NEW m \in DOMAIN path'
                     PROVE  DependsOn(path'[m]) \subseteq
                                executed \cup ToSet(pending'[path'[m]])
                                    \cup (IF m < Len(path') THEN {path'[m+1]} ELSE {})
            BY <2>1
        <3>1. m \in 1..n+1 /\ Len(path') = n + 1
            BY <1>7
        <3>2. DependsOn(path'[m]) \subseteq executed \cup ToSet(pending'[path'[m]])
                  \cup (IF m < n + 1 THEN {path'[m+1]} ELSE {})
            BY <3>1, <1>15, Zenon
        <3> QED
            BY <3>1, <3>2
    <2>3. \A m \in DOMAIN path' : ToSet(pending'[path'[m]]) \subseteq DependsOn(path'[m])
        BY <1>7, <1>15
    <2>4. \A m \in 1..Len(path')-1 : path'[m+1] \in DependsOn(path'[m])
        <3>1. \A m \in 1..Len(path')-1 : m \in 1..n+1 /\ m < n + 1
            BY <1>2, <1>7
        <3> QED
            BY <3>1, <1>15
    <2> QED
        BY <1>5, <2>2, <2>3, <2>4 DEF Awaits
<1>17. ExecutedClosed' /\ ExecutedAcyclic'
    BY <1>5 DEF SearchInv, ExecutedClosed, ExecutedAcyclic
<1>18. Roots'
    <2>1. 1 \in DOMAIN path /\ path'[1] = path[1] /\ executed' = executed
        BY <1>2, <1>7
    <2>2. 1..path[1]-1 \subseteq executed
        BY <1>1 DEF SearchInv, Roots
    <2>3. dep \in DependsOn(Top)
        <3>1. ToSet(pending[path[n]]) \subseteq DependsOn(path[n])
            BY <1>1, <1>2 DEF SearchInv, Awaits
        <3> QED
            BY <1>2, <1>4, <3>1
    <2>4. ASSUME NEW S \in SUBSET Components, path[1] \in S, \A l \in S : DependsOn(l) \subseteq S
          PROVE  \A m \in DOMAIN path' : path'[m] \in S
        <3>1. \A m \in DOMAIN path : path[m] \in S
            BY <1>1, <2>4 DEF SearchInv, Roots
        <3>2. dep \in S
            BY <1>2, <2>3, <2>4, <3>1
        <3>3. \A m \in DOMAIN path' : m \in DOMAIN path \/ m = n + 1
            BY <1>2, <1>7
        <3> QED
            BY <1>7, <3>1, <3>2, <3>3
    <2> QED
        BY <1>5, <2>1, <2>2, <2>4 DEF Roots
<1> QED
    BY <1>7, <1>12, <1>16, <1>17, <1>18 DEF SearchInv

(* A component whose loop over its edges is over has all it depends on     *)
(* executed, and what is listed before all that lead to it: the outermost  *)
(* call leads to it, so it comes later in the list.                        *)
LEMMA ReadyFacts ==
    ASSUME SearchInv, Ready
    PROVE  /\ Top \in Components \ executed /\ Top \in visiting
           /\ DependsOn(Top) \subseteq executed
           /\ Precede(Top) \subseteq executed
<1>1. SearchTypes /\ OpenCalls /\ Started /\ status = "execute" /\ path # <<>>
    BY DEF SearchInv, Started, Ready
<1>2. /\ Len(path) \in Nat \ {0} /\ Len(path) \in DOMAIN path
      /\ Top = path[Len(path)] /\ Top \in Components
    BY <1>1, TopFacts
<1>3. Top \in visiting /\ Top \notin executed
    BY <1>1, <1>2 DEF OpenCalls
<1>4. ToSet(pending[Top]) = {}
    <2>1. pending[Top] = <<>> /\ DOMAIN <<>> = {}
        BY EmptySeq DEF Ready
    <2> QED
        BY <2>1 DEF ToSet
<1>5. DependsOn(path[Len(path)]) \subseteq executed \cup ToSet(pending[path[Len(path)]])
    BY <1>1, <1>2 DEF SearchInv, Awaits
<1>6. DependsOn(Top) \subseteq executed
    BY <1>2, <1>4, <1>5
<1>7. ASSUME NEW j \in Components, ListedFirst(j, Top) PROVE j \in executed
    <2>1. PICK S \in SUBSET Components : /\ 1..j \subseteq S /\ Top \notin S
                                         /\ \A l \in S : DependsOn(l) \subseteq S
        BY <1>7 DEF ListedFirst, Components
    <2>2. path[1] \notin S
        BY <1>1, <1>2, <2>1 DEF SearchInv, Roots
    <2>3. 1 \in DOMAIN path /\ path[1] \in Components
        BY <1>1, <1>2 DEF SearchTypes
    <2>4. path[1] \in Nat \ {0} /\ j \in Nat \ {0}
        BY <1>1, <2>3 DEF SearchTypes, InputsOK
    <2>5. j \in 1..path[1]-1
        BY <2>1, <2>2, <2>4
    <2> QED
        BY <1>1, <2>5 DEF SearchInv, Roots
<1> QED
    BY <1>2, <1>3, <1>6, <1>7 DEF Precede

LEMMA ApplySucceedsKeepsSearchInv ==
    ASSUME SearchInv, ApplySucceeds
    PROVE  SearchInv'
<1> DEFINE n == Len(path)
<1>0. /\ Ready /\ executed' = executed \cup {Top}
      /\ path' = SubSeq(path, 1, n - 1) /\ visiting' = visiting \ {Top}
      /\ UNCHANGED <<comps, edges, pending, status>>
    BY DEF ApplySucceeds, Leave
<1>1. SearchTypes /\ OpenCalls /\ Started /\ status = "execute" /\ path # <<>>
    BY <1>0 DEF SearchInv, Started, Ready
<1>2. /\ n \in Nat \ {0} /\ DOMAIN path = 1..n
      /\ n \in DOMAIN path /\ Top = path[n] /\ Top \in Components
    BY <1>1, TopFacts
<1>3. Top \in Components \ executed /\ Top \in visiting /\ Precede(Top) \subseteq executed
    BY <1>0, ReadyFacts
<1>4. /\ InputsOK' /\ Components' = Components
      /\ (\A j : DependsOn(j)' = DependsOn(j)) /\ (\A j : Ambiguous(j)' = Ambiguous(j))
      /\ (\A j : Precede(j)' = Precede(j))
    BY <1>0, <1>1, SameInputs DEF SearchTypes
<1>5. path \in Seq(Components)
    BY <1>1 DEF SearchTypes
<1>6. /\ path' \in Seq(Components) /\ Len(path') = n - 1
      /\ \A m \in 1..n-1 : path'[m] = path[m]
    <2>1. /\ SubSeq(path, 1, n - 1) \in Seq(Components)
          /\ Len(SubSeq(path, 1, n - 1)) = n - 1
        BY <1>2, <1>5, SubSeqProperties
    <2>2. \A m \in 1..n-1 : SubSeq(path, 1, n - 1)[m] = path[m]
        BY <1>2, <1>5, SubSeqProperties
    <2> QED
        BY <1>0, <2>1, <2>2
<1>7. DOMAIN path' = 1..n-1
    BY <1>6, LenProperties
<1> HIDE DEF n
<1>8. \A m \in 1..n : m \in 1..n-1 \/ m = n
    BY <1>2
<1>9. \A m \in 1..n-1 : m \in 1..n /\ m < n /\ m # n /\ path[m] # Top
    BY <1>1, <1>2 DEF OpenCalls
<1>10. SearchTypes' /\ Started'
    BY <1>0, <1>1, <1>3, <1>4, <1>6 DEF SearchTypes, Started
<1>11. OpenCalls'
    <2>1. \A l, m \in DOMAIN path' : path'[l] = path'[m] => l = m
        BY <1>1, <1>2, <1>6, <1>7, <1>9 DEF OpenCalls
    <2>2. visiting' = {path'[m] : m \in DOMAIN path'}
        <3>1. visiting = {path[m] : m \in 1..n}
            BY <1>1, <1>2 DEF OpenCalls
        <3> QED
            BY <3>1, <1>0, <1>2, <1>6, <1>7, <1>8, <1>9
    <2>3. visiting' \cap executed' = {}
        BY <1>0, <1>1 DEF OpenCalls
    <2> QED
        BY <2>1, <2>2, <2>3 DEF OpenCalls
<1>12. Awaits'
    <2>1. ASSUME NEW m \in 1..n-1
          PROVE  /\ DependsOn(path[m]) \subseteq executed \cup ToSet(pending[path[m]])
                         \cup {path[m+1]}
                 /\ ToSet(pending[path[m]]) \subseteq DependsOn(path[m])
                 /\ path[m+1] \in DependsOn(path[m])
        <3>1. m \in DOMAIN path /\ m < Len(path) /\ m \in 1..Len(path)-1
            BY <1>2, <1>9, Zenon DEF n
        <3> QED
            BY <1>1, <3>1 DEF SearchInv, Awaits
    <2>2. \A m \in 1..n-1 : m < n - 1 => m + 1 \in 1..n-1
        BY <1>2
    <2>3. \A m \in 1..n-1 : ~(m < n - 1) => m + 1 = n
        BY <1>2
    <2>4. \A m \in 1..n-1 :
              DependsOn(path'[m]) \subseteq executed' \cup ToSet(pending'[path'[m]])
                  \cup (IF m < n - 1 THEN {path'[m+1]} ELSE {})
        <3> SUFFICES ASSUME NEW m \in 1..n-1
                     PROVE  DependsOn(path'[m]) \subseteq executed' \cup ToSet(pending'[path'[m]])
                              \cup (IF m < n - 1 THEN {path'[m+1]} ELSE {})
            OBVIOUS
        <3>1. CASE m < n - 1
            BY <3>1, <1>0, <1>6, <2>1, <2>2
        <3>2. CASE ~(m < n - 1)
            <4>1. path[m+1] = Top
                BY <3>2, <2>3, <1>2
            <4> QED
                BY <3>2, <4>1, <1>0, <1>6, <2>1
        <3> QED
            BY <3>1, <3>2
    <2>5. \A m \in 1..n-1 : ToSet(pending'[path'[m]]) \subseteq DependsOn(path'[m])
        BY <1>0, <1>6, <2>1
    <2>6. \A m \in 1..(n-1)-1 : /\ m \in 1..n-1 /\ m + 1 \in 1..n-1
        BY <1>2
    <2>7. \A m \in 1..(n-1)-1 : path'[m+1] \in DependsOn(path'[m])
        BY <1>6, <2>1, <2>6
    <2> QED
        BY <1>4, <1>6, <1>7, <2>4, <2>5, <2>7 DEF Awaits
<1>13. ExecutedClosed'
    BY <1>0, <1>3, <1>4 DEF SearchInv, ExecutedClosed
<1>14. ExecutedAcyclic'
    <2> SUFFICES ASSUME NEW T \in SUBSET (executed \cup {Top}), T # {}
                 PROVE  \E i \in T : Precede(i) \cap T = {}
        BY <1>0, <1>4 DEF ExecutedAcyclic
    <2>1. CASE T \subseteq {Top}
        BY <2>1, <1>3
    <2>2. CASE ~(T \subseteq {Top})
        <3> DEFINE U == T \ {Top}
        <3>1. U \in SUBSET executed /\ U # {}
            BY <2>2
        <3>2. PICK i \in U : Precede(i) \cap U = {}
            BY <3>1 DEF SearchInv, ExecutedAcyclic
        <3>3. Top \notin Precede(i)
            BY <1>3, <3>1 DEF SearchInv, ExecutedClosed
        <3> QED
            BY <3>2, <3>3
    <2> QED
        BY <2>1, <2>2
<1>15. Roots'
    <2> SUFFICES ASSUME path' # <<>>
                 PROVE  /\ 1..path'[1]-1 \subseteq executed'
                        /\ \A S \in SUBSET Components :
                              path'[1] \in S /\ (\A l \in S : DependsOn(l) \subseteq S) =>
                                  \A m \in DOMAIN path' : path'[m] \in S
        BY <1>4 DEF Roots
    <2>1. n - 1 # 0
        BY <1>6, EmptySeq
    <2>2. 1 \in 1..n-1 /\ path'[1] = path[1]
        BY <1>2, <1>6, <2>1
    <2>3. \A m \in DOMAIN path' : m \in DOMAIN path /\ path'[m] = path[m]
        BY <1>2, <1>6, <1>7, <1>9
    <2> QED
        BY <1>0, <1>1, <2>2, <2>3 DEF SearchInv, Roots
<1> QED
    BY <1>10, <1>11, <1>12, <1>13, <1>14, <1>15 DEF SearchInv

LEMMA SearchInvInit ==
    ASSUME Init
    PROVE  SearchInv
<1>1. InputsOK
    BY InputFacts
<1>2. SearchTypes
    BY <1>1, EmptySeq DEF Init, SearchTypes, Started
<1> QED
    BY <1>2 DEF Init, SearchInv, OpenCalls, Awaits, Roots, ExecutedClosed, ExecutedAcyclic

LEMMA SearchInvNext ==
    ASSUME SearchInv, [Next]_vars
    PROVE  SearchInv'
<1>0. SearchTypes /\ InputsOK
    BY DEF SearchInv, SearchTypes
<1>1. comps' = comps => /\ InputsOK' /\ Components' = Components
                        /\ (\A j : DependsOn(j)' = DependsOn(j))
                        /\ (\A j : Ambiguous(j)' = Ambiguous(j))
                        /\ (\A j : Precede(j)' = Precede(j))
    BY <1>0, SameInputs
<1>2. ASSUME comps' = comps, executed' = executed
      PROVE  ExecutedClosed' /\ ExecutedAcyclic'
    BY <1>1, <1>2 DEF SearchInv, ExecutedClosed, ExecutedAcyclic
<1>3. CASE Register
    <2>1. /\ comps' = comps /\ executed' = executed /\ status' \in {"graph", "invalid"}
          /\ path' = path /\ visiting' = visiting /\ ~Started /\ ~Started' /\ status # "execute"
        BY <1>3 DEF Register, Started
    <2>2. SearchTypes'
        BY <1>0, <1>1, <2>1 DEF SearchTypes, Failures
    <2> QED
        BY <1>2, <2>1, <2>2 DEF SearchInv, OpenCalls, Awaits, Roots
<1>4. CASE BuildGraph
    <2>1. /\ comps' = comps /\ executed' = executed /\ status' \in {"multiple", "execute"}
          /\ path' = path /\ visiting' = visiting /\ ~Started
          /\ pending' = [i \in Components |-> <<>>]
        BY <1>4 DEF BuildGraph, Started, Components
    <2>2. path = <<>> /\ executed = {} /\ visiting = {} /\ DOMAIN path = {} /\ Len(path) = 0
        BY <1>0, <2>1, EmptySeq DEF SearchTypes
    <2>3. pending' \in [Components -> Seq(Components)]
        BY <2>1, EmptySeq
    <2>4. status' = "execute" => /\ edges' = [i \in Components |-> Edges(i)]
                                 /\ \A i \in Components : ~Ambiguous(i)
        BY <1>4 DEF BuildGraph, Components
    <2>5. status' = "execute" => /\ edges' \in [Components -> Seq(Components)]
                                 /\ \A i \in Components : ToSet(edges'[i]) = DependsOn(i)
        BY <1>0, <2>4, EdgesFacts
    <2>6. Started' => status' = "execute"
        BY <2>1 DEF Started
    <2>7. SearchTypes'
        BY <1>0, <1>1, <2>1, <2>2, <2>3, <2>4, <2>5, <2>6, EmptySeq DEF SearchTypes, Failures
    <2>8. 1..Len(path')-1 = {}
        BY <2>1, <2>2
    <2> QED
        BY <1>2, <2>1, <2>2, <2>7, <2>8 DEF SearchInv, OpenCalls, Awaits, Roots
<1>5. CASE VisitNext
    BY <1>5, VisitNextKeepsSearchInv
<1>6. CASE SkipDependency
    BY <1>6, SkipDependencyKeepsSearchInv
<1>7. CASE VisitDependency
    BY <1>7, VisitDependencyKeepsSearchInv
<1>8. CASE ApplySucceeds
    BY <1>8, ApplySucceedsKeepsSearchInv
<1>9. CASE DetectCycle \/ MissingDependency \/ PanicOnNil \/ ApplyFails \/ Finish
    <2>1. /\ status = "execute" /\ Started /\ UNCHANGED <<comps, edges, path, pending, executed>>
          /\ visiting' \subseteq visiting
          /\ status' \in {"circular", "missing", "panic", "failed", "done"}
          /\ status' = "done" => executed = Components
        BY <1>9 DEF DetectCycle, MissingDependency, PanicOnNil, ApplyFails, Finish, Ready,
                    Leave, Started, Components
    <2>2. SearchTypes'
        BY <1>0, <1>1, <2>1 DEF SearchTypes, Started, Failures
    <2> QED
        BY <1>2, <2>1, <2>2 DEF SearchInv, OpenCalls, Awaits, Roots
<1>10. CASE UNCHANGED vars
    <2>1. SearchTypes' /\ comps' = comps /\ executed' = executed
        BY <1>0, <1>1, <1>10 DEF SearchTypes, Started, vars
    <2> QED
        BY <1>1, <1>2, <1>10, <2>1 DEF SearchInv, OpenCalls, Awaits, Roots, vars
<1> QED
    BY <1>3, <1>4, <1>5, <1>6, <1>7, <1>8, <1>9, <1>10 DEF Next

LEMMA SearchInvHolds == Spec => []SearchInv
<1> QED
    BY SearchInvInit, SearchInvNext, PTL DEF Spec

(* visit returns from a component's dependencies before the component is   *)
(* executed, so when it is, they all have been.                            *)
THEOREM DependenciesFirstHolds == Spec => []DependenciesFirst
<1>1. SearchInv => DependenciesFirst
    BY DEF SearchInv, ExecutedClosed, Precede, DependsOn, DependenciesFirst
<1> QED
    BY <1>1, SearchInvHolds, PTL

(* The stored values are those of the executed components, by their types. *)
StoredInv ==
    /\ DOMAIN results = DOMAIN slices
    /\ \A j \in executed : comps[j].produces # NoType => comps[j].produces \in DOMAIN slices
    /\ \A t \in DOMAIN slices :
          /\ t # NoType
          /\ slices[t] \in Seq(Components)
          /\ ToSet(slices[t]) = {j \in executed : comps[j].produces = t}
          /\ results[t] \in ToSet(slices[t])

(* G are the producers of what a parameter of component i is given: one at *)
(* least if it is not a slice, and if the graph knows all that could give  *)
(* it a value, all of those.                                               *)
Gives(i, param, G) ==
    /\ ~param.slice => Expected(i, param) # {}
    /\ Declared(i, param) =>
        /\ G \subseteq Producers(i, param)
        /\ \A j \in Producers(i, param) : \E l \in G :
              IF param.slice THEN SameValue(l, j) ELSE l = j

GivenAllOf(i, k) == Gives(i, comps[i].consumes[k], got[i][k])

GotInv ==
    /\ got = [i \in Components |-> got[i]]
    /\ \A i \in executed : \A k \in DOMAIN comps[i].consumes : GivenAllOf(i, k)

(* Why a run failed.                                                       *)
EndInv ==
    /\ status = "missing" =>
          \E i \in Components : \E k \in DOMAIN comps[i].consumes :
              /\ ~comps[i].consumes[k].slice
              /\ Settled(i, comps[i].consumes[k]) => Expected(i, comps[i].consumes[k]) = {}
    /\ status = "circular" =>
          \E T \in SUBSET Components :
              T # {} /\ \A i \in T : DependsOn(i) \cap T # {}

ValuesInv == SearchInv /\ StoredInv /\ GotInv /\ EndInv

LEMMA AppendToSet ==
    ASSUME NEW S, NEW s \in Seq(S), NEW x \in S
    PROVE  Append(s, x) \in Seq(S) /\ ToSet(Append(s, x)) = ToSet(s) \cup {x}
<1>1. /\ Append(s, x) \in Seq(S) /\ Len(Append(s, x)) = Len(s) + 1
      /\ \A n \in 1..Len(s) : Append(s, x)[n] = s[n]
      /\ Append(s, x)[Len(s) + 1] = x
    BY AppendProperties
<1>2. /\ DOMAIN s = 1..Len(s) /\ Len(s) \in Nat
      /\ DOMAIN Append(s, x) = 1..Len(s)+1
    BY <1>1, LenProperties
<1>3. \A n \in 1..Len(s)+1 : n \in 1..Len(s) \/ n = Len(s) + 1
    BY <1>2
<1>4. Len(s) + 1 \in 1..Len(s)+1 /\ \A n \in 1..Len(s) : n \in 1..Len(s)+1
    BY <1>2
<1> QED
    BY <1>1, <1>2, <1>3, <1>4 DEF ToSet

(* Every element of a sequence has the key of one that no earlier element  *)
(* shares it with.                                                         *)
LEMMA FirstOfKey ==
    ASSUME NEW S, NEW s \in Seq(S), NEW j \in ToSet(s)
    PROVE  \E n \in DOMAIN s : /\ Key(s[n]) = Key(j)
                               /\ \A l \in 1..n-1 : Key(s[l]) # Key(s[n])
<1> DEFINE c == Len(s)
           First(n) == Key(s[n]) = Key(j) /\ \A l \in 1..n-1 : Key(s[l]) # Key(s[n])
           D == {m \in 0..c : (\E n \in 1..m : Key(s[n]) = Key(j)) => \E n \in 1..c : First(n)}
<1>1. DOMAIN s = 1..c /\ c \in Nat
    BY LenProperties
<1> HIDE DEF c
<1>2. 0 \in D
    BY <1>1
<1>3. ASSUME NEW m \in 0..c-1, m \in D PROVE m + 1 \in D
    <2> SUFFICES ASSUME NEW n \in 1..m+1, Key(s[n]) = Key(j) PROVE \E k \in 1..c : First(k)
        BY <1>1
    <2>1. CASE \E k \in 1..m : Key(s[k]) = Key(j)
        BY <1>3, <2>1
    <2>2. CASE ~\E k \in 1..m : Key(s[k]) = Key(j)
        <3>1. n = m + 1 /\ n \in 1..c
            BY <1>1, <2>2
        <3>2. \A l \in 1..n-1 : l \in 1..m
            BY <1>1, <3>1
        <3>3. \A l \in 1..n-1 : Key(s[l]) # Key(s[n])
            BY <2>2, <3>2, Zenon
        <3> QED
            BY <3>1, <3>3
    <2> QED
        BY <2>1, <2>2
<1>4. 0..c \subseteq D
    <2> HIDE DEF D
    <2> QED
        BY <1>1, <1>2, <1>3, IntervalInduction
<1>5. \E n \in 1..c : Key(s[n]) = Key(j)
    BY <1>1 DEF ToSet
<1>6. c \in 0..c
    BY <1>1
<1> QED
    BY <1>1, <1>4, <1>5, <1>6

(* A parameter of one value has at most one producer once the graph is     *)
(* built.                                                                  *)
LEMMA SingleProducer ==
    ASSUME InputsOK, NEW i \in Components, ~Ambiguous(i),
           NEW k \in DOMAIN comps[i].consumes, ~comps[i].consumes[k].slice,
           NEW a \in Producers(i, comps[i].consumes[k]),
           NEW b \in Producers(i, comps[i].consumes[k])
    PROVE  a = b
<1> DEFINE P == Producers(i, comps[i].consumes[k])
<1>1. IsFiniteSet(P)
    <2>1. P \subseteq 1..Len(comps) /\ Len(comps) \in Nat
        BY DEF Producers, Components, InputsOK
    <2>2. IsFiniteSet(1..Len(comps))
        BY <2>1, FS_Interval
    <2> QED
        BY <2>1, <2>2, FS_Subset
<1>2. ~(Cardinality(P) > 1)
    BY DEF Ambiguous
<1> HIDE DEF P
<1> SUFFICES ASSUME a # b PROVE FALSE
    OBVIOUS
<1>3. {a, b} \subseteq P
    BY DEF P
<1>4. Cardinality({a, b}) = 2
    <2>1. Cardinality({a}) = 1 /\ IsFiniteSet({a})
        BY FS_Singleton
    <2>2. Cardinality({a} \cup {b}) = Cardinality({a}) + 1
        BY <2>1, FS_AddElement
    <2>3. {a} \cup {b} = {a, b}
        OBVIOUS
    <2> QED
        BY <2>1, <2>2, <2>3
<1>5. Cardinality({a, b}) <= Cardinality(P)
    BY <1>1, <1>3, FS_Subset
<1>6. Cardinality(P) \in Nat
    BY <1>1, FS_CardinalityType
<1> QED
    BY <1>2, <1>4, <1>5, <1>6

(* What the producers of a parameter are when its component is ready: the  *)
(* executed components of that result type.                                *)
LEMMA ReadyProducers ==
    ASSUME SearchInv, Ready, NEW k \in DOMAIN comps[Top].consumes
    PROVE  Producers(Top, comps[Top].consumes[k])
              = {j \in executed : comps[j].produces = comps[Top].consumes[k].type}
<1>1. Top \in Components \ executed /\ DependsOn(Top) \subseteq executed
    BY ReadyFacts
<1>2. executed \subseteq Components
    BY DEF SearchInv, SearchTypes
<1>3. Producers(Top, comps[Top].consumes[k]) \subseteq DependsOn(Top)
    BY DEF DependsOn
<1> QED
    BY <1>1, <1>2, <1>3 DEF Producers, Components

(* What is stored is what the executed components with a result returned.  *)
LEMMA StoredFacts ==
    ASSUME SearchInv, StoredInv
    PROVE  /\ Stored = {j \in executed : comps[j].produces # NoType}
           /\ {results[t] : t \in DOMAIN results} \subseteq Stored
<1>1. \A t \in DOMAIN slices :
          {slices[t][n] : n \in DOMAIN slices[t]} = {j \in executed : comps[j].produces = t}
    BY DEF StoredInv, ToSet
<1>2. Stored = {j \in executed : comps[j].produces # NoType}
    BY <1>1 DEF Stored, StoredInv
<1>3. \A t \in DOMAIN results : results[t] \in {slices[t][n] : n \in DOMAIN slices[t]}
    BY DEF StoredInv, ToSet
<1> QED
    BY <1>2, <1>3 DEF Stored, StoredInv

(* Only interfaces are implemented, so a parameter of a concrete type      *)
(* expects what its producers return.                                      *)
LEMMA ExpectedOfConcrete ==
    ASSUME NEW i, NEW param, param.type \notin Interfaces
    PROVE  Expected(i, param) = Producers(i, param)
BY CompositeAssumption DEF Expected, Producers

(* The parameters of a component have types.                               *)
LEMMA ParamTypes ==
    ASSUME InputsOK, NEW i \in Components, NEW k \in DOMAIN comps[i].consumes
    PROVE  comps[i].consumes[k] \in [slice: BOOLEAN, type: Types]
<1>1. comps[i].consumes \in Seq([slice: BOOLEAN, type: Types])
    BY DEF InputsOK
<1> QED
    BY <1>1, ElementOfSeq, LenProperties

(* Of the numbers of an interval that a set has, one is the least.         *)
LEMMA LeastOf ==
    ASSUME NEW c \in Nat, NEW T \in SUBSET (1..c), T # {}
    PROVE  \E m \in T : \A l \in 1..m-1 : l \notin T
<1> DEFINE First(n) == n \in T /\ \A l \in 1..n-1 : l \notin T
           D == {m \in 0..c : T \cap 1..m # {} => \E n \in 1..c : First(n)}
<1>1. 0 \in D
    OBVIOUS
<1>2. ASSUME NEW m \in 0..c-1, m \in D PROVE m + 1 \in D
    <2>1. CASE T \cap 1..m # {}
        BY <1>2, <2>1
    <2>2. CASE T \cap 1..m = {}
        <3> SUFFICES ASSUME NEW n \in T \cap 1..m+1 PROVE \E k \in 1..c : First(k)
            OBVIOUS
        <3>1. n = m + 1 /\ n \in 1..c
            BY <2>2
        <3>2. \A l \in 1..n-1 : l \notin T
            BY <2>2, <3>1
        <3> QED
            BY <3>1, <3>2
    <2> QED
        BY <2>1, <2>2
<1>3. 0..c \subseteq D
    <2> HIDE DEF D
    <2> QED
        BY <1>1, <1>2, IntervalInduction
<1>4. c \in 0..c /\ T \cap 1..c # {}
    <2>1. PICK x \in T : x \in 1..c
        OBVIOUS
    <2> QED
        BY <2>1
<1> QED
    BY <1>3, <1>4

(* valueForType for a concrete type finds what the producers have stored.  *)
LEMMA ConcreteCandidates ==
    ASSUME SearchInv, StoredInv, Ready, NEW k \in DOMAIN comps[Top].consumes,
           NEW param, param = comps[Top].consumes[k],
           param.type \notin Interfaces, param.type # NoType,
           NEW P, P = Producers(Top, param)
    PROVE  /\ Candidates(param) = {} => ~param.slice /\ P = {}
           /\ \A G \in Candidates(param) :
                  /\ ~param.slice => P # {}
                  /\ G \subseteq P
                  /\ \A j \in P : \E l \in G :
                        IF param.slice THEN SameValue(l, j) ELSE l = j
<1> DEFINE t == param.type
<1>0. Top \in Components \ executed /\ DependsOn(Top) \subseteq executed
    BY ReadyFacts
<1>1. P = {j \in executed : comps[j].produces = t}
    BY ReadyProducers
<1>2. t \in DOMAIN slices => slices[t] \in Seq(Components) /\ ToSet(slices[t]) = P
    BY <1>1 DEF StoredInv
<1>3. t \notin DOMAIN slices => P = {}
    BY <1>1 DEF StoredInv
<1>4. DOMAIN results = DOMAIN slices
    BY DEF StoredInv
<1>5. CASE param.slice
    <2>1. CASE t \notin DOMAIN slices
        <3>1. Candidates(param) = {{}}
            BY <1>5, <2>1 DEF Candidates
        <3> QED
            BY <1>3, <1>5, <2>1, <3>1
    <2>2. CASE t \in DOMAIN slices
        <3> DEFINE s == slices[t]
                   Firsts == {n \in DOMAIN s : \A l \in 1..n-1 : Key(s[l]) # Key(s[n])}
                   G == {s[n] : n \in Firsts}
        <3>1. Candidates(param) = {G}
            BY <1>5, <2>2 DEF Candidates
        <3>2. G \subseteq P
            BY <1>2, <2>2 DEF ToSet
        <3>3. ASSUME NEW j \in P PROVE \E l \in G : SameValue(l, j)
            <4>1. PICK n \in DOMAIN s : /\ Key(s[n]) = Key(j)
                                        /\ \A l \in 1..n-1 : Key(s[l]) # Key(s[n])
                BY <1>2, <2>2, FirstOfKey
            <4>2. s[n] \in G
                BY <4>1
            <4>3. SameValue(s[n], j)
                BY <4>1 DEF Key, SameValue
            <4> QED
                BY <4>2, <4>3
        <3> HIDE DEF G
        <3> QED
            BY <1>5, <3>1, <3>2, <3>3
    <2> QED
        BY <2>1, <2>2
<1>6. CASE ~param.slice
    <2>1. Candidates(param) = IF t \in DOMAIN results THEN {{results[t]}} ELSE {}
        BY <1>6 DEF Candidates
    <2>2. \A a, b \in P : a = b
        <3>1. InputsOK /\ ~Ambiguous(Top)
            BY <1>0 DEF SearchInv, SearchTypes, Ready, Started
        <3> QED
            BY <1>0, <1>6, <3>1, SingleProducer
    <2>3. t \in DOMAIN results => results[t] \in P
        BY <1>2, <1>4 DEF StoredInv
    <2> QED
        BY <1>3, <1>4, <1>6, <2>1, <2>2, <2>3
<1> QED
    BY <1>5, <1>6

(* valueForType for an interface finds what implements it among all that   *)
(* is executed; that no nil is stored is what lets it look.                *)
LEMMA InterfaceCandidates ==
    ASSUME SearchInv, StoredInv, Ready, NEW k \in DOMAIN comps[Top].consumes,
           NEW param, param = comps[Top].consumes[k], param.type \in Interfaces,
           \A j \in Stored : comps[j].dynamic # NilType
    PROVE  /\ Candidates(param) = {} =>
                ~param.slice /\ (Settled(Top, param) => Expected(Top, param) = {})
           /\ \A G \in Candidates(param) : Gives(Top, param, G)
<1> DEFINE now == Implementing(Stored, param.type)
           P == Producers(Top, param)
<1>1. Top \in Components \ executed /\ InputsOK /\ executed \subseteq Components
    BY ReadyFacts DEF SearchInv, SearchTypes
<1>2. /\ Stored = {j \in executed : comps[j].produces # NoType}
      /\ {results[t] : t \in DOMAIN results} \subseteq Stored
    BY StoredFacts
<1>3. now \subseteq Expected(Top, param)
    BY <1>1, <1>2 DEF Implementing, Expected, Components
<1>4. P \subseteq now
    <2> SUFFICES ASSUME NEW j \in P PROVE j \in now
        OBVIOUS
    <2>1. j \in executed /\ comps[j].produces = param.type
        BY ReadyProducers
    <2>2. j \in Stored
        BY <1>2, <2>1, CompositeAssumption
    <2>3. <<comps[j].dynamic, param.type>> \in Implements
        BY <1>1, <2>1, <2>2 DEF InputsOK
    <2> QED
        BY <2>2, <2>3 DEF Implementing
<1>5. Declared(Top, param) => now = P
    BY <1>3, <1>4 DEF Declared
<1>8. ASSUME Settled(Top, param) PROVE Expected(Top, param) \subseteq now
    <2> SUFFICES ASSUME NEW j \in Expected(Top, param), j \notin P PROVE j \in now
        BY <1>4
    <2>1. j \in Components /\ <<comps[j].dynamic, param.type>> \in Implements
        BY DEF Expected, Producers, Components
    <2>2. j \in executed
        BY <1>8, <2>1, ReadyFacts DEF Settled, Precede
    <2>3. comps[j].produces # NoType
        <3>1. comps[j].dynamic # NoType
            BY <2>1, CompositeAssumption
        <3> QED
            BY <1>1, <2>1, <3>1 DEF InputsOK
    <2> QED
        BY <1>2, <2>1, <2>2, <2>3 DEF Implementing
<1> HIDE DEF now, P
<1>6. CASE param.slice
    <2>1. Candidates(param) = Distinct(now)
        BY <1>6 DEF Candidates, now
    <2>2. Candidates(param) # {}
        <3>1. now \subseteq Components /\ IsFiniteSet(now)
            <4>1. now \subseteq 1..Len(comps) /\ Len(comps) \in Nat
                BY <1>1, <1>2 DEF now, Implementing, InputsOK
            <4>2. IsFiniteSet(1..Len(comps))
                BY <4>1, FS_Interval
            <4> QED
                BY <1>1, <4>1, <4>2, FS_Subset DEF InputsOK
        <3> DEFINE D == {j \in now : \A l \in now : Key(l) = Key(j) => j <= l}
        <3>2. ASSUME NEW a \in now PROVE \E b \in D : Key(a) = Key(b)
            <4> DEFINE T == {l \in now : Key(l) = Key(a)}
            <4>1. Len(comps) \in Nat /\ T \in SUBSET (1..Len(comps)) /\ T # {}
                BY <1>1, <3>1 DEF InputsOK
            <4>2. PICK m \in T : \A l \in 1..m-1 : l \notin T
                BY <4>1, LeastOf
            <4>3. \A l \in T : m <= l
                BY <4>1, <4>2
            <4>4. m \in D
                BY <4>2, <4>3
            <4> QED
                BY <4>2, <4>4
        <3>3. ASSUME NEW a \in D, NEW b \in D, Key(a) = Key(b) PROVE a = b
            <4>1. a <= b /\ b <= a /\ a \in Nat /\ b \in Nat
                BY <1>1, <3>1, <3>3 DEF InputsOK
            <4> QED
                BY <4>1
        <3>4. D \in SUBSET now
            OBVIOUS
        <3> HIDE DEF D
        <3>5. D \in Distinct(now)
            BY <3>2, <3>3, <3>4 DEF Distinct
        <3> QED
            BY <2>1, <3>5
    <2>3. ASSUME NEW G \in Candidates(param), Declared(Top, param)
          PROVE  G \subseteq P /\ \A j \in P : \E l \in G : SameValue(l, j)
        <3>1. G \subseteq now /\ \A a \in now : \E b \in G : Key(a) = Key(b)
            BY <2>1, <2>3 DEF Distinct
        <3>2. \A a, b : Key(a) = Key(b) => SameValue(b, a)
            BY DEF Key, SameValue
        <3> QED
            BY <1>5, <2>3, <3>1, <3>2
    <2> QED
        BY <1>6, <2>2, <2>3 DEF Gives, P
<1>7. CASE ~param.slice
    <2> DEFINE inLast == Implementing({results[t] : t \in DOMAIN results}, param.type)
               found == IF inLast # {} THEN inLast ELSE now
    <2>1. Candidates(param) = {{j} : j \in found}
        BY <1>7 DEF Candidates, now
    <2>2. inLast \subseteq now
        BY <1>2 DEF Implementing, now
    <2> HIDE DEF inLast
    <2>3. found \subseteq now /\ (found = {} => now = {})
        BY <2>2
    <2>4. \A a, b \in P : a = b
        <3>1. ~Ambiguous(Top)
            BY <1>1 DEF SearchInv, SearchTypes, Ready, Started
        <3> QED
            BY <1>1, <1>7, <3>1, SingleProducer DEF P
    <2> HIDE DEF found
    <2>5. Candidates(param) = {} => now = {}
        BY <2>1, <2>3
    <2>6. ASSUME NEW G \in Candidates(param) PROVE Gives(Top, param, G)
        <3>1. PICK j \in now : G = {j}
            BY <2>1, <2>3
        <3> QED
            BY <1>3, <1>5, <1>7, <2>4, <3>1 DEF Gives, P
    <2> QED
        BY <1>7, <1>8, <2>5, <2>6
<1> QED
    BY <1>6, <1>7

(* What any parameter of a component gets, when those before it got theirs *)
(* and no nil stops the search.                                            *)
LEMMA ParameterCandidates ==
    ASSUME SearchInv, StoredInv, Ready, ~Panics(Top),
           NEW k \in DOMAIN comps[Top].consumes,
           NEW param, param = comps[Top].consumes[k],
           \A l \in 1..k-1 : Candidates(comps[Top].consumes[l]) # {}
    PROVE  /\ Candidates(param) = {} =>
                ~param.slice /\ (Settled(Top, param) => Expected(Top, param) = {})
           /\ \A G \in Candidates(param) : Gives(Top, param, G)
<1>1. CASE param.type \in Interfaces
    <2>1. \A j \in Stored : comps[j].dynamic # NilType
        BY <1>1 DEF Panics
    <2> QED
        BY <1>1, <2>1, InterfaceCandidates
<1>2. CASE param.type \notin Interfaces
    <2>1. Top \in Components /\ InputsOK
        BY ReadyFacts DEF SearchInv, SearchTypes
    <2>2. param.type # NoType
        BY <2>1, ParamTypes, CompositeAssumption
    <2>3. Expected(Top, param) = Producers(Top, param)
        BY <1>2, ExpectedOfConcrete
    <2> DEFINE P == Producers(Top, param)
    <2>4. /\ Candidates(param) = {} => ~param.slice /\ P = {}
          /\ \A G \in Candidates(param) :
                  /\ ~param.slice => P # {}
                  /\ G \subseteq P
                  /\ \A j \in P : \E l \in G :
                        IF param.slice THEN SameValue(l, j) ELSE l = j
        BY <1>2, <2>2, ConcreteCandidates
    <2> QED
        BY <2>3, <2>4 DEF Gives
<1> QED
    BY <1>1, <1>2

LEMMA ApplySucceedsKeepsStoredInv ==
    ASSUME SearchInv, StoredInv, ApplySucceeds
    PROVE  StoredInv'
<1> DEFINE t == comps[Top].produces
           old == IF t \in DOMAIN slices THEN slices[t] ELSE <<>>
<1>1. Ready /\ comps' = comps /\ executed' = executed \cup {Top} /\ Store(Top, t)
    BY DEF ApplySucceeds
<1>2. Top \in Components \ executed
    BY <1>1, ReadyFacts
<1>3. Components' = Components
    BY <1>1 DEF Components
<1>4. CASE t = NoType
    <2>1. UNCHANGED <<results, slices>>
        BY <1>1, <1>4 DEF Store
    <2> QED
        BY <1>1, <1>2, <1>3, <1>4, <2>1 DEF StoredInv
<1>5. CASE t # NoType
    <2>1. /\ results' = [u \in DOMAIN results \cup {t} |-> IF u = t THEN Top ELSE results[u]]
          /\ slices' = [u \in DOMAIN slices \cup {t} |->
                            IF u # t THEN slices[u] ELSE Append(old, Top)]
        BY <1>1, <1>5 DEF Store
    <2>2. old \in Seq(Components) /\ ToSet(old) = {j \in executed : comps[j].produces = t}
        <3>1. CASE t \in DOMAIN slices
            BY <3>1 DEF StoredInv
        <3>2. CASE t \notin DOMAIN slices
            <4>1. {j \in executed : comps[j].produces = t} = {}
                BY <1>5, <3>2 DEF StoredInv
            <4>2. <<>> \in Seq(Components) /\ ToSet(<<>>) = {}
                BY EmptySeq DEF ToSet
            <4> QED
                BY <3>2, <4>1, <4>2
        <3> QED
            BY <3>1, <3>2
    <2> HIDE DEF old
    <2>3. /\ Append(old, Top) \in Seq(Components)
          /\ ToSet(Append(old, Top)) = ToSet(old) \cup {Top}
        BY <1>2, <2>2, AppendToSet
    <2>4. DOMAIN results' = DOMAIN slices' /\ DOMAIN slices' = DOMAIN slices \cup {t}
        BY <2>1 DEF StoredInv
    <2>5. \A j \in executed' : comps'[j].produces # NoType => comps'[j].produces \in DOMAIN slices'
        BY <1>1, <2>4 DEF StoredInv
    <2>6. ASSUME NEW u \in DOMAIN slices'
          PROVE  /\ u # NoType
                 /\ slices'[u] \in Seq(Components)
                 /\ ToSet(slices'[u]) = {j \in executed' : comps'[j].produces = u}
                 /\ results'[u] \in ToSet(slices'[u])
        <3>1. CASE u = t
            <4>1. slices'[u] = Append(old, Top) /\ results'[u] = Top
                BY <2>1, <2>4, <3>1
            <4>2. {j \in executed' : comps'[j].produces = u}
                      = {j \in executed : comps[j].produces = t} \cup {Top}
                BY <1>1, <3>1
            <4> QED
                BY <1>5, <2>2, <2>3, <3>1, <4>1, <4>2
        <3>2. CASE u # t
            <4>1. u \in DOMAIN slices /\ slices'[u] = slices[u] /\ results'[u] = results[u]
                BY <2>1, <2>4, <3>2 DEF StoredInv
            <4>2. {j \in executed' : comps'[j].produces = u}
                      = {j \in executed : comps[j].produces = u}
                BY <1>1, <3>2
            <4> QED
                BY <4>1, <4>2 DEF StoredInv
        <3> QED
            BY <3>1, <3>2
    <2> QED
        BY <1>3, <2>4, <2>5, <2>6 DEF StoredInv
<1> QED
    BY <1>4, <1>5

LEMMA ApplySucceedsKeepsGotInv ==
    ASSUME SearchInv, StoredInv, GotInv, ApplySucceeds
    PROVE  GotInv'
<1>1. /\ Ready /\ comps' = comps /\ executed' = executed \cup {Top}
      /\ \E g \in [Params -> SUBSET DOMAIN comps] :
            /\ \A k \in Params : g[k] \in Candidates(comps[Top].consumes[k])
            /\ got' = [got EXCEPT ![Top] = g]
    BY DEF ApplySucceeds
<1>2. PICK g : /\ \A k \in Params : g[k] \in Candidates(comps[Top].consumes[k])
               /\ got' = [got EXCEPT ![Top] = g]
    BY <1>1
<1>3. Top \in Components \ executed /\ InputsOK
    BY <1>1, ReadyFacts DEF SearchInv, SearchTypes
<1>4. /\ got = [i \in Components |-> got[i]] /\ got'[Top] = g
      /\ \A i \in Components : i # Top => got'[i] = got[i]
      /\ got' = [i \in Components |-> got'[i]]
    BY <1>2, <1>3 DEF GotInv
<1>5. \A i, param : Producers(i, param)' = Producers(i, param)
    BY <1>1 DEF Producers
<1>6. \A i, j : SameValue(i, j)' = SameValue(i, j)
    BY <1>1 DEF SameValue
<1>7. \A i, param : /\ Expected(i, param)' = Expected(i, param)
                    /\ Declared(i, param)' = Declared(i, param)
    BY <1>1, <1>5 DEF Expected, Declared
<1>8. \A i, param, G : Gives(i, param, G)' = Gives(i, param, G)
    BY <1>5, <1>6, <1>7 DEF Gives
<1>9. ASSUME NEW i \in executed, NEW k \in DOMAIN comps[i].consumes
      PROVE  GivenAllOf(i, k)'
    <2>1. got'[i] = got[i]
        BY <1>3, <1>4 DEF SearchInv, SearchTypes
    <2>2. GivenAllOf(i, k)
        BY DEF GotInv
    <2> QED
        BY <1>1, <1>8, <2>1, <2>2 DEF GivenAllOf
<1>10. PICK top : top = Top
    OBVIOUS
<1>11. ASSUME NEW k \in DOMAIN comps[top].consumes
      PROVE  GivenAllOf(top, k)'
    <2> DEFINE param == comps[top].consumes[k]
    <2>1. g[k] \in Candidates(param) /\ \A l \in Params : Candidates(comps[Top].consumes[l]) # {}
        BY <1>2, <1>10 DEF Params
    <2>2. \A l \in 1..k-1 : l \in Params
        <3>1. comps[top].consumes \in Seq([slice: BOOLEAN, type: Types])
            BY <1>3, <1>10 DEF InputsOK
        <3>2. DOMAIN comps[top].consumes = 1..Len(comps[top].consumes)
              /\ Len(comps[top].consumes) \in Nat
            BY <3>1, LenProperties
        <3> QED
            BY <1>10, <3>2 DEF Params
    <2>3. ~Panics(Top)
        BY DEF ApplySucceeds
    <2>4. Gives(top, param, g[k])
        BY <1>1, <1>10, <2>1, <2>2, <2>3, ParameterCandidates
    <2>5. PICK q, G : q = param /\ G = g[k]
        OBVIOUS
    <2>6. Gives(top, q, G)'
        BY <1>8, <2>4, <2>5
    <2>7. comps'[top].consumes[k] = q /\ got'[top][k] = G
        BY <1>1, <1>4, <1>10, <2>5
    <2> QED
        BY <2>6, <2>7 DEF GivenAllOf
<1> QED
    <2>1. Components' = Components
        BY <1>1 DEF Components
    <2>2. \A i \in executed' : \A k \in DOMAIN comps'[i].consumes : GivenAllOf(i, k)'
        BY <1>1, <1>9, <1>10, <1>11
    <2> QED
        BY <1>4, <2>1, <2>2 DEF GotInv

(* What the list settles never changes either.                             *)
LEMMA SameSettled ==
    ASSUME comps' = comps
    PROVE  \A i, param : /\ Expected(i, param)' = Expected(i, param)
                         /\ Settled(i, param)' = Settled(i, param)
<1>1. \A i, param : /\ Producers(i, param)' = Producers(i, param)
                    /\ Expected(i, param)' = Expected(i, param)
    BY DEF Producers, Expected
<1>2. \A i : DependsOn(i)' = DependsOn(i)
    BY <1>1 DEF DependsOn
<1>3. \A i, j : ListedFirst(j, i)' = ListedFirst(j, i)
    BY <1>2 DEF ListedFirst
<1> QED
    BY <1>1, <1>3 DEF Settled

LEMMA MissingDependencyKeepsEndInv ==
    ASSUME SearchInv, StoredInv, MissingDependency
    PROVE  EndInv'
<1> DEFINE consumes == comps[Top].consumes
           T == {k \in DOMAIN consumes : Candidates(consumes[k]) = {}}
<1>1. Ready /\ ~Panics(Top) /\ comps' = comps /\ status' = "missing"
    BY DEF MissingDependency
<1>2. Top \in Components /\ InputsOK
    BY <1>1, ReadyFacts DEF SearchInv, SearchTypes
<1>3. consumes \in Seq([slice: BOOLEAN, type: Types])
    BY <1>2 DEF InputsOK
<1>4. Len(consumes) \in Nat /\ DOMAIN consumes = 1..Len(consumes)
    BY <1>3, LenProperties
<1>5. T \in SUBSET (1..Len(consumes)) /\ T # {}
    BY <1>4 DEF MissingDependency, Params
<1>6. PICK k \in T : \A l \in 1..k-1 : l \notin T
    <2> HIDE DEF T, consumes
    <2> QED
        BY <1>4, <1>5, LeastOf
<1>7. \A l \in 1..k-1 : Candidates(consumes[l]) # {}
    BY <1>4, <1>6
<1>8. /\ ~consumes[k].slice
      /\ Settled(Top, consumes[k]) => Expected(Top, consumes[k]) = {}
    BY <1>1, <1>6, <1>7, ParameterCandidates
<1>9. PICK i \in Components :
          \E l \in DOMAIN comps[i].consumes :
              /\ ~comps[i].consumes[l].slice
              /\ Settled(i, comps[i].consumes[l]) => Expected(i, comps[i].consumes[l]) = {}
    BY <1>2, <1>6, <1>8
<1>10. Components' = Components
    BY <1>1 DEF Components
<1>11. \A j, param : /\ Expected(j, param)' = Expected(j, param)
                      /\ Settled(j, param)' = Settled(j, param)
    BY <1>1, <1>2, SameSettled
<1> QED
    BY <1>1, <1>9, <1>10, <1>11 DEF EndInv

(* The calls from the one for the component met again to the innermost are *)
(* those of a set of components each of which depends on another of them.  *)
LEMMA DetectCycleKeepsEndInv ==
    ASSUME SearchInv, DetectCycle
    PROVE  EndInv'
<1> DEFINE n == Len(path)
           dep == Head(pending[Top])
<1>1. /\ status = "execute" /\ path # <<>> /\ pending[Top] # <<>>
      /\ dep \in visiting /\ comps' = comps /\ status' = "circular"
    BY DEF DetectCycle
<1>2. SearchTypes /\ OpenCalls /\ Awaits /\ Started
    BY <1>1 DEF SearchInv, Started
<1>3. n \in Nat \ {0} /\ DOMAIN path = 1..n /\ Top = path[n] /\ Top \in Components
    BY <1>1, <1>2, TopFacts
<1>4. pending[Top] \in Seq(Components)
    BY <1>2, <1>3 DEF SearchTypes
<1>5. dep \in ToSet(pending[Top])
    BY <1>1, <1>4, HeadAndTail
<1>6. n \in DOMAIN path
    BY <1>3
<1>7. dep \in DependsOn(path[n])
    BY <1>1, <1>2, <1>3, <1>5, <1>6 DEF Awaits
<1>8. PICK p \in 1..n : path[p] = dep
    BY <1>1, <1>2, <1>3 DEF OpenCalls
<1>9. \A m \in 1..n-1 : path[m+1] \in DependsOn(path[m])
    BY <1>1, <1>2 DEF Awaits
<1>10. \A m \in 1..n : path[m] \in Components
    BY <1>2, <1>3 DEF SearchTypes
<1> HIDE DEF n, dep
<1> DEFINE T == {path[m] : m \in p..n}
<1>11. p \in p..n /\ \A m \in p..n : m \in 1..n
    BY <1>3, <1>8
<1>12. T \in SUBSET Components /\ T # {}
    BY <1>10, <1>11
<1>13. ASSUME NEW i \in T PROVE DependsOn(i) \cap T # {}
    <2>1. PICK m \in p..n : i = path[m]
        OBVIOUS
    <2>2. CASE m = n
        BY <2>1, <2>2, <1>7, <1>8, <1>11
    <2>3. CASE m # n
        <3>1. m \in 1..n-1 /\ m + 1 \in p..n
            BY <2>3, <1>3, <1>8
        <3> QED
            BY <2>1, <3>1, <1>9
    <2> QED
        BY <2>2, <2>3
<1> HIDE DEF T
<1>14. Components' = Components /\ \A i : DependsOn(i)' = DependsOn(i)
    BY <1>1, <1>2, SameInputs DEF SearchTypes
<1> QED
    BY <1>1, <1>12, <1>13, <1>14 DEF EndInv

LEMMA ValuesInvInit ==
    ASSUME Init
    PROVE  ValuesInv
<1>1. SearchInv
    BY SearchInvInit
<1>2. StoredInv
    BY DEF Init, StoredInv
<1>3. GotInv
    BY DEF Init, GotInv, Components
<1>4. EndInv
    BY DEF Init, EndInv
<1> QED
    BY <1>1, <1>2, <1>3, <1>4 DEF ValuesInv

LEMMA ValuesInvNext ==
    ASSUME ValuesInv, [Next]_vars
    PROVE  ValuesInv'
<1> USE DEF ValuesInv
<1>1. SearchInv'
    BY SearchInvNext
<1>2. ASSUME UNCHANGED <<comps, executed, results, slices>> PROVE StoredInv'
    BY <1>2 DEF StoredInv, Components
<1>3. ASSUME UNCHANGED <<comps, executed, got>> PROVE GotInv'
    <2>1. \A i, k : GivenAllOf(i, k)' = GivenAllOf(i, k)
        <3>1. \A i, param : /\ Producers(i, param)' = Producers(i, param)
                            /\ Expected(i, param)' = Expected(i, param)
            BY <1>3 DEF Producers, Expected
        <3>2. \A i, j : SameValue(i, j)' = SameValue(i, j)
            BY <1>3 DEF SameValue
        <3>3. \A i, param, G : Gives(i, param, G)' = Gives(i, param, G)
            BY <3>1, <3>2 DEF Gives, Declared
        <3> QED
            BY <1>3, <3>3 DEF GivenAllOf
    <2> QED
        BY <1>3, <2>1 DEF GotInv, Components
<1>4. ASSUME status' \notin {"missing", "circular"} PROVE EndInv'
    BY <1>4 DEF EndInv
<1>5. CASE Register \/ BuildGraph
    <2>1. /\ UNCHANGED <<comps, executed, results, slices, got>>
          /\ status' \in {"graph", "invalid", "multiple", "execute"}
        BY <1>5 DEF Register, BuildGraph
    <2> QED
        BY <1>1, <1>2, <1>3, <1>4, <2>1
<1>6. CASE VisitNext \/ SkipDependency \/ VisitDependency
    <2>1. UNCHANGED <<comps, executed, results, slices, got>> /\ status' = "execute"
        BY <1>6 DEF VisitNext, SkipDependency, VisitDependency
    <2> QED
        BY <1>1, <1>2, <1>3, <1>4, <2>1
<1>7. CASE DetectCycle \/ MissingDependency
    <2>1. UNCHANGED <<comps, executed, results, slices, got>>
        BY <1>7 DEF DetectCycle, MissingDependency
    <2>2. EndInv'
        BY <1>7, DetectCycleKeepsEndInv, MissingDependencyKeepsEndInv
    <2> QED
        BY <1>1, <1>2, <1>3, <2>1, <2>2
<1>8. CASE PanicOnNil \/ ApplyFails \/ Finish
    <2>1. /\ UNCHANGED <<comps, executed, results, slices, got>>
          /\ status' \in {"panic", "failed", "done"}
        BY <1>8 DEF PanicOnNil, ApplyFails, Finish
    <2> QED
        BY <1>1, <1>2, <1>3, <1>4, <2>1
<1>9. CASE ApplySucceeds
    <2>1. status' = "execute"
        BY <1>9 DEF ApplySucceeds, Ready
    <2> QED
        BY <1>1, <1>4, <1>9, <2>1, ApplySucceedsKeepsStoredInv, ApplySucceedsKeepsGotInv
<1>10. CASE UNCHANGED vars
    <2>1. UNCHANGED <<comps, executed, results, slices, got, status>>
        BY <1>10 DEF vars
    <2>2. EndInv'
        <3>2. Components' = Components /\ \A i : DependsOn(i)' = DependsOn(i)
            BY <2>1, SameInputs DEF SearchInv, SearchTypes
        <3>3. \A i, param : /\ Expected(i, param)' = Expected(i, param)
                            /\ Settled(i, param)' = Settled(i, param)
            BY <2>1, SameSettled
        <3> QED
            BY <2>1, <3>2, <3>3 DEF EndInv
    <2> QED
        BY <1>1, <1>2, <1>3, <2>1, <2>2
<1> QED
    BY <1>5, <1>6, <1>7, <1>8, <1>9, <1>10 DEF Next

LEMMA ValuesInvHolds == Spec => []ValuesInv
<1> QED
    BY ValuesInvInit, ValuesInvNext, PTL DEF Spec

(* A parameter whose type the graph matches is given the result of its one *)
(* producer, and a slice the results of all of them.                       *)
THEOREM ParametersAreCompleteHolds == Spec => []ParametersAreComplete
<1>1. ASSUME ValuesInv PROVE ParametersAreComplete
    <2>1. ASSUME NEW i \in executed, NEW k \in DOMAIN comps[i].consumes
          PROVE  Gives(i, comps[i].consumes[k], got[i][k])
        BY <1>1 DEF ValuesInv, GotInv, GivenAllOf
    <2> QED
        BY <2>1 DEF Gives, Declared, ParametersAreComplete
<1> QED
    BY <1>1, ValuesInvHolds, PTL

(* How a run ends is decided by what the components produce and consume,   *)
(* and a component runs after all that could give it a value, where the    *)
(* list settles what the graph of static types does not know               *)
(* (composite.go:386).                                                     *)
THEOREM OrderDoesNotMatterHolds == Spec => []OrderDoesNotMatter
<1>1. ASSUME ValuesInv PROVE OrderDoesNotMatter
    <2>1. ASSUME status = "circular" PROVE HasCycle
        <3>1. PICK T \in SUBSET Components :
                  T # {} /\ \A i \in T : DependsOn(i) \cap T # {}
            BY <1>1, <2>1 DEF ValuesInv, EndInv
        <3>2. ASSUME NEW i \in T
              PROVE  \E k \in DOMAIN comps[i].consumes :
                        Expected(i, comps[i].consumes[k]) \cap T # {}
            <4>1. PICK j \in T : j \in DependsOn(i)
                BY <3>1
            <4>2. PICK k \in DOMAIN comps[i].consumes : j \in Producers(i, comps[i].consumes[k])
                BY <4>1 DEF DependsOn
            <4>3. j \in Expected(i, comps[i].consumes[k])
                BY <4>2 DEF Producers, Expected
            <4> QED
                BY <4>2, <4>3
        <3> QED
            BY <3>1, <3>2 DEF HasCycle, Components
    <2>2. ASSUME status = "done" PROVE executed = Components
        BY <1>1, <2>2 DEF ValuesInv, SearchInv, SearchTypes
    <2>3. ASSUME status = "done" PROVE ~Unmet
        BY <1>1, <2>2, <2>3 DEF ValuesInv, GotInv, GivenAllOf, Gives, Unmet, Components
    <2>4. ASSUME AllSettled, status = "missing" PROVE Unmet
        BY <1>1, <2>4 DEF ValuesInv, EndInv, AllSettled, Unmet, Components
    <2>5. ASSUME NEW i \in Components, NEW k \in DOMAIN comps[i].consumes,
                 Settled(i, comps[i].consumes[k])
          PROVE  Expected(i, comps[i].consumes[k]) \subseteq Precede(i)
        BY <2>5 DEF Settled, Expected, Precede, DependsOn, Components
    <2>6. ASSUME NEW i \in executed, NEW k \in DOMAIN comps[i].consumes,
                 Settled(i, comps[i].consumes[k])
          PROVE  Expected(i, comps[i].consumes[k]) \subseteq executed
        <3>1. i \in Components /\ Precede(i) \subseteq executed
            BY <1>1 DEF ValuesInv, SearchInv, SearchTypes, ExecutedClosed
        <3> QED
            BY <2>5, <2>6, <3>1
    <2>7. ASSUME AllSettled, status = "done" PROVE ~HasCycle
        <3>1. ASSUME NEW T \in SUBSET Components, T # {}
              PROVE  \E i \in T : \A k \in DOMAIN comps[i].consumes :
                        Expected(i, comps[i].consumes[k]) \cap T = {}
            <4>1. PICK i \in T : Precede(i) \cap T = {}
                BY <1>1, <2>2, <2>7, <3>1 DEF ValuesInv, SearchInv, ExecutedAcyclic
            <4>2. \A k \in DOMAIN comps[i].consumes :
                      Expected(i, comps[i].consumes[k]) \subseteq Precede(i)
                BY <2>5, <2>7 DEF AllSettled, Components
            <4> QED
                BY <4>1, <4>2
        <3> QED
            BY <3>1, Zenon DEF HasCycle, Components
    <2> QED
        BY <2>1, <2>3, <2>4, <2>6, <2>7 DEF OrderDoesNotMatter
<1> QED
    BY <1>1, ValuesInvHolds, PTL

(* An interface is looked for among everything executed so far: a single   *)
(* value implements it, and a slice has every implementation, by key.      *)
THEOREM InterfacesSeeExecutedHolds == Spec => InterfacesSeeExecuted
<1> DEFINE Sees(i, k) ==
              LET param == comps[i].consumes[k]
                  now == Implementing(executed, param.type)
              IN  param.type \in Interfaces =>
                      /\ got'[i][k] \subseteq now
                      /\ param.slice => {Key(j) : j \in got'[i][k]} = {Key(j) : j \in now}
                      /\ ~param.slice => got'[i][k] # {}
           Step == \A i \in executed' \ executed : \A k \in DOMAIN comps[i].consumes : Sees(i, k)
<1>1. ASSUME ValuesInv, [Next]_vars PROVE [Step]_vars
    <2>1. CASE ~ApplySucceeds
        <3>1. executed' = executed
            BY <1>1, <2>1 DEF Next, vars, Register, BuildGraph, VisitNext, SkipDependency,
               DetectCycle, VisitDependency, MissingDependency, PanicOnNil, ApplyFails, Finish
        <3> QED
            BY <3>1
    <2>2. CASE ApplySucceeds
        <3>1. /\ Ready /\ executed' = executed \cup {Top} /\ SearchInv /\ StoredInv /\ GotInv
            BY <1>1, <2>2 DEF ApplySucceeds, ValuesInv
        <3>2. PICK g : /\ \A k \in Params : g[k] \in Candidates(comps[Top].consumes[k])
                       /\ got' = [got EXCEPT ![Top] = g]
            BY <2>2 DEF ApplySucceeds
        <3>3. Top \in Components \ executed /\ InputsOK
            BY <3>1, ReadyFacts DEF SearchInv, SearchTypes
        <3>4. got'[Top] = g
            BY <3>1, <3>2, <3>3 DEF GotInv
        <3>5. ASSUME NEW k \in DOMAIN comps[Top].consumes PROVE Sees(Top, k)
            <4> DEFINE param == comps[Top].consumes[k]
                       now == Implementing(executed, param.type)
            <4> SUFFICES ASSUME param.type \in Interfaces
                         PROVE  /\ g[k] \subseteq now
                                /\ param.slice => {Key(j) : j \in g[k]} = {Key(j) : j \in now}
                                /\ ~param.slice => g[k] # {}
                BY <3>4
            <4>1. \A j \in executed :
                      comps[j].produces = NoType => <<comps[j].dynamic, param.type>> \notin Implements
                <5>1. \A j \in executed : comps[j].produces = NoType => comps[j].dynamic = NoType
                    BY <3>1, <3>3 DEF InputsOK, SearchInv, SearchTypes
                <5> QED
                    BY <5>1, CompositeAssumption
            <4>2. Implementing(Stored, param.type) = now
                BY <3>1, <4>1, StoredFacts DEF Implementing
            <4>3. g[k] \in Candidates(param)
                BY <3>2 DEF Params
            <4>4. CASE param.slice
                <5>1. g[k] \in Distinct(now)
                    BY <4>2, <4>3, <4>4 DEF Candidates
                <5>2. g[k] \subseteq now /\ \A a \in now : \E b \in g[k] : Key(a) = Key(b)
                    BY <5>1 DEF Distinct
                <5> QED
                    BY <4>4, <5>2
            <4>5. CASE ~param.slice
                <5> DEFINE last == {results[t] : t \in DOMAIN results}
                           inLast == Implementing(last, param.type)
                <5>1. PICK j \in IF inLast # {} THEN inLast ELSE Implementing(Stored, param.type) :
                          g[k] = {j}
                    BY <4>3, <4>5 DEF Candidates
                <5>2. inLast \subseteq Implementing(Stored, param.type)
                    BY <3>1, StoredFacts DEF Implementing
                <5> HIDE DEF inLast
                <5> QED
                    BY <4>2, <4>5, <5>1, <5>2
            <4> QED
                BY <4>4, <4>5
        <3> QED
            BY <3>1, <3>5
    <2> QED
        BY <2>1, <2>2
<1>2. Spec => [][Step]_vars
    BY <1>1, ValuesInvHolds, PTL DEF Spec
<1> QED
    BY <1>2 DEF InterfacesSeeExecuted
=============================================================================
