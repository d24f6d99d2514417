-------------------------- MODULE PlanBuildProofs --------------------------
(***************************************************************************)
(* Plan.Build for any plans, any names and any declared children: the      *)
(* search keeps its stack and its call frames in step, reports only real   *)
(* cycles, marks a plan visited after its children only, and when the      *)
(* first Build returns there is no cycle among what it visited.            *)
(***************************************************************************)
EXTENDS PlanBuild, SequenceTheorems, TLAPS

----------------------------------------------------------------------------
(* Neighbouring positions.                                                 *)
LEMMA BeforeLast ==
    ASSUME NEW n \in Nat, NEW i \in 1..n, i # n
    PROVE  i \in 1..(n - 1) /\ i + 1 \in 1..n
OBVIOUS

LEMMA Inside ==
    ASSUME NEW n \in Nat, NEW i \in 1..(n - 1)
    PROVE  i \in 1..n /\ i + 1 \in 1..n
OBVIOUS

(* Sequences.                                                              *)
LEMMA TailFacts ==
    ASSUME NEW S, NEW s \in Seq(S), s # <<>>
    PROVE  /\ Head(s) \in S
           /\ Tail(s) \in Seq(S)
           /\ \A i \in DOMAIN Tail(s) : i + 1 \in DOMAIN s /\ Tail(s)[i] = s[i + 1]
           /\ \A i \in DOMAIN s :
                \/ s[i] = Head(s)
                \/ i - 1 \in DOMAIN Tail(s) /\ Tail(s)[i - 1] = s[i]
<1>1. /\ Head(s) \in S /\ Tail(s) \in Seq(S) /\ Len(Tail(s)) = Len(s) - 1
      /\ \A i \in 1..Len(Tail(s)) : Tail(s)[i] = s[i + 1]
    BY HeadTailProperties
<1>2. DOMAIN s = 1..Len(s) /\ DOMAIN Tail(s) = 1..(Len(s) - 1) /\ Len(s) \in Nat
    BY <1>1
<1>3. ASSUME NEW i \in DOMAIN s, i # 1
      PROVE  i - 1 \in DOMAIN Tail(s) /\ Tail(s)[i - 1] = s[i]
    <2>1. i - 1 \in 1..Len(Tail(s)) /\ (i - 1) + 1 = i
        BY <1>1, <1>2, <1>3
    <2> QED BY <1>1, <1>2, <2>1
<1>4. s[1] = Head(s)
    OBVIOUS
<1> QED BY <1>1, <1>2, <1>3, <1>4

LEMMA FrontFacts ==
    ASSUME NEW S, NEW s \in Seq(S), s # <<>>
    PROVE  LET f == SubSeq(s, 1, Len(s) - 1) IN
           /\ f \in Seq(S)
           /\ Len(f) = Len(s) - 1
           /\ DOMAIN f = 1..(Len(s) - 1)
           /\ \A i \in DOMAIN f : f[i] = s[i]
           /\ s[Len(s)] \in S
<1> DEFINE f == SubSeq(s, 1, Len(s) - 1)
<1>1. f \in Seq(S)
    OBVIOUS
<1>2. Len(f) = Len(s) - 1
    <2>1. Len(s) \in Nat /\ Len(s) >= 1
        <3>1. Len(s) \in Nat /\ Len(s) # 0
            BY LenProperties, EmptySeq
        <3> QED BY <3>1
    <2> DEFINE n == Len(s)
    <2>2. \A i \in 1..(n - 1) : s[i] \in S
        OBVIOUS
    <2>3. 1 \in Int /\ n - 1 \in Int /\ n \in Nat /\ n >= 1
        BY <2>1
    <2> HIDE DEF n
    <2>4. Len(SubSeq(s, 1, n - 1)) = IF 1 <= n - 1 THEN (n - 1) - 1 + 1 ELSE 0
        BY <2>2, <2>3, SubSeqProperties
    <2>5. Len(SubSeq(s, 1, n - 1)) = n - 1
        BY <2>3, <2>4
    <2> QED BY <2>5 DEF n
<1>3. \A i \in 1..(Len(s) - 1) : f[i] = s[i]
    OBVIOUS
<1>4. s[Len(s)] \in S
    OBVIOUS
<1> HIDE DEF f
<1>5. DOMAIN f = 1..(Len(s) - 1)
    BY <1>1, <1>2
<1> QED BY <1>1, <1>2, <1>3, <1>4, <1>5 DEF f

LEMMA AppendFacts ==
    ASSUME NEW S, NEW s \in Seq(S), NEW e \in S
    PROVE  LET a == Append(s, e) IN
           /\ a \in Seq(S)
           /\ Len(a) = Len(s) + 1
           /\ DOMAIN a = 1..(Len(s) + 1)
           /\ \A i \in DOMAIN s : a[i] = s[i]
           /\ a[Len(s) + 1] = e
OBVIOUS
----------------------------------------------------------------------------
(* An activation is open exactly while Build runs or after it panicked,    *)
(* and the outermost one is the receiver's.                                *)
RootIsFirst ==
    /\ status \in {"running", "cycle"} => frames # <<>> /\ frames[1] = Root
    /\ status \in {"idle", "done"} => frames = <<>>

TypeInv == TypeOK /\ RootIsFirst

(* The stack map marks exactly the names of the open activations, no two   *)
(* of which share a name, and none of which is visited: the test           *)
(* stack[p.Name()] therefore answers "is p an ancestor of itself".         *)
StackMatchesFrames ==
    /\ stack = {NameOf[frames[i]] : i \in DOMAIN frames}
    /\ \A i, j \in DOMAIN frames :
        NameOf[frames[i]] = NameOf[frames[j]] => i = j
    /\ stack \cap visited = {}

(* The range loop of every activation but the innermost stands at the      *)
(* child whose activation is the next one.                                 *)
LoopsAtChild ==
    \A i \in 1..(Len(frames) - 1) :
        /\ pending[frames[i]] # <<>>
        /\ Head(pending[frames[i]]) = frames[i + 1]

(* The inductive invariant of the recursion.                               *)
CallInv == TypeInv /\ StackMatchesFrames /\ LoopsAtChild

(* The plan on top of the frames, and the child its loop has reached.      *)
LEMMA TopFacts ==
    ASSUME TypeInv, status = "running"
    PROVE  /\ Len(frames) \in Nat \ {0}
           /\ Top \in Plans
           /\ NameOf[Top] \in Names
           /\ pending[Top] # <<>> =>
                /\ Head(pending[Top]) \in Plans
                /\ NameOf[Head(pending[Top])] \in Names
                /\ Tail(pending[Top]) \in Seq(Plans)
<1>1. frames \in Seq(Plans) /\ frames # <<>>
    BY DEF TypeInv, TypeOK, RootIsFirst
<1>2. Len(frames) \in Nat \ {0} /\ Top \in Plans
    BY <1>1 DEF Top
<1>3. pending[Top] \in Seq(Plans)
    BY <1>2 DEF TypeInv, TypeOK
<1>4. pending[Top] # <<>> =>
        Head(pending[Top]) \in Plans /\ Tail(pending[Top]) \in Seq(Plans)
    BY <1>3, TailFacts
<1> QED BY <1>2, <1>4, PlanAssumption

(* What CloseTop leaves of the frames.                                     *)
LEMMA CloseTopFacts ==
    ASSUME TypeInv, CloseTop
    PROVE  /\ frames' \in Seq(Plans)
           /\ Len(frames') = Len(frames) - 1
           /\ DOMAIN frames' = 1..(Len(frames) - 1)
           /\ \A i \in DOMAIN frames' : frames'[i] = frames[i]
           /\ childFuncs' \in [Plans -> Seq(Plans)]
           /\ stack' \subseteq Names /\ visited' \subseteq Names
<1>1. status = "running" /\ frames \in Seq(Plans) /\ frames # <<>>
    BY DEF CloseTop, TypeInv, TypeOK, RootIsFirst
<1>2. Top \in Plans /\ NameOf[Top] \in Names
    BY <1>1, TopFacts
<1>3. childFuncs' \in [Plans -> Seq(Plans)]
    BY <1>2 DEF CloseTop, TypeInv, TypeOK
<1>4. stack' \subseteq Names /\ visited' \subseteq Names
    BY <1>2 DEF CloseTop, TypeInv, TypeOK
<1> QED BY <1>1, <1>3, <1>4, FrontFacts DEF CloseTop

(* Two activations are of different plans, and a plan whose name is not on *)
(* the stack has none.                                                     *)
LEMMA FramesDiffer ==
    ASSUME CallInv
    PROVE  /\ \A i, j \in DOMAIN frames : i # j => frames[i] # frames[j]
           /\ \A i \in DOMAIN frames : NameOf[frames[i]] \in stack
           /\ \A p \in Plans : NameOf[p] \notin stack =>
                \A i \in DOMAIN frames : frames[i] # p
BY DEF CallInv, StackMatchesFrames

LEMMA TypeStep ==
    ASSUME TypeInv, LoopsAtChild, [Next]_vars
    PROVE  TypeInv'
<1> USE PlanAssumption
<1>1. CASE Build
    <2>1. frames' \in Seq(Plans) /\ frames' # <<>> /\ frames'[1] = Root
        BY <1>1 DEF Build
    <2>2. stack' \subseteq Names /\ visited' \subseteq Names
        BY <1>1 DEF Build
    <2>3. pending' \in [Plans -> Seq(Plans)]
        BY <1>1 DEF Build, TypeInv, TypeOK
    <2>4. builds' \in Nat
        BY <1>1 DEF Build, TypeInv, TypeOK
    <2>5. TypeOK'
        BY <1>1, <2>1, <2>2, <2>3, <2>4 DEF Build, TypeInv, TypeOK
    <2> QED BY <1>1, <2>1, <2>5 DEF Build, TypeInv, RootIsFirst
<1>2. CASE DetectCycle
    <2>1. cycle' \in Seq(Plans)
        BY <1>2, TopFacts, AppendFacts DEF DetectCycle, TypeInv, TypeOK
    <2> QED BY <1>2, <2>1
            DEF DetectCycle, locals, TypeInv, TypeOK, RootIsFirst
<1>3. CASE SkipVisited
    <2>1. Top \in Plans /\ Head(pending[Top]) \in Plans
          /\ Tail(pending[Top]) \in Seq(Plans)
        BY <1>3, TopFacts DEF SkipVisited
    <2>2. childPlans' \in [Plans -> Seq(Plans)]
        BY <1>3, <2>1 DEF SkipVisited, TypeInv, TypeOK
    <2>3. pending' \in [Plans -> Seq(Plans)]
        BY <1>3, <2>1 DEF SkipVisited, TypeInv, TypeOK
    <2> QED BY <1>3, <2>2, <2>3 DEF SkipVisited, TypeInv, TypeOK, RootIsFirst
<1>4. CASE Descend
    <2> DEFINE child == Head(pending[Top])
    <2>1. /\ child \in Plans /\ NameOf[child] \in Names
          /\ frames \in Seq(Plans) /\ frames # <<>> /\ frames[1] = Root
        BY <1>4, TopFacts DEF Descend, TypeInv, TypeOK, RootIsFirst
    <2>2. /\ frames' = Append(frames, child)
          /\ stack' = stack \cup {NameOf[child]}
          /\ pending' = [pending EXCEPT ![child] = childFuncs[child]]
        BY <1>4 DEF Descend
    <2> HIDE DEF child
    <2>3. frames' \in Seq(Plans) /\ frames' # <<>> /\ frames'[1] = Root
        BY <2>1, <2>2
    <2>4. pending' \in [Plans -> Seq(Plans)] /\ stack' \subseteq Names
        BY <2>1, <2>2 DEF TypeInv, TypeOK
    <2> QED BY <1>4, <2>3, <2>4 DEF Descend, TypeInv, TypeOK, RootIsFirst
<1>5. CASE ReturnToParent
    <2> DEFINE parent == frames[Len(frames) - 1]
    <2>1. CloseTop /\ Len(frames) > 1 /\ status = "running"
        BY <1>5 DEF ReturnToParent, CloseTop
    <2>2. /\ Len(frames) \in Nat /\ Len(frames) - 1 \in DOMAIN frames
          /\ DOMAIN frames' = 1..(Len(frames) - 1) /\ 1 \in DOMAIN frames'
          /\ frames[1] = Root
        <3>1. frames \in Seq(Plans) /\ frames[1] = Root
            BY <2>1 DEF TypeInv, TypeOK, RootIsFirst
        <3>2. DOMAIN frames' = 1..(Len(frames) - 1)
            BY <2>1, CloseTopFacts
        <3> QED BY <2>1, <3>1, <3>2
    <2>3. parent \in Plans /\ Top \in Plans
        <3>1. frames \in Seq(Plans)
            BY DEF TypeInv, TypeOK
        <3>2. parent \in Plans
            BY <2>2, <3>1
        <3>3. Top \in Plans
            BY <2>1, TopFacts
        <3> QED BY <3>2, <3>3
    <2>4. childPlans' = [childPlans EXCEPT ![parent] = Append(@, Top)]
          /\ pending' = [pending EXCEPT ![parent] = Tail(@)]
        BY <1>5 DEF ReturnToParent
    <2> HIDE DEF parent
    <2>5. childPlans' \in [Plans -> Seq(Plans)]
        BY <2>3, <2>4 DEF TypeInv, TypeOK
    <2>6. Tail(pending[parent]) \in Seq(Plans)
        <3>1. Len(frames) - 1 \in 1..(Len(frames) - 1)
            BY <2>1, <2>2
        <3>2. pending[parent] # <<>> /\ pending[parent] \in Seq(Plans)
            BY <2>3, <3>1 DEF LoopsAtChild, TypeInv, TypeOK, parent
        <3> QED BY <3>2, TailFacts
    <2>7. pending' \in [Plans -> Seq(Plans)]
        BY <2>3, <2>4, <2>6 DEF TypeInv, TypeOK
    <2>8. frames' # <<>> /\ frames'[1] = Root
        <3>1. frames' \in Seq(Plans) /\ frames'[1] = frames[1]
            BY <2>1, <2>2, CloseTopFacts
        <3> QED BY <2>2, <3>1
    <2> QED BY <1>5, <2>1, <2>5, <2>7, <2>8, CloseTopFacts
            DEF ReturnToParent, TypeInv, TypeOK, RootIsFirst
<1>6. CASE ReturnFromBuild
    <2>1. CloseTop /\ Len(frames) = 1
        BY <1>6 DEF ReturnFromBuild
    <2>2. frames' = <<>>
        BY <2>1, CloseTopFacts
    <2> QED BY <1>6, <2>1, <2>2, CloseTopFacts
            DEF ReturnFromBuild, TypeInv, TypeOK, RootIsFirst
<1>7. CASE UNCHANGED vars
    BY <1>7 DEF vars, locals, TypeInv, TypeOK, RootIsFirst
<1> QED BY <1>1, <1>2, <1>3, <1>4, <1>5, <1>6, <1>7 DEF Next, Step

LEMMA StackStep ==
    ASSUME CallInv, [Next]_vars
    PROVE  StackMatchesFrames'
<1>1. TypeInv /\ StackMatchesFrames /\ frames \in Seq(Plans)
    BY DEF CallInv, TypeInv, TypeOK
<1>2. CASE Build
    <2>1. frames' = <<Root>> /\ stack' = {NameOf[Root]} /\ visited' = {}
        BY <1>2 DEF Build
    <2> QED BY <2>1 DEF StackMatchesFrames
<1>3. CASE DetectCycle \/ SkipVisited \/ UNCHANGED vars
    BY <1>1, <1>3 DEF DetectCycle, SkipVisited, vars, locals, StackMatchesFrames
<1>4. CASE Descend
    <2> DEFINE child == Head(pending[Top])
    <2>1. /\ child \in Plans
          /\ NameOf[child] \notin stack \cup visited
          /\ frames' = Append(frames, child)
          /\ stack' = stack \cup {NameOf[child]}
          /\ visited' = visited
        BY <1>1, <1>4, TopFacts DEF Descend
    <2> HIDE DEF child
    <2>2. /\ Len(frames) \in Nat /\ DOMAIN frames = 1..Len(frames)
          /\ DOMAIN frames' = 1..(Len(frames) + 1)
          /\ \A i \in DOMAIN frames : frames'[i] = frames[i]
          /\ frames'[Len(frames) + 1] = child
        BY <1>1, <2>1, AppendFacts
    <2>3. stack' = {NameOf[frames'[i]] : i \in DOMAIN frames'}
        BY <1>1, <2>1, <2>2 DEF StackMatchesFrames
    <2>4. \A i, j \in DOMAIN frames' :
            NameOf[frames'[i]] = NameOf[frames'[j]] => i = j
        BY <1>1, <2>1, <2>2 DEF StackMatchesFrames
    <2>5. stack' \cap visited' = {}
        BY <1>1, <2>1 DEF StackMatchesFrames
    <2> QED BY <2>3, <2>4, <2>5 DEF StackMatchesFrames
<1>5. CASE CloseTop
    <2>1. /\ frames # <<>> /\ Top = frames[Len(frames)]
          /\ Len(frames) \in Nat \ {0} /\ DOMAIN frames = 1..Len(frames)
          /\ stack' = stack \ {NameOf[Top]}
          /\ visited' = visited \cup {NameOf[Top]}
        BY <1>1, <1>5, TopFacts DEF CloseTop, Top, TypeInv, RootIsFirst
    <2>2. /\ DOMAIN frames' = 1..(Len(frames) - 1)
          /\ \A i \in DOMAIN frames' : frames'[i] = frames[i]
        BY <1>1, <1>5, CloseTopFacts
    <2>3. stack' = {NameOf[frames'[i]] : i \in DOMAIN frames'}
        BY <1>1, <2>1, <2>2 DEF StackMatchesFrames
    <2>4. \A i, j \in DOMAIN frames' :
            NameOf[frames'[i]] = NameOf[frames'[j]] => i = j
        BY <1>1, <2>1, <2>2 DEF StackMatchesFrames
    <2>5. stack' \cap visited' = {}
        BY <1>1, <2>1 DEF StackMatchesFrames
    <2> QED BY <2>3, <2>4, <2>5 DEF StackMatchesFrames
<1> QED BY <1>2, <1>3, <1>4, <1>5
        DEF Next, Step, ReturnToParent, ReturnFromBuild

LEMMA LoopStep ==
    ASSUME CallInv, [Next]_vars
    PROVE  LoopsAtChild'
<1>1. TypeInv /\ LoopsAtChild /\ frames \in Seq(Plans) /\ Len(frames) \in Nat
    BY DEF CallInv, TypeInv, TypeOK
<1>2. DOMAIN frames = 1..Len(frames)
      /\ \A i \in DOMAIN frames : frames[i] \in Plans
    BY <1>1
<1>3. pending \in [Plans -> Seq(Plans)]
    BY <1>1 DEF TypeInv, TypeOK
<1>4. CASE Build
    <2>1. frames' = <<Root>>
        BY <1>4 DEF Build
    <2> QED BY <2>1 DEF LoopsAtChild
<1>5. CASE DetectCycle \/ UNCHANGED vars
    BY <1>1, <1>5 DEF DetectCycle, vars, locals, LoopsAtChild
<1>6. CASE SkipVisited
    <2>1. ASSUME NEW i \in 1..(Len(frames) - 1)
          PROVE  pending'[frames[i]] = pending[frames[i]]
        <3>1. frames[i] # Top
            BY <1>2, <2>1, FramesDiffer DEF Top
        <3> QED BY <1>2, <1>3, <1>6, <3>1 DEF SkipVisited
    <2>2. frames' = frames
        BY <1>6 DEF SkipVisited
    <2> QED BY <1>1, <2>1, <2>2 DEF LoopsAtChild
<1>7. CASE Descend
    <2> DEFINE child == Head(pending[Top])
    <2>1. /\ child \in Plans /\ NameOf[child] \notin stack
          /\ pending[Top] # <<>> /\ Top = frames[Len(frames)]
          /\ Len(frames) # 0
          /\ frames' = Append(frames, child)
          /\ pending' = [pending EXCEPT ![child] = childFuncs[child]]
        BY <1>1, <1>7, TopFacts DEF Descend, Top
    <2>2. child = Head(pending[Top])
        OBVIOUS
    <2> HIDE DEF child
    <2>3. /\ Len(frames') = Len(frames) + 1
          /\ \A i \in DOMAIN frames : frames'[i] = frames[i]
          /\ frames'[Len(frames) + 1] = child
        BY <1>1, <2>1, AppendFacts
    <2>4. \A i \in DOMAIN frames : pending'[frames[i]] = pending[frames[i]]
        <3>1. \A i \in DOMAIN frames : frames[i] # child
            BY <2>1, FramesDiffer
        <3> QED BY <1>2, <1>3, <2>1, <3>1
    <2>5. ASSUME NEW i \in 1..Len(frames)
          PROVE  /\ pending'[frames'[i]] # <<>>
                 /\ Head(pending'[frames'[i]]) = frames'[i + 1]
        <3>1. CASE i = Len(frames)
            BY <1>2, <2>1, <2>2, <2>3, <2>4, <3>1
        <3>2. CASE i # Len(frames)
            <4>2. /\ i \in 1..(Len(frames) - 1) /\ i + 1 \in 1..Len(frames)
                  /\ i \in 1..Len(frames)
                BY <1>1, <3>2, BeforeLast
            <4> QED BY <1>1, <1>2, <2>3, <2>4, <4>2 DEF LoopsAtChild
        <3> QED BY <3>1, <3>2
    <2> QED BY <1>1, <2>3, <2>5 DEF LoopsAtChild
<1>8. CASE ReturnToParent
    <2> DEFINE parent == frames[Len(frames) - 1]
    <2>1. /\ Len(frames) > 1
          /\ pending' = [pending EXCEPT ![parent] = Tail(@)]
          /\ Len(frames') = Len(frames) - 1
          /\ DOMAIN frames' = 1..(Len(frames) - 1)
          /\ \A i \in DOMAIN frames' : frames'[i] = frames[i]
        BY <1>1, <1>8, CloseTopFacts DEF ReturnToParent
    <2>2. ASSUME NEW i \in 1..(Len(frames) - 2)
          PROVE  /\ frames'[i] = frames[i] /\ frames'[i + 1] = frames[i + 1]
                 /\ pending'[frames[i]] = pending[frames[i]]
                 /\ i \in 1..(Len(frames) - 1)
        <3>1. i \in DOMAIN frames' /\ i + 1 \in DOMAIN frames'
              /\ i \in DOMAIN frames /\ Len(frames) - 1 \in DOMAIN frames
              /\ i # Len(frames) - 1 /\ i \in 1..(Len(frames) - 1)
            <4>1. /\ Len(frames) \in Nat /\ i \in Nat /\ 1 <= i
                  /\ i <= Len(frames) - 2
                BY <1>1
            <4>2. /\ i \in 1..(Len(frames) - 1) /\ i + 1 \in 1..(Len(frames) - 1)
                  /\ i \in 1..Len(frames) /\ Len(frames) - 1 \in 1..Len(frames)
                  /\ i # Len(frames) - 1
                BY <4>1
            <4> QED BY <1>2, <2>1, <4>2
        <3>2. frames[i] # parent
            BY <3>1, FramesDiffer
        <3> HIDE DEF parent
        <3>3. pending'[frames[i]] = pending[frames[i]]
            BY <1>2, <1>3, <2>1, <3>1, <3>2
        <3> QED BY <2>1, <3>1, <3>3
    <2>3. Len(frames') - 1 = Len(frames) - 2
        BY <1>1, <2>1
    <2> QED BY <1>1, <2>2, <2>3 DEF LoopsAtChild
<1>9. CASE ReturnFromBuild
    <2>1. Len(frames') = 0
        BY <1>1, <1>9, CloseTopFacts DEF ReturnFromBuild
    <2> QED BY <2>1 DEF LoopsAtChild
<1> QED BY <1>4, <1>5, <1>6, <1>7, <1>8, <1>9 DEF Next, Step

(* The recursion of Build is well formed in every reachable state.         *)
THEOREM CallInvariant == Spec => []CallInv
<1>1. Init => CallInv
    BY PlanAssumption
    DEF Init, CallInv, TypeInv, TypeOK, RootIsFirst, StackMatchesFrames,
        LoopsAtChild
<1>2. CallInv /\ [Next]_vars => CallInv'
    BY TypeStep, StackStep, LoopStep DEF CallInv
<1> QED BY <1>1, <1>2, PTL DEF Spec

(* The variables of Build have their types.                                *)
THEOREM TypeCorrect == Spec => []TypeOK
<1>1. CallInv => TypeOK
    BY DEF CallInv, TypeInv
<1> QED BY <1>1, CallInvariant, PTL

(* The stack map marks exactly the names of the open activations, which    *)
(* all differ and are not visited: Build's test for a cycle asks whether   *)
(* the child is an ancestor of itself.                                     *)
THEOREM StackIsThePath == Spec => []StackMatchesFrames
<1>1. CallInv => StackMatchesFrames
    BY DEF CallInv
<1> QED BY <1>1, CallInvariant, PTL
----------------------------------------------------------------------------
(* A loop runs over children its plan declares.                            *)
LoopsDeclared ==
    \A p \in Plans :
        /\ childFuncs[p] \in {declared[p], <<>>}
        /\ \A k \in DOMAIN pending[p] : NameOf[pending[p][k]] \in ChildNames(p)

LEMMA ChildFuncNames ==
    ASSUME CallInv, LoopsDeclared, NEW p \in Plans
    PROVE  \A k \in DOMAIN childFuncs[p] :
                NameOf[childFuncs[p][k]] \in ChildNames(p)
BY DEF LoopsDeclared, ChildNames

(* Taking the head off one loop leaves every loop over declared children.  *)
LEMMA LoopsDeclaredStep ==
    ASSUME CallInv, LoopsDeclared, [Next]_vars
    PROVE  LoopsDeclared'
<1>1. /\ TypeInv /\ declared' = declared
      /\ pending \in [Plans -> Seq(Plans)] /\ childFuncs \in [Plans -> Seq(Plans)]
    BY DEF CallInv, TypeInv, TypeOK, Next, Step, Build, DetectCycle,
           SkipVisited, Descend, ReturnToParent, ReturnFromBuild, vars
<1>2. \A p \in Plans : ChildNames(p)' = ChildNames(p)
    BY <1>1 DEF ChildNames
<1>3. ASSUME NEW q \in Plans,
             pending' = [pending EXCEPT ![q] = childFuncs[q]],
             childFuncs' = childFuncs
      PROVE  LoopsDeclared'
    BY <1>1, <1>2, <1>3, ChildFuncNames DEF LoopsDeclared
<1>4. ASSUME NEW q \in Plans, pending[q] # <<>>,
             pending' = [pending EXCEPT ![q] = Tail(@)],
             \A p \in Plans : childFuncs'[p] \in {childFuncs[p], <<>>}
      PROVE  LoopsDeclared'
    <2>1. \A k \in DOMAIN Tail(pending[q]) :
            NameOf[Tail(pending[q])[k]] \in ChildNames(q)
        BY <1>1, <1>4, TailFacts DEF LoopsDeclared
    <2>2. ASSUME NEW p \in Plans
          PROVE  \A k \in DOMAIN pending'[p] :
                    NameOf[pending'[p][k]] \in ChildNames(p)
        BY <1>1, <1>4, <2>1 DEF LoopsDeclared
    <2>3. \A p \in Plans : childFuncs'[p] \in {declared'[p], <<>>}
        BY <1>1, <1>4 DEF LoopsDeclared
    <2> QED BY <1>2, <2>2, <2>3 DEF LoopsDeclared
<1>5. ASSUME pending' = pending,
             \A p \in Plans : childFuncs'[p] \in {childFuncs[p], <<>>}
      PROVE  LoopsDeclared'
    BY <1>1, <1>2, <1>5 DEF LoopsDeclared
<1>6. CASE Build
    BY <1>3, <1>6, PlanAssumption DEF Build
<1>7. CASE DetectCycle \/ UNCHANGED vars
    BY <1>5, <1>7 DEF DetectCycle, locals, vars
<1>8. CASE SkipVisited
    BY <1>1, <1>4, <1>8, TopFacts DEF SkipVisited
<1>9. CASE Descend
    BY <1>1, <1>3, <1>9, TopFacts DEF Descend
<1>10. ASSUME CloseTop
       PROVE  \A p \in Plans : childFuncs'[p] \in {childFuncs[p], <<>>}
    BY <1>1, <1>10, TopFacts DEF CloseTop
<1>11. CASE ReturnToParent
    <2>1. /\ CloseTop /\ Len(frames) \in Nat /\ Len(frames) > 1
          /\ frames \in Seq(Plans)
        BY <1>1, <1>11 DEF ReturnToParent, TypeInv, TypeOK
    <2>2. /\ Len(frames) - 1 \in 1..(Len(frames) - 1)
          /\ Len(frames) - 1 \in 1..Len(frames)
        BY <2>1
    <2>3. frames[Len(frames) - 1] \in Plans
        BY <2>1, <2>2
    <2>4. pending[frames[Len(frames) - 1]] # <<>>
        BY <2>2 DEF CallInv, LoopsAtChild
    <2> QED BY <1>4, <1>10, <1>11, <2>1, <2>3, <2>4 DEF ReturnToParent
<1>12. CASE ReturnFromBuild
    BY <1>5, <1>10, <1>12 DEF ReturnFromBuild
<1> QED BY <1>6, <1>7, <1>8, <1>9, <1>11, <1>12 DEF Next, Step

(* A panic names a path of declared children that meets itself.            *)
LEMMA CycleStep ==
    ASSUME CallInv, LoopsDeclared, CycleIsReal, [Next]_vars
    PROVE  CycleIsReal'
<1>1. CASE DetectCycle
    <2> DEFINE child == Head(pending[Top])
    <2>1. /\ status = "running" /\ pending[Top] # <<>> /\ child \in Plans
          /\ NameOf[child] \in stack /\ cycle' = Append(frames, child)
          /\ declared' = declared /\ frames \in Seq(Plans)
        BY <1>1, TopFacts DEF DetectCycle, CallInv, TypeInv, TypeOK
    <2>2. /\ Len(frames) \in Nat \ {0} /\ DOMAIN frames = 1..Len(frames)
          /\ Top = frames[Len(frames)] /\ Top \in Plans
        BY <2>1, TopFacts DEF Top, CallInv
    <2>3. NameOf[child] \in ChildNames(Top)
        <3>1. pending[Top] \in Seq(Plans)
            BY <2>2 DEF CallInv, TypeInv, TypeOK
        <3>2. 1 \in DOMAIN pending[Top] /\ child = pending[Top][1]
            BY <2>1, <3>1
        <3> QED BY <2>2, <3>2 DEF LoopsDeclared
    <2> HIDE DEF child
    <2>4. /\ Len(cycle') = Len(frames) + 1
          /\ \A i \in DOMAIN frames : cycle'[i] = frames[i]
          /\ cycle'[Len(frames) + 1] = child
        BY <2>1, AppendFacts
    <2>5. ASSUME NEW i \in 1..(Len(frames) - 1)
          PROVE  /\ NameOf[frames[i + 1]] \in ChildNames(frames[i])
                 /\ i + 1 \in DOMAIN frames
        <3>1. i \in DOMAIN frames /\ i + 1 \in DOMAIN frames
            <4>1. i \in 1..Len(frames) /\ i + 1 \in 1..Len(frames)
                BY <2>2, Inside
            <4> QED BY <2>2, <4>1
        <3>2. /\ frames[i] \in Plans /\ pending[frames[i]] \in Seq(Plans)
              /\ pending[frames[i]] # <<>>
              /\ Head(pending[frames[i]]) = frames[i + 1]
            <4>1. frames[i] \in Plans
                BY <2>1, <3>1
            <4>2. pending[frames[i]] \in Seq(Plans)
                BY <4>1 DEF CallInv, TypeInv, TypeOK
            <4>3. /\ pending[frames[i]] # <<>>
                  /\ Head(pending[frames[i]]) = frames[i + 1]
                BY DEF CallInv, LoopsAtChild
            <4> QED BY <4>1, <4>2, <4>3
        <3>3. 1 \in DOMAIN pending[frames[i]]
              /\ pending[frames[i]][1] = frames[i + 1]
            BY <3>2
        <3> QED BY <3>1, <3>2, <3>3 DEF LoopsDeclared
    <2>6. ASSUME NEW i \in 1..Len(frames)
          PROVE  NameOf[cycle'[i + 1]] \in ChildNames(cycle'[i])
        <3>1. CASE i = Len(frames)
            BY <2>2, <2>3, <2>4, <3>1
        <3>2. CASE i # Len(frames)
            <4>2. i \in 1..(Len(frames) - 1)
                BY <2>2, <3>2, BeforeLast
            <4>3. /\ NameOf[frames[i + 1]] \in ChildNames(frames[i])
                  /\ i + 1 \in DOMAIN frames
                BY <2>5, <4>2
            <4>4. cycle'[i] = frames[i] /\ cycle'[i + 1] = frames[i + 1]
                <5>1. i \in DOMAIN frames
                    BY <2>2
                <5> QED BY <2>4, <4>3, <5>1
            <4> QED BY <4>3, <4>4
        <3> QED BY <3>1, <3>2
    <2>7. \E i \in 1..Len(frames) : NameOf[cycle'[i]] = NameOf[child]
        BY <2>1, <2>2, <2>4 DEF CallInv, StackMatchesFrames
    <2>8. Len(cycle') - 1 = Len(frames)
        BY <2>2, <2>4
    <2>9. \A p : ChildNames(p)' = ChildNames(p)
        BY <2>1 DEF ChildNames
    <2> QED BY <2>4, <2>6, <2>7, <2>8, <2>9 DEF CycleIsReal
<1>2. CASE UNCHANGED vars
    BY <1>2 DEF vars, CycleIsReal, ChildNames
<1>3. CASE Build \/ SkipVisited \/ Descend \/ ReturnToParent \/ ReturnFromBuild
    BY <1>3 DEF Build, SkipVisited, Descend, ReturnToParent, ReturnFromBuild,
                CloseTop, CycleIsReal
<1> QED BY <1>1, <1>2, <1>3 DEF Next, Step

(* "If a cycle is detected, it will panic with a human-readable error      *)
(* message" (crib/plan.go:224): the message always shows a real cycle.     *)
THEOREM CyclesAreReal == Spec => []CycleIsReal
<1>1. Init => LoopsDeclared /\ CycleIsReal
    BY DEF Init, LoopsDeclared, CycleIsReal
<1>2. CallInv /\ LoopsDeclared /\ CycleIsReal /\ [Next]_vars
        => LoopsDeclared' /\ CycleIsReal'
    BY LoopsDeclaredStep, CycleStep
<1> QED BY <1>1, <1>2, CallInvariant, PTL DEF Spec
----------------------------------------------------------------------------
(* The first Build as a search of the name graph.                          *)

(* Before a plan's name is visited its constructors are all there.         *)
Unconsumed ==
    \A p \in Plans : NameOf[p] \notin visited => childFuncs[p] = declared[p]

(* Every declared child of an open activation is visited or still ahead.   *)
LoopsCover ==
    \A i \in DOMAIN frames : \A m \in ChildNames(frames[i]) :
        \/ m \in visited
        \/ \E k \in DOMAIN pending[frames[i]] :
                NameOf[pending[frames[i]][k]] = m

VisitedClosed == \A n \in visited : Kids(n) \subseteq visited

FirstBuild ==
    /\ WellNamed
    /\ builds = 0 => childFuncs = declared /\ status = "idle"
    /\ builds = 1 =>
        /\ Unconsumed
        /\ LoopsCover
        /\ VisitedClosed
        /\ Acyclic(visited)
        /\ status = "done" => NameOf[Root] \in visited

(* All objects of one name have that name's children.                      *)
LEMMA KidsOfPlan ==
    ASSUME WellNamed, NEW p \in Plans
    PROVE  Kids(NameOf[p]) \subseteq ChildNames(p)
BY DEF WellNamed, Kids

(* A vertex whose children are in a closed acyclic set joins it.           *)
LEMMA AcyclicGrows ==
    ASSUME NEW V, NEW n, Acyclic(V), \A v \in V : Kids(v) \subseteq V,
           n \notin V, Kids(n) \subseteq V
    PROVE  Acyclic(V \cup {n})
<1> SUFFICES ASSUME NEW T \in SUBSET (V \cup {n}), T # {}
             PROVE  \E m \in T : Kids(m) \cap T = {}
    BY DEF Acyclic
<1>1. CASE T \cap V = {}
    <2>1. n \in T /\ Kids(n) \cap T = {}
        BY <1>1
    <2> QED BY <2>1
<1>2. CASE T \cap V # {}
    <2>1. PICK m \in T \cap V : Kids(m) \cap (T \cap V) = {}
        BY <1>2 DEF Acyclic
    <2>2. Kids(m) \cap T = {}
        BY <2>1
    <2> QED BY <2>1, <2>2
<1> QED BY <1>1, <1>2

(* When an activation closes, the children of its name are visited.        *)
LEMMA CloseTopKids ==
    ASSUME CallInv, FirstBuild, builds = 1, CloseTop
    PROVE  /\ Kids(NameOf[Top]) \subseteq visited
           /\ NameOf[Top] \notin visited
           /\ Top \in Plans
<1>1. TypeInv /\ status = "running" /\ pending[Top] = <<>>
    BY DEF CallInv, CloseTop
<1>2. Len(frames) \in Nat \ {0} /\ Top \in Plans /\ frames \in Seq(Plans)
    BY <1>1, TopFacts DEF TypeInv, TypeOK
<1>3. Len(frames) \in DOMAIN frames /\ Top = frames[Len(frames)]
    BY <1>2 DEF Top
<1>4. ChildNames(Top) \subseteq visited
    <2>1. DOMAIN pending[Top] = {}
        BY <1>1
    <2> QED BY <1>3, <2>1 DEF FirstBuild, LoopsCover
<1>5. NameOf[Top] \in stack
    BY <1>3, FramesDiffer
<1>6. NameOf[Top] \notin visited
    BY <1>5 DEF CallInv, StackMatchesFrames
<1> QED BY <1>2, <1>4, <1>6, KidsOfPlan DEF FirstBuild

LEMMA DeclaredStep ==
    ASSUME declared' = declared
    PROVE  /\ WellNamed => WellNamed'
           /\ \A p : ChildNames(p)' = ChildNames(p)
           /\ \A n : Kids(n)' = Kids(n)
           /\ \A V : Acyclic(V) => Acyclic(V)'
<1>1. \A p : ChildNames(p)' = ChildNames(p)
    BY DEF ChildNames
<1>2. \A n : Kids(n)' = Kids(n)
    BY <1>1 DEF Kids
<1>3. WellNamed => WellNamed'
    BY <1>1 DEF WellNamed
<1>4. \A V : Acyclic(V) => Acyclic(V)'
    BY <1>2 DEF Acyclic
<1> QED BY <1>1, <1>2, <1>3, <1>4

(* A loop whose head is visited covers the same names without it.          *)
LEMMA CoverTail ==
    ASSUME NEW s \in Seq(Plans), s # <<>>, NEW V, NEW m,
           NameOf[Head(s)] \in V,
           m \in V \/ \E k \in DOMAIN s : NameOf[s[k]] = m
    PROVE  m \in V \/ \E k \in DOMAIN Tail(s) : NameOf[Tail(s)[k]] = m
<1>1. CASE m \in V
    BY <1>1
<1>2. ASSUME NEW k \in DOMAIN s, NameOf[s[k]] = m
      PROVE  m \in V \/ \E j \in DOMAIN Tail(s) : NameOf[Tail(s)[j]] = m
    <2>1. \/ s[k] = Head(s)
          \/ k - 1 \in DOMAIN Tail(s) /\ Tail(s)[k - 1] = s[k]
        BY TailFacts
    <2> QED BY <1>2, <2>1
<1> QED BY <1>1, <1>2

LEMMA CoverStep ==
    ASSUME CallInv, FirstBuild, builds = 1, Step
    PROVE  LoopsCover'
<1>1. /\ TypeInv /\ declared' = declared /\ frames \in Seq(Plans)
      /\ Len(frames) \in Nat /\ DOMAIN frames = 1..Len(frames)
      /\ \A i \in DOMAIN frames : frames[i] \in Plans
      /\ pending \in [Plans -> Seq(Plans)] /\ childFuncs \in [Plans -> Seq(Plans)]
      /\ Unconsumed /\ LoopsCover
    <2>1. TypeInv /\ Unconsumed /\ LoopsCover
        BY DEF CallInv, FirstBuild
    <2>2. declared' = declared
        BY DEF Step, DetectCycle, SkipVisited, Descend, ReturnToParent,
               ReturnFromBuild
    <2>3. frames \in Seq(Plans)
        BY <2>1 DEF TypeInv, TypeOK
    <2>4. /\ Len(frames) \in Nat /\ DOMAIN frames = 1..Len(frames)
          /\ \A i \in DOMAIN frames : frames[i] \in Plans
        BY <2>3
    <2> QED BY <2>1, <2>2, <2>3, <2>4 DEF TypeInv, TypeOK
<1>2. \A p : ChildNames(p)' = ChildNames(p)
    BY <1>1, DeclaredStep
<1>3. CASE DetectCycle
    BY <1>1, <1>2, <1>3 DEF DetectCycle, locals, LoopsCover
<1>4. CASE SkipVisited
    <2>1. /\ Top \in Plans /\ pending[Top] # <<>>
          /\ NameOf[Head(pending[Top])] \in visited
          /\ pending' = [pending EXCEPT ![Top] = Tail(@)]
          /\ frames' = frames /\ visited' = visited
        BY <1>1, <1>4, TopFacts DEF SkipVisited
    <2>2. ASSUME NEW i \in DOMAIN frames, NEW m \in ChildNames(frames[i])
          PROVE  \/ m \in visited
                 \/ \E k \in DOMAIN pending'[frames[i]] :
                        NameOf[pending'[frames[i]][k]] = m
        <3>1. \/ m \in visited
              \/ \E k \in DOMAIN pending[frames[i]] :
                    NameOf[pending[frames[i]][k]] = m
            BY <1>1 DEF LoopsCover
        <3>2. CASE frames[i] = Top
            <4>1. pending[Top] \in Seq(Plans) /\ pending'[Top] = Tail(pending[Top])
                BY <1>1, <2>1
            <4> QED BY <2>1, <3>1, <3>2, <4>1, CoverTail
        <3>3. CASE frames[i] # Top
            <4>1. pending'[frames[i]] = pending[frames[i]]
                BY <1>1, <2>1, <3>3
            <4> QED BY <3>1, <4>1
        <3> QED BY <3>2, <3>3
    <2> QED BY <1>2, <2>1, <2>2 DEF LoopsCover
<1>5. CASE Descend
    <2> DEFINE child == Head(pending[Top])
    <2>1. /\ child \in Plans /\ NameOf[child] \notin stack \cup visited
          /\ frames' = Append(frames, child)
          /\ pending' = [pending EXCEPT ![child] = childFuncs[child]]
          /\ visited' = visited
        BY <1>1, <1>5, TopFacts DEF Descend
    <2> HIDE DEF child
    <2>2. /\ DOMAIN frames' = 1..(Len(frames) + 1)
          /\ \A i \in DOMAIN frames : frames'[i] = frames[i]
          /\ frames'[Len(frames) + 1] = child
        BY <1>1, <2>1, AppendFacts
    <2>3. \A i \in DOMAIN frames : pending'[frames[i]] = pending[frames[i]]
        <3>1. \A i \in DOMAIN frames : frames[i] # child
            BY <2>1, FramesDiffer
        <3> QED BY <1>1, <2>1, <3>1
    <2>4. pending'[child] = declared[child]
        BY <1>1, <2>1 DEF Unconsumed
    <2>5. ASSUME NEW i \in DOMAIN frames', NEW m \in ChildNames(frames'[i])
          PROVE  \/ m \in visited
                 \/ \E k \in DOMAIN pending'[frames'[i]] :
                        NameOf[pending'[frames'[i]][k]] = m
        <3>1. CASE i \in DOMAIN frames
            <4>1. frames'[i] = frames[i] /\ pending'[frames'[i]] = pending[frames[i]]
                BY <2>2, <2>3, <3>1
            <4>2. m \in ChildNames(frames[i])
                BY <4>1 DEF ChildNames
            <4>3. \/ m \in visited
                  \/ \E k \in DOMAIN pending[frames[i]] :
                        NameOf[pending[frames[i]][k]] = m
                BY <1>1, <3>1, <4>2 DEF LoopsCover
            <4> QED BY <4>1, <4>3
        <3>2. CASE i = Len(frames) + 1
            BY <2>2, <2>4, <3>2 DEF ChildNames
        <3> QED BY <1>1, <2>2, <3>1, <3>2
    <2> QED BY <1>2, <2>1, <2>5 DEF LoopsCover
<1>6. ASSUME CloseTop
      PROVE  /\ DOMAIN frames' = 1..(Len(frames) - 1)
             /\ \A i \in DOMAIN frames' : frames'[i] = frames[i]
             /\ visited' = visited \cup {NameOf[Top]}
    BY <1>1, <1>6, CloseTopFacts DEF CloseTop
<1>7. CASE ReturnToParent
    <2> DEFINE last == Len(frames) - 1
               parent == frames[last]
    <2>1. /\ CloseTop /\ last \in 1..(Len(frames) - 1) /\ last \in DOMAIN frames
          /\ pending' = [pending EXCEPT ![parent] = Tail(@)]
        BY <1>1, <1>7 DEF ReturnToParent
    <2>2. /\ parent \in Plans /\ pending[parent] # <<>>
          /\ Head(pending[parent]) = Top
        <3>1. pending[parent] # <<>> /\ Head(pending[parent]) = frames[last + 1]
            BY <2>1 DEF CallInv, LoopsAtChild
        <3>2. last + 1 = Len(frames)
            BY <1>1
        <3> QED BY <1>1, <2>1, <3>1, <3>2 DEF Top
    <2>3. ASSUME NEW i \in DOMAIN frames', NEW m \in ChildNames(frames[i])
          PROVE  \/ m \in visited'
                 \/ \E k \in DOMAIN pending'[frames[i]] :
                        NameOf[pending'[frames[i]][k]] = m
        <3>1. i \in DOMAIN frames /\ frames[i] \in Plans
            BY <1>1, <1>6, <2>1
        <3>2. \/ m \in visited'
              \/ \E k \in DOMAIN pending[frames[i]] :
                    NameOf[pending[frames[i]][k]] = m
            BY <1>1, <1>6, <2>1, <3>1 DEF LoopsCover
        <3> HIDE DEF parent
        <3>3. CASE frames[i] = parent
            <4>1. NameOf[Head(pending[parent])] \in visited'
                BY <1>6, <2>1, <2>2
            <4>2. pending'[parent] = Tail(pending[parent])
                  /\ pending[parent] \in Seq(Plans)
                BY <1>1, <2>1, <2>2
            <4> QED BY <2>2, <3>2, <3>3, <4>1, <4>2, CoverTail
        <3>4. CASE frames[i] # parent
            BY <1>1, <2>1, <3>1, <3>2, <3>4
        <3> QED BY <3>3, <3>4
    <2> QED BY <1>2, <1>6, <2>1, <2>3 DEF LoopsCover
<1>8. CASE ReturnFromBuild
    <2>1. DOMAIN frames' = {}
        BY <1>6, <1>8 DEF ReturnFromBuild
    <2> QED BY <2>1 DEF LoopsCover
<1> QED BY <1>3, <1>4, <1>5, <1>7, <1>8 DEF Step
LEMMA FirstBuildStep ==
    ASSUME CallInv, FirstBuild, [Next]_vars
    PROVE  FirstBuild'
<1>1. /\ declared' = declared /\ TypeInv
      /\ builds \in Nat
    BY DEF CallInv, TypeInv, TypeOK, Next, Step, Build, DetectCycle,
           SkipVisited, Descend, ReturnToParent, ReturnFromBuild, vars
<1>2. /\ WellNamed'
      /\ \A p : ChildNames(p)' = ChildNames(p)
      /\ \A n : Kids(n)' = Kids(n)
      /\ \A V : Acyclic(V) => Acyclic(V)'
    BY <1>1, DeclaredStep DEF FirstBuild
<1>3. CASE Build
    <2>1. /\ builds' = builds + 1 /\ visited' = {} /\ frames' = <<Root>>
          /\ status' = "running" /\ childFuncs' = childFuncs
          /\ pending' = [pending EXCEPT ![Root] = childFuncs[Root]]
          /\ pending \in [Plans -> Seq(Plans)]
        BY <1>1, <1>3 DEF Build, TypeInv, TypeOK
    <2>2. CASE builds = 0
        <3>1. Unconsumed'
            BY <1>1, <2>1, <2>2 DEF FirstBuild, Unconsumed
        <3>2. pending'[Root] = declared[Root]
            BY <2>1, <2>2, PlanAssumption DEF FirstBuild
        <3>3. LoopsCover'
            <4>1. DOMAIN frames' = {1} /\ frames'[1] = Root
                BY <2>1
            <4>2. \A m \in ChildNames(Root) :
                    \E k \in DOMAIN pending'[Root] : NameOf[pending'[Root][k]] = m
                BY <3>2 DEF ChildNames
            <4> QED BY <1>2, <4>1, <4>2 DEF LoopsCover
        <3>4. VisitedClosed' /\ Acyclic(visited)'
            BY <2>1 DEF VisitedClosed, Acyclic
        <3> QED BY <1>2, <2>1, <2>2, <3>1, <3>3, <3>4 DEF FirstBuild
    <2>3. CASE builds # 0
        BY <1>1, <1>2, <2>1, <2>3 DEF FirstBuild
    <2> QED BY <2>2, <2>3
<1>4. ASSUME Step, builds # 1
      PROVE  FirstBuild'
    <2>1. builds' = builds /\ status = "running"
        BY <1>4 DEF Step, DetectCycle, SkipVisited, Descend, ReturnToParent,
                    ReturnFromBuild, CloseTop
    <2> QED BY <1>2, <1>4, <2>1 DEF FirstBuild
<1>5. ASSUME Step, builds = 1
      PROVE  FirstBuild'
    <2>1. builds' = 1
        BY <1>5 DEF Step, DetectCycle, SkipVisited, Descend, ReturnToParent,
                    ReturnFromBuild
    <2>2. LoopsCover'
        BY <1>5, CoverStep
    <2>3. CASE DetectCycle \/ SkipVisited \/ Descend
        <3>1. /\ visited' = visited /\ childFuncs' = childFuncs
              /\ status' # "done"
            BY <2>3 DEF DetectCycle, SkipVisited, Descend, locals
        <3>2. Unconsumed'
            BY <1>1, <1>5, <3>1 DEF FirstBuild, Unconsumed
        <3>3. VisitedClosed'
            BY <1>2, <1>5, <3>1 DEF FirstBuild, VisitedClosed
        <3>4. Acyclic(visited)'
            BY <1>2, <1>5, <3>1 DEF FirstBuild, Acyclic
        <3> QED BY <1>2, <2>1, <2>2, <3>1, <3>2, <3>3, <3>4 DEF FirstBuild
    <2>4. CASE CloseTop
        <3>1. /\ visited' = visited \cup {NameOf[Top]}
              /\ childFuncs' = [childFuncs EXCEPT ![Top] = <<>>]
              /\ childFuncs \in [Plans -> Seq(Plans)]
            BY <1>1, <2>4 DEF CloseTop, TypeInv, TypeOK
        <3>2. /\ Kids(NameOf[Top]) \subseteq visited
              /\ NameOf[Top] \notin visited /\ Top \in Plans
            BY <1>5, <2>4, CloseTopKids
        <3>3. Unconsumed'
            <4>1. ASSUME NEW p \in Plans, NameOf[p] \notin visited'
                  PROVE  childFuncs'[p] = childFuncs[p] /\ NameOf[p] \notin visited
                <5>1. p # Top /\ NameOf[p] \notin visited
                    BY <3>1, <4>1
                <5> QED BY <3>1, <5>1
            <4> QED BY <1>1, <1>5, <4>1 DEF FirstBuild, Unconsumed
        <3>4. VisitedClosed'
            BY <1>2, <1>5, <3>1, <3>2 DEF FirstBuild, VisitedClosed
        <3>5. Acyclic(visited \cup {NameOf[Top]})
            BY <1>5, <3>2, AcyclicGrows DEF FirstBuild, VisitedClosed
        <3>6. Acyclic(visited)'
            BY <1>2, <3>1, <3>5 DEF Acyclic
        <3>7. status' = "done" => NameOf[Root] \in visited'
            <4>1. CASE ReturnFromBuild
                <5>1. Len(frames) = 1 /\ frames[1] = Root
                    BY <1>1, <4>1 DEF ReturnFromBuild, CloseTop, TypeInv,
                                      RootIsFirst
                <5> QED BY <3>1, <5>1 DEF Top
            <4>2. CASE ReturnToParent
                BY <4>2 DEF ReturnToParent, CloseTop
            <4> QED BY <1>5, <2>4, <4>1, <4>2
                    DEF Step, DetectCycle, SkipVisited, Descend
        <3> QED BY <1>2, <2>1, <2>2, <3>3, <3>4, <3>6, <3>7 DEF FirstBuild
    <2> QED BY <1>5, <2>3, <2>4 DEF Step, ReturnToParent, ReturnFromBuild
<1>6. CASE UNCHANGED vars
    <2>1. LoopsCover' = LoopsCover /\ Unconsumed' = Unconsumed
        BY <1>2, <1>6 DEF vars, LoopsCover, Unconsumed
    <2>2. VisitedClosed' = VisitedClosed /\ Acyclic(visited)' = Acyclic(visited)
        BY <1>2, <1>6 DEF vars, VisitedClosed, Acyclic
    <2> QED BY <1>2, <1>6, <2>1, <2>2 DEF vars, FirstBuild
<1> QED BY <1>3, <1>4, <1>5, <1>6 DEF Next

THEOREM FirstBuildInvariant == Spec => [](CallInv /\ FirstBuild)
<1>1. Init => FirstBuild
    BY DEF Init, FirstBuild
<1>2. CallInv /\ FirstBuild /\ [Next]_vars => FirstBuild'
    BY FirstBuildStep
<1> QED BY <1>1, <1>2, CallInvariant, PTL DEF Spec

(* "resolves the plan DAG by using lazy DFS traversal and cycle detection" *)
(* (crib/plan.go:221): when the first Build returns, what it visited holds *)
(* the receiver's name, is closed under children and has no cycle.         *)
THEOREM BuildMissesNoCycle == Spec => []DoneMeansAcyclic
<1>1. CallInv /\ FirstBuild => DoneMeansAcyclic
    BY DEF FirstBuild, VisitedClosed, DoneMeansAcyclic
<1> QED BY <1>1, FirstBuildInvariant, PTL

(* Child plans are resolved before their parent: a name is marked visited  *)
(* in a step that finds all its children visited.                          *)
THEOREM ChildrenAreFirst == Spec => ChildrenFirst
<1>1. CallInv /\ FirstBuild /\ [Next]_vars
        => [builds = 1 => \A n \in visited' \ visited : Kids(n) \subseteq visited]_vars
    <2> SUFFICES ASSUME CallInv, FirstBuild, [Next]_vars, builds = 1,
                        NEW n \in visited' \ visited
                 PROVE  Kids(n) \subseteq visited
        OBVIOUS
    <2>1. CASE CloseTop
        BY <2>1, CloseTopKids DEF CloseTop
    <2>2. CASE ~CloseTop
        BY <2>2 DEF Next, Step, Build, DetectCycle, SkipVisited, Descend,
                    ReturnToParent, ReturnFromBuild, locals, vars
    <2> QED BY <2>1, <2>2
<1> QED BY <1>1, FirstBuildInvariant, PTL DEF Spec, ChildrenFirst

----------------------------------------------------------------------------
(* The plan is being resolved: its loop is open.                           *)
Open(p) == \E i \in DOMAIN frames : frames[i] = p

(* A plan's constructors are all there or all consumed; what its loop has  *)
(* appended and what it has still to do are the declared children, in the  *)
(* declared order.                                                         *)
Consumed ==
    \A p \in Plans :
        /\ childFuncs[p] \in {<<>>, declared[p]}
        /\ Open(p) => childPlans[p] \o pending[p] = declared[p]
        /\ ~Open(p) =>
              childPlans[p] = IF childFuncs[p] = <<>> THEN declared[p] ELSE <<>>

LEMMA ShiftHead ==
    ASSUME NEW S, NEW s \in Seq(S), NEW t \in Seq(S), t # <<>>
    PROVE  Append(s, Head(t)) \o Tail(t) = s \o t
<1>1. Head(t) \in S /\ Tail(t) \in Seq(S) /\ <<Head(t)>> \in Seq(S) /\ t = <<Head(t)>> \o Tail(t)
    OBVIOUS
<1>2. Append(s, Head(t)) = s \o <<Head(t)>>
    BY <1>1, AppendIsConcat
<1>3. (s \o <<Head(t)>>) \o Tail(t) = s \o (<<Head(t)>> \o Tail(t))
    BY <1>1, ConcatAssociative
<1> QED
    BY <1>1, <1>2, <1>3

LEMMA EmptyConcat ==
    ASSUME NEW S, NEW s \in Seq(S)
    PROVE  s \o <<>> = s /\ <<>> \o s = s
OBVIOUS

(* A plan that is not open has a loop that will run over what it lacks.    *)
LEMMA ConsumedOpens ==
    ASSUME CallInv, Consumed, NEW p \in Plans, ~Open(p)
    PROVE  childPlans[p] \o childFuncs[p] = declared[p]
<1>1. declared[p] \in Seq(Plans) /\ childFuncs[p] \in {<<>>, declared[p]}
    BY DEF Consumed, CallInv, TypeInv, TypeOK
<1>2. childPlans[p] = IF childFuncs[p] = <<>> THEN declared[p] ELSE <<>>
    BY DEF Consumed
<1> QED
    BY <1>1, <1>2, EmptyConcat

LEMMA ConsumedStep ==
    ASSUME CallInv, Consumed, [Next]_vars
    PROVE  Consumed'
<1>1. /\ TypeInv /\ frames \in Seq(Plans) /\ Len(frames) \in Nat
      /\ DOMAIN frames = 1..Len(frames) /\ \A i \in 1..Len(frames) : frames[i] \in Plans
      /\ childFuncs \in [Plans -> Seq(Plans)] /\ childPlans \in [Plans -> Seq(Plans)]
      /\ pending \in [Plans -> Seq(Plans)] /\ declared \in [Plans -> Seq(Plans)]
    BY DEF CallInv, TypeInv, TypeOK
<1>2. declared' = declared
    BY DEF Next, Step, Build, DetectCycle, SkipVisited, Descend, ReturnToParent,
           ReturnFromBuild, vars
<1>3. ASSUME \A p \in Plans : Open(p)' = Open(p),
             UNCHANGED <<childFuncs, childPlans, pending>>
      PROVE  Consumed'
    BY <1>2, <1>3 DEF Consumed
<1>4. CASE DetectCycle \/ UNCHANGED vars
    BY <1>3, <1>4 DEF DetectCycle, vars, locals, Open
<1>5. CASE Build
    <2>1. /\ frames = <<>> /\ frames' = <<Root>> /\ Root \in Plans
          /\ pending' = [pending EXCEPT ![Root] = childFuncs[Root]]
          /\ UNCHANGED <<childFuncs, childPlans>>
        BY <1>5, PlanAssumption DEF Build, CallInv, TypeInv, RootIsFirst
    <2>2. \A p \in Plans : ~Open(p) /\ (Open(p)' <=> p = Root)
        BY <2>1 DEF Open
    <2>3. childPlans'[Root] \o pending'[Root] = declared'[Root]
        BY <1>1, <1>2, <2>1, <2>2, ConsumedOpens
    <2> QED
        BY <1>1, <1>2, <2>1, <2>2, <2>3 DEF Consumed
<1>6. CASE SkipVisited
    <2> DEFINE child == Head(pending[Top])
    <2>1. /\ Top \in Plans /\ pending[Top] # <<>> /\ Open(Top)
          /\ childPlans' = [childPlans EXCEPT ![Top] = Append(@, child)]
          /\ pending' = [pending EXCEPT ![Top] = Tail(@)]
          /\ UNCHANGED <<frames, childFuncs>>
        <3>1. status = "running"
            BY <1>6 DEF SkipVisited
        <3>2. Len(frames) \in DOMAIN frames /\ Top = frames[Len(frames)]
            BY <1>1, <3>1, TopFacts DEF Top
        <3> QED
            BY <1>1, <1>6, <3>1, <3>2, TopFacts DEF SkipVisited, Open
    <2>2. childPlans'[Top] \o pending'[Top] = declared'[Top]
        <3>1. childPlans[Top] \o pending[Top] = declared[Top]
            BY <2>1 DEF Consumed
        <3>2. childPlans'[Top] = Append(childPlans[Top], child) /\ pending'[Top] = Tail(pending[Top])
            BY <1>1, <2>1
        <3>3. Append(childPlans[Top], child) \o Tail(pending[Top]) = childPlans[Top] \o pending[Top]
            <4>1. childPlans[Top] \in Seq(Plans) /\ pending[Top] \in Seq(Plans) /\ pending[Top] # <<>>
                BY <1>1, <2>1
            <4> QED
                BY <4>1, ShiftHead
        <3> QED
            BY <1>2, <3>1, <3>2, <3>3
    <2>3. \A p \in Plans : Open(p)' = Open(p)
        BY <2>1 DEF Open
    <2>4. \A p \in Plans : p # Top => childPlans'[p] = childPlans[p] /\ pending'[p] = pending[p]
        BY <1>1, <2>1
    <2> QED
        BY <1>2, <2>1, <2>2, <2>3, <2>4 DEF Consumed
<1>7. CASE Descend
    <2> DEFINE child == Head(pending[Top])
    <2>1. /\ child \in Plans /\ NameOf[child] \notin stack
          /\ frames' = Append(frames, child)
          /\ pending' = [pending EXCEPT ![child] = childFuncs[child]]
          /\ UNCHANGED <<childFuncs, childPlans>>
        BY <1>1, <1>7, TopFacts DEF Descend
    <2> HIDE DEF child
    <2>2. ~Open(child)
        BY <2>1, FramesDiffer DEF Open
    <2>3. \A p \in Plans : Open(p)' <=> Open(p) \/ p = child
        <3>1. /\ DOMAIN frames' = 1..(Len(frames) + 1) /\ frames'[Len(frames) + 1] = child
              /\ \A i \in 1..Len(frames) : frames'[i] = frames[i]
            BY <1>1, <2>1, AppendFacts
        <3>2. 1..(Len(frames) + 1) = (1..Len(frames)) \cup {Len(frames) + 1}
            BY <1>1
        <3> QED
            BY <1>1, <3>1, <3>2 DEF Open
    <2>4. childPlans'[child] \o pending'[child] = declared'[child]
        BY <1>1, <1>2, <2>1, <2>2, ConsumedOpens
    <2>5. \A p \in Plans : p # child => pending'[p] = pending[p]
        BY <1>1, <2>1
    <2> QED
        BY <1>2, <2>1, <2>3, <2>4, <2>5 DEF Consumed
<1>8. CASE ReturnToParent \/ ReturnFromBuild
    <2>1. /\ CloseTop /\ status = "running" /\ pending[Top] = <<>>
          /\ childFuncs' = [childFuncs EXCEPT ![Top] = <<>>]
        BY <1>8 DEF ReturnToParent, ReturnFromBuild, CloseTop
    <2>2. Top \in Plans /\ Len(frames) \in 1..Len(frames) /\ Top = frames[Len(frames)]
        BY <1>1, <2>1, TopFacts DEF Top
    <2>3. /\ DOMAIN frames' = 1..(Len(frames) - 1)
          /\ \A i \in DOMAIN frames' : frames'[i] = frames[i]
        BY <1>1, <2>1, CloseTopFacts
    <2>4. \A p \in Plans : Open(p)' <=> Open(p) /\ p # Top
        <3>1. 1..Len(frames) = (1..(Len(frames) - 1)) \cup {Len(frames)}
            BY <1>1, <2>2
        <3>2. \A i \in 1..(Len(frames) - 1) : frames[i] # Top /\ i \in 1..Len(frames)
            <4> SUFFICES ASSUME NEW i \in 1..(Len(frames) - 1)
                         PROVE  frames[i] # Top /\ i \in 1..Len(frames)
                OBVIOUS
            <4>1. i \in 1..Len(frames) /\ i # Len(frames)
                <5> DEFINE n == Len(frames)
                <5>1. n \in Nat /\ i \in 1..(n - 1)
                    BY <1>1
                <5> HIDE DEF n
                <5>2. i \in 1..n /\ i # n
                    BY <5>1
                <5> QED
                    BY <5>2 DEF n
            <4> QED
                BY <1>1, <2>2, <4>1, FramesDiffer
        <3> QED
            BY <1>1, <2>2, <2>3, <3>1, <3>2 DEF Open
    <2>5. childPlans[Top] = declared[Top] /\ Open(Top)
        <3>1. Open(Top)
            BY <1>1, <2>2 DEF Open
        <3>2. childPlans[Top] \o <<>> = declared[Top]
            BY <2>1, <2>2, <3>1 DEF Consumed
        <3> QED
            BY <1>1, <2>2, <3>1, <3>2, EmptyConcat
    <2>6. CASE ReturnToParent
        <3> DEFINE parent == frames[Len(frames) - 1]
        <3>0. /\ Len(frames) - 1 \in 1..Len(frames) /\ Len(frames) - 1 # Len(frames)
              /\ Len(frames) - 1 \in 1..(Len(frames) - 1)
              /\ (Len(frames) - 1) + 1 = Len(frames)
            <4> DEFINE n == Len(frames)
            <4>1. n \in Nat /\ n > 1
                BY <1>1, <2>6 DEF ReturnToParent
            <4> HIDE DEF n
            <4>2. n - 1 \in 1..n /\ n - 1 # n /\ n - 1 \in 1..(n - 1) /\ (n - 1) + 1 = n
                BY <4>1
            <4> QED
                BY <4>2 DEF n
        <3>1. /\ Len(frames) - 1 \in 1..Len(frames) /\ Len(frames) - 1 # Len(frames)
              /\ childPlans' = [childPlans EXCEPT ![parent] = Append(@, Top)]
              /\ pending' = [pending EXCEPT ![parent] = Tail(@)]
            BY <2>6, <3>0 DEF ReturnToParent
        <3>2. parent \in Plans /\ parent # Top /\ Open(parent)
            BY <1>1, <2>2, <3>1, FramesDiffer DEF Open
        <3>3. pending[parent] # <<>> /\ Head(pending[parent]) = Top
            BY <2>2, <3>0 DEF CallInv, LoopsAtChild
        <3> HIDE DEF parent
        <3>4. childPlans'[parent] \o pending'[parent] = declared'[parent]
            <4>1. childPlans[parent] \o pending[parent] = declared[parent]
                BY <3>2 DEF Consumed
            <4>2. /\ childPlans'[parent] = Append(childPlans[parent], Top)
                  /\ pending'[parent] = Tail(pending[parent])
                BY <1>1, <3>1, <3>2
            <4>3. Append(childPlans[parent], Head(pending[parent])) \o Tail(pending[parent])
                     = childPlans[parent] \o pending[parent]
                <5>1. /\ childPlans[parent] \in Seq(Plans) /\ pending[parent] \in Seq(Plans)
                      /\ pending[parent] # <<>>
                    BY <1>1, <3>2, <3>3
                <5> QED
                    BY <5>1, ShiftHead
            <4> QED
                BY <1>2, <3>3, <4>1, <4>2, <4>3
        <3>5. \A p \in Plans : p # parent => childPlans'[p] = childPlans[p] /\ pending'[p] = pending[p]
            BY <1>1, <3>1
        <3>6. ASSUME NEW p \in Plans
              PROVE  /\ childFuncs'[p] \in {<<>>, declared'[p]}
                     /\ Open(p)' => childPlans'[p] \o pending'[p] = declared'[p]
                     /\ ~Open(p)' =>
                           childPlans'[p] = IF childFuncs'[p] = <<>> THEN declared'[p] ELSE <<>>
            <4>1. CASE p = Top
                BY <1>1, <1>2, <2>1, <2>2, <2>4, <2>5, <3>2, <3>5, <4>1
            <4>2. CASE p # Top
                <5>1. childFuncs'[p] = childFuncs[p] /\ (Open(p)' <=> Open(p))
                    BY <1>1, <2>1, <2>4, <4>2
                <5>2. CASE p = parent
                    BY <1>2, <3>2, <3>4, <5>1, <5>2 DEF Consumed
                <5>3. CASE p # parent
                    BY <1>2, <3>5, <5>1, <5>3 DEF Consumed
                <5> QED
                    BY <5>2, <5>3
            <4> QED
                BY <4>1, <4>2
        <3> QED
            BY <3>6 DEF Consumed
    <2>7. CASE ReturnFromBuild
        <3>1. UNCHANGED <<childPlans, pending>>
            BY <2>7 DEF ReturnFromBuild
        <3>2. \A p \in Plans : p # Top => childFuncs'[p] = childFuncs[p]
            BY <1>1, <2>1
        <3>3. childFuncs'[Top] = <<>>
            BY <1>1, <2>1, <2>2
        <3> QED
            BY <1>2, <2>4, <2>5, <3>1, <3>2, <3>3 DEF Consumed
    <2> QED
        BY <1>8, <2>6, <2>7
<1> QED
    BY <1>4, <1>5, <1>6, <1>7, <1>8 DEF Next, Step

THEOREM ConsumedInvariant == Spec => []Consumed
<1>1. Init => Consumed
    <2> SUFFICES ASSUME Init PROVE Consumed
        OBVIOUS
    <2>1. frames = <<>> /\ childFuncs = declared /\ \A p \in Plans : childPlans[p] = <<>>
        BY DEF Init
    <2>2. frames = <<>> => \A p \in Plans : ~Open(p)
        BY DEF Open
    <2> QED
        BY <2>1, <2>2 DEF Consumed
<1>2. CallInv /\ Consumed /\ [Next]_vars => Consumed'
    BY ConsumedStep
<1> QED
    BY <1>1, <1>2, CallInvariant, PTL DEF Spec

(* Between two calls of Build a plan whose constructors were consumed      *)
(* holds every declared child once and in the declared order, however      *)
(* often Build has run (resolveFn's loop over childFuncs).                 *)
THEOREM ChildrenInOrderHolds == Spec => []ChildrenInOrder
<1>1. CallInv /\ Consumed => ChildrenInOrder
    <2> SUFFICES ASSUME CallInv, Consumed, status \in {"idle", "done"}, NEW p \in Plans
                 PROVE  childPlans[p] = IF childFuncs[p] = <<>> THEN declared[p] ELSE <<>>
        BY DEF ChildrenInOrder
    <2>1. ~Open(p)
        BY DEF CallInv, TypeInv, RootIsFirst, Open
    <2> QED
        BY <2>1 DEF Consumed
<1> QED
    BY <1>1, CallInvariant, ConsumedInvariant, PTL

----------------------------------------------------------------------------
(* Some plan of the name has been resolved.                                *)
Resolved(n, funcs) == \E q \in Plans : NameOf[q] = n /\ funcs[q] = <<>>

(* visited, and the lists of children, hold names of resolved plans only.  *)
NamesResolved ==
    /\ \A n \in visited : Resolved(n, childFuncs)
    /\ \A p \in Plans : \A k \in DOMAIN childPlans[p] :
          Resolved(NameOf[childPlans[p][k]], childFuncs)

LEMMA ResolvedAppend ==
    ASSUME NamesResolved, NEW p \in Plans, NEW child \in Plans,
           childPlans \in [Plans -> Seq(Plans)],
           childPlans' = [childPlans EXCEPT ![p] = Append(@, child)],
           Resolved(NameOf[child], childFuncs'),
           \A n : Resolved(n, childFuncs) => Resolved(n, childFuncs')
    PROVE  \A q \in Plans : \A k \in DOMAIN childPlans'[q] :
              Resolved(NameOf[childPlans'[q][k]], childFuncs')
<1> SUFFICES ASSUME NEW q \in Plans, NEW k \in DOMAIN childPlans'[q]
             PROVE  Resolved(NameOf[childPlans'[q][k]], childFuncs')
    OBVIOUS
<1>1. CASE q # p
    <2>1. childPlans'[q] = childPlans[q]
        BY <1>1
    <2>2. Resolved(NameOf[childPlans[q][k]], childFuncs)
        BY <2>1 DEF NamesResolved
    <2> QED
        BY <2>1, <2>2
<1>2. CASE q = p
    <2>1. /\ childPlans[p] \in Seq(Plans) /\ childPlans'[p] = Append(childPlans[p], child)
          /\ DOMAIN childPlans[p] = 1..Len(childPlans[p]) /\ Len(childPlans[p]) \in Nat
        OBVIOUS
    <2>2. /\ DOMAIN childPlans'[p] = 1..(Len(childPlans[p]) + 1)
          /\ \A i \in DOMAIN childPlans[p] : childPlans'[p][i] = childPlans[p][i]
          /\ childPlans'[p][Len(childPlans[p]) + 1] = child
        BY <2>1, AppendFacts
    <2>3. CASE k \in DOMAIN childPlans[p]
        <3>1. Resolved(NameOf[childPlans[p][k]], childFuncs)
            BY <2>3 DEF NamesResolved
        <3> QED
            BY <1>2, <2>2, <2>3, <3>1
    <2>4. CASE k \notin DOMAIN childPlans[p]
        <3>1. k = Len(childPlans[p]) + 1
            BY <1>2, <2>1, <2>2, <2>4
        <3> QED
            BY <1>2, <2>2, <3>1
    <2> QED
        BY <2>3, <2>4
<1> QED
    BY <1>1, <1>2

LEMMA NamesResolvedStep ==
    ASSUME CallInv, NamesResolved, [Next]_vars
    PROVE  NamesResolved'
<1>1. /\ TypeInv /\ frames \in Seq(Plans) /\ Len(frames) \in Nat
      /\ \A i \in 1..Len(frames) : frames[i] \in Plans
      /\ childFuncs \in [Plans -> Seq(Plans)] /\ childPlans \in [Plans -> Seq(Plans)]
    BY DEF CallInv, TypeInv, TypeOK
<1>2. CASE Build
    BY <1>2 DEF Build, NamesResolved, Resolved
<1>3. CASE DetectCycle \/ Descend \/ UNCHANGED vars
    BY <1>3 DEF DetectCycle, Descend, vars, locals, NamesResolved, Resolved
<1>4. CASE SkipVisited
    <2> DEFINE child == Head(pending[Top])
    <2>1. /\ Top \in Plans /\ child \in Plans /\ NameOf[child] \in visited
          /\ childPlans' = [childPlans EXCEPT ![Top] = Append(@, child)]
          /\ UNCHANGED <<childFuncs, visited>>
        BY <1>1, <1>4, TopFacts DEF SkipVisited
    <2> HIDE DEF child
    <2>2. \A n : Resolved(n, childFuncs') = Resolved(n, childFuncs)
        BY <2>1 DEF Resolved
    <2>3. Resolved(NameOf[child], childFuncs')
        BY <2>1, <2>2 DEF NamesResolved
    <2> QED
        BY <1>1, <2>1, <2>2, <2>3, ResolvedAppend DEF NamesResolved
<1>5. CASE ReturnToParent \/ ReturnFromBuild
    <2>1. /\ Top \in Plans /\ childFuncs' = [childFuncs EXCEPT ![Top] = <<>>]
          /\ visited' = visited \cup {NameOf[Top]}
        BY <1>1, <1>5, TopFacts DEF ReturnToParent, ReturnFromBuild, CloseTop
    <2>2. \A n : Resolved(n, childFuncs) => Resolved(n, childFuncs')
        BY <1>1, <2>1 DEF Resolved
    <2>3. Resolved(NameOf[Top], childFuncs')
        BY <1>1, <2>1 DEF Resolved
    <2>4. \A n \in visited' : Resolved(n, childFuncs')
        BY <2>1, <2>2, <2>3 DEF NamesResolved
    <2>5. CASE ReturnToParent
        <3>1. /\ frames[Len(frames) - 1] \in Plans
              /\ childPlans' = [childPlans EXCEPT ![frames[Len(frames) - 1]] = Append(@, Top)]
            BY <1>1, <2>5 DEF ReturnToParent
        <3> QED
            BY <1>1, <2>1, <2>2, <2>3, <2>4, <3>1, ResolvedAppend DEF NamesResolved
    <2>6. CASE ReturnFromBuild
        <3>1. childPlans' = childPlans
            BY <2>6 DEF ReturnFromBuild
        <3> QED
            BY <2>2, <2>4, <3>1 DEF NamesResolved
    <2> QED
        BY <1>5, <2>5, <2>6
<1> QED
    BY <1>2, <1>3, <1>4, <1>5 DEF Next, Step

(* Build leaves a child plan unresolved only when another plan of its name *)
(* was resolved in its place: visited is keyed by name (resolveFn).        *)
THEOREM ResolvedOrNamesakeHolds == Spec => []ResolvedOrNamesake
<1>1. Init => NamesResolved
    BY DEF Init, NamesResolved
<1>2. CallInv /\ NamesResolved /\ [Next]_vars => NamesResolved'
    BY NamesResolvedStep
<1>3. NamesResolved => ResolvedOrNamesake
    BY DEF NamesResolved, Resolved, ResolvedOrNamesake
<1> QED
    BY <1>1, <1>2, <1>3, CallInvariant, PTL DEF Spec
=============================================================================
