------------------------- MODULE PlanServiceProofs -------------------------
(***************************************************************************)
(* The plan engine, for any number of callers, any plans and any output    *)
(* directories.  First the locks and the histories: a mutex is held        *)
(* exactly by the caller whose control point says so, a caller whose       *)
(* components failed applies nothing, and nothing runs after an abort.     *)
(* Then how far a call has come: while it resolves, the components it has  *)
(* and those it has still to call are, read together, those of the plan;   *)
(* with that, every step is a step of PlanEngine or none.  Last, what      *)
(* follows for the components of a plan and for the errors of its bundles. *)
(***************************************************************************)
EXTENDS PlanService, Lemmas

(* The part of the type invariant the lock argument needs.                 *)
LockTypes ==
    /\ mu \in Callers \cup {NoCaller}
    /\ cmdMu \in Callers \cup {NoCaller}
    /\ pc \in [Callers -> Points]

(* mu is held exactly from its Lock to its deferred Unlock, and cmdMu      *)
(* exactly while a command runs: no path out of CreatePlan, createApp or   *)
(* ManifestBundle.Apply leaks a lock, and no two callers are inside.       *)
LocksMatchPoints ==
    \A c \in Callers :
        /\ mu = c <=> pc[c] \in LockedByMu
        /\ cmdMu = c <=> pc[c] \in {"running", "command"}

(* Both mutexes are held by a caller exactly between its Lock and Unlock.  *)
THEOREM LocksInvariant == Spec => [](LockTypes /\ LocksMatchPoints)
<1> USE PlanServiceAssumption
<1> USE DEF LockTypes, LocksMatchPoints, LockedByMu, InCdk8s, Final, Points
<1>1. Init => LockTypes /\ LocksMatchPoints
    BY DEF Init
<1>2. LockTypes /\ LocksMatchPoints /\ [Next]_vars
        => LockTypes' /\ LocksMatchPoints'
    <2> SUFFICES ASSUME LockTypes, LocksMatchPoints, [Next]_vars
                 PROVE  LockTypes' /\ LocksMatchPoints'
        OBVIOUS
    <2> USE DEF Goto, Acquire, Release
    <2>1. ASSUME NEW c \in Callers, CreatePlan(c)
          PROVE  LockTypes' /\ LocksMatchPoints'
        <3>1. CASE BeginCreateApp(c) BY <3>1 DEF BeginCreateApp
        <3>2. CASE EndCreateApp(c) BY <3>2 DEF EndCreateApp
        <3>3. CASE BuildPlan(c) BY <3>3 DEF BuildPlan
        <3>4. CASE BeginResolve(c) BY <3>4 DEF BeginResolve
        <3>5. CASE ResolveComponent(c) BY <3>5 DEF ResolveComponent
        <3>6. CASE ComponentFails(c) BY <3>6 DEF ComponentFails
        <3>7. CASE CreatePlanFails(c) BY <3>7 DEF CreatePlanFails, Return
        <3>8. CASE Synth(c) BY <3>8 DEF Synth
        <3> QED BY <2>1, <3>1, <3>2, <3>3, <3>4, <3>5, <3>6, <3>7, <3>8
                DEF CreatePlan
    <2>2. ASSUME NEW c \in Callers, Preview(c)
          PROVE  LockTypes' /\ LocksMatchPoints'
        <3>1. CASE BeginPreview(c) BY <3>1 DEF BeginPreview
        <3>2. CASE PreviewComponent(c) BY <3>2 DEF PreviewComponent
        <3>3. CASE EndPreview(c) BY <3>3 DEF EndPreview, Return
        <3> QED BY <2>2, <3>1, <3>2, <3>3 DEF Preview
    <2>3. ASSUME NEW c \in Callers, Apply(c)
          PROVE  LockTypes' /\ LocksMatchPoints'
        <3>1. CASE NextBundle(c) BY <3>1 DEF NextBundle, Return
        <3>2. CASE BeginBundle(c) BY <3>2 DEF BeginBundle
        <3>3. CASE PrepareBundle(c) BY <3>3 DEF PrepareBundle
        <3>4. CASE PrepareFails(c) BY <3>4 DEF PrepareFails, LeaveBundle, Return
        <3>5. CASE StartCommand(c) BY <3>5 DEF StartCommand
        <3>6. CASE EndCommand(c)
            <4>1. PICK err : LeaveBundle(c, err)
                BY <3>6 DEF EndCommand
            <4>2. pc[c] = "running" /\ cmdMu' = NoCaller
                BY <3>6 DEF EndCommand
            <4>3. PICK point \in {"finished", "created"} : pc' = [pc EXCEPT ![c] = point]
                BY <4>1 DEF LeaveBundle, Return
            <4>4. mu' = NoCaller
                BY <4>1 DEF LeaveBundle
            <4> QED BY <4>2, <4>3, <4>4
        <3> QED BY <2>3, <3>1, <3>2, <3>3, <3>4, <3>5, <3>6 DEF Apply
    <2>4. ASSUME NEW c \in Callers, Helm(c)
          PROVE  LockTypes' /\ LocksMatchPoints'
        <3>1. CASE StartHelm(c) BY <3>1 DEF StartHelm
        <3>2. CASE EndHelm(c) BY <3>2 DEF EndHelm, Return
        <3> QED BY <2>4, <3>1, <3>2 DEF Helm
    <2>5. CASE UNCHANGED vars BY <2>5 DEF vars
    <2> QED BY <2>1, <2>2, <2>3, <2>4, <2>5 DEF Next, Step
<1> QED BY <1>1, <1>2, PTL DEF Spec

(* "ensure that only one plan is being created at a time" (plan.go:28) and *)
(* "only one command is executed at a time" (clientsideapply/cmd.go:17).   *)
THEOREM ExclusionHolds == Spec => []MutualExclusion
<1>1. LockTypes /\ LocksMatchPoints => MutualExclusion
    BY DEF LockTypes, LocksMatchPoints, MutualExclusion
<1> QED BY <1>1, LocksInvariant, PTL

----------------------------------------------------------------------------
(* What a call can have done at each of its points: it has returned only   *)
(* when it is finished, it has run no bundle before it is created, and     *)
(* with a component that failed it is still in CreatePlan or finished.     *)
Unsynthesized == {"start", "createApp", "build", "wantResolve", "resolve"}

HistoryTypes ==
    /\ pc \in [Callers -> Points]
    /\ failed \in [Callers -> BOOLEAN]
    /\ ran \in [Callers -> Seq(ErrorKinds)]
    /\ returned \in [Callers -> {"none", "state", "error"}]

HistoryOf(c) ==
    /\ pc[c] # "finished" => returned[c] = "none"
    /\ pc[c] \in Unsynthesized => ran[c] = <<>>
    /\ failed[c] => /\ pc[c] \in {"resolve", "finished"}
                    /\ ran[c] = <<>>
                    /\ returned[c] # "state"
    /\ \A i \in DOMAIN ran[c] :
        ran[c][i] = "abort" => i = Len(ran[c]) /\ returned[c] = "error"

HistoryInv == HistoryTypes /\ \A c \in Callers : HistoryOf(c)

(* The error of a bundle is one of the four kinds.                         *)
LEMMA NewErrorKind ==
    ASSUME NEW onFailure, NEW ok
    PROVE  NewError(onFailure, ok) \in ErrorKinds
BY DEF NewError, ErrorKinds

(* Leaving a bundle is nothing to any other caller.                        *)
LEMMA LeaveBundleTouchesOne ==
    ASSUME NEW c \in Callers, NEW d \in Callers, d # c, HistoryTypes,
           NEW err, LeaveBundle(c, err)
    PROVE  pc'[d] = pc[d] /\ returned'[d] = returned[d] /\ ran'[d] = ran[d]
<1>1. pc'[d] = pc[d] /\ returned'[d] = returned[d]
    BY DEF LeaveBundle, Return, Goto, HistoryTypes
<1>2. ran'[d] = ran[d]
    BY DEF LeaveBundle, HistoryTypes
<1> QED BY <1>1, <1>2

(* A step to another point at which the same may have happened.            *)
LEMMA MoveKeepsHistory ==
    ASSUME NEW c \in Callers, HistoryInv,
           NEW point \in Points \ {"finished"}, Goto(c, point),
           pc[c] # "finished",
           point \in Unsynthesized => pc[c] \in Unsynthesized,
           failed[c] => point = "resolve",
           UNCHANGED <<failed, ran, returned>>
    PROVE  HistoryInv'
<1>1. HistoryTypes'
    BY DEF HistoryInv, HistoryTypes, Goto
<1>2. ASSUME NEW d \in Callers
      PROVE  HistoryOf(d)'
    <2>1. HistoryOf(d) /\ pc'[d] = IF d = c THEN point ELSE pc[d]
        BY DEF HistoryInv, HistoryTypes, Goto
    <2> QED BY <2>1 DEF HistoryOf
<1> QED BY <1>1, <1>2 DEF HistoryInv

(* Leaving a bundle appends its error; an abort is the last of all.        *)
LEMMA LeaveBundleKeepsHistory ==
    ASSUME NEW c \in Callers, HistoryInv,
           pc[c] \in {"client", "running"},
           NEW err \in ErrorKinds, LeaveBundle(c, err), UNCHANGED failed
    PROVE  HistoryInv'
<1> USE DEF HistoryInv, HistoryTypes, HistoryOf, Unsynthesized, Points,
            LockedByMu, InCdk8s, Final
<1>1. /\ returned[c] = "none" /\ failed[c] = FALSE
      /\ \A i \in DOMAIN ran[c] : ran[c][i] # "abort"
    OBVIOUS
<1>2. ran[c] \in Seq(ErrorKinds)
    OBVIOUS
<1>3. /\ ran' = [ran EXCEPT ![c] = Append(ran[c], err)]
      /\ Append(ran[c], err) \in Seq(ErrorKinds)
    BY <1>2 DEF LeaveBundle
<1>4. HistoryTypes'
    <2>1. PICK point \in {"finished", "created"} : pc' = [pc EXCEPT ![c] = point]
        BY DEF LeaveBundle, Goto, Return
    <2>2. returned' \in [Callers -> {"none", "state", "error"}]
        BY DEF LeaveBundle, Goto, Return
    <2> QED BY <1>3, <2>1, <2>2
<1>5. ASSUME NEW d \in Callers, d # c
      PROVE  HistoryOf(d)'
    <2>1. /\ pc'[d] = pc[d] /\ returned'[d] = returned[d]
          /\ failed'[d] = failed[d] /\ ran'[d] = ran[d]
        BY <1>5, LeaveBundleTouchesOne
    <2>2. HistoryOf(d)
        OBVIOUS
    <2> QED BY <2>1, <2>2
<1>6. HistoryOf(c)'
    <2>1. /\ failed'[c] = FALSE
          /\ pc'[c] \in {"finished", "created"}
          /\ pc'[c] = "finished" => err = "abort" /\ returned'[c] = "error"
          /\ pc'[c] = "created" => err # "abort" /\ returned'[c] = "none"
        BY <1>1 DEF LeaveBundle, Goto, Return
    <2>2. ASSUME NEW i \in DOMAIN ran'[c], ran'[c][i] = "abort"
          PROVE  i = Len(ran'[c]) /\ returned'[c] = "error"
        <3>1. ran'[c] = Append(ran[c], err)
            BY <1>3
        <3>2. i = Len(ran[c]) + 1
            BY <1>1, <1>2, <2>2, <3>1
        <3>3. err = "abort"
            BY <1>2, <2>2, <3>1, <3>2
        <3> QED BY <1>2, <2>1, <3>1, <3>2, <3>3
    <2> QED BY <2>1, <2>2
<1> QED BY <1>4, <1>5, <1>6

(* A call that returns outside a failure returns without an abort.         *)
LEMMA ReturnKeepsHistory ==
    ASSUME NEW c \in Callers, HistoryInv,
           pc[c] \notin {"resolve", "finished"},
           NEW value \in {"state", "error"}, Return(c, value),
           UNCHANGED <<failed, ran>>
    PROVE  HistoryInv'
<1>1. /\ pc' = [pc EXCEPT ![c] = "finished"]
      /\ returned' = [returned EXCEPT ![c] = value]
    BY DEF Return, Goto
<1>2. returned[c] = "none" /\ failed[c] = FALSE
    BY DEF HistoryInv, HistoryTypes, HistoryOf
<1>3. \A i \in DOMAIN ran[c] : ran[c][i] # "abort"
    BY <1>2 DEF HistoryInv, HistoryOf
<1>4. HistoryTypes'
    BY <1>1 DEF HistoryInv, HistoryTypes, Points, Final
<1>5. ASSUME NEW d \in Callers, d # c
      PROVE  HistoryOf(d)'
    <2>1. pc'[d] = pc[d] /\ returned'[d] = returned[d]
        BY <1>1, <1>5 DEF HistoryInv, HistoryTypes
    <2>2. HistoryOf(d)
        BY DEF HistoryInv
    <2> QED BY <2>1, <2>2 DEF HistoryOf
<1>6. HistoryOf(c)'
    <2>1. pc'[c] = "finished"
        BY <1>1 DEF HistoryInv, HistoryTypes
    <2> QED BY <1>2, <1>3, <2>1 DEF HistoryOf, Unsynthesized
<1> QED BY <1>4, <1>5, <1>6 DEF HistoryInv

(* The history of a call is one its control flow allows.                   *)
THEOREM HistoryInvariant == Spec => []HistoryInv
<1> USE DEF Unsynthesized, Points, LockedByMu, InCdk8s, Final
<1>1. Init => HistoryInv
    BY DEF Init, HistoryInv, HistoryTypes, HistoryOf
<1>2. HistoryInv /\ [Next]_vars => HistoryInv'
    <2> SUFFICES ASSUME HistoryInv, [Next]_vars
                 PROVE  HistoryInv'
        OBVIOUS
    <2>1. ASSUME NEW c \in Callers, CreatePlan(c)
          PROVE  HistoryInv'
        <3> USE DEF HistoryInv, HistoryTypes, HistoryOf, Goto
        <3>1. CASE BeginCreateApp(c) BY <3>1 DEF BeginCreateApp
        <3>2. CASE EndCreateApp(c) BY <3>2 DEF EndCreateApp
        <3>3. CASE BuildPlan(c) BY <3>3 DEF BuildPlan
        <3>4. CASE BeginResolve(c) BY <3>4 DEF BeginResolve
        <3>5. CASE ResolveComponent(c) BY <3>5 DEF ResolveComponent
        <3>6. CASE ComponentFails(c) BY <3>6 DEF ComponentFails
        <3>7. CASE CreatePlanFails(c) BY <3>7 DEF CreatePlanFails, Return
        <3>8. CASE Synth(c) BY <3>8 DEF Synth
        <3> QED BY <2>1, <3>1, <3>2, <3>3, <3>4, <3>5, <3>6, <3>7, <3>8
                DEF CreatePlan
    <2>2. ASSUME NEW c \in Callers, Preview(c)
          PROVE  HistoryInv'
        <3> USE DEF HistoryInv, HistoryTypes, HistoryOf, Goto
        <3>1. CASE BeginPreview(c) BY <3>1 DEF BeginPreview
        <3>2. CASE PreviewComponent(c) BY <3>2 DEF PreviewComponent
        <3>3. CASE EndPreview(c) BY <3>3, ReturnKeepsHistory DEF EndPreview
        <3> QED BY <2>2, <3>1, <3>2, <3>3 DEF Preview
    <2>3. ASSUME NEW c \in Callers, Apply(c)
          PROVE  HistoryInv'
        <3>1. CASE NextBundle(c)
            <4>1. CASE bundles[c] = <<>>
                BY <3>1, <4>1, ReturnKeepsHistory DEF NextBundle
            <4>2. CASE bundles[c] # <<>>
                <5>1. Goto(c, "wantBundle") /\ pc[c] = "created"
                      /\ UNCHANGED <<failed, ran, returned>>
                    BY <3>1, <4>2 DEF NextBundle
                <5>2. ~failed[c]
                    BY <5>1 DEF HistoryInv, HistoryOf
                <5> QED BY <5>1, <5>2, MoveKeepsHistory
            <4> QED BY <4>1, <4>2
        <3>2. CASE BeginBundle(c)
            <4>1. Goto(c, "client") /\ pc[c] = "wantBundle"
                  /\ UNCHANGED <<failed, ran, returned>>
                BY <3>2 DEF BeginBundle
            <4>2. ~failed[c]
                BY <4>1 DEF HistoryInv, HistoryOf
            <4> QED BY <4>1, <4>2, MoveKeepsHistory
        <3>3. CASE PrepareBundle(c)
            <4>1. Goto(c, "execute") /\ pc[c] = "client"
                  /\ UNCHANGED <<failed, ran, returned>>
                BY <3>3 DEF PrepareBundle
            <4>2. ~failed[c]
                BY <4>1 DEF HistoryInv, HistoryOf
            <4> QED BY <4>1, <4>2, MoveKeepsHistory
        <3>4. CASE PrepareFails(c)
            BY <3>4, LeaveBundleKeepsHistory DEF PrepareFails, ErrorKinds
        <3>5. CASE StartCommand(c)
            <4>1. Goto(c, "running") /\ pc[c] = "execute"
                  /\ UNCHANGED <<failed, ran, returned>>
                BY <3>5 DEF StartCommand
            <4>2. ~failed[c]
                BY <4>1 DEF HistoryInv, HistoryOf
            <4> QED BY <4>1, <4>2, MoveKeepsHistory
        <3>6. CASE EndCommand(c)
            <4>1. PICK ok \in BOOLEAN :
                    LeaveBundle(c, NewError(OnFailure(Head(bundles[c])), ok))
                BY <3>6 DEF EndCommand
            <4>2. pc[c] = "running" /\ UNCHANGED failed
                BY <3>6 DEF EndCommand
            <4>3. NewError(OnFailure(Head(bundles[c])), ok) \in ErrorKinds
                BY NewErrorKind
            <4> QED BY <4>1, <4>2, <4>3, LeaveBundleKeepsHistory
        <3> QED BY <2>3, <3>1, <3>2, <3>3, <3>4, <3>5, <3>6 DEF Apply
    <2>4. ASSUME NEW c \in Callers, Helm(c)
          PROVE  HistoryInv'
        <3>1. CASE StartHelm(c)
            <4>1. Goto(c, "command") /\ pc[c] = "wantCmd"
                  /\ UNCHANGED <<failed, ran, returned>>
                BY <3>1 DEF StartHelm
            <4>2. ~failed[c]
                BY <4>1 DEF HistoryInv, HistoryOf
            <4> QED BY <4>1, <4>2, MoveKeepsHistory
        <3>2. CASE EndHelm(c)
            <4>1. pc[c] = "command" /\ UNCHANGED <<failed, ran>>
                BY <3>2 DEF EndHelm
            <4>2. PICK value \in {"state", "error"} : Return(c, value)
                BY <3>2 DEF EndHelm
            <4> QED BY <4>1, <4>2, ReturnKeepsHistory
        <3> QED BY <2>4, <3>1, <3>2 DEF Helm
    <2>5. CASE UNCHANGED vars
        BY <2>5 DEF vars, HistoryInv, HistoryTypes, HistoryOf
    <2> QED BY <2>1, <2>2, <2>3, <2>4, <2>5 DEF Next, Step
<1> QED BY <1>1, <1>2, PTL DEF Spec

(* "If there were any errors, return them" (plan.go:134): a plan with a    *)
(* component that failed is never applied, not even in part.               *)
THEOREM ErrorsPreventApplyHolds == Spec => []ErrorsPreventApply
<1>1. HistoryInv => ErrorsPreventApply
    BY DEF HistoryInv, HistoryOf, ErrorsPreventApply
<1> QED BY <1>1, HistoryInvariant, PTL

(* AppPlan.Apply returns at the first abort: no bundle runs after it, and  *)
(* the caller is told.                                                     *)
THEOREM AbortStopsPlanHolds == Spec => []AbortStopsPlan
<1>1. HistoryInv => AbortStopsPlan
    BY DEF HistoryInv, HistoryOf, AbortStopsPlan
<1> QED BY <1>1, HistoryInvariant, PTL
----------------------------------------------------------------------------
(* The sequences CreatePlan's first loop goes through.                     *)
ChildComponents(p) == [i \in DOMAIN Children[p] |-> ComponentsOf[Children[p][i]]]

LEMMA ChildComponentsType ==
    ASSUME NEW p \in Plans
    PROVE  /\ ChildComponents(p) \in Seq(Seq(ComponentIds))
           /\ Len(ChildComponents(p)) = Len(Children[p])
           /\ DOMAIN Children[p] = 1..Len(Children[p])
           /\ \A i \in 1..Len(Children[p]) :
                 /\ Children[p][i] \in Plans
                 /\ ChildComponents(p)[i] = ComponentsOf[Children[p][i]]
<1>1. Children[p] \in Seq(Plans)
    BY PlanServiceAssumption
<1>2. /\ Len(Children[p]) \in Nat
      /\ DOMAIN Children[p] = 1..Len(Children[p])
      /\ \A i \in 1..Len(Children[p]) : Children[p][i] \in Plans
    BY <1>1, LenProperties
<1>3. \A q \in Plans : ComponentsOf[q] \in Seq(ComponentIds)
    BY PlanServiceAssumption
<1> QED BY <1>2, <1>3 DEF ChildComponents

(* The components of a plan's children and its own are component ids.      *)
LEMMA ComponentOrderType ==
    \A p \in Plans : ComponentOrder(p) \in Seq(ComponentIds)
<1> SUFFICES ASSUME NEW p \in Plans PROVE ComponentOrder(p) \in Seq(ComponentIds)
    OBVIOUS
<1>1. FlattenSeq(ChildComponents(p)) \in Seq(ComponentIds)
    BY ChildComponentsType, FlattenSeqFacts
<1>2. ComponentsOf[p] \in Seq(ComponentIds)
    BY PlanServiceAssumption
<1> QED BY <1>1, <1>2, ConcatProperties DEF ComponentOrder, ChildComponents

InBundle == {"wantBundle", "client", "execute", "running"}

ProgressTypes ==
    /\ results \in [Callers -> Seq(ComponentIds)]
    /\ todo \in [Callers -> Seq(ComponentIds)]
    /\ bundles = [c \in Callers |-> bundles[c]]

ProgressOf(c) ==
    /\ pc[c] \in Unsynthesized \ {"resolve"} => results[c] = <<>>
    /\ pc[c] = "resolve" /\ ~failed[c] =>
          results[c] \o todo[c] = ComponentOrder(RootOf[c])
    /\ pc[c] \in Accepted => results[c] = ComponentOrder(RootOf[c])
    /\ pc[c] \in InBundle => Role[c] = "apply" /\ bundles[c] # <<>>
    /\ pc[c] = "preview" => Role[c] = "preview"
    /\ pc[c] \in {"wantCmd", "command"} => Role[c] = "helm"

ProgressInv == ProgressTypes /\ \A c \in Callers : ProgressOf(c)

(* Calling one more component changes nothing of the whole.                *)
LEMMA OneMore ==
    ASSUME NEW S, NEW done \in Seq(S), NEW rest \in Seq(S), rest # <<>>
    PROVE  /\ Append(done, Head(rest)) \in Seq(S)
           /\ Tail(rest) \in Seq(S)
           /\ Append(done, Head(rest)) \o Tail(rest) = done \o rest
<1>1. Head(rest) \in S /\ Tail(rest) \in Seq(S)
    BY HeadTailProperties
<1>2. rest = <<Head(rest)>> \o Tail(rest)
    OBVIOUS
<1>3. <<Head(rest)>> \in Seq(S)
    BY <1>1
<1>4. Append(done, Head(rest)) = done \o <<Head(rest)>>
    BY <1>1, AppendIsConcat
<1>5. (done \o <<Head(rest)>>) \o Tail(rest) = done \o (<<Head(rest)>> \o Tail(rest))
    BY <1>1, <1>3, ConcatAssociative
<1>6. Append(done, Head(rest)) \in Seq(S)
    BY <1>1, AppendProperties
<1> QED BY <1>1, <1>2, <1>4, <1>5, <1>6

(* A step of one caller that calls no component keeps the progress of all. *)
LEMMA QuietProgress ==
    ASSUME NEW c \in Callers, HistoryInv, ProgressInv,
           UNCHANGED <<results, todo, bundles, failed>>,
           NEW point \in Points, pc' = [pc EXCEPT ![c] = point],
           /\ point \in Unsynthesized \ {"resolve"} => results[c] = <<>>
           /\ point # "resolve"
           /\ point \in Accepted => results[c] = ComponentOrder(RootOf[c])
           /\ point \in InBundle => Role[c] = "apply" /\ bundles[c] # <<>>
           /\ point = "preview" => Role[c] = "preview"
           /\ point \in {"wantCmd", "command"} => Role[c] = "helm"
    PROVE  ProgressInv'
<1>1. ProgressTypes'
    BY DEF ProgressInv, ProgressTypes
<1>2. ASSUME NEW d \in Callers
      PROVE  ProgressOf(d)'
    <2>1. ProgressOf(d)
        BY DEF ProgressInv
    <2>2. CASE d = c
        BY <2>2 DEF ProgressOf, HistoryInv, HistoryTypes
    <2>3. CASE d # c
        BY <2>1, <2>3 DEF ProgressOf, HistoryInv, HistoryTypes
    <2> QED BY <2>2, <2>3
<1> QED BY <1>1, <1>2 DEF ProgressInv

(* How far a call has come: whatever it lists is the plan's components.    *)
THEOREM ProgressInvariant == Spec => []ProgressInv
<1> USE DEF Points, LockedByMu, InCdk8s, Final, Unsynthesized, Accepted, InBundle
<1>1. Init => ProgressInv
    BY PlanServiceAssumption DEF Init, ProgressInv, ProgressTypes, ProgressOf
<1>2. HistoryInv /\ ProgressInv /\ [Next]_vars => ProgressInv'
    <2> SUFFICES ASSUME HistoryInv, ProgressInv, [Next]_vars
                 PROVE  ProgressInv'
        OBVIOUS
    <2>0. ASSUME NEW c \in Callers
          PROVE  /\ ProgressOf(c) /\ HistoryOf(c)
                 /\ pc[c] \in Points
                 /\ results[c] \in Seq(ComponentIds) /\ todo[c] \in Seq(ComponentIds)
                 /\ ComponentOrder(RootOf[c]) \in Seq(ComponentIds)
        BY PlanServiceAssumption, ComponentOrderType
        DEF HistoryInv, HistoryTypes, ProgressInv, ProgressTypes
    <2>1. ASSUME NEW c \in Callers, CreatePlan(c)
          PROVE  ProgressInv'
        <3> USE DEF Goto
        <3>1. CASE BeginCreateApp(c)
            BY <2>0, <3>1, QuietProgress DEF BeginCreateApp, ProgressOf
        <3>2. CASE EndCreateApp(c)
            BY <2>0, <3>2, QuietProgress DEF EndCreateApp, ProgressOf
        <3>3. CASE BuildPlan(c)
            BY <2>0, <3>3, QuietProgress DEF BuildPlan, ProgressOf
        <3>4. CASE BeginResolve(c)
            <4>1. /\ todo' = [todo EXCEPT ![c] = ComponentOrder(RootOf[c])]
                  /\ pc' = [pc EXCEPT ![c] = "resolve"]
                  /\ results[c] = <<>>
                  /\ UNCHANGED <<results, failed, bundles>>
                BY <2>0, <3>4 DEF BeginResolve, ProgressOf
            <4>2. ProgressTypes'
                BY <2>0, <4>1 DEF ProgressInv, ProgressTypes
            <4>3. <<>> \o ComponentOrder(RootOf[c]) = ComponentOrder(RootOf[c])
                BY <2>0, ConcatEmptySeq
            <4>4. ProgressOf(c)'
                BY <2>0, <4>1, <4>3
                DEF ProgressOf, HistoryInv, HistoryTypes, ProgressInv, ProgressTypes
            <4>5. ASSUME NEW d \in Callers, d # c
                  PROVE  ProgressOf(d)'
                BY <2>0, <4>1, <4>5
                DEF ProgressOf, HistoryInv, HistoryTypes, ProgressInv, ProgressTypes
            <4> QED BY <4>2, <4>4, <4>5 DEF ProgressInv
        <3>5. CASE ResolveComponent(c)
            <4>1. /\ pc[c] = "resolve" /\ todo[c] # <<>>
                  /\ results' = [results EXCEPT ![c] = Append(results[c], Head(todo[c]))]
                  /\ todo' = [todo EXCEPT ![c] = Tail(todo[c])]
                  /\ UNCHANGED <<pc, failed, bundles>>
                BY <3>5 DEF ResolveComponent
            <4>2. /\ Append(results[c], Head(todo[c])) \in Seq(ComponentIds)
                  /\ Tail(todo[c]) \in Seq(ComponentIds)
                  /\ Append(results[c], Head(todo[c])) \o Tail(todo[c])
                        = results[c] \o todo[c]
                <5>1. results[c] \in Seq(ComponentIds) /\ todo[c] \in Seq(ComponentIds)
                    BY <2>0
                <5>2. todo[c] # <<>>
                    BY <4>1
                <5> QED BY <5>1, <5>2, OneMore, Zenon
            <4>3. ProgressTypes'
                BY <4>1, <4>2 DEF ProgressInv, ProgressTypes
            <4>4. ProgressOf(c)'
                BY <2>0, <4>1, <4>2 DEF ProgressOf, ProgressInv, ProgressTypes
            <4>5. ASSUME NEW d \in Callers, d # c
                  PROVE  ProgressOf(d)'
                BY <2>0, <4>1, <4>5 DEF ProgressOf, ProgressInv, ProgressTypes
            <4> QED BY <4>3, <4>4, <4>5 DEF ProgressInv
        <3>6. CASE ComponentFails(c)
            <4>1. /\ pc[c] = "resolve" /\ todo[c] # <<>>
                  /\ todo' = [todo EXCEPT ![c] = Tail(todo[c])]
                  /\ failed' = [failed EXCEPT ![c] = TRUE]
                  /\ UNCHANGED <<pc, results, bundles>>
                BY <3>6 DEF ComponentFails
            <4>2. Tail(todo[c]) \in Seq(ComponentIds)
                BY <2>0, <4>1, HeadTailProperties
            <4>3. ProgressTypes'
                BY <4>1, <4>2 DEF ProgressInv, ProgressTypes
            <4>4. ProgressOf(c)'
                BY <2>0, <4>1 DEF ProgressOf, HistoryInv, HistoryTypes
            <4>5. ASSUME NEW d \in Callers, d # c
                  PROVE  ProgressOf(d)'
                BY <2>0, <4>1, <4>5
                DEF ProgressOf, HistoryInv, HistoryTypes, ProgressInv, ProgressTypes
            <4> QED BY <4>3, <4>4, <4>5 DEF ProgressInv
        <3>7. CASE CreatePlanFails(c)
            BY <2>0, <3>7, QuietProgress DEF CreatePlanFails, Return
        <3>8. CASE Synth(c)
            <4>1. /\ pc[c] = "resolve" /\ todo[c] = <<>> /\ ~failed[c]
                  /\ pc' = [pc EXCEPT ![c] = "created"]
                  /\ UNCHANGED <<results, todo, failed>>
                BY <3>8 DEF Synth
            <4>2. PICK tree \in Trees :
                    bundles' = [bundles EXCEPT ![c] = BundlesOf(tree)]
                BY <3>8 DEF Synth
            <4>3. ProgressTypes'
                BY <4>1, <4>2 DEF ProgressInv, ProgressTypes
            <4>4. results[c] = ComponentOrder(RootOf[c])
                BY <2>0, <4>1, ConcatEmptySeq DEF ProgressOf
            <4>5. ProgressOf(c)'
                BY <4>1, <4>4 DEF ProgressOf, HistoryInv, HistoryTypes
            <4>6. ASSUME NEW d \in Callers, d # c
                  PROVE  ProgressOf(d)'
                BY <2>0, <4>1, <4>2, <4>6
                DEF ProgressOf, HistoryInv, HistoryTypes, ProgressInv, ProgressTypes
            <4> QED BY <4>3, <4>5, <4>6 DEF ProgressInv
        <3> QED BY <2>1, <3>1, <3>2, <3>3, <3>4, <3>5, <3>6, <3>7, <3>8
                DEF CreatePlan
    <2>2. ASSUME NEW c \in Callers, Preview(c)
          PROVE  ProgressInv'
        <3>1. CASE BeginPreview(c) \/ PreviewComponent(c)
            <4>1. /\ pc[c] \in {"created", "preview"} /\ Role[c] = "preview"
                  /\ pc' = [pc EXCEPT ![c] = "preview"]
                  /\ UNCHANGED <<results, failed, bundles>>
                BY <2>0, <3>1
                DEF BeginPreview, PreviewComponent, Goto, HistoryInv, HistoryTypes, ProgressOf
            <4>2. todo' \in [Callers -> Seq(ComponentIds)]
                <5>1. CASE BeginPreview(c)
                    BY <2>0, <5>1 DEF BeginPreview, ProgressInv, ProgressTypes
                <5>2. CASE PreviewComponent(c)
                    BY <2>0, <5>2, HeadTailProperties
                    DEF PreviewComponent, ProgressInv, ProgressTypes
                <5> QED BY <3>1, <5>1, <5>2
            <4>3. ASSUME NEW d \in Callers
                  PROVE  ProgressOf(d)'
                <5>1. CASE d = c
                    BY <2>0, <4>1, <5>1 DEF ProgressOf, HistoryInv, HistoryTypes
                <5>2. CASE d # c
                    <6>1. todo'[d] = todo[d]
                        BY <3>1, <5>2
                        DEF BeginPreview, PreviewComponent, ProgressInv, ProgressTypes
                    <6> QED BY <2>0, <4>1, <5>2, <6>1
                            DEF ProgressOf, HistoryInv, HistoryTypes
                <5> QED BY <5>1, <5>2
            <4> QED BY <4>1, <4>2, <4>3 DEF ProgressInv, ProgressTypes
        <3>2. CASE EndPreview(c)
            BY <2>0, <3>2, QuietProgress DEF EndPreview, Return, Goto
        <3> QED BY <2>2, <3>1, <3>2 DEF Preview
    <2>3. ASSUME NEW c \in Callers, Apply(c)
          PROVE  ProgressInv'
        <3> USE DEF Goto
        <3>1. CASE NextBundle(c)
            <4>1. CASE bundles[c] = <<>>
                BY <2>0, <3>1, <4>1, QuietProgress DEF NextBundle, Return
            <4>2. CASE bundles[c] # <<>>
                BY <2>0, <3>1, <4>2, QuietProgress DEF NextBundle, ProgressOf
            <4> QED BY <4>1, <4>2
        <3>2. CASE BeginBundle(c)
            BY <2>0, <3>2, QuietProgress DEF BeginBundle, ProgressOf
        <3>3. CASE PrepareBundle(c)
            BY <2>0, <3>3, QuietProgress DEF PrepareBundle, ProgressOf
        <3>4. ASSUME NEW err, LeaveBundle(c, err), UNCHANGED <<todo, results, failed>>,
                     pc[c] \in InBundle
              PROVE  ProgressInv'
            <4>1. PICK point \in {"finished", "created"} : pc' = [pc EXCEPT ![c] = point]
                BY <3>4 DEF LeaveBundle, Return
            <4>2. bundles' = [bundles EXCEPT ![c] = Tail(bundles[c])]
                BY <3>4 DEF LeaveBundle
            <4>3. ProgressTypes'
                BY <3>4, <4>2 DEF ProgressInv, ProgressTypes
            <4>4. ProgressOf(c)'
                BY <2>0, <3>4, <4>1 DEF ProgressOf, HistoryInv, HistoryTypes
            <4>5. ASSUME NEW d \in Callers, d # c
                  PROVE  ProgressOf(d)'
                BY <2>0, <3>4, <4>1, <4>2, <4>5
                DEF ProgressOf, HistoryInv, HistoryTypes, ProgressInv, ProgressTypes
            <4> QED BY <4>3, <4>4, <4>5 DEF ProgressInv
        <3>5. CASE PrepareFails(c)
            BY <3>4, <3>5 DEF PrepareFails
        <3>6. CASE StartCommand(c)
            BY <2>0, <3>6, QuietProgress DEF StartCommand, ProgressOf
        <3>7. CASE EndCommand(c)
            BY <3>4, <3>7 DEF EndCommand
        <3> QED BY <2>3, <3>1, <3>2, <3>3, <3>5, <3>6, <3>7 DEF Apply
    <2>4. ASSUME NEW c \in Callers, Helm(c)
          PROVE  ProgressInv'
        <3>1. CASE StartHelm(c)
            BY <2>0, <3>1, QuietProgress DEF StartHelm, Goto, ProgressOf
        <3>2. CASE EndHelm(c)
            BY <2>0, <3>2, QuietProgress DEF EndHelm, Return, Goto
        <3> QED BY <2>4, <3>1, <3>2 DEF Helm
    <2>5. CASE UNCHANGED vars
        BY <2>5 DEF vars, ProgressInv, ProgressTypes, ProgressOf
    <2> QED BY <2>1, <2>2, <2>3, <2>4, <2>5 DEF Next, Step
<1> QED BY <1>1, <1>2, HistoryInvariant, PTL DEF Spec

----------------------------------------------------------------------------
(* What PlanEngine sees of a call.                                         *)
ViewOf(c) == <<PhaseOf(c), ListedOf(c), bundles[c], ran[c]>>

(* A step after which every call looks the same is a stutter.              *)
LEMMA SameView ==
    ASSUME \A c \in PlanCallers : ViewOf(c)' = ViewOf(c), UNCHANGED PlanCallers
    PROVE  UNCHANGED Engine!vars
BY DEF ViewOf, Engine!vars

(* What a call looks like follows from its own entries.                    *)
LEMMA ViewFrame ==
    ASSUME NEW c \in Callers,
           /\ pc'[c] = pc[c] /\ returned'[c] = returned[c]
           /\ failed'[c] = failed[c] /\ results'[c] = results[c]
           /\ bundles'[c] = bundles[c] /\ ran'[c] = ran[c]
    PROVE  ViewOf(c)' = ViewOf(c)
BY DEF ViewOf, ListedOf, PhaseOf

(* A step of one caller leaves the view of every other as it is.           *)
LEMMA OtherViews ==
    ASSUME HistoryInv, ProgressInv, NEW c \in Callers, Step(c),
           NEW d \in Callers, d # c
    PROVE  ViewOf(d)' = ViewOf(d)
<1> USE DEF HistoryInv, HistoryTypes, ProgressInv, ProgressTypes, Goto, Return
<1>1. CASE CreatePlan(c)
    <2>1. CASE BeginCreateApp(c) BY <2>1, ViewFrame DEF BeginCreateApp
    <2>2. CASE EndCreateApp(c) BY <2>2, ViewFrame DEF EndCreateApp
    <2>3. CASE BuildPlan(c) BY <2>3, ViewFrame DEF BuildPlan
    <2>4. CASE BeginResolve(c) BY <2>4, ViewFrame DEF BeginResolve
    <2>5. CASE ResolveComponent(c) BY <2>5, ViewFrame DEF ResolveComponent
    <2>6. CASE ComponentFails(c) BY <2>6, ViewFrame DEF ComponentFails
    <2>7. CASE CreatePlanFails(c) BY <2>7, ViewFrame DEF CreatePlanFails
    <2>8. CASE Synth(c) BY <2>8, ViewFrame DEF Synth
    <2> QED BY <1>1, <2>1, <2>2, <2>3, <2>4, <2>5, <2>6, <2>7, <2>8 DEF CreatePlan
<1>2. CASE Preview(c)
    BY <1>2, ViewFrame DEF Preview, BeginPreview, PreviewComponent, EndPreview
<1>3. CASE Apply(c)
    <2>1. CASE NextBundle(c) BY <2>1, ViewFrame DEF NextBundle
    <2>2. CASE BeginBundle(c) BY <2>2, ViewFrame DEF BeginBundle
    <2>3. CASE PrepareBundle(c) BY <2>3, ViewFrame DEF PrepareBundle
    <2>4. ASSUME NEW err, LeaveBundle(c, err), UNCHANGED <<failed, results>>
          PROVE  ViewOf(d)' = ViewOf(d)
        <3>1. pc'[d] = pc[d] /\ returned'[d] = returned[d] /\ ran'[d] = ran[d]
            BY <2>4, LeaveBundleTouchesOne
        <3>2. bundles'[d] = bundles[d]
            BY <2>4 DEF LeaveBundle
        <3> QED BY <2>4, <3>1, <3>2, ViewFrame
    <2>5. CASE PrepareFails(c) BY <2>5, <2>4 DEF PrepareFails
    <2>6. CASE StartCommand(c) BY <2>6, ViewFrame DEF StartCommand
    <2>7. CASE EndCommand(c) BY <2>7, <2>4 DEF EndCommand
    <2> QED BY <1>3, <2>1, <2>2, <2>3, <2>5, <2>6, <2>7 DEF Apply
<1>4. CASE Helm(c)
    BY <1>4, ViewFrame DEF Helm, StartHelm, EndHelm
<1> QED BY <1>1, <1>2, <1>3, <1>4 DEF Step

(* Leaving a bundle applies it in PlanEngine.                              *)
LEMMA LeaveApplies ==
    ASSUME HistoryInv, ProgressInv, NEW c \in PlanCallers,
           pc[c] \in {"client", "running"},
           NEW err \in ErrorKinds, LeaveBundle(c, err),
           UNCHANGED <<todo, results, failed>>,
           \A d \in PlanCallers : d # c => ViewOf(d)' = ViewOf(d)
    PROVE  Engine!ApplyNext(c, err)
<1> USE DEF PlanCallers
<1>1. /\ HistoryOf(c) /\ ProgressOf(c)
      /\ failed[c] \in BOOLEAN
    BY DEF HistoryInv, HistoryTypes, ProgressInv
<1>2. /\ returned[c] = "none" /\ failed[c] = FALSE
      /\ Role[c] = "apply" /\ bundles[c] # <<>>
    BY <1>1 DEF HistoryOf, ProgressOf, InBundle
<1>3. PhaseOf(c) = "accepted" /\ ListedOf(c) = results[c]
    BY <1>2 DEF PhaseOf, ListedOf, Accepted
<1>4. /\ pc'[c] = IF err = "abort" THEN "finished" ELSE "created"
      /\ returned'[c] = IF err = "abort" THEN "error" ELSE "none"
    BY <1>2 DEF LeaveBundle, Return, Goto, HistoryInv, HistoryTypes
<1>5. PhaseOf(c)' = IF err = "abort" THEN "failed" ELSE "accepted"
    BY <1>4 DEF PhaseOf, Accepted
<1>6. ListedOf(c)' = ListedOf(c)
    BY <1>2, <1>3, <1>5 DEF ListedOf
<1>7. /\ ran'[c] = Append(ran[c], err)
      /\ bundles'[c] = Tail(bundles[c])
    BY DEF LeaveBundle, HistoryInv, HistoryTypes, ProgressInv, ProgressTypes
<1>8. ASSUME NEW d \in PlanCallers, d # c
      PROVE  /\ PhaseOf(d)' = PhaseOf(d) /\ ListedOf(d)' = ListedOf(d)
             /\ bundles'[d] = bundles[d] /\ ran'[d] = ran[d]
    BY <1>8 DEF ViewOf
<1> QED BY <1>2, <1>3, <1>5, <1>6, <1>7, <1>8 DEF Engine!ApplyNext

(* A step of one caller is a step of PlanEngine or none.                   *)
LEMMA StepRefines ==
    ASSUME HistoryInv, ProgressInv, NEW c \in Callers, Step(c)
    PROVE  [Engine!Next]_(Engine!vars)
<1> USE DEF Goto, Return
<1>1. \A d \in PlanCallers : d # c => ViewOf(d)' = ViewOf(d)
    BY OtherViews DEF PlanCallers
<1>2. ASSUME ViewOf(c)' = ViewOf(c)
      PROVE  [Engine!Next]_(Engine!vars)
    BY <1>1, <1>2, SameView DEF PlanCallers
<1>3. CASE c \notin PlanCallers
    BY <1>1, <1>3, SameView DEF PlanCallers
<1>4. CASE c \in PlanCallers
    <2>1. /\ HistoryOf(c) /\ ProgressOf(c) /\ Role[c] # "helm"
          /\ failed[c] \in BOOLEAN /\ pc[c] \in Points
          /\ c \in DOMAIN pc /\ c \in DOMAIN returned /\ c \in DOMAIN failed
          /\ c \in DOMAIN results /\ c \in DOMAIN bundles
        BY <1>4 DEF PlanCallers, HistoryInv, HistoryTypes, ProgressInv, ProgressTypes
    <2>2. ASSUME NEW d \in PlanCallers, d # c
          PROVE  /\ PhaseOf(d)' = PhaseOf(d) /\ ListedOf(d)' = ListedOf(d)
                 /\ bundles'[d] = bundles[d] /\ ran'[d] = ran[d]
        BY <1>1, <2>2 DEF ViewOf
    <2>3. CASE CreatePlan(c)
        <3>1. pc[c] \in Unsynthesized
            BY <2>3 DEF CreatePlan, BeginCreateApp, EndCreateApp, BuildPlan, BeginResolve,
                        ResolveComponent, ComponentFails, CreatePlanFails, Synth, Unsynthesized
        <3>2. PhaseOf(c) = "new" /\ ListedOf(c) = <<>>
            BY <2>1, <3>1 DEF HistoryOf, PhaseOf, ListedOf, Unsynthesized, Accepted
        <3>3. ASSUME pc'[c] \in Unsynthesized, UNCHANGED <<returned, bundles, ran>>
              PROVE  ViewOf(c)' = ViewOf(c)
            BY <2>1, <3>1, <3>2, <3>3
            DEF HistoryOf, ViewOf, PhaseOf, ListedOf, Unsynthesized, Accepted
        <3>4. CASE CreatePlanFails(c)
            <4>1. /\ PhaseOf(c)' = "failed" /\ ListedOf(c)' = <<>>
                  /\ UNCHANGED <<bundles, ran>>
                BY <2>1, <3>4 DEF CreatePlanFails, PhaseOf, ListedOf
            <4>2. Engine!Reject(c)
                BY <1>4, <2>2, <3>2, <4>1 DEF Engine!Reject
            <4> QED BY <1>4, <4>2 DEF Engine!Next
        <3>5. CASE Synth(c)
            <4>1. /\ pc'[c] = "created" /\ returned'[c] = "none"
                  /\ failed'[c] = FALSE /\ results'[c] = results[c]
                  /\ todo[c] = <<>> /\ ~failed[c] /\ pc[c] = "resolve"
                  /\ UNCHANGED ran
                BY <2>1, <3>5 DEF Synth, HistoryOf
            <4>2. results[c] = ComponentOrder(RootOf[c])
                BY <1>4, <2>1, <4>1, ConcatEmptySeq
                DEF PlanCallers, ProgressOf, ProgressInv, ProgressTypes
            <4>3. PhaseOf(c)' = "accepted" /\ ListedOf(c)' = ComponentOrder(RootOf[c])
                BY <4>1, <4>2 DEF PhaseOf, ListedOf, Accepted
            <4>4. PICK tree \in Trees :
                    bundles' = [bundles EXCEPT ![c] = BundlesOf(tree)]
                BY <3>5 DEF Synth
            <4>5. bundles'[c] = BundlesOf(tree)
                BY <2>1, <4>4
            <4>6. Engine!Accept(c)
                BY <1>4, <2>2, <3>2, <4>1, <4>3, <4>5 DEF Engine!Accept
            <4> QED BY <1>4, <4>6 DEF Engine!Next
        <3>6. CASE BeginCreateApp(c) \/ EndCreateApp(c) \/ BuildPlan(c) \/ BeginResolve(c)
            BY <1>2, <2>1, <3>3, <3>6
            DEF BeginCreateApp, EndCreateApp, BuildPlan, BeginResolve, Unsynthesized
        <3>7. CASE ResolveComponent(c) \/ ComponentFails(c)
            BY <1>2, <2>1, <3>1, <3>3, <3>7 DEF ResolveComponent, ComponentFails
        <3> QED BY <2>3, <3>4, <3>5, <3>6, <3>7 DEF CreatePlan
    <2>4. ASSUME pc[c] \in Accepted, pc'[c] \in Accepted,
                 UNCHANGED <<returned, failed, results, bundles, ran>>
          PROVE  ViewOf(c)' = ViewOf(c)
        BY <2>1, <2>4 DEF HistoryOf, ViewOf, PhaseOf, ListedOf, Accepted
    <2>5. ASSUME pc[c] \in {"created", "preview"}, Return(c, "state"),
                 Role[c] = "preview" \/ bundles[c] = <<>>,
                 UNCHANGED <<failed, results, bundles, ran>>
          PROVE  [Engine!Next]_(Engine!vars)
        <3>1. PhaseOf(c) = "accepted" /\ ListedOf(c) = results[c]
            BY <2>1, <2>5 DEF HistoryOf, PhaseOf, ListedOf, Accepted
        <3>2. PhaseOf(c)' = "done" /\ ListedOf(c)' = results[c]
            BY <2>1, <2>5 DEF HistoryOf, PhaseOf, ListedOf
        <3>3. Engine!Finish(c)
            BY <1>4, <2>2, <2>5, <3>1, <3>2 DEF Engine!Finish
        <3> QED BY <1>4, <3>3 DEF Engine!Next
    <2>6. CASE Preview(c)
        <3>1. CASE BeginPreview(c) \/ PreviewComponent(c)
            BY <1>2, <2>1, <2>4, <3>1 DEF BeginPreview, PreviewComponent, Accepted
        <3>2. CASE EndPreview(c)
            <4>1. /\ pc[c] = "preview" /\ Return(c, "state")
                  /\ UNCHANGED <<failed, results, bundles, ran>>
                BY <3>2 DEF EndPreview
            <4>2. Role[c] = "preview" \/ bundles[c] = <<>>
                BY <2>1, <4>1 DEF ProgressOf
            <4> QED BY <2>5, <4>1, <4>2
        <3> QED BY <2>6, <3>1, <3>2 DEF Preview
    <2>7. CASE Apply(c)
        <3>1. CASE NextBundle(c)
            <4>1. CASE bundles[c] = <<>>
                BY <2>5, <3>1, <4>1 DEF NextBundle
            <4>2. CASE bundles[c] # <<>>
                BY <1>2, <2>1, <2>4, <3>1, <4>2 DEF NextBundle, Accepted
            <4> QED BY <4>1, <4>2
        <3>2. CASE BeginBundle(c) \/ PrepareBundle(c) \/ StartCommand(c)
            BY <1>2, <2>1, <2>4, <3>2
            DEF BeginBundle, PrepareBundle, StartCommand, Accepted
        <3>3. ASSUME NEW err \in ErrorKinds, Engine!ApplyNext(c, err)
              PROVE  [Engine!Next]_(Engine!vars)
            BY <1>4, <3>3 DEF Engine!Next, ErrorKinds
        <3>4. CASE PrepareFails(c)
            <4>1. /\ pc[c] = "client" /\ "abort" \in ErrorKinds
                  /\ LeaveBundle(c, "abort") /\ UNCHANGED <<todo, results, failed>>
                BY <3>4 DEF PrepareFails, ErrorKinds
            <4> QED BY <1>1, <1>4, <3>3, <4>1, LeaveApplies
        <3>5. CASE EndCommand(c)
            <4>1. PICK ok \in BOOLEAN :
                    LeaveBundle(c, NewError(OnFailure(Head(bundles[c])), ok))
                BY <3>5 DEF EndCommand
            <4>2. pc[c] = "running" /\ UNCHANGED <<todo, results, failed>>
                BY <3>5 DEF EndCommand
            <4>3. NewError(OnFailure(Head(bundles[c])), ok) \in ErrorKinds
                BY NewErrorKind
            <4> QED BY <1>1, <1>4, <3>3, <4>1, <4>2, <4>3, LeaveApplies
        <3> QED BY <2>7, <3>1, <3>2, <3>4, <3>5 DEF Apply
    <2>8. CASE Helm(c)
        BY <1>2, <2>1, <2>8
        DEF Helm, StartHelm, EndHelm, ProgressOf
    <2> QED BY <2>3, <2>6, <2>7, <2>8 DEF Step
<1> QED BY <1>3, <1>4

(* The plan service keeps the promises of PlanEngine (CreatePlan, Preview, *)
(* Apply of internal/core/service/plan.go), whatever runs beside a call.   *)
THEOREM PlanServiceImplementsPlanEngine == Spec => ImplementsPlanEngine
<1>1. Init => Engine!Init
    BY DEF Init, Engine!Init, PlanCallers, PhaseOf, ListedOf, Accepted
<1>2. HistoryInv /\ ProgressInv /\ [Next]_vars => [Engine!Next]_(Engine!vars)
    <2> SUFFICES ASSUME HistoryInv, ProgressInv, [Next]_vars
                 PROVE  [Engine!Next]_(Engine!vars)
        OBVIOUS
    <2>1. CASE Next
        BY <2>1, StepRefines DEF Next
    <2>2. CASE UNCHANGED vars
        BY <2>2, SameView DEF vars, ViewOf, PhaseOf, ListedOf, PlanCallers
    <2> QED BY <2>1, <2>2
<1> QED BY <1>1, <1>2, HistoryInvariant, ProgressInvariant, PTL
        DEF Spec, ImplementsPlanEngine, Engine!Spec

----------------------------------------------------------------------------
(* What ChildrenBeforeParent asks of the components of p in the order s.   *)
InOrder(p, s) ==
    /\ \A q \in ToSet(Children[p]) :
          \A x \in ToSet(ComponentsOf[q]), y \in ToSet(ComponentsOf[p]) :
              Before(s, x, y)
    /\ \A q \in ToSet(Children[p]) \cup {p} :
          \A i, j \in DOMAIN ComponentsOf[q] : i < j =>
              Before(s, ComponentsOf[q][i], ComponentsOf[q][j])

(* Each child's components are next to each other in front of the plan's   *)
(* own, so whatever the plans share, each order shows somewhere.           *)
LEMMA ComponentOrderInOrder ==
    ASSUME NEW p \in Plans
    PROVE  InOrder(p, ComponentOrder(p))
<1> DEFINE lists == ChildComponents(p)
           flat == FlattenSeq(lists)
           own == ComponentsOf[p]
           s == ComponentOrder(p)
           n == Len(Children[p])
<1>1. /\ lists \in Seq(Seq(ComponentIds)) /\ Len(lists) = n
      /\ DOMAIN Children[p] = 1..n
      /\ \A k \in 1..n : Children[p][k] \in Plans
                        /\ lists[k] = ComponentsOf[Children[p][k]]
    BY ChildComponentsType
<1>2. PICK at : IsPlacement(at, n, lists, flat)
    BY <1>1, FlattenSeqFacts
<1>3. flat \in Seq(ComponentIds)
    BY <1>1, FlattenSeqFacts
<1>4. own \in Seq(ComponentIds)
    BY PlanServiceAssumption
<1>5. /\ Len(flat) \in Nat /\ Len(own) \in Nat /\ DOMAIN own = 1..Len(own)
      /\ \A k \in 1..n : Len(lists[k]) \in Nat /\ DOMAIN lists[k] = 1..Len(lists[k])
    <2>1. \A k \in 1..n : lists[k] \in Seq(ComponentIds)
        BY <1>1, PlanServiceAssumption
    <2> QED BY <2>1, <1>3, <1>4, LenProperties
<1>6. s = flat \o own
    BY DEF ComponentOrder, ChildComponents
<1>7. /\ DOMAIN s = 1..(Len(flat) + Len(own))
      /\ \A m \in 1..(Len(flat) + Len(own)) :
            s[m] = IF m <= Len(flat) THEN flat[m] ELSE own[m - Len(flat)]
    <2>1. s \in Seq(ComponentIds) /\ Len(s) = Len(flat) + Len(own)
        BY <1>3, <1>4, <1>6, ConcatProperties
    <2>2. DOMAIN s = 1..Len(s)
        BY <2>1, LenProperties
    <2> QED BY <2>1, <2>2, <1>3, <1>4, <1>6, ConcatProperties
<1> DEFINE a == Len(flat)
           b == Len(own)
<1> HIDE DEF lists, flat, own, s, n, a, b
(* Where the elements of the children's lists and of the plan's own are.   *)
<1>8. ASSUME NEW k \in 1..n, NEW i \in 1..Len(lists[k])
      PROVE  /\ at[k] \in Nat /\ at[k] + i \in 1..a /\ at[k] + i \in DOMAIN s
             /\ s[at[k] + i] = lists[k][i]
    <2> DEFINE c == Len(lists[k])
               d == at[k]
    <2>1. d \in Nat /\ c \in Nat /\ i \in 1..c /\ d + c <= a /\ a \in Nat /\ b \in Nat
        BY <1>2, <1>5 DEF IsPlacement, a, b
    <2>2. flat[d + i] = lists[k][i]
        BY <1>2 DEF IsPlacement
    <2> HIDE DEF c, d
    <2>3. d + i \in 1..a /\ d + i \in 1..(a + b) /\ d + i <= a
        BY <2>1
    <2>4. d + i \in DOMAIN s /\ s[d + i] = flat[d + i]
        BY <2>3, <1>7 DEF a, b
    <2> QED BY <2>1, <2>2, <2>3, <2>4 DEF d
<1>9. ASSUME NEW j \in 1..b
      PROVE  a + j \in DOMAIN s /\ s[a + j] = own[j] /\ a \in Nat
    <2>1. a \in Nat /\ b \in Nat
        BY <1>5 DEF a, b
    <2>2. a + j \in 1..(a + b) /\ ~(a + j <= a) /\ (a + j) - a = j
        BY <2>1
    <2> QED BY <2>1, <2>2, <1>7 DEF a, b
<1>10. ASSUME NEW q \in ToSet(Children[p])
       PROVE  \E k \in 1..n : ComponentsOf[q] = lists[k]
    BY <1>1 DEF ToSet
<1>11. \A k \in 1..n : DOMAIN lists[k] = 1..Len(lists[k])
    BY <1>5
<1>12. DOMAIN own = 1..b
    BY <1>5 DEF b
<1>13. ASSUME NEW q \in ToSet(Children[p]),
              NEW x \in ToSet(ComponentsOf[q]), NEW y \in ToSet(ComponentsOf[p])
       PROVE  Before(s, x, y)
    <2>1. PICK k \in 1..n : ComponentsOf[q] = lists[k]
        BY <1>10
    <2>2. PICK i \in 1..Len(lists[k]) : x = lists[k][i]
        BY <2>1, <1>11 DEF ToSet
    <2>3. PICK j \in 1..b : y = own[j]
        BY <1>12 DEF ToSet, own
    <2>4. at[k] + i \in DOMAIN s /\ a + j \in DOMAIN s
        BY <1>8, <1>9
    <2>5. at[k] + i < a + j
        <3>1. at[k] + i \in 1..a /\ a \in Nat
            BY <1>8, <1>9
        <3> QED BY <3>1
    <2>6. s[at[k] + i] = x /\ s[a + j] = y
        BY <1>8, <1>9, <2>2, <2>3
    <2> QED BY <2>4, <2>5, <2>6 DEF Before
<1>14. ASSUME NEW k \in 1..n, NEW i \in DOMAIN lists[k], NEW j \in DOMAIN lists[k], i < j
       PROVE  Before(s, lists[k][i], lists[k][j])
    <2>1. i \in 1..Len(lists[k]) /\ j \in 1..Len(lists[k])
        BY <1>11
    <2>2. /\ at[k] + i \in DOMAIN s /\ at[k] + j \in DOMAIN s /\ at[k] \in Nat
          /\ s[at[k] + i] = lists[k][i] /\ s[at[k] + j] = lists[k][j]
        BY <2>1, <1>8
    <2>3. at[k] + i < at[k] + j
        BY <2>1, <2>2, <1>14
    <2> QED BY <2>2, <2>3 DEF Before
<1>15. ASSUME NEW i \in DOMAIN own, NEW j \in DOMAIN own, i < j
       PROVE  Before(s, own[i], own[j])
    <2>1. i \in 1..b /\ j \in 1..b
        BY <1>12
    <2>2. /\ a + i \in DOMAIN s /\ a + j \in DOMAIN s /\ a \in Nat
          /\ s[a + i] = own[i] /\ s[a + j] = own[j]
        BY <2>1, <1>9
    <2>3. a + i < a + j
        BY <2>1, <2>2, <1>15
    <2> QED BY <2>2, <2>3 DEF Before
<1>16. ASSUME NEW q \in ToSet(Children[p]) \cup {p},
              NEW i \in DOMAIN ComponentsOf[q], NEW j \in DOMAIN ComponentsOf[q], i < j
       PROVE  Before(s, ComponentsOf[q][i], ComponentsOf[q][j])
    <2>1. CASE q = p
        BY <2>1, <1>15, <1>16 DEF own
    <2>2. CASE q \in ToSet(Children[p])
        <3>1. PICK k \in 1..n : ComponentsOf[q] = lists[k]
            BY <2>2, <1>10
        <3> QED BY <3>1, <1>14, <1>16
    <2> QED BY <2>1, <2>2
<1>17. InOrder(p, s)
    BY <1>13, <1>16 DEF InOrder
<1> QED BY <1>17 DEF s

(* What PlanEngine gives every call: an accepted plan lists the components *)
(* of its plan, and an apply is done when no bundle is left.               *)
ListedAndDone(c) ==
    /\ PhaseOf(c) \in {"accepted", "done"} => ListedOf(c) = ComponentOrder(RootOf[c])
    /\ PhaseOf(c) = "done" /\ Role[c] = "apply" => bundles[c] = <<>>

(* PlanEngine alone implies it.                                            *)
LEMMA EngineLists ==
    Engine!Spec => [](\A c \in PlanCallers : ListedAndDone(c))
<1> DEFINE Inv == \A c \in PlanCallers : ListedAndDone(c)
<1> USE DEF ListedAndDone
<1>1. Engine!Init => Inv
    <2> SUFFICES ASSUME Engine!Init, NEW c \in PlanCallers
                 PROVE  ListedAndDone(c)
        OBVIOUS
    <2>1. PhaseOf(c) = "new"
        BY DEF Engine!Init
    <2> QED BY <2>1
<1>2. Inv /\ [Engine!Next]_(Engine!vars) => Inv'
    <2> SUFFICES ASSUME Inv, [Engine!Next]_(Engine!vars), NEW d \in PlanCallers
                 PROVE  ListedAndDone(d)'
        BY DEF PlanCallers
    <2>1. ListedAndDone(d)
        OBVIOUS
    <2>2. CASE UNCHANGED Engine!vars
        <3>1. PhaseOf(d)' = PhaseOf(d) /\ ListedOf(d)' = ListedOf(d) /\ bundles'[d] = bundles[d]
            BY <2>2 DEF Engine!vars, PlanCallers
        <3> QED BY <2>1, <3>1
    <2>3. ASSUME NEW c \in PlanCallers, Engine!Accept(c)
          PROVE  ListedAndDone(d)'
        <3>1. CASE d = c
            BY <2>3, <3>1 DEF Engine!Accept, PlanCallers
        <3>2. CASE d # c
            <4>1. /\ PhaseOf(d)' = PhaseOf(d) /\ ListedOf(d)' = ListedOf(d)
                  /\ bundles'[d] = bundles[d]
                BY <2>3, <3>2 DEF Engine!Accept, PlanCallers
            <4> QED BY <2>1, <4>1
        <3> QED BY <3>1, <3>2
    <2>4. ASSUME NEW c \in PlanCallers,
                 Engine!Reject(c) \/ Engine!Finish(c) \/ \E err : Engine!ApplyNext(c, err)
          PROVE  ListedAndDone(d)'
        <3>1. ListedOf(d)' = ListedOf(d)
            BY <2>4 DEF Engine!Reject, Engine!Finish, Engine!ApplyNext, PlanCallers
        <3>2. CASE d = c
            <4>1. CASE Engine!Reject(c)
                BY <3>2, <4>1 DEF Engine!Reject, PlanCallers
            <4>2. CASE Engine!Finish(c)
                BY <2>1, <3>1, <3>2, <4>2 DEF Engine!Finish, PlanCallers
            <4>3. CASE \E err : Engine!ApplyNext(c, err)
                BY <2>1, <3>1, <3>2, <4>3 DEF Engine!ApplyNext, PlanCallers
            <4> QED BY <2>4, <4>1, <4>2, <4>3
        <3>3. CASE d # c
            <4>1. PhaseOf(d)' = PhaseOf(d) /\ bundles'[d] = bundles[d]
                BY <2>4, <3>3 DEF Engine!Reject, Engine!Finish, Engine!ApplyNext, PlanCallers
            <4> QED BY <2>1, <3>1, <4>1
        <3> QED BY <3>2, <3>3
    <2> QED BY <2>2, <2>3, <2>4 DEF Engine!Next
<1> QED BY <1>1, <1>2, PTL DEF Engine!Spec

(* "Child plans are executed before the parent plan.  Components within a  *)
(* child are applied in their defined order" (crib/plan.go:67): a call     *)
(* that returns a state resolved them so, from what PlanEngine promises.   *)
THEOREM ChildrenBeforeParentHolds == Spec => []ChildrenBeforeParent
<1>1. HistoryInv /\ (\A c \in PlanCallers : ListedAndDone(c)) => ChildrenBeforeParent
    <2> SUFFICES ASSUME HistoryInv, \A c \in PlanCallers : ListedAndDone(c),
                        NEW c \in Callers, Role[c] # "helm", returned[c] = "state"
                 PROVE  InOrder(RootOf[c], results[c])
        BY DEF ChildrenBeforeParent, InOrder
    <2>1. PhaseOf(c) = "done" /\ ~failed[c]
        BY DEF PhaseOf, HistoryInv, HistoryOf
    <2>2. results[c] = ComponentOrder(RootOf[c])
        BY <2>1 DEF ListedAndDone, ListedOf, PlanCallers
    <2>3. RootOf[c] \in Plans
        BY PlanServiceAssumption
    <2> QED BY <2>2, <2>3, ComponentOrderInOrder
<1> QED BY <1>1, HistoryInvariant, PlanServiceImplementsPlanEngine, EngineLists, PTL
        DEF ImplementsPlanEngine

----------------------------------------------------------------------------
(* The outcomes of the bundles: those that ran and those left are together *)
(* the bundles Synth left, and what failed without an abort has a manifest *)
(* that does not ask for one.                                              *)
Bundles == BundlesWith(ManifestsOf(Files))

OutcomesOf(c) ==
    /\ Len(found[c]) = Len(ran[c]) + Len(bundles[c])
    /\ \A k \in 1..Len(bundles[c]) : bundles[c][k] = found[c][Len(ran[c]) + k]
    /\ \A i \in 1..Len(ran[c]) :
          ran[c][i] \in {"nil", "abort"} \/ OnFailure(found[c][i]) # "abort"

ErrorsInv ==
    /\ bundles \in [Callers -> Seq(Bundles)]
    /\ found \in [Callers -> Seq(Bundles)]
    /\ ran \in [Callers -> Seq(ErrorKinds)]
    /\ \A c \in Callers : OutcomesOf(c)

LEMMA BundlesOfType ==
    ASSUME NEW tree \in Trees
    PROVE  BundlesOf(tree) \in Seq(Bundles)
<1> DEFINE M == ManifestsOf(Files)
           kept == findManifests(tree)
           bs == BundlesOf(tree)
<1>1. FilesTyped(Files) /\ \A m \in M : m.isLocal \in BOOLEAN
    BY DEF FilesTyped, Files, ManifestsOf
<1>2. IsTree(tree, Files)
    BY TreesAssumption DEF IsTree
<1>3. /\ DOMAIN kept \subseteq DOMAIN tree
      /\ kept \in [DOMAIN kept -> Seq(M)]
    BY <1>1, <1>2, FindManifestsFacts DEF AreFound
<1>4. DOMAIN kept \subseteq Nat /\ IsFiniteSet(DOMAIN kept)
    BY <1>2, <1>3, FS_Subset DEF IsTree
<1>5. bs = normalizeManifests(kept)
    BY DEF BundlesOf
<1> HIDE DEF kept, bs
<1>6. bs \in Seq(BundlesWith(M))
    <2> HIDE DEF M
    <2>1. AreBundles(bs, kept, SortedKeys(kept), M)
        BY <1>1, <1>3, <1>4, <1>5, NormalizeFacts
    <2> QED
        BY <2>1 DEF AreBundles
<1> QED
    BY <1>6 DEF bs, Bundles

(* An error that is passed over comes from a manifest without "abort".     *)
LEMMA ErrorOfManifest ==
    ASSUME NEW bundle, NEW ok \in BOOLEAN
    PROVE  LET err == NewError(OnFailure(bundle), ok)
           IN  err \in ErrorKinds /\ (err \in {"nil", "abort"} \/ OnFailure(bundle) # "abort")
<1> DEFINE onFailure == OnFailure(bundle)
<1> HIDE DEF onFailure
<1>1. LET err == NewError(onFailure, ok)
      IN  err \in ErrorKinds /\ (err \in {"nil", "abort"} \/ onFailure # "abort")
    BY DEF NewError, ErrorKinds
<1> QED
    BY <1>1 DEF onFailure

LEMMA LeaveBundleKeepsErrors ==
    ASSUME NEW c \in Callers, ErrorsInv, NEW err \in ErrorKinds,
           err \in {"nil", "abort"} \/ OnFailure(Head(bundles[c])) # "abort",
           LeaveBundle(c, err), bundles[c] # <<>>, UNCHANGED found
    PROVE  ErrorsInv'
<1> DEFINE n == Len(ran[c])
           bs == bundles[c]
           all == found[c]
<1>1. ran' = [ran EXCEPT ![c] = Append(@, err)] /\ bundles' = [bundles EXCEPT ![c] = Tail(@)]
    BY DEF LeaveBundle
<1>2. /\ ran[c] \in Seq(ErrorKinds) /\ bs \in Seq(Bundles) /\ all \in Seq(Bundles)
      /\ n \in Nat /\ Len(bs) \in Nat
    BY LenProperties DEF ErrorsInv
<1>3. /\ Append(ran[c], err) \in Seq(ErrorKinds)
      /\ Len(Append(ran[c], err)) = n + 1
      /\ \A i \in 1..n : Append(ran[c], err)[i] = ran[c][i]
      /\ Append(ran[c], err)[n + 1] = err
    BY <1>2, AppendProperties
<1>4. /\ Tail(bs) \in Seq(Bundles) /\ Len(Tail(bs)) = Len(bs) - 1
      /\ \A k \in 1..Len(Tail(bs)) : Tail(bs)[k] = bs[k + 1]
    BY <1>2, HeadTailProperties
<1>5. /\ bundles' \in [Callers -> Seq(Bundles)] /\ ran' \in [Callers -> Seq(ErrorKinds)]
      /\ found' \in [Callers -> Seq(Bundles)]
      /\ ran'[c] = Append(ran[c], err) /\ bundles'[c] = Tail(bs) /\ found'[c] = all
    BY <1>1, <1>2, <1>3, <1>4 DEF ErrorsInv
<1>6. ASSUME NEW d \in Callers, d # c PROVE OutcomesOf(d)'
    <2>1. bundles'[d] = bundles[d] /\ ran'[d] = ran[d] /\ found'[d] = found[d]
        BY <1>1, <1>6 DEF ErrorsInv
    <2>2. OutcomesOf(d)
        BY DEF ErrorsInv
    <2> QED
        BY <2>1, <2>2 DEF OutcomesOf
<1>7. OutcomesOf(c)'
    <2>1. /\ Len(all) = n + Len(bs)
          /\ \A k \in 1..Len(bs) : bs[k] = all[n + k]
          /\ \A i \in 1..n : ran[c][i] \in {"nil", "abort"} \/ OnFailure(all[i]) # "abort"
        BY DEF ErrorsInv, OutcomesOf
    <2>2. Len(bs) >= 1 /\ Head(bs) = bs[1]
        BY <1>2, EmptySeq, LenProperties
    <2>3. Head(bs) = all[n + 1]
        BY <1>2, <2>1, <2>2
    <2> HIDE DEF n, bs, all
    <2>4. Len(all) = (n + 1) + Len(Tail(bs))
        BY <1>2, <1>4, <2>1
    <2>5. ASSUME NEW k \in 1..Len(Tail(bs)) PROVE Tail(bs)[k] = all[(n + 1) + k]
        <3>1. k + 1 \in 1..Len(bs) /\ n + (k + 1) = (n + 1) + k
            BY <1>2, <1>4
        <3> QED
            BY <1>4, <2>1, <3>1
    <2>6. ASSUME NEW i \in 1..(n + 1)
          PROVE  Append(ran[c], err)[i] \in {"nil", "abort"} \/ OnFailure(all[i]) # "abort"
        <3>1. CASE i \in 1..n
            BY <1>3, <2>1, <3>1
        <3>2. CASE i = n + 1
            BY <1>3, <2>3, <3>2 DEF bs
        <3>3. n \in Nat
            BY <1>2
        <3>4. i \in 1..n \/ i = n + 1
            BY <3>3
        <3> QED
            BY <3>1, <3>2, <3>4
    <2> QED
        BY <1>3, <1>5, <2>4, <2>5, <2>6 DEF OutcomesOf
<1> QED
    BY <1>5, <1>6, <1>7 DEF ErrorsInv

(* For any callers, plans and directories, also one that holds manifests   *)
(* without onFailure.                                                      *)
THEOREM ErrorsInvariant == Spec => []ErrorsInv
<1>1. Init => ErrorsInv
    <2>1. <<>> \in Seq(Bundles) /\ <<>> \in Seq(ErrorKinds) /\ Len(<<>>) = 0
        BY EmptySeq
    <2> QED
        BY <2>1 DEF Init, ErrorsInv, OutcomesOf
<1>2. ErrorsInv /\ HistoryInv /\ ProgressInv /\ [Next]_vars => ErrorsInv'
    <2> SUFFICES ASSUME ErrorsInv, HistoryInv, ProgressInv, [Next]_vars PROVE ErrorsInv'
        OBVIOUS
    <2>1. ASSUME UNCHANGED <<bundles, found, ran>> PROVE ErrorsInv'
        BY <2>1 DEF ErrorsInv, OutcomesOf
    <2>2. ASSUME NEW c \in Callers, CreatePlan(c) PROVE ErrorsInv'
        <3>1. CASE Synth(c)
            <4>1. PICK tree \in Trees :
                      /\ bundles' = [bundles EXCEPT ![c] = BundlesOf(tree)]
                      /\ found' = [found EXCEPT ![c] = BundlesOf(tree)]
                BY <3>1 DEF Synth
            <4> DEFINE bs == BundlesOf(tree)
            <4>2. bs \in Seq(Bundles) /\ ran' = ran /\ Len(bs) \in Nat
                BY <3>1, BundlesOfType, LenProperties DEF Synth
            <4>3. ran[c] = <<>> /\ Len(ran[c]) = 0
                <5>1. pc[c] \in Unsynthesized
                    BY <3>1 DEF Synth, Unsynthesized
                <5> QED
                    BY <5>1, EmptySeq DEF HistoryInv, HistoryOf
            <4> HIDE DEF bs
            <4>4. /\ bundles' \in [Callers -> Seq(Bundles)]
                  /\ found' \in [Callers -> Seq(Bundles)]
                  /\ ran' \in [Callers -> Seq(ErrorKinds)]
                  /\ bundles'[c] = bs /\ found'[c] = bs
                BY <4>1, <4>2 DEF ErrorsInv, bs
            <4>5. ASSUME NEW d \in Callers PROVE OutcomesOf(d)'
                <5>1. CASE d = c
                    BY <4>2, <4>3, <4>4, <5>1 DEF OutcomesOf
                <5>2. CASE d # c
                    <6>1. bundles'[d] = bundles[d] /\ found'[d] = found[d]
                        BY <4>1, <5>2 DEF ErrorsInv
                    <6> QED
                        BY <4>2, <6>1 DEF ErrorsInv, OutcomesOf
                <5> QED BY <5>1, <5>2
            <4> QED
                BY <4>4, <4>5 DEF ErrorsInv
        <3>2. CASE ~Synth(c)
            <4>1. UNCHANGED <<bundles, found, ran>>
                BY <2>2, <3>2 DEF CreatePlan, BeginCreateApp, EndCreateApp, BuildPlan,
                   BeginResolve, ResolveComponent, ComponentFails, CreatePlanFails
            <4> QED BY <2>1, <4>1
        <3> QED BY <3>1, <3>2
    <2>3. ASSUME NEW c \in Callers, Preview(c) \/ Helm(c) PROVE ErrorsInv'
        <3>1. UNCHANGED <<bundles, found, ran>>
            BY <2>3 DEF Preview, BeginPreview, PreviewComponent, EndPreview,
               Helm, StartHelm, EndHelm
        <3> QED BY <2>1, <3>1
    <2>4. ASSUME NEW c \in Callers, Apply(c) PROVE ErrorsInv'
        <3>1. CASE PrepareFails(c) \/ EndCommand(c)
            <4>1. pc[c] \in InBundle
                BY <3>1 DEF PrepareFails, EndCommand, InBundle
            <4>2. bundles[c] # <<>>
                BY <4>1 DEF ProgressInv, ProgressOf
            <4>3. CASE PrepareFails(c)
                <5>1. LeaveBundle(c, "abort") /\ UNCHANGED found
                    BY <4>3 DEF PrepareFails
                <5>2. "abort" \in ErrorKinds
                    BY DEF ErrorKinds
                <5> QED
                    BY <4>2, <5>1, <5>2, LeaveBundleKeepsErrors
            <4>4. CASE EndCommand(c)
                <5>1. PICK ok \in BOOLEAN :
                        LeaveBundle(c, NewError(OnFailure(Head(bundles[c])), ok))
                    BY <4>4 DEF EndCommand
                <5>2. UNCHANGED found
                    BY <4>4 DEF EndCommand
                <5> QED
                    BY <4>2, <5>1, <5>2, ErrorOfManifest, LeaveBundleKeepsErrors
            <4> QED BY <3>1, <4>3, <4>4
        <3>2. CASE ~(PrepareFails(c) \/ EndCommand(c))
            <4>1. UNCHANGED <<bundles, found, ran>>
                BY <2>4, <3>2 DEF Apply, NextBundle, BeginBundle, PrepareBundle, StartCommand
            <4> QED BY <2>1, <4>1
        <3> QED BY <3>1, <3>2
    <2>5. CASE UNCHANGED vars
        BY <2>1, <2>5 DEF vars
    <2> QED BY <2>2, <2>3, <2>4, <2>5 DEF Next, Step
<1> QED BY <1>1, <1>2, HistoryInvariant, ProgressInvariant, PTL DEF Spec

(* A state is returned only when every bundle of the directory has run,    *)
(* and the manifests of those that failed do not say "abort", whatever the *)
(* directory holds (AppPlan.Apply, NewError).                              *)
THEOREM FailuresReportedHolds == Spec => []FailuresReported
<1>1. HistoryInv /\ ErrorsInv /\ (\A c \in PlanCallers : ListedAndDone(c)) => FailuresReported
    <2> SUFFICES ASSUME HistoryInv, ErrorsInv, \A c \in PlanCallers : ListedAndDone(c),
                        NEW c \in Callers, Role[c] = "apply", returned[c] = "state"
                 PROVE  /\ Len(ran[c]) = Len(found[c])
                        /\ \A i \in DOMAIN ran[c] :
                              ran[c][i] # "nil" => OnFailure(found[c][i]) # "abort"
        BY DEF FailuresReported
    <2>1. bundles[c] = <<>> /\ Len(bundles[c]) = 0
        BY EmptySeq DEF ListedAndDone, PhaseOf, PlanCallers
    <2>2. /\ DOMAIN ran[c] = 1..Len(ran[c]) /\ Len(ran[c]) \in Nat
          /\ OutcomesOf(c)
        BY LenProperties DEF ErrorsInv
    <2>3. ASSUME NEW i \in DOMAIN ran[c] PROVE ran[c][i] # "abort"
        BY DEF HistoryInv, HistoryOf
    <2>4. Len(ran[c]) = Len(found[c])
        BY <2>1, <2>2 DEF OutcomesOf
    <2> QED BY <2>2, <2>3, <2>4 DEF OutcomesOf
<1> QED BY <1>1, HistoryInvariant, ErrorsInvariant, PlanServiceImplementsPlanEngine,
           EngineLists, PTL DEF ImplementsPlanEngine
=============================================================================
