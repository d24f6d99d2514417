---------------------------- MODULE PlanService ----------------------------
(***************************************************************************)
(* The plan engine, internal/core/service/plan.go, with the goroutines     *)
(* that call it: Plan.Apply (crib/plan.go), PreviewPlan                    *)
(* (internal/adapter/cribctl/plan.go), and the helm client, which runs     *)
(* commands without going through the engine.                              *)
(*                                                                         *)
(* Two package-level mutexes order them: service.mu (here mu), "to ensure  *)
(* that only one plan is being created at a time" because cdk8s keeps      *)
(* global state, and clientsideapply.mu (here cmdMu), "to ensure that only *)
(* one command is executed at a time".  An action is a stretch of code     *)
(* between two points where another goroutine can come in; a critical      *)
(* section is entered by one action and left by a later one.               *)
(*                                                                         *)
(* Children are the RESOLVED child plans, the result of PlanBuild.         *)
(***************************************************************************)
EXTENDS Manifests

CONSTANTS
    Callers,       \* goroutines
    Role,          \* what each runs: "apply", "preview" or "helm"
    Plans,         \* plans
    RootOf,        \* the plan each caller passes
    Children,      \* childPlans of every plan, after Build
    ComponentsOf,  \* components of every plan: a sequence of component ids
    ComponentIds,
    Trees,         \* file trees Synth may leave in an output directory
    NoCaller       \* value of a free mutex

ASSUME PlanServiceAssumption ==
    /\ Role \in [Callers -> {"apply", "preview", "helm"}]
    /\ RootOf \in [Callers -> Plans]
    /\ Children \in [Plans -> Seq(Plans)]
    /\ ComponentsOf \in [Plans -> Seq(ComponentIds)]
    /\ NoCaller \notin Callers

(* What the engine finds in a directory.  onFailure may be unset also of a *)
(* ClientSideApply: the validation ("required,oneof=continue abort") is    *)
(* that of the component which writes one; what is read back is not        *)
(* validated again.                                                        *)
Files == [yaml: BOOLEAN, reads: BOOLEAN, csa: BOOLEAN,
          onFailure: {"abort", "continue", "unset"}]

ASSUME TreesAssumption ==
    \A tree \in Trees :
        /\ DOMAIN tree \subseteq Nat
        /\ IsFiniteSet(DOMAIN tree)
        /\ tree \in [DOMAIN tree -> Seq(Files)]

VARIABLES
    mu,          \* holder of service.mu
    cmdMu,       \* holder of clientsideapply.mu
    pc,          \* where each caller is
    todo,        \* component functions the current loop has not called
    results,     \* planResults: components added, in order
    failed,      \* resolutionErrors is not nil
    bundles,     \* bundles the apply loop has not finished
    found,       \* history: all the bundles of the call, in order
    ran,         \* history: the error of every bundle finished, in order
    returned     \* what the call returned: "none", "state" or "error"

vars == <<mu, cmdMu, pc, todo, results, failed, bundles, found, ran, returned>>

----------------------------------------------------------------------------
(* Control points.  At each of LockedByMu the caller is between mu.Lock()  *)
(* and mu.Unlock(); "preview" touches cdk8s without any lock.              *)
LockedByMu == {"createApp", "resolve", "client", "execute", "running"}
InCdk8s == {"createApp", "resolve", "preview"}
Final == {"finished"}
Points == {"start", "build", "wantResolve", "created", "wantBundle"}
          \cup LockedByMu \cup InCdk8s \cup Final \cup {"wantCmd", "command"}

(* Mutant of ComponentOrder: the root's components come first.             *)
RootFirst(p) ==
    ComponentsOf[p]
        \o FlattenSeq([i \in DOMAIN Children[p] |-> ComponentsOf[Children[p][i]]])

(* CreatePlan's two loops: the components of every child plan in turn,     *)
(* then those of the root.  Only ChildPlans() of the root is read.         *)
ComponentOrder(p) ==
    FlattenSeq([i \in DOMAIN Children[p] |-> ComponentsOf[Children[p][i]]])
        \o ComponentsOf[p]

Init ==
    /\ mu = NoCaller
    /\ cmdMu = NoCaller
    /\ pc = [c \in Callers |-> IF Role[c] = "helm" THEN "wantCmd" ELSE "start"]
    /\ todo = [c \in Callers |-> <<>>]
    /\ results = [c \in Callers |-> <<>>]
    /\ failed = [c \in Callers |-> FALSE]
    /\ bundles = [c \in Callers |-> <<>>]
    /\ found = [c \in Callers |-> <<>>]
    /\ ran = [c \in Callers |-> <<>>]
    /\ returned = [c \in Callers |-> "none"]

Goto(c, point) == pc' = [pc EXCEPT ![c] = point]

Return(c, value) ==
    /\ Goto(c, "finished")
    /\ returned' = [returned EXCEPT ![c] = value]

(* Mutant of Acquire: Lock does not wait.                                  *)
Barge(c) == mu' = c

Acquire(c) == mu = NoCaller /\ mu' = c
Release(c) == mu' = NoCaller

----------------------------------------------------------------------------
(* createApp takes mu around cdk8s.NewApp and NewChart ...                 *)
BeginCreateApp(c) ==
    /\ pc[c] = "start"
    /\ Acquire(c)
    /\ Goto(c, "createApp")
    /\ UNCHANGED <<cmdMu, todo, results, failed, bundles, found, ran, returned>>

(* ... and releases it on return.                                          *)
EndCreateApp(c) ==
    /\ pc[c] = "createApp"
    /\ Release(c)
    /\ Goto(c, "build")
    /\ UNCHANGED <<cmdMu, todo, results, failed, bundles, found, ran, returned>>

(* planBuilder.Build(), outside the lock (module PlanBuild).               *)
BuildPlan(c) ==
    /\ pc[c] = "build"
    /\ Goto(c, "wantResolve")
    /\ UNCHANGED <<mu, cmdMu, todo, results, failed, bundles, found, ran, returned>>

(* CreatePlan takes mu again and starts its loops.                         *)
BeginResolve(c) ==
    /\ pc[c] = "wantResolve"
    /\ Acquire(c)
    /\ Goto(c, "resolve")
    /\ todo' = [todo EXCEPT ![c] = ComponentOrder(RootOf[c])]
    /\ UNCHANGED <<cmdMu, results, failed, bundles, found, ran, returned>>

(* fn(ctx) returns a component, which is added to the results ...          *)
ResolveComponent(c) ==
    /\ pc[c] = "resolve"
    /\ todo[c] # <<>>
    /\ results' = [results EXCEPT ![c] = Append(@, Head(todo[c]))]
    /\ todo' = [todo EXCEPT ![c] = Tail(@)]
    /\ UNCHANGED <<mu, cmdMu, pc, failed, bundles, found, ran, returned>>

(* ... or an error, which is joined; the loop goes on.                     *)
ComponentFails(c) ==
    /\ pc[c] = "resolve"
    /\ todo[c] # <<>>
    /\ failed' = [failed EXCEPT ![c] = TRUE]
    /\ todo' = [todo EXCEPT ![c] = Tail(@)]
    /\ UNCHANGED <<mu, cmdMu, pc, results, bundles, found, ran, returned>>

(* After the loops, with errors: CreatePlan returns them.                  *)
CreatePlanFails(c) ==
    /\ pc[c] = "resolve"
    /\ todo[c] = <<>>
    /\ failed[c]
    /\ Release(c)
    /\ Return(c, "error")
    /\ UNCHANGED <<cmdMu, todo, results, failed, bundles, found, ran>>

(* What Apply will find in the output directory.                           *)
BundlesOf(tree) == normalizeManifests(findManifests(tree))

(* Mutant of Synth: resolution errors are not looked at.                   *)
SynthAnyway(c) ==
    /\ pc[c] = "resolve"
    /\ todo[c] = <<>>
    /\ Release(c)
    /\ Goto(c, "created")
    /\ \E tree \in Trees :
        /\ bundles' = [bundles EXCEPT ![c] = BundlesOf(tree)]
        /\ found' = [found EXCEPT ![c] = BundlesOf(tree)]
    /\ UNCHANGED <<cmdMu, todo, results, failed, ran, returned>>

(* Without errors: App.Synth() writes the output directory, still under    *)
(* mu.  Which tree it writes is cdk8s's choice.  The bundles are a         *)
(* function of the tree, read by this caller alone.                        *)
Synth(c) ==
    /\ pc[c] = "resolve"
    /\ todo[c] = <<>>
    /\ ~failed[c]
    /\ Release(c)
    /\ Goto(c, "created")
    /\ \E tree \in Trees :
        /\ bundles' = [bundles EXCEPT ![c] = BundlesOf(tree)]
        /\ found' = [found EXCEPT ![c] = BundlesOf(tree)]
    /\ UNCHANGED <<cmdMu, todo, results, failed, ran, returned>>

----------------------------------------------------------------------------
(* Preview makes a second App and calls every component function again,    *)
(* holding no lock; errors become nodes of the tree.                       *)
BeginPreview(c) ==
    /\ pc[c] = "created"
    /\ Role[c] = "preview"
    /\ Goto(c, "preview")
    /\ todo' = [todo EXCEPT ![c] = ComponentOrder(RootOf[c])]
    /\ UNCHANGED <<mu, cmdMu, results, failed, bundles, found, ran, returned>>

PreviewComponent(c) ==
    /\ pc[c] = "preview"
    /\ todo[c] # <<>>
    /\ todo' = [todo EXCEPT ![c] = Tail(@)]
    /\ UNCHANGED <<mu, cmdMu, pc, results, failed, bundles, found, ran, returned>>

EndPreview(c) ==
    /\ pc[c] = "preview"
    /\ todo[c] = <<>>
    /\ Return(c, "state")
    /\ UNCHANGED <<mu, cmdMu, todo, results, failed, bundles, found, ran>>

----------------------------------------------------------------------------
(* The loop of AppPlan.Apply: another bundle, or the end.                  *)
NextBundle(c) ==
    /\ pc[c] = "created"
    /\ Role[c] = "apply"
    /\ IF bundles[c] = <<>>
       THEN Return(c, "state")
       ELSE Goto(c, "wantBundle") /\ UNCHANGED returned
    /\ UNCHANGED <<mu, cmdMu, todo, results, failed, bundles, found, ran>>

(* ManifestBundle.Apply takes mu for this one bundle.                      *)
BeginBundle(c) ==
    /\ pc[c] = "wantBundle"
    /\ Acquire(c)
    /\ Goto(c, "client")
    /\ UNCHANGED <<cmdMu, todo, results, failed, bundles, found, ran, returned>>

(* Client() and NewRunner() succeed.                                       *)
PrepareBundle(c) ==
    /\ pc[c] = "client"
    /\ ClientOK(Head(bundles[c]))
    /\ Goto(c, "execute")
    /\ UNCHANGED <<mu, cmdMu, todo, results, failed, bundles, found, ran, returned>>

(* Mutant of NewError: an abort is returned as a plain error.              *)
NewPlainError(onFailure, ok) ==
    IF ok THEN "nil"
    ELSE IF onFailure = "continue" THEN onFailure
    ELSE "unknown"

(* ClientSideApplyManifest.NewError: no error stays none, and an error is  *)
(* an AbortError, a ContinueError or, for any other onFailure, a plain one.*)
NewError(onFailure, ok) ==
    IF ok THEN "nil"
    ELSE IF onFailure \in {"abort", "continue"} THEN onFailure
    ELSE "unknown"

(* Mutant of LeaveBundle: the loop goes on after an abort.                 *)
LeaveAndGoOn(c, err) ==
    /\ Release(c)
    /\ ran' = [ran EXCEPT ![c] = Append(@, err)]
    /\ bundles' = [bundles EXCEPT ![c] = Tail(@)]
    /\ Goto(c, "created")
    /\ UNCHANGED returned

(* Mutant of LeaveBundle: what failed and may fail is tried again.         *)
LeaveForRetry(c, err) ==
    /\ Release(c)
    /\ ran' = [ran EXCEPT ![c] = Append(@, err)]
    /\ bundles' = [bundles EXCEPT ![c] = IF err = "continue" THEN @ ELSE Tail(@)]
    /\ IF err = "abort"
       THEN Return(c, "error")
       ELSE Goto(c, "created") /\ UNCHANGED returned

(* ManifestBundle.Apply returns err and the deferred Unlock runs.          *)
(* AppPlan.Apply returns it if it is an abort and otherwise goes on,       *)
(* whatever the error is.                                                  *)
LeaveBundle(c, err) ==
    /\ Release(c)
    /\ ran' = [ran EXCEPT ![c] = Append(@, err)]
    /\ bundles' = [bundles EXCEPT ![c] = Tail(@)]
    /\ IF err = "abort"
       THEN Return(c, "error")
       ELSE Goto(c, "created") /\ UNCHANGED returned

(* Client() fails (the file is gone or does not unmarshal), or NewRunner() *)
(* does not find the executable: an abort, whatever the manifest says.     *)
PrepareFails(c) ==
    /\ pc[c] = "client"
    /\ LeaveBundle(c, "abort")
    /\ UNCHANGED <<cmdMu, todo, results, failed, found>>

(* CmdRunner.Execute takes clientsideapply.mu and starts the command.      *)
StartCommand(c) ==
    /\ pc[c] = "execute"
    /\ cmdMu = NoCaller
    /\ cmdMu' = c
    /\ Goto(c, "running")
    /\ UNCHANGED <<mu, todo, results, failed, bundles, found, ran, returned>>

(* The command ends; its error is mapped by the manifest's onFailure.      *)
EndCommand(c) ==
    /\ pc[c] = "running"
    /\ cmdMu' = NoCaller
    /\ \E ok \in BOOLEAN :
        LeaveBundle(c, NewError(OnFailure(Head(bundles[c])), ok))
    /\ UNCHANGED <<todo, results, failed, found>>

----------------------------------------------------------------------------
(* A helm client call: one command under clientsideapply.mu, without mu.   *)
StartHelm(c) ==
    /\ pc[c] = "wantCmd"
    /\ cmdMu = NoCaller
    /\ cmdMu' = c
    /\ Goto(c, "command")
    /\ UNCHANGED <<mu, todo, results, failed, bundles, found, ran, returned>>

(* Mutant of EndHelm: the command's mutex is kept.                         *)
EndHelmLocked(c) ==
    /\ pc[c] = "command"
    /\ \E value \in {"state", "error"} : Return(c, value)
    /\ UNCHANGED <<mu, cmdMu, todo, results, failed, bundles, found, ran>>

EndHelm(c) ==
    /\ pc[c] = "command"
    /\ cmdMu' = NoCaller
    /\ \E value \in {"state", "error"} : Return(c, value)
    /\ UNCHANGED <<mu, todo, results, failed, bundles, found, ran>>

----------------------------------------------------------------------------
CreatePlan(c) ==
    \/ BeginCreateApp(c) \/ EndCreateApp(c) \/ BuildPlan(c)
    \/ BeginResolve(c) \/ ResolveComponent(c) \/ ComponentFails(c)
    \/ CreatePlanFails(c) \/ Synth(c)

Preview(c) == BeginPreview(c) \/ PreviewComponent(c) \/ EndPreview(c)

Apply(c) ==
    \/ NextBundle(c) \/ BeginBundle(c) \/ PrepareBundle(c) \/ PrepareFails(c)
    \/ StartCommand(c) \/ EndCommand(c)

Helm(c) == StartHelm(c) \/ EndHelm(c)

Step(c) == CreatePlan(c) \/ Preview(c) \/ Apply(c) \/ Helm(c)

Next == \E c \in Callers : Step(c)

Spec == Init /\ [][Next]_vars

(* Every goroutine is scheduled, commands end, and a mutex is granted to   *)
(* a waiting goroutine if it is free for good; sync.Mutex guarantees more. *)
FairSpec == Spec /\ \A c \in Callers : WF_vars(Step(c))

----------------------------------------------------------------------------
ErrorKinds == {"nil", "abort", "continue", "unknown"}

(* At most one caller is in cdk8s or in a bundle under mu, and at most one *)
(* command runs ("ensure that only one client-side apply is being executed *)
(* at a time", "only one command is executed at a time").                  *)
MutualExclusion ==
    \A c, d \in Callers :
        c # d => /\ ~(pc[c] \in LockedByMu /\ pc[d] \in LockedByMu)
                 /\ ~(pc[c] \in {"running", "command"}
                        /\ pc[d] \in {"running", "command"})

(* A component that failed to resolve keeps the whole plan from being      *)
(* applied: no bundle of it runs and no state is returned.                 *)
ErrorsPreventApply ==
    \A c \in Callers : failed[c] => ran[c] = <<>> /\ returned[c] # "state"

(* After a failure that aborts, nothing more of the plan runs and the      *)
(* caller gets the error.                                                  *)
AbortStopsPlan ==
    \A c \in Callers : \A i \in DOMAIN ran[c] :
        ran[c][i] = "abort" => i = Len(ran[c]) /\ returned[c] = "error"

(* A call that returns a state has an outcome for every bundle of its      *)
(* directory, and the manifests of those that failed do not say "abort".   *)
FailuresReported ==
    \A c \in Callers :
        Role[c] = "apply" /\ returned[c] = "state" =>
            /\ Len(ran[c]) = Len(found[c])
            /\ \A i \in DOMAIN ran[c] :
                  ran[c][i] # "nil" => OnFailure(found[c][i]) # "abort"

Before(s, x, y) == \E i, j \in DOMAIN s : i < j /\ s[i] = x /\ s[j] = y

(* "Child plans are executed before the parent plan.  Components within a  *)
(* child are applied in their defined order" (crib/plan.go:67), for the    *)
(* children of the plan that is applied.                                   *)
ChildrenBeforeParent ==
    \A c \in Callers : Role[c] # "helm" /\ returned[c] = "state" =>
        LET p == RootOf[c] IN
        /\ \A q \in ToSet(Children[p]) :
            \A x \in ToSet(ComponentsOf[q]), y \in ToSet(ComponentsOf[p]) :
                Before(results[c], x, y)
        /\ \A q \in ToSet(Children[p]) \cup {p} :
            \A i, j \in DOMAIN ComponentsOf[q] : i < j =>
                Before(results[c], ComponentsOf[q][i], ComponentsOf[q][j])

(* Every call ends, however the callers are interleaved: the two mutexes   *)
(* are always taken in the order mu, cmdMu, and always given back.         *)
EveryCallEnds == \A c \in Callers : <>(pc[c] = "finished")

(* What a caller sees of its call: nothing until CreatePlan has returned,  *)
(* then its components, the bundles without an outcome, the outcomes and,  *)
(* at the end, a state or an error.                                        *)
Accepted == {"created", "preview", "wantBundle", "client", "execute", "running"}

PlanCallers == {c \in Callers : Role[c] # "helm"}

PhaseOf(c) ==
    CASE returned[c] = "state" -> "done"
      [] returned[c] = "error" -> "failed"
      [] returned[c] = "none"  -> IF pc[c] \in Accepted THEN "accepted" ELSE "new"

ListedOf(c) == IF PhaseOf(c) = "new" \/ failed[c] THEN <<>> ELSE results[c]

Engine ==
    INSTANCE PlanEngine WITH
        Callers <- PlanCallers,
        Views   <- {c \in PlanCallers : Role[c] = "preview"},
        Listing <- [c \in PlanCallers |-> ComponentOrder(RootOf[c])],
        phase   <- [c \in PlanCallers |-> PhaseOf(c)],
        listed  <- [c \in PlanCallers |-> ListedOf(c)],
        Works   <- {BundlesOf(tree) : tree \in Trees},
        left    <- [c \in PlanCallers |-> bundles[c]],
        ran     <- [c \in PlanCallers |-> ran[c]]

(* The goroutines, with their locks, apps and interleavings, give every    *)
(* caller what PlanEngine promises: a plan is accepted with exactly the    *)
(* components of its children and its own, each bundle is applied once,    *)
(* and success means that every bundle has an outcome (CreatePlan,         *)
(* AppPlan.Apply, ManifestBundle.Apply).                                   *)
ImplementsPlanEngine == Engine!Spec

(* The plans below p, p included: the least set that holds p and is closed *)
(* under children.                                                         *)
Descendants(p) ==
    {q \in Plans : \A S \in SUBSET Plans :
        (p \in S /\ \A s \in S : ToSet(Children[s]) \subseteq S) => q \in S}

(* What "Child plans are executed before the parent plan" says of a child  *)
(* that has children of its own: a state lists the components of all of    *)
(* them.  CreatePlan reads the root's direct children only.                *)
DescendantsApplied ==
    \A c \in Callers : Role[c] = "apply" /\ returned[c] = "state" =>
        \A q \in Descendants(RootOf[c]) :
            ToSet(ComponentsOf[q]) \subseteq ToSet(results[c])
=============================================================================
