----------------------------- MODULE PlanBuild -----------------------------
(***************************************************************************)
(* Plan.Build of crib/plan.go: the lazy depth-first resolution of a plan's *)
(* children, with cycle detection on plan NAMES.                           *)
(*                                                                         *)
(* The Go code is a recursive closure over three locals (visited, stack,   *)
(* frames) that reads and writes two fields of every plan it meets         *)
(* (childFuncs, childPlans).  Here the recursion is the sequence frames of *)
(* plans being resolved, and pending[p] is what is left of the range loop  *)
(* over p.childFuncs in p's activation: its Head is the child whose call   *)
(* has not returned yet.                                                   *)
(*                                                                         *)
(* A plan is an object; two objects may carry one name, because            *)
(* AddPlan(examplev1.Plan) calls a constructor and every call makes a new  *)
(* object.  Names are documented to be globally unique, which WellNamed    *)
(* renders as: objects of one name declare children of the same names.     *)
(***************************************************************************)
EXTENDS Naturals, Sequences

CONSTANTS
    Plans,       \* the *Plan objects
    Names,       \* plan names
    NameOf,      \* the name field of every plan
    Root,        \* the receiver of Build
    ChildLists,  \* the child lists AddPlan may have recorded
    MaxBuilds    \* bound on the calls of Build (Apply and CreatePlan make 2)

ASSUME PlanAssumption ==
    /\ NameOf \in [Plans -> Names]
    /\ Root \in Plans
    /\ ChildLists \subseteq Seq(Plans)
    /\ MaxBuilds \in Nat

VARIABLES
    declared,    \* history: the children AddPlan recorded, never changed
    childFuncs,  \* Plan.childFuncs: child constructors not yet resolved
    childPlans,  \* Plan.childPlans: resolved children
    pending,     \* rest of the range loop of every activation
    frames,      \* frames: the plans whose activation is open, root first
    stack,       \* stack: names marked as being resolved
    visited,     \* visited: names whose resolution is finished
    status,      \* "idle", "running", "done" or "cycle" (panicked)
    cycle,       \* the plans named in the panic message
    builds       \* calls of Build so far

vars == <<declared, childFuncs, childPlans, pending, frames, stack, visited,
          status, cycle, builds>>

locals == <<pending, frames, stack, visited>>

----------------------------------------------------------------------------
(* Names of the children a plan declares.                                  *)
ChildNames(p) == {NameOf[declared[p][k]] : k \in DOMAIN declared[p]}

(* The documented uniqueness of names.                                     *)
WellNamed ==
    \A p, q \in Plans : NameOf[p] = NameOf[q] => ChildNames(p) = ChildNames(q)

(* Edges of the name graph Build searches.                                 *)
Kids(n) == {m \in Names : \E p \in Plans : NameOf[p] = n /\ m \in ChildNames(p)}

Top == frames[Len(frames)]

Init ==
    /\ declared \in [Plans -> ChildLists]
    /\ WellNamed
    /\ childFuncs = declared
    /\ childPlans = [p \in Plans |-> <<>>]
    /\ pending = [p \in Plans |-> <<>>]
    /\ frames = <<>>
    /\ stack = {}
    /\ visited = {}
    /\ status = "idle"
    /\ cycle = <<>>
    /\ builds = 0

(* Build(): fresh locals, and resolveFn(p) enters the receiver.            *)
Build ==
    /\ status \in {"idle", "done"}
    /\ builds < MaxBuilds
    /\ builds' = builds + 1
    /\ status' = "running"
    /\ visited' = {}
    /\ stack' = {NameOf[Root]}
    /\ frames' = <<Root>>
    /\ pending' = [pending EXCEPT ![Root] = childFuncs[Root]]
    /\ UNCHANGED <<declared, childFuncs, childPlans, cycle>>

(* Mutant of DetectCycle: a plan met twice is taken for a cycle.           *)
DetectRepeat ==
    /\ status = "running"
    /\ pending[Top] # <<>>
    /\ NameOf[Head(pending[Top])] \in stack \cup visited
    /\ cycle' = Append(frames, Head(pending[Top]))
    /\ status' = "cycle"
    /\ UNCHANGED <<declared, childFuncs, childPlans, locals, builds>>

(* Mutant of DetectCycle: only cycles through the receiver are seen.       *)
DetectRootCycle ==
    /\ status = "running"
    /\ pending[Top] # <<>>
    /\ NameOf[Head(pending[Top])] = NameOf[Root]
    /\ cycle' = Append(frames, Head(pending[Top]))
    /\ status' = "cycle"
    /\ UNCHANGED <<declared, childFuncs, childPlans, locals, builds>>

(* resolveFn(child) finds the child's name on the stack and panics.        *)
DetectCycle ==
    /\ status = "running"
    /\ pending[Top] # <<>>
    /\ NameOf[Head(pending[Top])] \in stack
    /\ cycle' = Append(frames, Head(pending[Top]))
    /\ status' = "cycle"
    /\ UNCHANGED <<declared, childFuncs, childPlans, locals, builds>>

(* Mutant of SkipVisited: a name on the stack counts as visited.           *)
SkipEntered ==
    /\ status = "running"
    /\ pending[Top] # <<>>
    /\ LET child == Head(pending[Top]) IN
        /\ NameOf[child] \in stack \cup visited
        /\ childPlans' = [childPlans EXCEPT ![Top] = Append(@, child)]
        /\ pending' = [pending EXCEPT ![Top] = Tail(@)]
    /\ UNCHANGED <<declared, childFuncs, frames, stack, visited, status,
                   cycle, builds>>

(* resolveFn(child) returns at once: the name is visited.  The loop body   *)
(* then appends the child, unresolved as it may be.                        *)
SkipVisited ==
    /\ status = "running"
    /\ pending[Top] # <<>>
    /\ LET child == Head(pending[Top]) IN
        /\ NameOf[child] \notin stack
        /\ NameOf[child] \in visited
        /\ childPlans' = [childPlans EXCEPT ![Top] = Append(@, child)]
        /\ pending' = [pending EXCEPT ![Top] = Tail(@)]
    /\ UNCHANGED <<declared, childFuncs, frames, stack, visited, status,
                   cycle, builds>>

(* Mutant of Descend: the stack is keyed by the object, not by its name.   *)
DescendByObject ==
    /\ status = "running"
    /\ pending[Top] # <<>>
    /\ LET child == Head(pending[Top]) IN
        /\ NameOf[child] \notin stack \cup visited
        /\ frames' = Append(frames, child)
        /\ stack' = stack \cup {child}
        /\ pending' = [pending EXCEPT ![child] = childFuncs[child]]
    /\ UNCHANGED <<declared, childFuncs, childPlans, visited, status, cycle,
                   builds>>

(* Mutant of Descend: a name is marked visited on entry.                   *)
DescendVisited ==
    /\ status = "running"
    /\ pending[Top] # <<>>
    /\ LET child == Head(pending[Top]) IN
        /\ NameOf[child] \notin stack \cup visited
        /\ frames' = Append(frames, child)
        /\ stack' = stack \cup {NameOf[child]}
        /\ visited' = visited \cup {NameOf[child]}
        /\ pending' = [pending EXCEPT ![child] = childFuncs[child]]
    /\ UNCHANGED <<declared, childFuncs, childPlans, status, cycle, builds>>

(* resolveFn(child) opens an activation for the child.                     *)
Descend ==
    /\ status = "running"
    /\ pending[Top] # <<>>
    /\ LET child == Head(pending[Top]) IN
        /\ NameOf[child] \notin stack \cup visited
        /\ frames' = Append(frames, child)
        /\ stack' = stack \cup {NameOf[child]}
        /\ pending' = [pending EXCEPT ![child] = childFuncs[child]]
    /\ UNCHANGED <<declared, childFuncs, childPlans, visited, status, cycle,
                   builds>>

(* Mutant of CloseTop: childFuncs is not cleared.                          *)
CloseKeepsFuncs ==
    /\ status = "running"
    /\ pending[Top] = <<>>
    /\ frames' = SubSeq(frames, 1, Len(frames) - 1)
    /\ stack' = stack \ {NameOf[Top]}
    /\ visited' = visited \cup {NameOf[Top]}
    /\ childFuncs' = childFuncs

(* The code after the loop, shared by the receiver's activation and the    *)
(* children's.                                                             *)
CloseTop ==
    /\ status = "running"
    /\ pending[Top] = <<>>
    /\ frames' = SubSeq(frames, 1, Len(frames) - 1)
    /\ stack' = stack \ {NameOf[Top]}
    /\ visited' = visited \cup {NameOf[Top]}
    /\ childFuncs' = [childFuncs EXCEPT ![Top] = <<>>]

(* Mutant of ReturnToParent: the child is put in front.                    *)
ReturnPrepends ==
    /\ Len(frames) > 1
    /\ CloseTop
    /\ LET parent == frames[Len(frames) - 1] IN
        /\ childPlans' = [childPlans EXCEPT ![parent] = <<Top>> \o @]
        /\ pending' = [pending EXCEPT ![parent] = Tail(@)]
    /\ UNCHANGED <<declared, status, cycle, builds>>

(* A child's activation returns into its parent's loop, which appends it.  *)
ReturnToParent ==
    /\ Len(frames) > 1
    /\ CloseTop
    /\ LET parent == frames[Len(frames) - 1] IN
        /\ childPlans' = [childPlans EXCEPT ![parent] = Append(@, Top)]
        /\ pending' = [pending EXCEPT ![parent] = Tail(@)]
    /\ UNCHANGED <<declared, status, cycle, builds>>

(* The receiver's activation returns: Build is over.                       *)
ReturnFromBuild ==
    /\ Len(frames) = 1
    /\ CloseTop
    /\ status' = "done"
    /\ UNCHANGED <<declared, childPlans, pending, cycle, builds>>

Step ==
    \/ DetectCycle
    \/ SkipVisited
    \/ Descend
    \/ ReturnToParent
    \/ ReturnFromBuild

Next == Build \/ Step

Spec == Init /\ [][Next]_vars

(* Build is one goroutine running straight through its own code.           *)
FairSpec == Spec /\ WF_vars(Step)

----------------------------------------------------------------------------
TypeOK ==
    /\ declared \in [Plans -> Seq(Plans)]
    /\ childFuncs \in [Plans -> Seq(Plans)]
    /\ childPlans \in [Plans -> Seq(Plans)]
    /\ pending \in [Plans -> Seq(Plans)]
    /\ frames \in Seq(Plans)
    /\ stack \subseteq Names
    /\ visited \subseteq Names
    /\ status \in {"idle", "running", "done", "cycle"}
    /\ cycle \in Seq(Plans)
    /\ builds \in Nat

(* Build panics only for a real cycle: the plans in the message are a path *)
(* of declared children whose last name occurs before (renderCycle).       *)
CycleIsReal ==
    status = "cycle" =>
        /\ \A i \in 1..(Len(cycle) - 1) :
            NameOf[cycle[i + 1]] \in ChildNames(cycle[i])
        /\ \E i \in 1..(Len(cycle) - 1) :
            NameOf[cycle[i]] = NameOf[cycle[Len(cycle)]]

(* Every set of names in S has a member none of whose children is in the   *)
(* set: no cycle runs inside S.                                            *)
Acyclic(S) ==
    \A T \in SUBSET S : T # {} => \E n \in T : Kids(n) \cap T = {}

(* Build misses no cycle: when the first Build returns, the names it       *)
(* visited contain the receiver's, are closed under children, and carry no *)
(* cycle.                                                                  *)
DoneMeansAcyclic ==
    status = "done" /\ builds = 1 =>
        /\ NameOf[Root] \in visited
        /\ \A n \in visited : Kids(n) \subseteq visited
        /\ Acyclic(visited)

(* A plan is marked visited only after all its children were: child plans  *)
(* are resolved before their parent ("Child plans are executed before the  *)
(* parent plan", crib/plan.go).                                            *)
ChildrenFirst ==
    [][builds = 1 => \A n \in visited' \ visited : Kids(n) \subseteq visited]_vars

(* A plan whose constructors were consumed holds every declared child      *)
(* exactly once and in the declared order; the others hold what they had.  *)
ChildrenInOrder ==
    status \in {"idle", "done"} =>
        \A p \in Plans :
            childPlans[p] = IF childFuncs[p] = <<>> THEN declared[p] ELSE <<>>

(* Every Build ends, by returning or by panicking.                         *)
BuildEnds == status = "running" ~> status \in {"done", "cycle"}

(* The comment on Build (crib/plan.go:222-223) promises "all child plans   *)
(* resolved".  visited is keyed by name, so this holds up to names: a      *)
(* child plan that is left unresolved, its children dropped, has a         *)
(* namesake, another plan object, that was resolved in its place.          *)
ResolvedOrNamesake ==
    status = "done" =>
        \A p \in Plans : \A k \in DOMAIN childPlans[p] :
            LET child == childPlans[p][k]
            IN  childFuncs[child] # <<>> =>
                    \E twin \in Plans \ {child} :
                        NameOf[twin] = NameOf[child] /\ childFuncs[twin] = <<>>
=============================================================================
