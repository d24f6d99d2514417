----------------------------- MODULE PlanEngine -----------------------------
(***************************************************************************)
(* What a caller of the plan service may rely on, with no locks, apps or   *)
(* files: a plan is rejected as a whole or accepted as a whole, with all   *)
(* its components listed in order; an accepted plan has some bundles, of   *)
(* which each is applied once, in order and one at a time, to an outcome;  *)
(* an abort ends the call with an error, and the call succeeds when every  *)
(* bundle has an outcome.  A preview applies none.                         *)
(***************************************************************************)
EXTENDS Sequences

CONSTANTS
    Callers,   \* the calls
    Views,     \* those that only preview
    Listing,   \* the components of the plan of each, in order
    Works      \* the sequences of bundles a plan may have

VARIABLES
    phase,     \* "new", "accepted", "failed" or "done"
    listed,    \* components of an accepted plan
    left,      \* bundles without an outcome
    ran        \* outcomes so far

vars == <<phase, listed, left, ran>>

Init ==
    /\ phase = [c \in Callers |-> "new"]
    /\ listed = [c \in Callers |-> <<>>]
    /\ left = [c \in Callers |-> <<>>]
    /\ ran = [c \in Callers |-> <<>>]

Reject(c) ==
    /\ phase[c] = "new"
    /\ phase' = [phase EXCEPT ![c] = "failed"]
    /\ UNCHANGED <<listed, left, ran>>

Accept(c) ==
    /\ phase[c] = "new"
    /\ phase' = [phase EXCEPT ![c] = "accepted"]
    /\ listed' = [listed EXCEPT ![c] = Listing[c]]
    /\ \E work \in Works : left' = [left EXCEPT ![c] = work]
    /\ UNCHANGED ran

ApplyNext(c, err) ==
    /\ phase[c] = "accepted"
    /\ c \notin Views
    /\ left[c] # <<>>
    /\ left' = [left EXCEPT ![c] = Tail(@)]
    /\ ran' = [ran EXCEPT ![c] = Append(@, err)]
    /\ phase' = [phase EXCEPT ![c] = IF err = "abort" THEN "failed" ELSE @]
    /\ UNCHANGED listed

Finish(c) ==
    /\ phase[c] = "accepted"
    /\ c \in Views \/ left[c] = <<>>
    /\ phase' = [phase EXCEPT ![c] = "done"]
    /\ UNCHANGED <<listed, left, ran>>

Next ==
    \E c \in Callers :
        \/ Reject(c) \/ Accept(c) \/ Finish(c)
        \/ \E err \in {"nil", "abort", "continue", "unknown"} : ApplyNext(c, err)

Spec == Init /\ [][Next]_vars
=============================================================================
