CONSTANTS
    CurrentNamespace = "default"
    Plans <- MCPlans
SPECIFICATION Spec
INVARIANTS
    ReferencesResolve
    CommandsComeAfter
    PanicsOnlyOnTwins
    RepeatsAlike
CHECK_DEADLOCK FALSE
