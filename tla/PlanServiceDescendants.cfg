CONSTANTS
    a1 = a1
    a2 = a2
    h = h
    v = v
    Callers = {a1}
    NoCaller = NoCaller
    Role <- MCCallerRole
    Plans <- MCPlans
    RootOf <- MCRoot
    Children <- MCChildren
    ComponentsOf <- MCComponentsOf
    ComponentIds <- MCComponentIds
    Trees <- AbortTrees
SPECIFICATION FairSpec
INVARIANT DescendantsApplied
CHECK_DEADLOCK FALSE
