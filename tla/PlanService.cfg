CONSTANTS
    a1 = a1
    a2 = a2
    h = h
    v = v
    Callers = {a1, a2, h, v}
    NoCaller = NoCaller
    Role <- MCCallerRole
    Plans <- MCPlans
    RootOf <- MCRoot
    Children <- MCChildren
    ComponentsOf <- MCComponentsOf
    ComponentIds <- MCComponentIds
    Trees <- MCTrees
SPECIFICATION FairSpec
INVARIANTS
    MutualExclusion
    ErrorsPreventApply
    AbortStopsPlan
    FailuresReported
    ChildrenBeforeParent
PROPERTIES
    EveryCallEnds
    ImplementsPlanEngine
CHECK_DEADLOCK FALSE
