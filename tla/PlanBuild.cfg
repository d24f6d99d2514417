CONSTANTS
    r = r
    a1 = a1
    a2 = a2
    b = b
    MaxKids = 2
    MaxBuilds = 2
    Plans <- MCPlans
    Names <- MCNames
    NameOf <- MCNameOf
    Root = r
    ChildLists <- MCChildLists
SPECIFICATION FairSpec
INVARIANTS
    TypeOK
    CycleIsReal
    DoneMeansAcyclic
    ChildrenInOrder
    ResolvedOrNamesake
PROPERTIES
    ChildrenFirst
    BuildEnds
CHECK_DEADLOCK FALSE
