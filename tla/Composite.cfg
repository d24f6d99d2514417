CONSTANTS
    Kinds = {"A", "A->B", "B->A", "A->", "[]A->", "[]B->A", "bad",
             "V", "[]V->", "I->", "IMapper", "A->I", "IB->A", "context"}
    MaxComps = 4
    NoType = NoType
    NilType = NilType
    Own = Own
    Context = "context.Context"
    ContextValue = "*valueCtx"
    IChartFactory = "IChartFactory"
    ChartFactory = "*ChartFactory"
    Types <- MCTypes
    Interfaces <- MCInterfaces
    Implements <- MCImplements
    Inputs <- MCInputs
SPECIFICATION FairSpec
INVARIANTS
    DependenciesFirst
    OrderDoesNotMatter
    ParametersAreComplete
PROPERTIES
    InterfacesSeeExecuted
    RunEnds
CHECK_DEADLOCK FALSE
