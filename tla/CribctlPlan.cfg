CONSTANTS
    Plans <- MCPlans
    Directories <- MCDirectories
    MaxCommands = 2
SPECIFICATION Spec
INVARIANTS
    BundlesAreTheFiles
    BundlesFitClients
    BundlesAreMaximal
    ShownIsApplied
    SuccessIsWhole
PROPERTIES
    CommandsEnd
CHECK_DEADLOCK FALSE
