CONSTANTS
    Plans <- ChangingPlans
    Directories <- NoDirectories
    MaxCommands = 1
SPECIFICATION Spec
INVARIANT
    AppliesThePlan
CHECK_DEADLOCK FALSE
