CONSTANTS
    CurrentNamespace = "default"
    Plans <- Registered
SPECIFICATION Spec
INVARIANT
    PreviewShowsPlan
CHECK_DEADLOCK FALSE
