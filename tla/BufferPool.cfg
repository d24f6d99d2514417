CONSTANTS
    c1 = c1
    c2 = c2
    o = o
    Users = {c1, c2, o}
    Mode <- MCMode
    Buffers = {b1, b2, b3}
    Arrays = {1, 2, 3, 4}
    MaxWrites = 2
    None = None
SPECIFICATION FairSpec
INVARIANTS
    OneOwner
    CopiesAreOwn
PROPERTIES
    BuffersReturn
CHECK_DEADLOCK FALSE
