\* Three headers that grow and shrink in any order, in a pool that is just
\* large enough for two of them.  The program stops when one is refused.
CONSTANTS
    Blocks = 8
    Slots = {via, from, to}
    MaxCopy = 3
    NULL = NULL
SPECIFICATION Spec
INVARIANTS TypeOK BlocksOwned FailsForLackOfRoom
PROPERTY ImplementsPool
CHECK_DEADLOCK FALSE
