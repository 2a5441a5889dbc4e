CONSTANTS
    Nodes = {1, 2, 3, 4}
    Lists = {"a", "b"}
    Appended <- MCAppended
    Bytes = {0, 1}
    NULL = NULL
    Wild = Wild
SPECIFICATION Spec
INVARIANT ListTypeOK
INVARIANT LinksSound
INVARIANT NothingLeaked
INVARIANT RemovalsCrash
PROPERTY ListsAreSequences
\* The program may crash.
CHECK_DEADLOCK FALSE
