SPECIFICATION RefSpec
INVARIANT AddExact
INVARIANT SubExact
INVARIANT LogicExact
\* The enumeration ends.
CHECK_DEADLOCK FALSE
