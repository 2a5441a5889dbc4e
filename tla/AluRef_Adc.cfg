SPECIFICATION RefSpec
INVARIANT AdcAddsCarry
\* The enumeration ends.
CHECK_DEADLOCK FALSE
