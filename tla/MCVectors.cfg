CONSTANTS
    Codes = {x, y}
    Zero = Zero
    Lengths = {1, 3}
    Capacities = {0, 1, 2, 3}
    MaxLen = 5
    Undef = Undef
SPECIFICATION Spec
CONSTRAINT Bounded
INVARIANT VectorTypeOK
INVARIANT WritesInside
INVARIANT HoldsWhatWasPushed
INVARIANT NeverFull
PROPERTY GrowsTwofold
\* The container is destroyed, or its program goes wrong.
CHECK_DEADLOCK FALSE
