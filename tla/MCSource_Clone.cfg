CONSTANTS
    Lines = {l1, l2, l3, l4}
    Infos = {a, b}
    Sizes = {1, 2}
    Texts = {"L"}
    Numbers = {1}
    MaxBytes = 1
    NULL = NULL
SPECIFICATION Spec
CONSTRAINT Bounded
SYMMETRY Symmetry
INVARIANT ClonesApart
\* The program may go wrong.
CHECK_DEADLOCK FALSE
