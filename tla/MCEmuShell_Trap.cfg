CONSTANTS
    Images <- MCImages
    Uninit = {0, 118}
    Limit = 6
SPECIFICATION ShellSpec
INVARIANT RunsUntilTrap
\* The emulator exits.
CHECK_DEADLOCK FALSE
