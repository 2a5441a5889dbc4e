CONSTANTS
    Sources <- MCSources
    Words <- MCWords
    Starts = {0}
    PrefixPairs <- MCPrefixPairs
    PastTable = {0}
SPECIFICATION AsmSpec
INVARIANT JumpTargetReadable
\* assembler_assem returns.
CHECK_DEADLOCK FALSE
