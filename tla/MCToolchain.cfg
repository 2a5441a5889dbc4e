CONSTANTS
    Sources <- MCSources
    Words <- MCWords
    Starts = {254}
    PrefixPairs <- MCPrefixPairs
    PastTable = {0, 255}
SPECIFICATION SweepSpec
INVARIANTS LexTypeOK SymbolsFaithful ResolvedToLabel
INVARIANTS AsmTypeOK LayoutAgrees CallReachesLabel ListingShowsSource
PROPERTIES LinesKept AssemblyEnds
\* lex_all and assembler_assem return, and dis8080 exits.
CHECK_DEADLOCK FALSE
