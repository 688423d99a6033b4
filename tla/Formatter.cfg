SPECIFICATION Spec
CONSTANTS
    Folded <- MCFolded
    SectionCall <- MCSections
    DumpCall <- MCDumps
    LargeSize = 3
    MaxEscaped = 3
    MaxCalls = 5
INVARIANTS  EscapesReadBack
