CONSTANTS
    Runs = {r1, r2}
    ToolCalls = {c1}
    Interrupts = {i1, i2}
    MaxPieces = 2
SPECIFICATION Spec
CHECK_DEADLOCK FALSE
INVARIANTS
    TextOnce
    TurnEndIsTruthful
    RepliesAreWhole
    NothingPrintedTwice
    VerdictsAreEarned
