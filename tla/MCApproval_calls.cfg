CONSTANTS
    None = None
    c1 = c1
    c2 = c2
    c3 = c3
    Calls <- MCCalls
    Policy <- MCPolicy
    Malformed <- MCMalformed
    NeedsToken <- MCNeedsToken
    ThirdPolicy = "require"
    ThirdMalformed = TRUE
    MaxTurns = 4
SPECIFICATION Spec
CHECK_DEADLOCK FALSE
INVARIANTS GateHolds DenialsExplained
