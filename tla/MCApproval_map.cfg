CONSTANTS
    None = None
    c1 = c1
    c2 = c2
    c3 = c3
    Calls <- MCCalls
    Policy <- MCPolicy
    Malformed <- MCMalformed
    NeedsToken <- MCNeedsToken
    ThirdPolicy = "require"
    ThirdMalformed = FALSE
    MaxTurns = 3
SPECIFICATION Spec
CHECK_DEADLOCK FALSE
INVARIANT DenialsAreRefusals
