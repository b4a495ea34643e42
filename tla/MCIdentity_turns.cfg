SPECIFICATION Spec
CONSTANTS
    t1 = t1
    t2 = t2
    c1 = c1
    c2 = c2
    c3 = c3
    s1 = s1
    None = None
    Turns = {t1, t2}
    Calls = {c1, c2, c3}
    Sessions = {s1}
    Tenants = {"one", "two", "none"}
    Subjects = {"user", "app", "anonymous"}
    ClaimKeys = {"roles", "tier"}
    ClaimItems = {"reader", "writer", "admin"}
    Configs <- MCConfigs
    Requests <- MCRequests
    ChannelCallers <- MCChannelCallers
    App <- MCApp
    Anonymous <- MCAnonymous
SYMMETRY NameSymmetry
INVARIANTS
    ActsForCaller
    ClaimsNeverWiden
    CredentialsAreTheCallers
    ThreadsAreSeparate
    PausesAreReported
CHECK_DEADLOCK FALSE
