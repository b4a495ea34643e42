SPECIFICATION OrderedSpec
CONSTANTS
    h1 = h1
    c1 = c1
    t1 = t1
    t2 = t2
    m1 = m1
    m2 = m2
    m3 = m3
    None = None
    HttpThreads = {h1}
    ChannelThreads = {c1}
    Turns = {t1, t2}
    Messages = {m1, m2, m3}
    KeyOf <- OneKey
    MaxRestarts = 1
INVARIANTS
    BookkeepingIsExact
    ChannelTurnsSerialized
    StartsInOrder
    LocksHaveLiveOwners
    NoTurnOutlivesRuntime
PROPERTIES
    KeepsConversations
    EveryTurnSettles
    ShutdownTerminates
CHECK_DEADLOCK FALSE
