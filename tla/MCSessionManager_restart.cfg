SPECIFICATION Spec
CONSTANTS
    h1 = h1
    c1 = c1
    t1 = t1
    t2 = t2
    m1 = m1
    m2 = m2
    m3 = m3
    None = None
    HttpThreads = {h1}
    ChannelThreads = {c1}
    Turns = {t1}
    Messages = {}
    KeyOf <- OneKey
    MaxRestarts = 1
INVARIANTS
    SessionsSurviveRestarts
CHECK_DEADLOCK FALSE
