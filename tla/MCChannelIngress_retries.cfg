CONSTANTS
    None = None
    m1 = m1
    m2 = m2
    m3 = m3
    d1 = d1
    ping = ping
    Messages = {m1, m2, m3, d1, ping}
    SurfaceOf <- MCSurfaceOf
    Kind <- MCKind
    ChannelOf <- MCChannelOf
    StampOf <- MCStampOf
    RootOf <- MCRootOf
    MaxAttempts = 4
    MaxCrashes = 1
SPECIFICATION Spec
INVARIANT RetriesWereHandled
CHECK_DEADLOCK FALSE
