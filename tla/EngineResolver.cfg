SPECIFICATION MCSpec
CONSTANTS
    Parts = {"resolver", "registry"}
    p1 = p1
    p2 = p2
    p3 = p3
    price = price
    volume = volume
    u1 = u1
    u2 = u2
    Programs = {p1, p2, p3}
    Names = {price, volume}
    UserData = {u1, u2}
    Null = Null
    HostOwns = {TRUE, FALSE}
    SourcesOf <- Shared
    Functions = {f1, f2}
    None = None
    Capacity0 = 1
    Uses <- HostUses
    Userdata = {d1, d2, d3}
    Targets = {bars, ticks}
SYMMETRY Symmetry
CHECK_DEADLOCK FALSE
INVARIANTS
    HostResolverRestored
    NeverDelegatesToItself
    RefCountExact
    SourceCallsReachLiveProgram
    FreedOnce
    HeldAlive
    CalledWithOwnUserdata
    LastRegistrationAnswers
    CachedEntryCurrent
