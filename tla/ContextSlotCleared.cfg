SPECIFICATION MCSpec
CONSTANTS
    ema = ema
    rsi = rsi
    sma = sma
    wma = wma
    p1 = p1
    p2 = p2
    top = top
    overlay = overlay
    t1 = t1
    t2 = t2
    Names <- TableNames
    Hash <- TableHash
    InitialCapacity = 2
    Values = {v1, v2}
    NoName = NoName
    NoValue = NoValue
    Pointers = {p1, p2}
    CacheSize = 2
    PointerBucket <- PointerBuckets
    SlotNames = {ema}
    Bases = {b1, b2, b3}
    NoBase = NoBase
    Addresses = {c1, c2, c3}
    Loaded = ema
    HostValues <- LoadedOrZero
    FreeListMax = 1
    MaxChanges = 3
    NoContext = NoContext
    TrueValue = TrueValue
    Contexts = {top, overlay}
    Parent <- OverlayParent
    NoParent = NoParent
    BoundNames = {ema}
    Uses <- HostUses
    Unset = Unset
SYMMETRY Symmetry
INVARIANT
    ValidSlotIsSafe
