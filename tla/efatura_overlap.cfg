\* Two overlapping screen instances, every fault of the store, the files and the client.
CONSTANTS
    Screens = {s1, s2}
    t1 = t1
    t2 = t2
    Tokens = {t1}
    NoToken = NoToken
    ana = ana
    rui = rui
    Taxpayers = {ana, rui}
    Owner <- SameOwner
    Faults = {"write", "read", "delete", "file", "http"}
SPECIFICATION Spec
SYMMETRY ScreensAndTokens
VIEW LiveState
INVARIANTS
    TypeOK
    UnstoredTokenIsPrivate
PROPERTIES
    StoreIsVault
