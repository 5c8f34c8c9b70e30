\* One screen instance at a time; only the fault the code provides for.
CONSTANTS
    Screens = {s1}
    t1 = t1
    t2 = t2
    Tokens = {t1, t2}
    NoToken = NoToken
    ana = ana
    rui = rui
    Taxpayers = {ana, rui}
    Owner <- OwnerOf
    Faults = {"write"}
SPECIFICATION FairSpec
INVARIANTS
    OneSession
    NoIdleProgress
    DisconnectedIsClean
PROPERTIES
    ProgressEnds
