\* The session expires and somebody else logs in.
CONSTANTS
    Screens = {s1}
    t1 = t1
    t2 = t2
    Tokens = {t1, t2}
    NoToken = NoToken
    ana = ana
    rui = rui
    Taxpayers = {ana, rui}
    Owner <- OwnerOf
    Faults = {}
SPECIFICATION Spec
INVARIANT EvidenceOfOneTaxpayer
