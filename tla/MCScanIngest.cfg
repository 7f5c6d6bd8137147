SPECIFICATION Spec
CONSTANTS
    f1 = f1
    f2 = f2
    d1 = d1
    NoFp = NoFp
    NoNet = NoNet
    NoDoc = NoDoc
    NoRow = NoRow
    Endpoints = {e1}
    Fps = {f1, f2}
    Nets = {n1}
    Docs = {d1, d2}
    DocCerts <- MCDocCerts
    LinkUses = {"manual", "tls"}
    Purgeable = {f1}
    Workers = {w1, w2}
    MaxRequests = 3
SYMMETRY MCSymmetry
INVARIANTS TypeOK OneCurrentTLS ReferencesAreStored
           LedgerMatchesLive OutageWindowIsClean
PROPERTIES TransitionIsLogged
CHECK_DEADLOCK FALSE
