SPECIFICATION Spec
CONSTANTS
    Users = {u1}
    Certs = {c1, c2}
    Endpoints = {e1, e2}
    Tags = {}
    ThresholdSets <- MCThresholdSets
    DefaultSet <- MCDefault
    NotAfter <- MCNotAfter
    Day = 2
    MaxNow = 4
    MaxMails = 2
    Runs = {r1}
    Purges = {"alerts", "certs"}
    Admin = {}
    MaxUpsets = 1
SYMMETRY MCSymmetry
INVARIANTS TypeOK ClaimedOncePerSpell
PROPERTIES UrgencyRises
CHECK_DEADLOCK FALSE
