SPECIFICATION Spec
CONSTANTS
    Users = {u1}
    Certs = {c1}
    Endpoints = {e1}
    Tags = {t1}
    ThresholdSets <- MCThresholdSets
    DefaultSet <- MCDefault
    NotAfter <- MCNotAfter
    Day = 1
    MaxNow = 1
    MaxMails = 1
    Runs = {r1}
    Purges = {}
    Admin = {}
    MaxUpsets = 0
INVARIANTS SubscribersGetTaggedOnly
CHECK_DEADLOCK FALSE
