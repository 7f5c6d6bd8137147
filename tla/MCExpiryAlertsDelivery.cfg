SPECIFICATION FairSpec
CONSTANTS
    Users = {u1}
    Certs = {c1}
    Endpoints = {e1}
    Tags = {t1}
    ThresholdSets <- MCManySets
    DefaultSet <- MCDefault
    NotAfter <- MCNotAfter
    Day = 1
    MaxNow = 1
    MaxMails = 2
    Runs = {r1, r2}
    Purges = {}
    Admin = {"mail", "thresholds", "users", "tags", "endpoints"}
    MaxUpsets = 2
INVARIANTS SentOnce BucketIsMostUrgent
PROPERTIES ImplementsDelivery DueAlertIsSettled
CHECK_DEADLOCK FALSE
