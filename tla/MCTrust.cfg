SPECIFICATION Spec
CONSTANTS
    r1 = r1
    r2 = r2
    x1 = x1
    leaf = leaf
    moz = moz
    ms = ms
    Stores = {moz, ms}
    Certs <- MCCerts
    CAs <- MCCAs
    Signers <- MCSigners
    Twins <- MCTwins
    WithPem = {r1}
    Matrices <- MCMatrices
    Chains <- MCChains
    Uploads = {leaf, r2}
    Jobs = {j1}
    Ingests = {w1}
    MaxEvents = 3
INVARIANTS
    TypeOK
    TrustedWasJustified
    RefreshIsApplied
    EveryCertIsJudged
CHECK_DEADLOCK FALSE
