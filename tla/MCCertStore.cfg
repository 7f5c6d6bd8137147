SPECIFICATION FairSpec
CONSTANTS
    leaf = leaf
    inter = inter
    inter2 = inter2
    root = root
    NoFp = NoFp
    Fps = {leaf, inter, inter2, root}
    MayIssue <- MCChain
    NotAfter <- MCNotAfter
    Ingests = {w1}
    MaxInserts = 4
    MaxChanges = 2
INVARIANTS TypeOK ChainsLinked
PROPERTIES ChainsSurvivePurge GarbageIsPurged
CHECK_DEADLOCK FALSE
