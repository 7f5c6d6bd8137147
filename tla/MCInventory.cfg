SPECIFICATION Spec
CONSTANTS
    s1 = s1
    h1 = h1
    h2 = h2
    t1 = t1
    NoScanner = NoScanner
    NoHost = NoHost
    Scanners = {s1, s2}
    Networks = {n1, n2}
    Endpoints = {e1, e2}
    Hosts = {h1, h2}
    Targets = {t1}
    Covers <- MCCovers
    PromoteHosts <- MCPromoteHosts
    Records <- MCRecords
    Patches <- MCPatches
    Imports <- MCImports
    Reports <- MCReports
    Stocked = {e1, n1, t1}
    Workers = {w1, w2}
    MaxRequests = 3
SYMMETRY MCSymmetry
INVARIANTS TypeOK TypeRowsMatch ScannedByOne
PROPERTIES
    DismissedStaysDismissed
    DiscoveryIsNotLost
    MonitoredStaysOut
CHECK_DEADLOCK FALSE
