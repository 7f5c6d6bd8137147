SPECIFICATION FairSpec
CONSTANTS
    Jobs = {purge, alerts}
    Registry = {purge, alerts}
    Mailers = {alerts}
    Specs = {nightly, hourly, garbled}
    ValidSpecs = {nightly, hourly}
    Admins = {a1}
    MaxUpdates = 2
    MaxTicks = 2
    MaxBoots = 2
INVARIANTS TypeOK EntryNeverOverlaps EnabledJobIsScheduled
PROPERTIES GuardReleased
CHECK_DEADLOCK FALSE
