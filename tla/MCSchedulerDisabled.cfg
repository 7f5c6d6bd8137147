SPECIFICATION Spec
CONSTANTS
    Jobs = {purge, retired}
    Registry = {purge}
    Mailers = {}
    Specs = {nightly, hourly, garbled}
    ValidSpecs = {nightly, hourly}
    Admins = {a1}
    MaxUpdates = 1
    MaxTicks = 1
    MaxBoots = 1
INVARIANTS DisabledJobHasNoEntry
CHECK_DEADLOCK FALSE
