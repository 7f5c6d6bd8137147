SPECIFICATION Spec
CONSTANTS
    Areas <- AllAreas
    Ids = {1, 2, 3, 4}
    MaxSent = 2
    MaxEvents <- Events
INVARIANTS
    WebTypeOK
    StaleRowsAreRefetched
    SelectionMatchesPage
    DeletedMeansGone
    WritesComeFromTheirRow
    IssuedSecretsAreShown
    OneRecordPerCleanSave
PROPERTIES
    RefetchedWriteIsShown
    RejectedReachesLogin
CHECK_DEADLOCK FALSE
