SPECIFICATION FairSpec
CONSTANTS
    r1 = r1
    r2 = r2
    first = first
    None = None
    Requests = {r1, r2}
    First = first
INVARIANTS RowsHaveFiles ScratchOwned FilesOwned NoFilesBehind MetaAfterCookies OldKeyRetired
PROPERTIES RotationNeverRevives PurgedInTheEnd
CHECK_DEADLOCK FALSE
