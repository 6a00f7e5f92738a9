CONSTANTS
    Increment = {0, 1, 2}
    MaxCount = 2
    Digits <- MCDigits
SPECIFICATION FairSpec
INVARIANTS
    TypeOK
    UploadNotInvented
    UploadAllTime
    FinalSaveKept
    CanStart
PROPERTIES
    BaseNeverBack
    SavedInTheEnd
