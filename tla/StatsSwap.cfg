CONSTANTS
    Increment = {0, 1, 2}
    MaxCount = 2
    Digits <- MCDigits
SPECIFICATION Spec
INVARIANTS
    DownloadAllTime
