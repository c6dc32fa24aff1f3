\* Two records fill a file.
CONSTANTS
    journalLimitSize = 2
    Torn = Torn None = None
    MaxRecord = 6
    MaxFile = 4
SPECIFICATION Spec
INVARIANTS TypeOK LoadsSinceCheckPoint
