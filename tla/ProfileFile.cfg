\* Two concurrent calls and one power loss, every kind of failure.  Two values
\* tell a lost update from the update itself.
CONSTANTS
    Names = {1, 2}
    DefaultName = 2
    Values = {v1, v2}
    Callers = {c1, c2}
    UnlockMayFail = TRUE
    MaxPowerLosses = 1
SPECIFICATION FairSpec
INVARIANTS TypeOK DocumentNeverTorn SelectionIsSaved FailedSaveLeavesNoFile
PROPERTIES ImplementsRegistry CallsEnd
CHECK_DEADLOCK FALSE
