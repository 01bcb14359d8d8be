\* Three commands on one name, every failure: who waits for the lock gets it.
CONSTANTS
    Names = {1}
    DefaultName = 1
    Procs = {p1, p2, p3}
    Commands = {"login", "logout", "delete", "use"}
    UnlockMayFail = TRUE
SPECIFICATION FairSpec
PROPERTY CommandsEnd
CHECK_DEADLOCK FALSE
