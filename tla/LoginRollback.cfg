\* Releasing <path>.lock may report an error after the document was replaced.
CONSTANTS
    Names = {1}
    DefaultName = 1
    Procs = {p1, p2}
    Commands = {"login", "delete"}
    UnlockMayFail = TRUE
SPECIFICATION Spec
PROPERTY RollbackKeepsProfileSignedIn
CHECK_DEADLOCK FALSE
