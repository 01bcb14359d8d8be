\* Three commands on two names, of any kind and with any failure but that of
\* flock(LOCK_UN).
CONSTANTS
    Names = {1, 2}
    DefaultName = 2
    Procs = {p1, p2, p3}
    Commands = {"login", "logout", "delete", "open"}
    UnlockMayFail = FALSE
SPECIFICATION Spec
SYMMETRY Symmetry
INVARIANTS CredentialsPaired OpenedWithOwnSecret MissingSecretExplained OrphansAccountedFor FailedLoginLeavesNothing RemovalIsFinal
PROPERTY KeepsPromise
CHECK_DEADLOCK FALSE
