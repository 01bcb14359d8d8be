\* Two users in each of the sessions, with two claims.
CONSTANTS
    Users = {u1, u2}
    Jobs = {"a", "b"}
    Sessions <- AllSessions
    MaxClaims = 2
    None = None
SPECIFICATION Spec
SYMMETRY AnyUser
INVARIANTS TypeOK AcknowledgedOnce SignalActsOnce
PROPERTIES OnlyHolderActs TakenOverOnlyIfAsked RepeatableStart
CHECK_DEADLOCK FALSE
