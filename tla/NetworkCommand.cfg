\* One command of every kind while another process acts on the profiles.
\* "default" is neither the first nor the last name.
CONSTANTS
    Names = {1, 2, 3}
    DefaultName = 2
    None = None
    Commands = {"get", "status", "failover", "logout"}
    Invocations <- Calls
    MaxTurns = 1
SPECIFICATION FairSpec
INVARIANTS ResolvedInOrder ClientsClosed
PROPERTIES KeepsPromise CommandEnds
CHECK_DEADLOCK FALSE
