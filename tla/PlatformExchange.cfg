\* Every call, every answer of both servers, every CA file replaced once.
CONSTANTS
    Calls <- AllCalls
    Issues <- AllIssues
    Files <- AllFiles
    MaxTime = 2
    None = None
SPECIFICATION FairSpec
INVARIANTS SecretsStayHome FailsClosed LoginIsProven TrustIsWhole OnlyHandedOverOpen
PROPERTY ExchangeEnds
CHECK_DEADLOCK FALSE
