\* Named, raw and batched commands, sensitive or not, with --yes anywhere;
\* commands with up to two free options; queries with their parameters; every
\* form of a blocking command, with waits around the margin.
CONSTANTS
    ParameterNames = {"a", "b", "c"}
    MaxParameters = 2
    MaxInteger = 7
    MaxFloat = 20
    Spacing = 4
    Calls <- AllCalls
    Millisecond = 2
    Second = 4
    MaxDuration = 400
    Numerals <- WaitWords
    Lines <- Usual
    Timeouts <- AllTimeouts
    Overhead = 3
SPECIFICATION EitherSpec
INVARIANTS SensitiveOnlyIfConfirmed ArgumentsArrive SentAsMeant QueryAsMeant
    AnsweredInTime RefusedForAReason
CHECK_DEADLOCK FALSE
