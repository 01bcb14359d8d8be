\* A command without a flag, environment or FERRIC_PROFILE, while another
\* process acts on the profiles.
CONSTANTS
    Names = {1, 2, 3}
    DefaultName = 2
    None = None
    Commands = {"get"}
    Invocations <- Calls
    MaxTurns = 1
SPECIFICATION Spec
INVARIANTS SelectedByUserOrDefault
CHECK_DEADLOCK FALSE
