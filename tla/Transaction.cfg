\* Two transactions and one write from elsewhere on two keys.
CONSTANTS
    Procs = {p1, p2}
    Keys = {"a", "b"}
    None = None
    Inputs <- AllInputs
    MaxWrites = 1
SPECIFICATION Spec
PROPERTY AllOrNothing
CHECK_DEADLOCK FALSE
