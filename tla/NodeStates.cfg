CONSTANTS
    Routines = {r1, r2, r3}
SPECIFICATION Spec
INVARIANTS TypeOK WaitCoversLaunched
PROPERTIES WaitTerminates Wait2Terminates
CHECK_DEADLOCK FALSE
