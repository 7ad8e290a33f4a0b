CONSTANTS
    Participants <- MCParticipants
    ZeroMiddleByte <- MCZeroMiddleByte
    MaxEvents = 18
SPECIFICATION Spec
CONSTRAINT RoundRobin
INVARIANTS
    TypeOK
    RoundAgreement
    RoundStableUnderEviction
CHECK_DEADLOCK FALSE
