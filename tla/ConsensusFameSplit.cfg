CONSTANTS
    Participants <- MCParticipants4
    ZeroMiddleByte <- MCZeroMiddleByte
    MaxEvents = 22
SPECIFICATION Spec
CONSTRAINT FollowsFameSplit
INVARIANTS
    FameAgreement
CHECK_DEADLOCK FALSE
