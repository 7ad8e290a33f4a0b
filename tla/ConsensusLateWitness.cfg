CONSTANTS
    Participants <- MCParticipants4
    ZeroMiddleByte <- MCZeroMiddleByte
    MaxEvents = 14
SPECIFICATION Spec
CONSTRAINT RoundRobin
INVARIANTS
    ProcessedRoundsStayDecided
CHECK_DEADLOCK FALSE
