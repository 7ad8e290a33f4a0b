CONSTANTS
    Participants <- MCParticipants
    MaxEvents = 5
    TxChoices = {FALSE}
    Faulty = {}
SPECIFICATION Spec
INVARIANT TypeOK
INVARIANT AncestorIsReachability
INVARIANT StronglySeeIsDefinition
CHECK_DEADLOCK FALSE
