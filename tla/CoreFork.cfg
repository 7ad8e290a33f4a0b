CONSTANTS
    Nodes = {n1, n2, b}
    Byzantine = {b}
    Txs = {}
    MaxIndex = 2
    SyncLimit = 2
    NBlocks = 0
SPECIFICATION Spec
INVARIANT HonestEventsAccepted
CHECK_DEADLOCK FALSE
