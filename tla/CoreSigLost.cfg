CONSTANTS
    Nodes = {n1, n2}
    Byzantine = {}
    Txs = {t1, t2}
    MaxIndex = 3
    SyncLimit = 2
    NBlocks = 2
SPECIFICATION Spec
INVARIANT SigsNeverLost
CHECK_DEADLOCK FALSE
