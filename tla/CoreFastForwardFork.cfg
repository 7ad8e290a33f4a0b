CONSTANTS
    Nodes = {n1, n2, n3}
    Byzantine = {}
    Txs = {t1}
    MaxIndex = 2
    SyncLimit = 1
    NBlocks = 1
    MaxEvents = 7
SPECIFICATION Spec
SYMMETRY NodeSymmetry
CONSTRAINT EventBound
INVARIANT NoHonestFork
CHECK_DEADLOCK FALSE
