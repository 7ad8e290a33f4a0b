CONSTANTS
    AllPeers = {p1, p2, p3, p4}
    Local = p1
    PeersCount <- DefaultPeersCount
    Events = {e1, e2}
SPECIFICATION Spec
INVARIANTS NextNNeverSelf
PROPERTIES NextAvoidsSelfAndLast
