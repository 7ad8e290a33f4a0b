------------------------------ MODULE MCGossip ------------------------------
EXTENDS Gossip

\* three participants: SuperMajority = 3, every witness is needed
MCParticipants == {1, 2, 3}

\* four participants: SuperMajority = 3, one witness to spare
MCParticipants4 == {1, 2, 3, 4}
=============================================================================
