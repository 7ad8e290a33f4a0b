------------------------------- MODULE MCPoset -------------------------------
(* Poset instantiated for TLC: three participants (supermajority 3).       *)
EXTENDS Poset

MCParticipants == {1, 2, 3}
=============================================================================
