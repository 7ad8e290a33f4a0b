------------------------------- MODULE MCCore -------------------------------
(* Core instantiated for TLC with honest participants only: they are       *)
(* interchangeable, so states that differ by a renaming of the nodes are   *)
(* checked once.  The events signed in total are bounded by MaxEvents.     *)
EXTENDS Core

CONSTANT MaxEvents

NodeSymmetry == Permutations(Nodes)

EventBound == Cardinality(DOMAIN evs) <= MaxEvents
=============================================================================
