----------------------------- MODULE MCConsensus -----------------------------
EXTENDS Consensus

\* three participants: SuperMajority = 3, every witness is needed
MCParticipants == {1, 2, 3}

\* four participants: SuperMajority = 3, so a witness may be missed
MCParticipants4 == {1, 2, 3, 4}

\* no event hash has a zero middle byte: every coin flip is TRUE
MCZeroMiddleByte == {}

\* the sync that created event x: <<creator, peer pulled from>>
SyncOf(x) == <<events[x].creator, events[events[x].op].creator>>

FirstSynced == Cardinality(Participants) + 1

(***************************************************************************)
(* Bound on the schedule: nodes take turns to sync, in id order, each from *)
(* any peer.  It keeps every choice of peer (and so every shape of the     *)
(* DAG a fair rotation produces) while cutting the orders of independent   *)
(* syncs, which the Gossip runs explore without this bound.               *)
(***************************************************************************)
RoundRobin == \A x \in DOMAIN events :
                x >= FirstSynced => events[x].creator = events[x - Cardinality(Participants)].creator

(***************************************************************************)
(* Fixed schedules (sequences of <<node, peer>> syncs) found by random     *)
(* simulation of the unconstrained model, replayed here so that TLC        *)
(* reports the shortest trace along them.                                  *)
(***************************************************************************)
FameSplitSchedule ==
    << <<4, 1>>, <<3, 4>>, <<3, 2>>, <<2, 3>>, <<4, 3>>, <<1, 3>>, <<3, 4>>, <<2, 4>>, <<4, 2>>,
       <<2, 1>>, <<3, 1>>, <<4, 3>>, <<3, 2>>, <<1, 3>>, <<2, 4>>, <<4, 3>>, <<1, 2>>, <<3, 2>> >>

CommitSplitSchedule ==
    << <<1, 3>>, <<4, 1>>, <<3, 4>>, <<2, 3>>, <<1, 4>>, <<1, 3>>, <<3, 2>>, <<4, 3>>,
       <<2, 4>>, <<3, 4>>, <<3, 2>>, <<4, 3>>, <<2, 4>>, <<1, 2>>, <<3, 1>>, <<2, 3>> >>

Follows(schedule) ==
    \A x \in DOMAIN events :
        x >= FirstSynced =>
            /\ x - FirstSynced + 1 <= Len(schedule)
            /\ SyncOf(x) = schedule[x - FirstSynced + 1]

FollowsFameSplit == Follows(FameSplitSchedule)
FollowsCommitSplit == Follows(CommitSplitSchedule)
=============================================================================
