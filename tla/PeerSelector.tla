---------------------------- MODULE PeerSelector ----------------------------
(***************************************************************************)
(* The gossip-partner selectors of a node: RandomPeerSelector              *)
(* (src/src/node/peer_selector.go) and SmartPeerSelector                   *)
(* (src/src/node/peer_selector2.go), with the list helpers ExcludePeer and *)
(* ExcludePeers they call (src/src/peers/peer.go).                         *)
(*                                                                         *)
(* A peer is a model value; the strings the code compares are tagged      *)
(* pairs, so a network address, a public key and an event hash (the keys   *)
(* of a flag table) are never equal to one another.  The selectors pick    *)
(* with rand.Intn / rand.Shuffle: any element, or any n of them, may come *)
(* out.  The peer list is ordered in the code; the choice is uniform, so  *)
(* sets are enough here.  The participant set is fixed for a run but may   *)
(* be any set of 1 to |AllPeers| peers containing this node.               *)
(***************************************************************************)
EXTENDS Naturals, FiniteSets

CONSTANTS
    AllPeers,       \* the peers a network may consist of
    Local,          \* this node
    PeersCount,     \* Config.PeersCount: the n of NextN
    Events          \* event hashes that may appear in a flag table

\* DefaultConfig().PeersCount
DefaultPeersCount == 1

ASSUME Local \in AllPeers /\ PeersCount \in Nat \ {0}

NetAddr(p)   == <<"addr", p>>
PubKeyHex(p) == <<"pub", p>>
EventHash(e) == <<"event", e>>
NoPeer       == <<"none">>   \* the zero value "" of last

(* ExcludePeer: drop the peers whose NetAddr or PubKeyHex is the key *)
ExcludePeer(S, key) == {p \in S : NetAddr(p) # key /\ PubKeyHex(p) # key}

(* ExcludePeers: drop the peers whose NetAddr is one of the excluded ones' *)
ExcludePeers(S, excluded) ==
    {p \in S : ~\E ex \in excluded : NetAddr(p) = NetAddr(ex)}

VARIABLES
    peers,      \* ps.peers: the participants
    creatorOf,  \* the creator of each event hash in the node's store
    last,       \* ps.last (UpdateLast)
    lastN,      \* ps.lastN (UpdateLastN)
    ft,         \* the flag table the latest GetFlagTable call returned
    chosen,     \* the peer the latest Next returned (Local before any call)
    chosenN     \* the peers the latest NextN returned

vars == <<peers, creatorOf, last, lastN, ft, chosen, chosenN>>

\* the flag tables of the node's undetermined events: event hashes, flag 1
FlagTables == SUBSET {EventHash(e) : e \in Events}

Init == /\ peers \in {S \in SUBSET AllPeers : Local \in S}
        /\ creatorOf \in [Events -> peers]
        /\ last = NoPeer
        /\ lastN = {}
        /\ ft = {}
        /\ chosen = Local
        /\ chosenN = {}

-----------------------------------------------------------------------------
(* RandomPeerSelector.Next and the first part of SmartPeerSelector.Next:  *)
(* exclude this node, then the last partner, each only while more than    *)
(* one peer remains                                                        *)
SelectableSwapped ==
    LET s1 == IF Cardinality(peers) > 1 THEN ExcludePeer(peers, last) ELSE peers
    IN  IF Cardinality(s1) > 1 THEN ExcludePeer(s1, NetAddr(Local)) ELSE s1

Selectable ==
    LET s1 == IF Cardinality(peers) > 1 THEN ExcludePeer(peers, NetAddr(Local)) ELSE peers
    IN  IF Cardinality(s1) > 1 THEN ExcludePeer(s1, last) ELSE s1

RandomNext ==
    /\ \E p \in Selectable : chosen' = p
    /\ UNCHANGED <<peers, creatorOf, last, lastN, ft, chosenN>>

(* SmartPeerSelector.Next: after the two exclusions, when more than one   *)
(* peer remains, it reads the flag table of a random undetermined event   *)
(* and calls ExcludePeer(selectablePeers, id) for every flag, discarding   *)
(* the result; so it picks among Selectable whatever the flags say         *)
SmartSelectable(table) ==
    LET s == Selectable
    IN  IF Cardinality(s) > 1
        THEN LET unused == {ExcludePeer(s, id) : id \in table} IN s
        ELSE s

SmartNext ==
    /\ \E table \in FlagTables :
         /\ ft' = table
         /\ \E p \in SmartSelectable(table) : chosen' = p
    /\ UNCHANGED <<peers, creatorOf, last, lastN, chosenN>>

(* SmartPeerSelector.NextN: the exclusions apply while more than n peers  *)
(* remain; then n of them at random, or all when there are not more        *)
NextNSelectableSwapped ==
    LET n  == PeersCount
        s1 == IF Cardinality(peers) > n THEN ExcludePeers(peers, lastN) ELSE peers
    IN  IF Cardinality(s1) > n THEN ExcludePeer(s1, NetAddr(Local)) ELSE s1

NextNSelectable ==
    LET n  == PeersCount
        s1 == IF Cardinality(peers) > n THEN ExcludePeer(peers, NetAddr(Local)) ELSE peers
    IN  IF Cardinality(s1) > n THEN ExcludePeers(s1, lastN) ELSE s1

SmartNextN ==
    /\ \E table \in FlagTables :
         /\ ft' = table
         /\ LET s == NextNSelectable IN
            IF Cardinality(s) > PeersCount
            THEN \E sub \in SUBSET s : Cardinality(sub) = PeersCount /\ chosenN' = sub
            ELSE chosenN' = s
    /\ UNCHANGED <<peers, creatorOf, last, lastN, chosen>>

(* UpdateLast / UpdateLastN: the node records the partner(s) it gossiped  *)
(* with, the one(s) the selector returned                                  *)
UpdateLast ==
    /\ last' = NetAddr(chosen)
    /\ UNCHANGED <<peers, creatorOf, lastN, ft, chosen, chosenN>>

UpdateLastN ==
    /\ lastN' = chosenN
    /\ UNCHANGED <<peers, creatorOf, last, ft, chosen, chosenN>>

Next == RandomNext \/ SmartNext \/ SmartNextN \/ UpdateLast \/ UpdateLastN

Spec == Init /\ [][Next]_vars

-----------------------------------------------------------------------------
TypeOK == /\ Local \in peers /\ peers \subseteq AllPeers
          /\ creatorOf \in [Events -> peers]
          /\ last \in {NoPeer} \cup {NetAddr(p) : p \in peers}
          /\ lastN \subseteq peers
          /\ ft \in FlagTables
          /\ chosen \in peers
          /\ chosenN \subseteq peers

(* Next never returns this node while another participant exists, and     *)
(* with three or more participants never the partner of the last gossip:  *)
(* the local node must be excluded before the last partner, or a          *)
(* two-participant node whose last partner is the other one talks to       *)
(* itself.                                                                 *)
NextAvoidsSelfAndLast ==
    [][(RandomNext \/ SmartNext) =>
          /\ Cardinality(peers) > 1 => chosen' # Local
          /\ Cardinality(peers) > 2 => NetAddr(chosen') # last]_vars

(* NextN never returns this node while another participant exists.        *)
NextNNeverSelf == Cardinality(peers) > 1 => Local \notin chosenN

(* The comment on SmartPeerSelector: selection is "based on FlagTable of a *)
(* randomly chosen undetermined event": a peer whose witness the flag     *)
(* table already holds is not chosen while a selectable peer whose witness *)
(* it lacks exists.                                                        *)
SmartNextAvoidsFlagged ==
    [][SmartNext =>
         LET flagged == {creatorOf[e] : e \in {e \in Events : EventHash(e) \in ft'}}
         IN  (\E q \in Selectable \ flagged : TRUE) => chosen' \notin flagged]_vars
=============================================================================
