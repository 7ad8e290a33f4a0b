----------------------------- MODULE PosetGraph -----------------------------
(***************************************************************************)
(* The graph predicates of the Poset (src/unnamed/part_005, package poset) *)
(* as pure operators over one node's Store.                                *)
(*                                                                         *)
(* Hashes are modelled injectively:                                        *)
(*   - an event hash is a positive integer (its id in the model),          *)
(*   - the self-parent hash of participant c's Root is RootHash(c) = -c    *)
(*     (the code's "Root%d", rootSelfParent / NewBaseRootEvent),           *)
(*   - the empty string "" (no other-parent) is NoHash = 0.                *)
(* The LRU caches in front of ancestor, selfAncestor, stronglySee and      *)
(* lamportTimestamp only memoise these functions of the DAG, so they are   *)
(* left out here; the stale-cache hazards are modelled where the cached    *)
(* value can differ from a recomputation (the round cache, Gossip.tla).    *)
(***************************************************************************)
EXTENDS Integers, FiniteSets

CONSTANTS
    Participants,   \* participant ids (peers.Peers.ById)
    SuperMajority,  \* 2*n/3 + 1 (NewPoset)
    Events,         \* the Store's events: id -> [creator, index, sp, op]
    Roots           \* the Store's roots: participant -> Root

NoHash == 0
RootHash(c) == -c
MinInt == -1000   \* stands for math.MinInt64: below every timestamp

\* store.RootsBySelfParent(): the roots indexed by their self-parent hash
RootSelfParents == {Roots[c].sp.hash : c \in DOMAIN Roots}
RootBySelfParent(h) == Roots[CHOOSE c \in DOMAIN Roots : Roots[c].sp.hash = h]

IsEvent(x) == x \in DOMAIN Events           \* store.GetEvent(x) succeeds
Known == DOMAIN Events \cup RootSelfParents  \* hashes the predicates resolve

-----------------------------------------------------------------------------
(* lamportTimestamp / lamportTimestamp2 *)
RECURSIVE LamportTimestamp(_)
LamportTimestamp(x) ==
    IF x \in RootSelfParents THEN RootBySelfParent(x).sp.lt
    ELSE LET ex   == Events[x]
             root == Roots[ex.creator]
             plt  == IF ex.sp = root.sp.hash THEN root.sp.lt
                     ELSE LamportTimestamp(ex.sp)
             opLT == IF ex.op = NoHash THEN MinInt
                     ELSE IF IsEvent(ex.op) THEN LamportTimestamp(ex.op)
                     ELSE IF x \in DOMAIN root.others /\ root.others[x].hash = ex.op
                          THEN root.others[x].lt
                     ELSE MinInt
         IN  (IF opLT > plt THEN opLT ELSE plt) + 1

(* ancestor / ancestor2: TRUE if y is an ancestor of x.  The tests are the *)
(* code's early returns, in the code's order.                              *)
RECURSIVE Ancestor(_, _)
Ancestor2(x, y) ==
    IF x = y THEN TRUE
    ELSE IF ~IsEvent(x)
         THEN \E c \in DOMAIN Roots : /\ y \in DOMAIN Roots[c].others
                                     /\ Roots[c].others[y].hash = x
    ELSE IF LamportTimestamp(y) - LamportTimestamp(x) > 0 THEN FALSE
    ELSE IF ~IsEvent(y) /\ y \notin RootSelfParents THEN FALSE
    ELSE IF ~IsEvent(y) /\ Events[x].creator = RootBySelfParent(y).sp.creator
         THEN Events[x].index >= RootBySelfParent(y).sp.index
    ELSE IF IsEvent(y) /\ Events[x].creator = Events[y].creator
         THEN Events[x].index >= Events[y].index
    ELSE Ancestor(Events[x].sp, y) \/ Ancestor(Events[x].op, y)

Ancestor(x, y) == x # NoHash /\ y # NoHash /\ Ancestor2(x, y)

(* selfAncestor / selfAncestor2: TRUE if y is a self-ancestor of x *)
SelfAncestor(x, y) ==
    /\ x # NoHash /\ y # NoHash
    /\ IF x = y THEN TRUE
       ELSE IF ~IsEvent(x)
            THEN x \in RootSelfParents /\ RootBySelfParent(x).sp.hash = y
       ELSE IF ~IsEvent(y)
            THEN /\ y \in RootSelfParents
                 /\ Events[x].creator = RootBySelfParent(y).sp.creator
                 /\ Events[x].index >= RootBySelfParent(y).sp.index
       ELSE Events[x].creator = Events[y].creator /\ Events[x].index >= Events[y].index

(* see: forks are kept out by InsertEvent, so see is ancestor *)
See(x, y) == Ancestor(x, y)

(* MapSentinels: the creators of the events in x's ancestry that see y *)
RECURSIVE MapSentinels(_, _)
MapSentinels(x, y) ==
    IF x = NoHash \/ ~See(x, y) THEN {}
    ELSE IF ~IsEvent(x)
         THEN IF x \in RootSelfParents THEN {RootBySelfParent(x).sp.creator} ELSE {}
    ELSE IF x = y THEN {Events[x].creator}
    ELSE {Events[x].creator} \cup MapSentinels(Events[x].op, y)
                            \cup MapSentinels(Events[x].sp, y)

StronglySeeStrict(x, y) ==
    x # NoHash /\ y # NoHash /\ Cardinality(MapSentinels(x, y)) > SuperMajority

(* stronglySee / stronglySee2 *)
StronglySee(x, y) ==
    x # NoHash /\ y # NoHash /\ Cardinality(MapSentinels(x, y)) >= SuperMajority

-----------------------------------------------------------------------------
(***************************************************************************)
(* Reference definitions, independent of the shortcuts the code takes      *)
(* (Lamport pruning, same-creator index comparison, root look-ups).        *)
(***************************************************************************)
Parents(x) == IF IsEvent(x) THEN {Events[x].sp, Events[x].op} \ {NoHash} ELSE {}

\* every hash reachable from x along parent edges, x included
RECURSIVE Reach(_)
Reach(x) == {x} \cup UNION {Reach(p) : p \in Parents(x)}

\* the self-parent chain below x, x included
RECURSIVE SelfChain(_)
SelfChain(x) == {x} \cup (IF IsEvent(x) THEN SelfChain(Events[x].sp) ELSE {})

CreatorOf(x) == IF IsEvent(x) THEN Events[x].creator ELSE RootBySelfParent(x).sp.creator

\* whitepaper: x strongly sees y when the events of x's ancestry that have
\* y as an ancestor are created by a supermajority of participants
RefStronglySee(x, y) ==
    Cardinality({CreatorOf(z) : z \in {w \in Reach(x) \cap Known : y \in Reach(w)}})
        >= SuperMajority
=============================================================================
