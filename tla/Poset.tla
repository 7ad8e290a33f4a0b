-------------------------------- MODULE Poset --------------------------------
(***************************************************************************)
(* One node's Poset (src/unnamed/part_005): the Store it writes and the    *)
(* engine-private queues, and the operations that change them.            *)
(*                                                                         *)
(* Events arrive from gossip in any order a peer can send them; the only   *)
(* protection against a bad event is InsertEvent's own checks.             *)
(***************************************************************************)
EXTENDS Integers, Sequences, FiniteSets

CONSTANTS
    Participants,   \* participant ids
    MaxEvents,      \* bound: number of events inserted
    TxChoices,      \* whether an inserted event may carry transactions
    Faulty          \* creators whose events may carry any index on the wire

SuperMajority == (2 * Cardinality(Participants)) \div 3 + 1     \* NewPoset

VARIABLES
    events,              \* Store events: hash -> [creator, index, sp, op, txs, topo]
    roots,               \* Store roots: participant -> Root
    topologicalIndex,    \* Poset.topologicalIndex
    undeterminedEvents,  \* Poset.undeterminedEvents (FIFO of hashes)
    pendingLoadedEvents  \* Poset.pendingLoadedEvents

vars == <<events, roots, topologicalIndex, undeterminedEvents, pendingLoadedEvents>>

G == INSTANCE PosetGraph WITH Events <- events, Roots <- roots

NoHash == G!NoHash
RootHash(c) == G!RootHash(c)

BaseRootIndexZero(c) ==
    [nextRound |-> 0,
     sp |-> [hash |-> RootHash(c), creator |-> c, index |-> 0, lt |-> -1, round |-> -1],
     others |-> [h \in {} |-> 0]]

\* NewBaseRoot / NewBaseRootEvent: the Root of a fresh Poset
BaseRoot(c) ==
    [nextRound |-> 0,
     sp |-> [hash |-> RootHash(c), creator |-> c, index |-> -1, lt |-> -1, round |-> -1],
     others |-> [h \in {} |-> 0]]

\* store.LastEventFrom: the creator's last inserted event, else its Root
LastEventFrom(c) ==
    LET mine == {e \in DOMAIN events : events[e].creator = c}
    IN  IF mine = {} THEN roots[c].sp.hash
        ELSE CHOOSE e \in mine : \A f \in mine : events[f].topo <= events[e].topo

\* Event.IsLoaded
IsLoaded(ev) == ev.index = 0 \/ ev.txs

CheckSelfParentAnyOwn(ev) ==
    \/ ev.sp = LastEventFrom(ev.creator)
    \/ G!IsEvent(ev.sp) /\ events[ev.sp].creator = ev.creator

\* checkSelfParent: the self-parent is the creator's last known event
CheckSelfParent(ev) == ev.sp = LastEventFrom(ev.creator)

\* checkOtherParent: the other-parent is a known event or is in the Root
CheckOtherParent(ev, h) ==
    \/ ev.op = NoHash
    \/ G!IsEvent(ev.op)
    \/ h \in DOMAIN roots[ev.creator].others /\ roots[ev.creator].others[h].hash = ev.op

IndexOf(h) == IF G!IsEvent(h) THEN events[h].index ELSE G!RootBySelfParent(h).sp.index

Init ==
    /\ events = [h \in {} |-> 0]
    /\ roots = [c \in Participants |-> BaseRoot(c)]
    /\ topologicalIndex = 0
    /\ undeterminedEvents = <<>>
    /\ pendingLoadedEvents = 0

(***************************************************************************)
(* InsertEvent(event, setWireInfo).  The event is signed by its creator    *)
(* (an event with a bad signature is rejected before any state changes, a  *)
(* stuttering step).  The wire fields setWireInfo fills in are only read   *)
(* by gossip encoding and are not modelled.                                *)
(***************************************************************************)
InsertEvent(ev) ==
    LET h == Cardinality(DOMAIN events) + 1    \* a fresh hash
    IN  /\ CheckSelfParent(ev)
        /\ CheckOtherParent(ev, h)
        /\ events' = [x \in DOMAIN events \cup {h} |->
                        IF x = h THEN [ev EXCEPT !.topo = topologicalIndex]
                        ELSE events[x]]
        /\ topologicalIndex' = topologicalIndex + 1
        /\ undeterminedEvents' = Append(undeterminedEvents, h)
        /\ pendingLoadedEvents' = IF IsLoaded(ev) THEN pendingLoadedEvents + 1
                                  ELSE pendingLoadedEvents
        /\ UNCHANGED roots
\* (AddToSigPool: events here carry no block signatures, so the pool is
\* left out of this model)

\* The index ReadWireInfo copies from the wire body (Index: wevent.Body.Index);
\* neither checkSelfParent nor checkOtherParent compares it with the
\* self-parent's.  A creator running Core.AddSelfEvent sends Seq+1; a faulty
\* one may send any index.
WireIndex(c, sp) == IF c \in Faulty THEN 0..(MaxEvents - 1) ELSE {IndexOf(sp) + 1}

\* an event a peer may send: any creator, any of its events or its Root as
\* self-parent, any known event or none as other-parent, read by ReadWireInfo
ReceiveEvent ==
    /\ Cardinality(DOMAIN events) < MaxEvents
    /\ \E c \in Participants, txs \in TxChoices :
         \E sp \in {roots[c].sp.hash} \cup {e \in DOMAIN events : events[e].creator = c} :
           \E op \in {NoHash} \cup DOMAIN events, i \in WireIndex(c, sp) :
             InsertEvent([creator |-> c, index |-> i, sp |-> sp,
                          op |-> op, txs |-> txs, topo |-> 0])

Next == ReceiveEvent

Spec == Init /\ [][Next]_vars

-----------------------------------------------------------------------------
TypeOK ==
    /\ DOMAIN events \subseteq 1..MaxEvents
    /\ \A h \in DOMAIN events :
         events[h] \in [creator : Participants, index : 0..(MaxEvents - 1), sp : Int, op : Int,
                        txs : BOOLEAN, topo : Nat]
    /\ topologicalIndex \in Nat
    /\ undeterminedEvents \in Seq(DOMAIN events)
    /\ pendingLoadedEvents \in Nat

(* ancestor() answers reachability along parent edges, and selfAncestor()  *)
(* reachability along self-parent edges, for every pair of known hashes,  *)
(* although ancestor prunes by Lamport timestamp and both decide          *)
(* same-creator pairs by comparing indices.  The index shortcut is sound   *)
(* only if every creator numbers its events as Core.AddSelfEvent does:     *)
(* InsertEvent never checks the wire index, so with a Faulty creator       *)
(* (PosetFaultyIndex.cfg) selfAncestor answers TRUE for a non-ancestor.    *)
AncestorIsReachability ==
    \A x, y \in G!Known :
        /\ G!Ancestor(x, y) = (y \in G!Reach(x))
        /\ G!SelfAncestor(x, y) = (y \in G!SelfChain(x))

(* stronglySee() (the MapSentinels walk) agrees with the whitepaper's      *)
(* definition: the events of x's ancestry that see y are created by a      *)
(* supermajority of participants.                                          *)
StronglySeeIsDefinition ==
    \A x, y \in G!Known : G!StronglySee(x, y) = G!RefStronglySee(x, y)
=============================================================================
