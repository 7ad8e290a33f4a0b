------------------------------- MODULE Gossip -------------------------------
(***************************************************************************)
(* Round assignment across nodes.  Every participant runs a Core over its  *)
(* own Poset; a gossip exchange from node d to node c is Core.Sync on c:   *)
(* c inserts the events of d it does not know, creates a self-event on     *)
(* (c's head, d's head) in AddSelfEvent, and then runs DivideRounds, which *)
(* assigns each new event a round and, if c's new head is a witness,       *)
(* rewrites the head's flag table and witness proof.  Those rewritten      *)
(* fields are what later travel on the wire (Event.ToWire) and what every  *)
(* other node feeds into round2.                                           *)
(*                                                                         *)
(* Each node's round for a known event is kept in rnd[i]: it is the value  *)
(* DivideRounds stored (Event.round, the round cache and the RoundInfo     *)
(* witness lists all hold it).  Reachability is kept in anc (ancestor()    *)
(* is checked equal to it in the Poset model).  Hashes are ids as in       *)
(* PosetGraph: RootHash(c) = -c, NoHash = 0.                               *)
(***************************************************************************)
EXTENDS Integers, FiniteSets, TLC

CONSTANTS
    Participants,   \* participant ids
    MaxEvents       \* bound: total number of events in the system

SuperMajority == (2 * Cardinality(Participants)) \div 3 + 1
NoHash == 0
RootHash(c) == -c

VARIABLES
    events,   \* id -> [creator, index, sp, op, ft, wp]: an event as it is on the wire
    anc,      \* id -> the ids of its ancestors, itself included
    head,     \* participant -> id of its Core.Head
    rnd       \* participant -> (id of each event it knows -> the round it assigned)

vars == <<events, anc, head, rnd>>

Known(i) == DOMAIN rnd[i]

NextRoundOfSelfParent(c) == -1

\* NewBaseRoot: a fresh Root's NextRound, the round of the creator's first event
NextRound(c) == 0

\* round(sp) where the self-parent may be the Root (Root.SelfParent.Round = -1)
SelfParentRound(r, s) == IF s < 0 THEN -1 ELSE r[s]

IsWitnessGe(r, w) == r[w] >= SelfParentRound(r, events[w].sp)

\* witness(w): round(w) > round(w.selfParent)
IsWitness(r, w) == r[w] > SelfParentRound(r, events[w].sp)

\* store.RoundWitnesses(k) as seen from an event with strict ancestry A:
\* round2 only counts witnesses w # x that x sees
RoundWitnesses(r, A, k) == {w \in A : r[w] = k /\ IsWitness(r, w)}

(***************************************************************************)
(* round2(x) for an event ex with strict ancestry A, flag table ft and     *)
(* witness proof wp, given the rounds r of its ancestors.  The first event *)
(* of a creator sits on its Root with no other-parent and gets             *)
(* Root.NextRound = 0.                                                     *)
(***************************************************************************)
Round2(r, ex, A) ==
    IF ex.sp < 0 /\ ex.op = NoHash THEN NextRound(ex.creator)
    ELSE LET spRound == SelfParentRound(r, ex.sp)
             hasOp   == ex.op # NoHash
             opRound == IF hasOp THEN r[ex.op] ELSE -1
             jump    == hasOp /\ opRound > spRound
             seeOpRoundRoots == Cardinality(ex.ft \cap RoundWitnesses(r, A, opRound))
             parentRound == IF jump THEN opRound ELSE spRound
             ws == RoundWitnesses(r, A, parentRound)
             Proves(S) == Cardinality(S) >= SuperMajority
                          /\ Cardinality(S \cap ws) >= SuperMajority
         IN  IF jump /\ seeOpRoundRoots >= SuperMajority THEN opRound + 1
             ELSE IF jump /\ seeOpRoundRoots > 0 THEN opRound
             ELSE IF Proves(ex.wp) THEN parentRound + 1
             ELSE IF Proves(ex.ft) THEN parentRound + 1
             ELSE parentRound

\* AddSelfEvent: the new event's flag table is the union of its parents'
MergedFlagTable(sp, op) == events[sp].ft \cup events[op].ft

(***************************************************************************)
(* DivideRounds on the node's own head when it is a witness: the flag      *)
(* table becomes the witnesses of its round (the head was added to the     *)
(* RoundInfo just before, so it is one of them) and the witness proof the  *)
(* witnesses of the round before, or the Root for round 0.                 *)
(***************************************************************************)
HeadWitnessProofSameRound(c, r, A, round) ==
    IF round = 0 THEN {RootHash(c)} ELSE RoundWitnesses(r, A, round)

ReplaceFlagTable(r, A, e, round) == RoundWitnesses(r, A, round) \cup {e}

HeadWitnessProof(c, r, A, round) ==
    IF round = 0 THEN {RootHash(c)} ELSE RoundWitnesses(r, A, round - 1)

\* DivideRounds over a batch of inserted events, in topological order
RECURSIVE AssignRounds(_, _)
AssignRounds(r, todo) ==
    IF todo = {} THEN r
    ELSE LET x == CHOOSE y \in todo : \A z \in todo : y <= z
         IN  AssignRounds(r @@ (x :> Round2(r, events[x], anc[x] \ {x})), todo \ {x})

(***************************************************************************)
(* Initial state: each participant's first event on its Root, already      *)
(* through DivideRounds as the node's head: a round-0 witness whose flag   *)
(* table holds itself and whose witness proof is its Root.                 *)
(***************************************************************************)
Init ==
    LET e0(c) == CHOOSE k \in 1..Cardinality(Participants) :
                   k = Cardinality({p \in Participants : p <= c})
    IN  /\ events = [k \in 1..Cardinality(Participants) |->
                      LET c == CHOOSE p \in Participants : e0(p) = k
                      IN  [creator |-> c, index |-> 0, sp |-> RootHash(c), op |-> NoHash,
                           ft |-> {k}, wp |-> {RootHash(c)}]]
        /\ anc = [k \in 1..Cardinality(Participants) |-> {k}]
        /\ head = [c \in Participants |-> e0(c)]
        /\ rnd = [c \in Participants |-> (e0(c) :> NextRound(c))]

(***************************************************************************)
(* c pulls from d (node gossip, Core.Sync) and runs the consensus          *)
(* pipeline's DivideRounds.  The events of d unknown to c are inserted in  *)
(* topological order; the last of them is d's head and becomes the        *)
(* other-parent of c's new event.  When c already knows d's head there is  *)
(* nothing to insert and AddSelfEvent("") records nothing.                 *)
(***************************************************************************)
Sync(c, d) ==
    LET new    == Known(d) \ Known(c)
        r1     == AssignRounds(rnd[c], new)
        e      == Cardinality(DOMAIN events) + 1
        sp     == head[c]
        op     == head[d]
        origFt == MergedFlagTable(sp, op)
        A      == anc[sp] \cup anc[op]
        re     == Round2(r1, [creator |-> c, index |-> events[sp].index + 1,
                             sp |-> sp, op |-> op, ft |-> origFt, wp |-> {}], A)
        wit    == re > r1[sp]
        ft     == IF wit THEN ReplaceFlagTable(r1, A, e, re) ELSE origFt
        wp     == IF wit THEN HeadWitnessProof(c, r1, A, re) ELSE {}
    IN  /\ c # d
        /\ op \notin Known(c)
        /\ e <= MaxEvents
        /\ events' = events @@ (e :> [creator |-> c, index |-> events[sp].index + 1,
                                       sp |-> sp, op |-> op, ft |-> ft, wp |-> wp])
        /\ anc' = anc @@ (e :> A \cup {e})
        /\ head' = [head EXCEPT ![c] = e]
        /\ rnd' = [rnd EXCEPT ![c] = r1 @@ (e :> re)]

Next == \E c, d \in Participants : Sync(c, d)

Spec == Init /\ [][Next]_vars

-----------------------------------------------------------------------------
TypeOK ==
    /\ DOMAIN events \subseteq 1..MaxEvents
    /\ \A x \in DOMAIN events :
         /\ events[x].creator \in Participants
         /\ events[x].ft \subseteq DOMAIN events
         /\ anc[x] \subseteq DOMAIN events
    /\ head \in [Participants -> DOMAIN events]
    /\ \A i \in Participants : Known(i) = anc[head[i]]
                               /\ rnd[i] \in [Known(i) -> Nat]

(* Two nodes assign the same round to every event both know: the round a   *)
(* creator computes for its own event from the merged flag table (before   *)
(* DivideRounds rewrites it) agrees with the round every other node        *)
(* computes from the rewritten flag table and witness proof it receives.  *)
RoundAgreement ==
    \A i, j \in Participants : \A x \in Known(i) \cap Known(j) :
        rnd[i][x] = rnd[j][x]

(* Spec invariant 5: the round cache (an LRU in front of round2) only       *)
(* memoises.  If a node evicts an event's round and recomputes it from the  *)
(* event it stored (whose flag table and witness proof DivideRounds may     *)
(* have rewritten after the round was cached), it gets the round it had.   *)
RoundStableUnderEviction ==
    \A i \in Participants : \A x \in Known(i) :
        Round2(rnd[i], events[x], anc[x] \ {x}) = rnd[i][x]

-----------------------------------------------------------------------------
(***************************************************************************)
(* The whitepaper's round: one more than the parents' maximum round r when *)
(* the event strongly sees a supermajority of the round-r witnesses.       *)
(***************************************************************************)
RefStronglySee(x, w) ==
    Cardinality({events[z].creator : z \in {y \in anc[x] : w \in anc[y]}}) >= SuperMajority

RECURSIVE WhitepaperRound(_)
WhitepaperRound(x) ==
    IF events[x].sp < 0 THEN 0
    ELSE LET a == WhitepaperRound(events[x].sp)
             b == WhitepaperRound(events[x].op)
             pr == IF a > b THEN a ELSE b
             W == {w \in anc[x] \ {x} :
                     /\ WhitepaperRound(w) = pr
                     /\ events[w].sp < 0 \/ WhitepaperRound(events[w].sp) < pr}
         IN  IF Cardinality({w \in W : RefStronglySee(x, w)}) >= SuperMajority
             THEN pr + 1 ELSE pr

(* Spec section 9: the witness-proof / flag-table rule of round2 never     *)
(* puts an event in a later round than the whitepaper's strongly-see rule. *)
RoundNotAheadOfWhitepaper ==
    \A i \in Participants : \A x \in Known(i) : rnd[i][x] <= WhitepaperRound(x)
=============================================================================
