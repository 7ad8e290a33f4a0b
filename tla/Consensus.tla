------------------------------ MODULE Consensus ------------------------------
(***************************************************************************)
(* The consensus pipeline of every node (Core.RunConsensus after each      *)
(* Core.Sync), composed with the Gossip model of rounds.  A step is a sync *)
(* of c from d followed, under the same core lock, by the passes of        *)
(* RunConsensus on c: DivideRounds (rounds are assigned by Gossip; here    *)
(* the Lamport timestamps and the pending-rounds queue), DecideFame,       *)
(* DecideRoundReceived and ProcessDecidedRounds (with GetFrame).           *)
(*                                                                         *)
(* Each pass is an operator from the node's consensus state before it to   *)
(* the state after it, reading the node's Store as the sync left it.       *)
(***************************************************************************)
EXTENDS Integers, FiniteSets, Sequences, SequencesExt

CONSTANTS
    Participants,   \* participant ids
    MaxEvents,      \* bound: total number of events in the system
    ZeroMiddleByte  \* ids of the events whose hash has a zero middle byte

VARIABLES
    events, anc, head, rnd,   \* the Gossip model
    cs        \* participant -> its Poset's consensus state:
              \*   undet   undeterminedEvents (FIFO of ids)
              \*   lt      Lamport timestamp of each event DivideRounds processed
              \*   pending pendingRounds (FIFO of [index, decided])
              \*   queued  the rounds whose RoundInfo is marked queued
              \*   fame    decided fame of witnesses (RoundInfo.SetFame)
              \*   recv    roundReceived of consensus events
              \*   lcr     lastConsensusRound (Nil before the first)
              \*   cons    the Store's consensus events, in commit order

vars == <<events, anc, head, rnd, cs>>

Gs == INSTANCE Gossip

N == Cardinality(Participants)
SuperMajority == Gs!SuperMajority
Nil == -1
NoHash == Gs!NoHash

(***************************************************************************)
(* The pipeline reads one node's Store: the events with their ancestry,    *)
(* and the rounds that node assigned.  It is passed as a record            *)
(* s = [events, anc, r].                                                   *)
(***************************************************************************)
StoreOf(c) == [events |-> events, anc |-> anc, r |-> rnd[c]]

\* store.RoundWitnesses(k): the events of round k that are witnesses
Witnesses(s, k) ==
    {w \in DOMAIN s.r : s.r[w] = k /\ s.r[w] > Gs!SelfParentRound(s.r, s.events[w].sp)}

\* store.LastRound(): the highest round with a RoundInfo
LastRound(s) == LET rs == {s.r[x] : x \in DOMAIN s.r}
                IN  CHOOSE k \in rs : \A j \in rs : j <= k

\* see and stronglySee over the DAG (checked equal to the code's predicates
\* in the Poset model)
See(s, x, y) == y \in s.anc[x]
StronglySee(s, x, y) ==
    Cardinality({s.events[z].creator : z \in {w \in s.anc[x] : y \in s.anc[w]}})
        >= SuperMajority

\* middleBit(y.Hex())
MiddleBit(y) == y \notin ZeroMiddleByte

-----------------------------------------------------------------------------
(***************************************************************************)
(* InsertEvent of each event of the sync (addUndeterminedEvents), and      *)
(* DivideRounds over the undetermined events whose round is not set yet:   *)
(* the Lamport timestamp of each, and the pending-rounds queue, which      *)
(* receives a round the first time one of its events is processed unless  *)
(* it is below lastConsensusRound.  Events are handled in topological      *)
(* order (ids increase along every parent edge).                           *)
(***************************************************************************)
\* the elements of S as a sequence, ascending in the strict total order
\* Less (a set of pairs)
RECURSIVE SortedBy(_, _)
SortedBy(S, Less) ==
    IF S = {} THEN <<>>
    ELSE LET m == CHOOSE x \in S : \A y \in S \ {x} : <<x, y>> \in Less
         IN  <<m>> \o SortedBy(S \ {m}, Less)

IdOrder(S) == SortedBy(S, {<<a, b>> \in S \X S : a < b})

\* lamportTimestamp: one more than the parents' (a Root's is -1)
LamportOf(s, lt, x) ==
    LET ex == s.events[x]
    IN  IF ex.sp < 0 THEN 0
        ELSE 1 + (IF ex.op = NoHash \/ lt[ex.sp] >= lt[ex.op] THEN lt[ex.sp] ELSE lt[ex.op])

RECURSIVE DivideRoundsLoopNoQueued(_, _, _)
DivideRoundsLoopNoQueued(s, o, todo) ==
    IF todo = <<>> THEN o
    ELSE LET x == Head(todo)
             r == s.r[x]
             enqueue == r \notin o.queued /\ (o.lcr = Nil \/ r >= o.lcr)
         IN  DivideRoundsLoopNoQueued(s,
               [o EXCEPT !.lt = @ @@ (x :> LamportOf(s, @, x)),
                         !.pending = IF enqueue
                                     THEN Append(@, [index |-> r, decided |-> FALSE])
                                     ELSE @],
               Tail(todo))

RECURSIVE DivideRoundsLoop(_, _, _)
DivideRoundsLoop(s, o, todo) ==
    IF todo = <<>> THEN o
    ELSE LET x == Head(todo)
             r == s.r[x]
             enqueue == r \notin o.queued /\ (o.lcr = Nil \/ r >= o.lcr)
         IN  DivideRoundsLoop(s,
               [o EXCEPT !.lt = @ @@ (x :> LamportOf(s, @, x)),
                         !.pending = IF enqueue
                                     THEN Append(@, [index |-> r, decided |-> FALSE])
                                     ELSE @,
                         !.queued = IF enqueue THEN @ \cup {r} ELSE @],
               Tail(todo))

DivideRounds(s, o) ==
    LET new == IdOrder(DOMAIN s.r \ DOMAIN o.lt)
    IN  DivideRoundsLoop(s, [o EXCEPT !.undet = @ \o new], new)

-----------------------------------------------------------------------------
(***************************************************************************)
(* DecideFame.  vote(y, x) for a witness y of a later round: in the next   *)
(* round, whether y sees x; later, the majority of the votes of the        *)
(* previous round's witnesses that y strongly sees (ties vote yes), or     *)
(* the coin middleBit(y) in a coin round without a supermajority.          *)
(***************************************************************************)
SSWitnesses(s, y) == {w \in Witnesses(s, s.r[y] - 1) : StronglySee(s, y, w)}

RECURSIVE Vote(_, _, _)
Vote(s, y, x) ==
    LET diff == s.r[y] - s.r[x]
        ss   == SSWitnesses(s, y)
        yays == Cardinality({w \in ss : Vote(s, w, x)})
        nays == Cardinality(ss) - yays
        v    == yays >= nays
        t    == IF v THEN yays ELSE nays
    IN  IF diff = 1 THEN See(s, y, x)
        ELSE IF diff % N > 0 \/ t >= SuperMajority THEN v
        ELSE MiddleBit(y)

\* y decides x's fame: a normal round where the majority is a supermajority
Decides(s, y, x) ==
    LET diff == s.r[y] - s.r[x]
        ss   == SSWitnesses(s, y)
        yays == Cardinality({w \in ss : Vote(s, w, x)})
        nays == Cardinality(ss) - yays
    IN  /\ diff >= 2
        /\ diff % N > 0
        /\ (IF yays >= nays THEN yays ELSE nays) >= SuperMajority

(***************************************************************************)
(* The VoteLoop breaks at the first witness y, in the first round j after  *)
(* x's, that decides.  Two witnesses of one round cannot decide opposite   *)
(* ways (their supermajorities of round j-1 witnesses intersect), so any   *)
(* decider of that round gives the code's answer.                          *)
(***************************************************************************)
Deciders(s, x) ==
    LET rs == {j \in s.r[x] + 2 .. LastRound(s) :
                 \E y \in Witnesses(s, j) : Decides(s, y, x)}
    IN  IF rs = {} THEN {}
        ELSE LET j == CHOOSE k \in rs : \A i \in rs : k <= i
             IN  {y \in Witnesses(s, j) : Decides(s, y, x)}

\* RoundInfo.WitnessesDecided
WitnessesDecided(s, o, k) == Witnesses(s, k) \subseteq DOMAIN o.fame

PendingIndices(o) == {o.pending[p].index : p \in 1..Len(o.pending)}

\* DecideFame, then updatePendingRounds with the rounds now decided
DecideFame(s, o) ==
    LET toDecide == {x \in UNION {Witnesses(s, k) : k \in PendingIndices(o)} \ DOMAIN o.fame :
                       Deciders(s, x) # {}}
        fame == o.fame @@ [x \in toDecide |-> Vote(s, CHOOSE y \in Deciders(s, x) : TRUE, x)]
        decided == {k \in PendingIndices(o) : Witnesses(s, k) \subseteq DOMAIN fame}
    IN  [o EXCEPT !.fame = fame,
                  !.pending = [p \in 1..Len(@) |->
                                 IF @[p].index \in decided THEN [@[p] EXCEPT !.decided = TRUE]
                                 ELSE @[p]]]

-----------------------------------------------------------------------------
(***************************************************************************)
(* DecideRoundReceived: the first round after x's, scanning up while the   *)
(* rounds have all their witnesses decided, whose famous witnesses all see *)
(* x (and there is at least one).                                          *)
(***************************************************************************)
RECURSIVE ReceivedIn(_, _, _, _)
ReceivedIn(s, o, x, i) ==
    IF i > LastRound(s) \/ ~WitnessesDecided(s, o, i) THEN Nil
    ELSE LET fws == {w \in Witnesses(s, i) : o.fame[w]}
             sw  == {w \in fws : See(s, w, x)}
         IN  IF sw = fws /\ sw # {} THEN i ELSE ReceivedIn(s, o, x, i + 1)

DecideRoundReceived(s, o) ==
    LET rr(x) == ReceivedIn(s, o, x, s.r[x] + 1)
        received == {x \in Range(o.undet) : rr(x) # Nil}
    IN  [o EXCEPT !.recv = @ @@ [x \in received |-> rr(x)],
                  !.undet = SelectSeq(@, LAMBDA x : x \notin received)]

(***************************************************************************)
(* GetFrame(r): the consensus events of round r sorted ByLamportTimestamp; *)
(* ties are broken by the signature, a fixed order on events, modelled by  *)
(* the id.  ProcessDecidedRounds commits the decided rounds at the head of *)
(* the queue, in order, skipping the round equal to lastConsensusRound,    *)
(* and then (deferred) drops as many entries as it processed.             *)
(***************************************************************************)
FrameEvents(o, r) ==
    LET S == {x \in DOMAIN o.recv : o.recv[x] = r}
    IN  SortedBy(S, {<<a, b>> \in S \X S :
                       o.lt[a] < o.lt[b] \/ (o.lt[a] = o.lt[b] /\ a < b)})

RECURSIVE ProcessRounds(_, _, _)
ProcessRounds(o, k, processed) ==
    IF k > Len(o.pending) \/ ~o.pending[k].decided
    THEN [o EXCEPT !.pending = SubSeq(@, processed + 1, Len(@))]
    ELSE LET r == o.pending[k].index
         IN  IF o.lcr # Nil /\ r = o.lcr THEN ProcessRounds(o, k + 1, processed)
             ELSE ProcessRounds([o EXCEPT !.cons = @ \o FrameEvents(o, r),
                                          !.lcr = IF @ = Nil \/ r > @ THEN r ELSE @],
                                k + 1, processed + 1)

ProcessDecidedRounds(o) == ProcessRounds(o, 1, 0)

\* Core.RunConsensus (ProcessSigPool has no signatures to process here)
RunConsensus(s, o) ==
    ProcessDecidedRounds(DecideRoundReceived(s, DecideFame(s, DivideRounds(s, o))))

-----------------------------------------------------------------------------
InitState ==
    [undet |-> <<>>, lt |-> <<>>, pending |-> <<>>, queued |-> {},
     fame |-> <<>>, recv |-> <<>>, lcr |-> Nil, cons |-> <<>>]

\* each node starts from its first event, already through RunConsensus
Init ==
    /\ Gs!Init
    /\ cs = [c \in Participants |-> RunConsensus(StoreOf(c), InitState)]

\* node gossip: c syncs from d, then runs the consensus methods on the
\* Store as the sync left it (s is that Store, a value)
SyncAndRun(c, d) ==
    /\ Gs!Sync(c, d)
    /\ \E s \in {[events |-> events', anc |-> anc', r |-> rnd'[c]]} :
         cs' = [cs EXCEPT ![c] = RunConsensus(s, @)]

Next == \E c, d \in Participants : SyncAndRun(c, d)

Spec == Init /\ [][Next]_vars

-----------------------------------------------------------------------------
TypeOK ==
    /\ Gs!TypeOK
    /\ \A c \in Participants :
         /\ cs[c].undet \in Seq(Gs!Known(c))
         /\ DOMAIN cs[c].lt = Gs!Known(c)
         /\ cs[c].queued \subseteq Nat
         /\ \A p \in 1..Len(cs[c].pending) : cs[c].pending[p].index \in cs[c].queued
         /\ DOMAIN cs[c].fame \subseteq Gs!Known(c)
         /\ DOMAIN cs[c].recv \subseteq Gs!Known(c)
         /\ cs[c].lcr \in {Nil} \cup Nat
         /\ cs[c].cons \in Seq(DOMAIN cs[c].recv)

(* The gossip layer's round invariants (Gossip.tla), checked on the       *)
(* round-robin schedules of the consensus runs: two nodes assign the same  *)
(* round to every event both know, although the creator computes it from  *)
(* the merged flag table and every other node from the rewritten flag     *)
(* table and witness proof it receives.                                    *)
RoundAgreement == Gs!RoundAgreement

(* Spec invariant 5: evicting an event's round from the round cache and    *)
(* recomputing it with round2 from the stored event gives the cached round. *)
RoundStableUnderEviction == Gs!RoundStableUnderEviction

(* Virtual voting: two nodes that have both decided a witness's fame have *)
(* decided it the same way, although each DecideFame counted the votes of *)
(* the witnesses in its own view of the DAG.                               *)
FameAgreement ==
    \A i, j \in Participants : \A w \in DOMAIN cs[i].fame \cap DOMAIN cs[j].fame :
        cs[i].fame[w] = cs[j].fame[w]

ProcessedRoundsStayDecided ==
    \A c \in Participants :
        \A k \in cs[c].queued \ PendingIndices(cs[c]) : WitnessesDecided(StoreOf(c), cs[c], k)
=============================================================================
