-------------------------------- MODULE Core --------------------------------
(***************************************************************************)
(* The gossip step of a node's Core (src/node/core.go) over the event      *)
(* store, with what the round and consensus modules leave out: the         *)
(* transaction pool, the known-events map and EventDiff that decide what   *)
(* is sent, the wire format that carries parents as (creator, index)       *)
(* shortcuts (Poset.ReadWireInfo), the checks of Poset.InsertEvent, and    *)
(* Sync's error path, which stops at the first event that fails and keeps  *)
(* the ones inserted before it.  Blocks, their signatures and the          *)
(* signature pool, and FastForward: a node that is too far behind resets   *)
(* its store from a peer's anchor block and that block's frame.            *)
(*                                                                         *)
(* An event is named by <<creator, index, branch>>; an honest creator     *)
(* uses a new branch only if it signs a second event at an index it has   *)
(* used; a Byzantine creator signs two different first events (branches   *)
(* 1 and 2) and shows each peer one of them.  Its hash is injective in     *)
(* its body, so a rebuilt event has the sender's hash (and its signature   *)
(* verifies) exactly when ReadWireInfo resolved the same parents.  Each    *)
(* node starts with its own first event inserted, as the node does before  *)
(* gossiping (that code is not in the repository).  Flag tables, rounds    *)
(* and consensus are in Gossip and Consensus: here the frame of each block *)
(* lies between two cuts of the DAG, chosen by the first node to decide    *)
(* it, and every other node that decides the block has the same.           *)
(***************************************************************************)
EXTENDS Integers, Sequences, FiniteSets, SequencesExt, TLC

CONSTANTS
    Nodes,      \* participants
    Byzantine,  \* participants that equivocate on their first event
    Txs,        \* transactions clients may submit
    MaxIndex,   \* bound on the index of a node's events
    SyncLimit,  \* Config.SyncLimit
    NBlocks     \* bound on the blocks consensus produces (indices 0..NBlocks-1)

Honest == Nodes \ Byzantine
Branches == IF Byzantine = {} THEN {1} ELSE {1, 2}
Root(p) == <<p, -1, 0>>     \* rootSelfParent(p): the parent of its first event
NoParent == <<>>            \* the empty hash ""
Blocks == 0..NBlocks - 1
NoBlock == -1               \* anchorBlock == nil
\* trustCount := int(math.Ceil(float64(participants.Len()) / float64(3)))
TrustCount == (Cardinality(Nodes) + 2) \div 3

VARIABLES
    evs,        \* event -> [sp, op, txs, sigs]: the body its creator signed
    order,      \* order[c]: the events c's store holds, in topological order
    roots,      \* roots[c][p]: Root.SelfParent of p in c's store
    reset,      \* the nodes whose store a FastForward has reset (history)
    others,     \* others[c]: the Root.Others entries, <<child, other-parent>>
    head,       \* head[c]: Core.Head
    pool,       \* pool[c]: Core.transactionPool
    submitted,  \* the transactions handed to some node (history)
    syncErr,    \* syncErr[c]: the error of c's last Sync or FastForward, or "none"
    rejected,   \* rejected[c]: the event c's last Sync stopped at, or NoParent
    frames,     \* frames[b+1]: [lo, hi], the cuts (last index per participant) before and closing block b's frame
    blocks,     \* blocks[c]: LastBlockIndex + 1 of c's store
    commitQ,    \* commitQ[c]: the blocks on c's commit channel, not yet signed
    signed,     \* signed[c]: the blocks c's commit loop has signed
    bsigs,      \* bsigs[c][b]: the validators whose signature c's stored block b carries
    anchor,     \* anchor[c]: Poset.anchorBlock, or NoBlock
    sigPool,    \* sigPool[c]: Core.blockSignaturePool, <<validator, block>> in order
    psig        \* psig[c]: Poset.sigPool, the signatures of inserted events, in order

storeVars == <<order, roots, others, reset>>
sigVars == <<frames, blocks, commitQ, signed, bsigs, anchor, sigPool, psig>>
vars == <<evs, storeVars, head, pool, submitted, syncErr, rejected, sigVars>>

First(p, b) == <<p, 0, b>>

Init == /\ evs = [e \in {First(p, b) : p \in Honest, b \in {1}}
                        \cup {First(p, b) : p \in Byzantine, b \in Branches} |->
                    [sp |-> Root(e[1]), op |-> NoParent, txs |-> {}, sigs |-> <<>>]]
        /\ order = [c \in Honest |-> <<First(c, 1)>>]
        /\ roots = [c \in Honest |-> [p \in Nodes |-> Root(p)]]
        /\ others = [c \in Honest |-> {}]
        /\ reset = {}
        /\ head = [c \in Honest |-> First(c, 1)]
        /\ pool = [c \in Honest |-> {}]
        /\ submitted = {}
        /\ syncErr = [c \in Honest |-> "none"]
        /\ rejected = [c \in Honest |-> NoParent]
        /\ frames = <<>>
        /\ blocks = [c \in Honest |-> 0]
        /\ commitQ = [c \in Honest |-> <<>>]
        /\ signed = [c \in Honest |-> {}]
        /\ bsigs = [c \in Honest |-> [b \in Blocks |-> {}]]
        /\ anchor = [c \in Honest |-> NoBlock]
        /\ sigPool = [c \in Honest |-> <<>>]
        /\ psig = [c \in Honest |-> <<>>]

-----------------------------------------------------------------------------
(* c's store: its events in order, its roots and their Others *)
Store(c) == [ord |-> order[c], rt |-> roots[c], oth |-> others[c]]

(* Store.LastEventFrom: the creator's last inserted event, or its Root *)
LastFrom(S, p) ==
    LET own == SelectSeq(S.ord, LAMBDA e : e[1] = p)
    IN  IF own = <<>> THEN S.rt[p] ELSE own[Len(own)]

(* Core.KnownEvents: participant -> index of its last known event *)
KnownEvents(S) == [p \in Nodes |-> LastFrom(S, p)[2]]

(* Store.ParticipantEvent(p, i), as a set: empty when the key is found    *)
(* neither among the events nor as the Root's SelfParent                  *)
ParticipantEvent(S, p, i) ==
    {e \in Range(S.ord) : e[1] = p /\ e[2] = i}
      \cup (IF S.rt[p][2] = i THEN {S.rt[p]} ELSE {})

(* Core.EventDiff: the events of the sender with an index above what the  *)
(* receiver knows of their creator, sorted by the sender's topological    *)
(* index                                                                  *)
EventDiffAtKnown(dord, known) == SelectSeq(dord, LAMBDA e : e[2] >= known[e[1]])

EventDiff(dord, known) == SelectSeq(dord, LAMBDA e : e[2] > known[e[1]])

(* Core.OverSyncLimit: the sum over participants of how far the node's   *)
(* last known index is ahead of the peer's exceeds the limit; the         *)
(* responder sends the peer to FastForward instead of an EventDiff        *)
OverSyncLimitGe(S, known) ==
    LET mine == KnownEvents(S)
    IN  FoldFunction(LAMBDA x, y : x + y, 0,
                     [i \in Nodes |-> IF mine[i] > known[i] THEN mine[i] - known[i] ELSE 0])
          >= SyncLimit

OverSyncLimit(S, known) ==
    LET mine == KnownEvents(S)
    IN  FoldFunction(LAMBDA x, y : x + y, 0,
                     [i \in Nodes |-> IF mine[i] > known[i] THEN mine[i] - known[i] ELSE 0])
          > SyncLimit

(* Poset.ReadWireInfo: the parents rebuilt from the wire's index shortcuts *)
(* (self-parent index, other-parent creator and index); an other-parent   *)
(* the store lacks is looked for among the Others of the creator's Root,  *)
(* by creator and index; {} when a lookup fails                            *)
WireParents(S, e) ==
    LET sps == IF e[2] = 0 THEN {Root(e[1])} ELSE ParticipantEvent(S, e[1], e[2] - 1)
        op  == evs[e].op
        inStore == IF op = NoParent THEN {} ELSE ParticipantEvent(S, op[1], op[2])
        inRoot  == {x[2] : x \in {y \in S.oth : y[1][1] = e[1] /\ y[2][1] = op[1]
                                                  /\ y[2][2] = op[2]}}
        ops == CASE op = NoParent -> {NoParent}
                 [] inStore # {}  -> inStore
                 [] OTHER         -> inRoot
    IN  {<<s, o>> : s \in sps, o \in ops}

(* checkOtherParent: the other-parent is in the store, or the creator's    *)
(* Root maps this very event to it in Others                               *)
OtherParentKnown(S, e) ==
    \/ evs[e].op = NoParent
    \/ evs[e].op \in Range(S.ord)
    \/ <<e, evs[e].op>> \in S.oth

(* Poset.InsertEvent: checkSelfParent (the self-parent is the creator's    *)
(* last known event), checkOtherParent, then SetEvent                      *)
InsertEvent(S, e) ==
    CASE evs[e].sp # LastFrom(S, e[1]) -> [ord |-> S.ord, err |-> "selfparent"]
      [] ~OtherParentKnown(S, e)      -> [ord |-> S.ord, err |-> "otherparent"]
      [] OTHER                        -> [ord |-> Append(S.ord, e), err |-> "none"]

(* ReadWireInfo followed by InsertEvent: the rebuilt body must be the     *)
(* signed one for the signature to verify                                  *)
InsertWire(S, e) ==
    LET ps == WireParents(S, e)
        p  == CHOOSE x \in ps : TRUE
    IN  CASE ps = {}                          -> [ord |-> S.ord, err |-> "read"]
          [] p # <<evs[e].sp, evs[e].op>>     -> [ord |-> S.ord, err |-> "signature"]
          [] OTHER                            -> InsertEvent(S, e)

(* the insertion loop of Core.Sync: stop at the first error *)
RECURSIVE SyncInsert(_, _)
SyncInsert(S, ws) ==
    IF ws = <<>> THEN [ord |-> S.ord, err |-> "none", rej |-> NoParent]
    ELSE LET r == InsertWire(S, Head(ws))
         IN  IF r.err # "none" THEN [ord |-> S.ord, err |-> r.err, rej |-> Head(ws)]
             ELSE SyncInsert([S EXCEPT !.ord = r.ord], Tail(ws))

(***************************************************************************)
(* Core.AddSelfEvent(otherHead) on the store ord Sync left, with Head h   *)
(* (Core.InsertEvent moved it to each own event Sync inserted): nothing    *)
(* to do when there is no other-head and both pools are empty; otherwise   *)
(* both parents are read with GetEvent, which fails for "" and for a       *)
(* Root's hash (a Head SetHeadAndSeq left on the Root); else the new       *)
(* event on (h, otherHead) carries the pools and SignAndInsertSelfEvent    *)
(* inserts it, where checkSelfParent rejects a Head that is not c's last  *)
(* event; on success InsertEvent moves Head and the pools are emptied.     *)
(* Its index is Seq+1; it is a new event even if c signed one at that     *)
(* index before.                                                           *)
(***************************************************************************)
AddSelfEventKeepPool(c, ord, h, otherHead) ==
    LET i == h[2] + 1
        e == <<c, i, 1 + Cardinality({x \in DOMAIN evs : x[1] = c /\ x[2] = i})>>
        fail(err) == /\ order' = [order EXCEPT ![c] = ord]
                     /\ head' = [head EXCEPT ![c] = h]
                     /\ syncErr' = [syncErr EXCEPT ![c] = err]
                     /\ UNCHANGED <<evs, pool, sigPool>>
    IN  CASE otherHead = NoParent /\ pool[c] = {} /\ sigPool[c] = <<>> -> fail("none")
          [] otherHead = NoParent \/ h \notin Range(ord) -> fail("parent")
          [] h # LastFrom([ord |-> ord, rt |-> roots[c]], c) -> fail("selfparent")
          [] OTHER ->
               /\ evs' = evs @@ (e :> [sp |-> h, op |-> otherHead, txs |-> pool[c],
                                        sigs |-> sigPool[c]])
               /\ order' = [order EXCEPT ![c] = Append(ord, e)]
               /\ head' = [head EXCEPT ![c] = e]
               /\ UNCHANGED <<pool, sigPool>>
               /\ syncErr' = [syncErr EXCEPT ![c] = "none"]

AddSelfEvent(c, ord, h, otherHead) ==
    LET i == h[2] + 1
        e == <<c, i, 1 + Cardinality({x \in DOMAIN evs : x[1] = c /\ x[2] = i})>>
        fail(err) == /\ order' = [order EXCEPT ![c] = ord]
                     /\ head' = [head EXCEPT ![c] = h]
                     /\ syncErr' = [syncErr EXCEPT ![c] = err]
                     /\ UNCHANGED <<evs, pool, sigPool>>
    IN  CASE otherHead = NoParent /\ pool[c] = {} /\ sigPool[c] = <<>> -> fail("none")
          [] otherHead = NoParent \/ h \notin Range(ord) -> fail("parent")
          [] h # LastFrom([ord |-> ord, rt |-> roots[c]], c) -> fail("selfparent")
          [] OTHER ->
               /\ evs' = evs @@ (e :> [sp |-> h, op |-> otherHead, txs |-> pool[c],
                                        sigs |-> sigPool[c]])
               /\ order' = [order EXCEPT ![c] = Append(ord, e)]
               /\ head' = [head EXCEPT ![c] = e]
               /\ pool' = [pool EXCEPT ![c] = {}]
               /\ sigPool' = [sigPool EXCEPT ![c] = <<>>]
               /\ syncErr' = [syncErr EXCEPT ![c] = "none"]

-----------------------------------------------------------------------------
(* len(block.Signatures) > trustCount *)
(***************************************************************************)
(* Poset.ProcessSigPool: walk the pool with its position i (0-based in    *)
(* the code).  A signature for a block at or below the anchor is only      *)
(* marked processed; one whose block is not stored yet (GetBlock fails) is *)
(* skipped; otherwise it is attached (block.SetSignature, SetBlock), the   *)
(* block becomes the anchor once it carries more than trustCount           *)
(* signatures, and position i is marked processed.  Every validator is a   *)
(* participant and every signature a validator made verifies, so the      *)
(* unknown-validator and bad-signature branches never run.                 *)
(***************************************************************************)
(* len(block.Signatures) > trustCount *)
HasTrust(sigs) == Cardinality(sigs) > TrustCount

RECURSIVE SigLoop(_, _, _, _)
SigLoop(P, i, st, nb) ==
    IF i > Len(P) THEN st
    ELSE LET v == P[i][1]
             b == P[i][2]
             attached == st.bsigs[b] \cup {v}
         IN  CASE st.anchor # NoBlock /\ b <= st.anchor ->
                    SigLoop(P, i + 1, [st EXCEPT !.done = @ \cup {i - 1}], nb)
               [] b >= nb -> SigLoop(P, i + 1, st, nb)
               [] OTHER ->
                    SigLoop(P, i + 1,
                            [bsigs  |-> [st.bsigs EXCEPT ![b] = attached],
                             anchor |-> IF HasTrust(attached)
                                           /\ (st.anchor = NoBlock \/ b > st.anchor)
                                        THEN b ELSE st.anchor,
                             done   |-> st.done \cup {i - 1}], nb)

(* Poset.removeProcessedSignatures: keep the signatures whose bs.Index()   *)
(* is not a key of processedSignatures, whose keys are pool positions      *)
RemoveProcessedSignatures(P, done) == SelectSeq(P, LAMBDA x : x[2] \notin done)

(* ProcessSigPool on c's pool P, over c's blocks bs (LastBlockIndex nb-1)  *)
(* and anchor an: the last step of RunConsensus                            *)
ProcessSigPool(c, P, bs, an, nb) ==
    LET st == SigLoop(P, 1, [bsigs |-> bs, anchor |-> an, done |-> {}], nb)
    IN  /\ bsigs' = [bsigs EXCEPT ![c] = st.bsigs]
        /\ anchor' = [anchor EXCEPT ![c] = st.anchor]
        /\ psig' = [psig EXCEPT ![c] = RemoveProcessedSignatures(P, st.done)]

-----------------------------------------------------------------------------
(* the cut closing the frame of the block before b, or the roots *)
PrevFrameEnd(b) == IF b = 0 THEN [p \in Nodes |-> -1] ELSE frames[b].hi

(* the frame between two cuts carries a transaction *)
HasTransactions(S, lo, hi) ==
    \E e \in Range(S.ord) : lo[e[1]] < e[2] /\ e[2] <= hi[e[1]] /\ evs[e].txs # {}

(* a cut whose events include the other-parents of its events *)
AncestorClosed(S, k) ==
    \A e \in Range(S.ord) :
        e[2] <= k[e[1]] /\ evs[e].op # NoParent => evs[e].op[2] <= k[evs[e].op[1]]

(***************************************************************************)
(* Poset.ProcessDecidedRounds: the next block is built from the frame of   *)
(* a decided round and, when it carries transactions, stored (SetBlock)   *)
(* with no signature and put on the commit channel; rounds without        *)
(* transactions make no block.  The first node to decide the block picks  *)
(* its frame: the consensus events between two cuts, the first at or      *)
(* past the previous block's frame (the rounds between had no            *)
(* transactions); any other node decides it only once it holds the frame. *)
(***************************************************************************)
CreateBlock(c) ==
    /\ blocks[c] < NBlocks
    /\ LET b     == blocks[c]
           known == KnownEvents(Store(c))
       IN  IF b < Len(frames)
           THEN /\ \A p \in Nodes : known[p] >= frames[b + 1].hi[p]
                /\ UNCHANGED frames
           ELSE \E lo, hi \in [Nodes -> -1..MaxIndex] :
                  /\ \A p \in Nodes : PrevFrameEnd(b)[p] <= lo[p] /\ lo[p] <= hi[p]
                                               /\ hi[p] <= known[p]
                  /\ AncestorClosed(Store(c), lo) /\ AncestorClosed(Store(c), hi)
                  /\ HasTransactions(Store(c), lo, hi)
                  /\ frames' = Append(frames, [lo |-> lo, hi |-> hi])
    /\ blocks' = [blocks EXCEPT ![c] = @ + 1]
    /\ commitQ' = [commitQ EXCEPT ![c] = Append(@, blocks[c])]
    /\ UNCHANGED <<evs, storeVars, head, pool, submitted, syncErr, rejected,
                   signed, bsigs, anchor, sigPool, psig>>

(* Core.AddBlockSignature: append to blockSignaturePool *)
AddBlockSignature(c, bs) == sigPool' = [sigPool EXCEPT ![c] = Append(@, bs)]

(* The node's commit loop, once the app has committed the block:           *)
(* Core.SignBlock (block.Sign, SetSignature, store.SetBlock) and           *)
(* Core.AddBlockSignature, which appends to blockSignaturePool             *)
SignBlock(c) ==
    /\ commitQ[c] # <<>>
    /\ LET b == Head(commitQ[c])
       IN  /\ bsigs' = [bsigs EXCEPT ![c][b] = @ \cup {c}]
           /\ AddBlockSignature(c, <<c, b>>)
           /\ signed' = [signed EXCEPT ![c] = @ \cup {b}]
    /\ commitQ' = [commitQ EXCEPT ![c] = Tail(@)]
    /\ UNCHANGED <<evs, storeVars, head, pool, submitted, syncErr, rejected,
                   frames, blocks, anchor, psig>>

-----------------------------------------------------------------------------
(* GetFrame's treated loop: an event that is not its creator's first in   *)
(* the frame and whose other-parent is not earlier in the frame gets an   *)
(* Others entry in its creator's Root                                      *)
TreatedOthersInFrame(fevs) ==
    {<<e, evs[e].op>> : e \in {x \in Range(fevs) :
        /\ evs[x].op # NoParent /\ evs[x].op \in Range(fevs)
        /\ \E y \in Range(fevs) : y[1] = x[1] /\ y[2] < x[2]}}

TreatedOthers(fevs) ==
    {<<e, evs[e].op>> : e \in {x \in Range(fevs) :
        /\ evs[x].op # NoParent /\ evs[x].op \notin Range(fevs)
        /\ \E y \in Range(fevs) : y[1] = x[1] /\ y[2] < x[2]}}

(***************************************************************************)
(* Poset.GetFrame(roundReceived) at d for block b: the events of the      *)
(* frame, in d's topological order; for each participant with events in  *)
(* it, a Root from its first one (createRoot: its self-parent, and its    *)
(* other-parent in Others); for one without, a Root from its last         *)
(* consensus event (whose self-parent becomes the Root's SelfParent), or   *)
(* d's current Root when it has none; then the treated loop.               *)
(***************************************************************************)
GetFrame(d, b) ==
    LET S    == Store(d)
        lo   == frames[b + 1].lo
        hi   == frames[b + 1].hi
        fevs == SelectSeq(S.ord, LAMBDA e : lo[e[1]] < e[2] /\ e[2] <= hi[e[1]])
        firstOf(p) == CHOOSE e \in Range(fevs) : e[1] = p /\ e[2] = lo[p] + 1
        present  == {p \in Nodes : hi[p] > lo[p]}
        lastCons == {p \in Nodes \ present : \E e \in Range(S.ord) : e[1] = p /\ e[2] = lo[p]}
        lce(p)   == CHOOSE e \in Range(S.ord) : e[1] = p /\ e[2] = lo[p]
        rootEv(e) == IF evs[e].op = NoParent THEN {} ELSE {<<e, evs[e].op>>}
    IN  [events |-> fevs,
         roots  |-> [p \in Nodes |-> CASE p \in present  -> evs[firstOf(p)].sp
                                       [] p \in lastCons -> evs[lce(p)].sp
                                       [] OTHER          -> S.rt[p]],
         others |-> UNION {rootEv(firstOf(p)) : p \in present}
                      \cup UNION {rootEv(lce(p)) : p \in lastCons}
                      \cup {x \in S.oth : x[1][1] \in Nodes \ (present \cup lastCons)}
                      \cup TreatedOthers(fevs)]

(* Reset's re-insertion of the frame's events: InsertEvent(ev, false), no *)
(* wire read; stop at the first error                                      *)
RECURSIVE ResetInsert(_, _)
ResetInsert(S, es) ==
    IF es = <<>> THEN [ord |-> S.ord, err |-> "none"]
    ELSE LET r == InsertEvent(S, Head(es))
         IN  IF r.err # "none" THEN [ord |-> S.ord, err |-> "reset"]
             ELSE ResetInsert([S EXCEPT !.ord = r.ord], Tail(es))


(* store.Reset(rootMap): the store is emptied down to the frame's roots *)
ResetStore(c, F) == [ord |-> <<>>, rt |-> F.roots, oth |-> F.others]

(* Core.SetHeadAndSeq: Head is the last event of c in the store, or its  *)
(* Root's SelfParent when it has none (Seq is that event's index)          *)
SetHeadAndSeq(S, c) == LastFrom(S, c)

(* Poset.GetAnchorBlockWithFrame at d, once it has an anchor: the anchor   *)
(* block and the frame of its round                                        *)
GetAnchorBlockWithFrame(d) == [block |-> anchor[d], frame |-> GetFrame(d, anchor[d])]

(* Poset.CheckBlock: valid signatures from MORE than trustCount validators *)
CheckBlock(sigs) == Cardinality(sigs) > TrustCount

(***************************************************************************)
(* c, told by a peer that it is past the sync limit, fast-forwards from   *)
(* d: d's GetAnchorBlockWithFrame (an error when d has no anchor), then   *)
(* Core.FastForward: CheckBlock (more than trustCount valid signatures),  *)
(* the frame hash (d is honest, so it matches), Poset.Reset (clear the    *)
(* anchor, replace the roots, store the block, re-insert the frame's      *)
(* events), SetHeadAndSeq (Head and Seq from the last event of c, or its  *)
(* Root) and RunConsensus.  Reset's error returns at once: the store is   *)
(* left as the failed insertion left it and Head is not moved.  The pools *)
(* and Poset.sigPool are not touched by Reset.                             *)
(***************************************************************************)
FastForward(c, d) ==
    /\ c # d
    /\ \E r \in Honest \ {c} : OverSyncLimit(Store(r), KnownEvents(Store(c)))
    /\ anchor[d] # NoBlock
    /\ LET b  == GetAnchorBlockWithFrame(d).block
           F  == GetAnchorBlockWithFrame(d).frame
           S0 == ResetStore(c, F)
           r  == ResetInsert(S0, F.events)
           bs == [bsigs[c] EXCEPT ![b] = bsigs[d][b]]
           nb == IF blocks[c] > b THEN blocks[c] ELSE b + 1
       IN  /\ CheckBlock(bsigs[d][b])
           /\ order' = [order EXCEPT ![c] = r.ord]
           /\ roots' = [roots EXCEPT ![c] = F.roots]
           /\ others' = [others EXCEPT ![c] = F.others]
           /\ reset' = reset \cup {c}
           /\ blocks' = [blocks EXCEPT ![c] = nb]
           /\ syncErr' = [syncErr EXCEPT ![c] = r.err]
           /\ IF r.err = "none"
              THEN /\ head' = [head EXCEPT ![c] = SetHeadAndSeq([S0 EXCEPT !.ord = r.ord], c)]
                   /\ ProcessSigPool(c, psig[c], bs, NoBlock, nb)
              ELSE /\ bsigs' = [bsigs EXCEPT ![c] = bs]
                   /\ anchor' = [anchor EXCEPT ![c] = NoBlock]
                   /\ UNCHANGED <<head, psig>>
    /\ UNCHANGED <<evs, pool, submitted, rejected, frames, commitQ, signed, sigPool>>

-----------------------------------------------------------------------------
(* proxy SubmitTx -> the node's submit channel -> Core.AddTransactions *)
AddTransactions(c, t) ==
    /\ t \notin submitted
    /\ pool' = [pool EXCEPT ![c] = @ \cup {t}]
    /\ submitted' = submitted \cup {t}
    /\ UNCHANGED <<evs, storeVars, head, syncErr, rejected, sigVars>>

(* What a peer answers to c's known map: an honest peer its EventDiff, a   *)
(* Byzantine one its first event, on the branch it chooses for c           *)
Served(d) == IF d \in Byzantine THEN {<<First(d, b)>> : b \in Branches}
             ELSE {order[d]}

(* Core.InsertEvent, once per event Sync inserts: an event c created      *)
(* moves Head (and Seq) to it, any other leaves Head alone                *)
HeadAfterInserts(c, ins, h) ==
    LET own == SelectSeq(ins, LAMBDA e : e[1] = c)
    IN  IF own = <<>> THEN h ELSE own[Len(own)]

(***************************************************************************)
(* c pulls from d: d computes EventDiff(c.KnownEvents()), c runs           *)
(* Core.Sync on it: inserts the events in order (an own event moves       *)
(* Head), stopping at an error,                                            *)
(* each insert appending the event's block signatures to Poset.sigPool;   *)
(* if all went in, AddSelfEvent with the last one as other-head ("" when  *)
(* there were none), then RunConsensus, whose last step is                *)
(* ProcessSigPool.  The engine lock serialises the whole call.            *)
(***************************************************************************)
Sync(c, d) ==
    /\ c # d /\ head[c][2] < MaxIndex
    /\ \E dord \in Served(d) :
         LET ws  == EventDiff(dord, KnownEvents(Store(c)))
             r   == SyncInsert(Store(c), ws)
             h   == HeadAfterInserts(c, SubSeq(r.ord, Len(order[c]) + 1, Len(r.ord)), head[c])
         IN  /\ rejected' = [rejected EXCEPT ![c] = r.rej]
             /\ IF r.err # "none"
                THEN /\ order' = [order EXCEPT ![c] = r.ord]
                     /\ head' = [head EXCEPT ![c] = h]
                     /\ syncErr' = [syncErr EXCEPT ![c] = r.err]
                     /\ UNCHANGED <<evs, pool, sigPool>>
                ELSE AddSelfEvent(c, r.ord, h, IF ws = <<>> THEN NoParent ELSE ws[Len(ws)])
    /\ LET new == SubSeq(order'[c], Len(order[c]) + 1, Len(order'[c]))
           P   == psig[c] \o FlattenSeq([k \in DOMAIN new |-> evs'[new[k]].sigs])
       IN  IF syncErr'[c] = "none" THEN ProcessSigPool(c, P, bsigs[c], anchor[c], blocks[c])
           ELSE /\ psig' = [psig EXCEPT ![c] = P]
                /\ UNCHANGED <<bsigs, anchor>>
    /\ UNCHANGED <<submitted, roots, others, reset, frames, blocks, commitQ, signed>>

Next == \E c \in Honest :
          \/ \E t \in Txs : AddTransactions(c, t)
          \/ \E d \in Nodes : Sync(c, d)
          \/ CreateBlock(c)
          \/ SignBlock(c)
          \/ \E d \in Honest : FastForward(c, d)

Spec == Init /\ [][Next]_vars

-----------------------------------------------------------------------------
TypeOK == /\ \A e \in DOMAIN evs : e[1] \in Nodes /\ e[2] \in 0..MaxIndex
                                   /\ evs[e].txs \subseteq Txs
          /\ \A c \in Honest : Range(order[c]) \subseteq DOMAIN evs
          /\ head \in [Honest -> DOMAIN evs \cup {Root(p) : p \in Nodes}]
          /\ pool \in [Honest -> SUBSET Txs]
          /\ reset \subseteq Honest
          /\ submitted \subseteq Txs
          /\ syncErr \in [Honest -> {"none", "read", "signature", "selfparent",
                                      "otherparent", "parent", "reset"}]
          /\ blocks \in [Honest -> 0..NBlocks] /\ signed \in [Honest -> SUBSET Blocks]
          /\ bsigs \in [Honest -> [Blocks -> SUBSET Nodes]]
          /\ anchor \in [Honest -> Blocks \cup {NoBlock}]
          /\ \A c \in Honest : Range(sigPool[c]) \cup Range(psig[c]) \subseteq Nodes \X Blocks

(* The payloads Core gossips: transactions and the honest nodes' block   *)
(* signatures <<validator, block>>                                         *)
PayloadItems == Txs \cup (Honest \X (0..NBlocks - 1))

(* The refinement mapping: where a payload is, by the copies of it in the *)
(* transaction pools, the signature pools and the events' payloads; an    *)
(* item with more than one copy maps to a value the abstract spec never   *)
(* reaches.                                                                *)
Where(x) ==
    LET pools  == {c \in Honest : x \in pool[c] \/ x \in Range(sigPool[c])}
        events == {e \in DOMAIN evs : x \in evs[e].txs \/ x \in Range(evs[e].sigs)}
        copies == Cardinality({c \in Honest : x \in pool[c]})
                  + Cardinality(UNION {{<<c, i>> : i \in {k \in DOMAIN sigPool[c] : sigPool[c][k] = x}}
                                      : c \in Honest})
                  + Cardinality(events)
    IN  CASE copies = 0                 -> <<"none">>
          [] copies = 1 /\ pools # {}  -> <<"pool", CHOOSE c \in pools : TRUE>>
          [] copies = 1                 -> <<"event", CHOOSE e \in events : TRUE>>
          [] OTHER                      -> <<"copies">>

Payload == INSTANCE PayloadLifecycle
               WITH Items <- PayloadItems, Nodes <- Honest,
                    where <- [x \in PayloadItems |-> Where(x)]

(* Core implements PayloadLifecycle: a transaction AddTransactions takes,  *)
(* and a signature SignBlock/AddBlockSignature puts in the pool, waits in  *)
(* that node's pool through failed Syncs, FastForward and AddSelfEvent's   *)
(* early returns, until the node's next self-event takes both pools whole; *)
(* it then stays in that one event, never copied, dropped or re-pooled.    *)
PayloadLifecycleSpec == Payload!Spec

(* An honest node never signs two events at the same index: its events   *)
(* form one self-parent chain, whatever Sync and FastForward did to its   *)
(* store and Head.                                                         *)
NoHonestFork ==
    \A e1, e2 \in DOMAIN evs :
        e1[1] \in Honest /\ e1[1] = e2[1] /\ e1[2] = e2[2] => e1 = e2

(* no honest node's Sync has rejected an event an honest node created *)
OnlyByzantineRejected ==
    \A c \in Honest : rejected[c] = NoParent \/ rejected[c][1] \in Byzantine

(* no honest store has been reset by a FastForward *)
NoReset == reset = {}

(* Spec section 7: validation rejects only an offending event.  While no  *)
(* honest node has forked or fast-forwarded, an event an honest node       *)
(* created is never rejected by another honest node's Sync: EventDiff and  *)
(* the known map send exactly what the receiver lacks, in an order whose   *)
(* parents come first.                                                     *)
HonestEventsAccepted == NoHonestFork /\ NoReset => OnlyByzantineRejected

(* The same after a FastForward: a reset store still serves every parent   *)
(* of the events it sends.  GetFrame gives a participant with no events in *)
(* the frame a Root below its last consensus event (createRoot takes the   *)
(* event's self-parent), and that event is not in the frame, so the reset  *)
(* store lacks it while still sending events whose other-parent it is.     *)
ResetStoreServesParents == NoHonestFork => OnlyByzantineRejected

(* The responder's OverSyncLimit test, computed from the two known maps,  *)
(* says "too far behind" exactly when the EventDiff it would otherwise     *)
(* send holds more than SyncLimit events, for any two honest nodes, while  *)
(* no honest node has forked, when the responder's store still starts at   *)
(* the initial roots (after a Reset the known map counts events below the  *)
(* new roots that the store no longer holds).                              *)
OverSyncLimitCountsDiff ==
    NoHonestFork => \A c, d \in Honest :
        roots[d] = [p \in Nodes |-> Root(p)] =>
        OverSyncLimit(Store(d), KnownEvents(Store(c)))
          <=> Len(EventDiff(order[d], KnownEvents(Store(c)))) > SyncLimit

(* The comments of Core.Sync and AddSelfEvent: a Sync that brings no new   *)
(* events still creates a self-event "with self head and empty other      *)
(* parent" when the transaction pool is not empty; it never fails on       *)
(* retrieving a parent.                                                    *)
AddSelfEventSucceeds == \A c \in Honest : syncErr[c] # "parent"

(* Spec section 4.7: Reset re-inserts every frame event with              *)
(* setWireInfo = false, "parents are already consistent with the roots":   *)
(* GetFrame's Roots and Others let each one pass checkSelfParent and       *)
(* checkOtherParent, so FastForward never fails in Reset.                  *)
ResetInsertsFrame == \A c \in Honest : syncErr[c] # "reset"

(* The block signatures c has received: those of the events in its store *)
Received(c) == UNION {Range(evs[e].sigs) : e \in Range(order[c])}

(* Spec section 3: Poset.sigPool entries "are removed on successful        *)
(* attachment to a block" (or when the block is at or below the anchor).  *)
(* After every RunConsensus the pool holds exactly the received            *)
(* signatures that are neither attached to c's stored block nor at or     *)
(* below its anchor: ProcessSigPool followed by removeProcessedSignatures  *)
(* neither drops one it skipped nor keeps one it attached.                 *)
SigPoolSwept ==
    \A c \in Honest :
        Range(psig[c]) = {x \in Received(c) :
                            /\ ~(x[2] < blocks[c] /\ x[1] \in bsigs[c][x[2]])
                            /\ (anchor[c] = NoBlock \/ x[2] > anchor[c])}

(* No received signature is dropped unattached: each is still in           *)
(* Poset.sigPool, attached to c's stored block, or at or below the anchor. *)
SigsNeverLost ==
    \A c \in Honest : \A x \in Received(c) :
        \/ x \in Range(psig[c])
        \/ x[2] < blocks[c] /\ x[1] \in bsigs[c][x[2]]
        \/ anchor[c] # NoBlock /\ x[2] <= anchor[c]
=============================================================================
