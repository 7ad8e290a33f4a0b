---------------------------- MODULE LachesisProxy ----------------------------
(***************************************************************************)
(* The application-proxy boundary on the application's side:              *)
(*   - SocketLachesisProxyServer.CommitBlock, .GetSnapshot and .Restore    *)
(*     (src/src/proxy/lachesis/socket_lachesis_proxy_server.go): one RPC   *)
(*     handler per call sends the request with a fresh unbuffered respCh  *)
(*     on the unbuffered commitCh / snapshotRequestCh / restoreCh, then    *)
(*     selects                                                             *)
(*     between a reply on respCh and time.After(timeout);                  *)
(*   - the application's loop DummyInappClient.Run (the in-app dummy       *)
(*     client, src/src/peers/peer.go): it takes a Commit, a                *)
(*     SnapshotRequest or a RestoreRequest, applies the block              *)
(*     (state.CommitBlock), reads a snapshot (state.GetSnapshot) or        *)
(*     replaces its state by one (state.Restore), and answers with         *)
(*     Respond, a send on the request's respCh.                            *)
(* Two callers drive the server.  The engine commits blocks one at a time *)
(* and, as spec section 5 says, leaves a block uncommitted on timeout and  *)
(* commits it again on its next run; when it fast-forwards to a peer's    *)
(* block k it calls Restore with that block's snapshot instead, and goes  *)
(* on from block k+1 if the call succeeds.  The node answering a peer's   *)
(* fast-forward request asks for the snapshot of the last committed block. *)
(* Neither caller is under src/: both are spec-modelled.                   *)
(* A send on an unbuffered channel is one step with the receive that takes *)
(* it.                                                                     *)
(***************************************************************************)
EXTENDS Naturals, Sequences

CONSTANTS
    MaxBlocks,  \* blocks the engine has to commit
    MaxCalls    \* bound on RPC calls (retries included)

Calls == 1..MaxCalls
NoCall == 0

VARIABLES
    next,       \* the engine: index of the block it is committing
    ecall,      \* the engine's call in progress, or NoCall
    scall,      \* the snapshot requester's call in progress, or NoCall
    calls,      \* RPC calls made so far
    callKind,   \* callKind[c]: "commit", "snapshot" or "restore"
    callBlock,  \* callBlock[c]: the block (index) call c carries
    hpc,        \* hpc[c]: "none", "send" (blocked on the request channel), "await" (in the select), "ok", "timeout"
    apc,        \* the app loop: "recv", "apply", "respond"
    acall,      \* the call whose request the app loop holds
    applied     \* the blocks the app applied, in order

vars == <<next, ecall, scall, calls, callKind, callBlock, hpc, apc, acall, applied>>

Init == /\ next = 1
        /\ ecall = NoCall
        /\ scall = NoCall
        /\ calls = 0
        /\ callKind = [c \in Calls |-> "commit"]
        /\ callBlock = [c \in Calls |-> 0]
        /\ hpc = [c \in Calls |-> "none"]
        /\ apc = "recv"
        /\ acall = NoCall
        /\ applied = <<>>

\* a new RPC call, number calls+1, of the given kind for block b
NewCall(kind, b) ==
    /\ calls < MaxCalls
    /\ calls' = calls + 1
    /\ callKind' = [callKind EXCEPT ![calls + 1] = kind]
    /\ callBlock' = [callBlock EXCEPT ![calls + 1] = b]
    /\ hpc' = [hpc EXCEPT ![calls + 1] = "send"]

Returned(c) == hpc[c] \in {"ok", "timeout"}

(* the engine calls CommitBlock(block) *)
EngineCall ==
    /\ ecall = NoCall /\ next <= MaxBlocks
    /\ NewCall("commit", next)
    /\ ecall' = calls + 1
    /\ UNCHANGED <<next, scall, apc, acall, applied>>

(* the engine fast-forwards: Restore(the snapshot of a peer's block k) *)
EngineRestore ==
    /\ ecall = NoCall
    /\ \E k \in next..MaxBlocks : NewCall("restore", k)
    /\ ecall' = calls + 1
    /\ UNCHANGED <<next, scall, apc, acall, applied>>

(* the call returns: on success the engine moves to the next block (after *)
(* a Restore, the one after the snapshot's); on an error the block stays  *)
(* uncommitted and is committed again                                      *)
EngineReturn ==
    /\ ecall # NoCall /\ Returned(ecall)
    /\ next' = CASE hpc[ecall] # "ok"           -> next
                  [] callKind[ecall] = "restore" -> callBlock[ecall] + 1
                  [] OTHER                       -> next + 1
    /\ ecall' = NoCall
    /\ UNCHANGED <<scall, calls, callKind, callBlock, hpc, apc, acall, applied>>

(* the fast-forward responder calls GetSnapshot(index of the last block) *)
SnapshotCall ==
    /\ scall = NoCall /\ next > 1
    /\ NewCall("snapshot", next - 1)
    /\ scall' = calls + 1
    /\ UNCHANGED <<next, ecall, apc, acall, applied>>

SnapshotReturn ==
    /\ scall # NoCall /\ Returned(scall)
    /\ scall' = NoCall
    /\ UNCHANGED <<next, ecall, calls, callKind, callBlock, hpc, apc, acall, applied>>

(* p.commitCh <- Commit{...} (or p.snapshotRequestCh <- ...), taken by    *)
(* the app loop's select                                                  *)
SendRequest(c) ==
    /\ hpc[c] = "send" /\ apc = "recv"
    /\ hpc' = [hpc EXCEPT ![c] = "await"]
    /\ apc' = "apply"
    /\ acall' = c
    /\ UNCHANGED <<next, ecall, scall, calls, callKind, callBlock, applied>>

(* c.state.CommitBlock(commit.Block), c.state.GetSnapshot(index), or     *)
(* c.state.Restore(snapshot): the state becomes the snapshot's, that of   *)
(* blocks 1..k applied                                                     *)
Apply ==
    /\ apc = "apply"
    /\ applied' = CASE callKind[acall] = "commit"  -> Append(applied, callBlock[acall])
                     [] callKind[acall] = "restore" -> [i \in 1..callBlock[acall] |-> i]
                     [] OTHER                       -> applied
    /\ apc' = "respond"
    /\ UNCHANGED <<next, ecall, scall, calls, callKind, callBlock, hpc, acall>>

(* Respond: r.RespChan <- Response{...}; respCh is unbuffered, so the     *)
(* send completes only with the handler's `case resp := <-respCh`, while  *)
(* the handler is still in its select                                     *)
Respond ==
    /\ apc = "respond" /\ hpc[acall] = "await"
    /\ hpc' = [hpc EXCEPT ![acall] = "ok"]
    /\ apc' = "recv"
    /\ UNCHANGED <<next, ecall, scall, calls, callKind, callBlock, acall, applied>>

(* case <-time.After(p.timeout): err = "command timed out" *)
Timeout(c) ==
    /\ hpc[c] = "await"
    /\ hpc' = [hpc EXCEPT ![c] = "timeout"]
    /\ UNCHANGED <<next, ecall, scall, calls, callKind, callBlock, apc, acall, applied>>

(* The three RPC handlers of SocketLachesisProxyServer.  Each makes a    *)
(* fresh respCh, sends its request on its own channel (commitCh,          *)
(* snapshotRequestCh, restoreCh), then selects between the reply and the   *)
(* timer; the reply is taken in Respond.                                   *)
CommitBlock(c) ==
    /\ callKind[c] = "commit"
    /\ SendRequest(c) \/ Timeout(c)

GetSnapshot(c) ==
    /\ callKind[c] = "snapshot"
    /\ SendRequest(c) \/ Timeout(c)

Restore(c) ==
    /\ callKind[c] = "restore"
    /\ SendRequest(c) \/ Timeout(c)

Next == \/ EngineCall \/ EngineRestore \/ EngineReturn \/ SnapshotCall \/ SnapshotReturn
        \/ Apply \/ Respond
        \/ \E c \in Calls : CommitBlock(c) \/ GetSnapshot(c) \/ Restore(c)

(* goroutines that can run eventually do, and the engine keeps committing; *)
(* the timer may or may not fire before the reply, so Timeout is not fair, *)
(* and nobody is obliged to ask for a snapshot                             *)
Fairness == /\ WF_vars(EngineCall) /\ WF_vars(EngineReturn) /\ WF_vars(SnapshotReturn)
            /\ WF_vars(Apply) /\ WF_vars(Respond)
            /\ \A c \in Calls : WF_vars(SendRequest(c))

Spec == Init /\ [][Next]_vars /\ Fairness

-----------------------------------------------------------------------------
TypeOK == /\ next \in 1..MaxBlocks + 1
          /\ ecall \in {NoCall} \cup Calls /\ scall \in {NoCall} \cup Calls
          /\ calls \in 0..MaxCalls
          /\ callKind \in [Calls -> {"commit", "snapshot", "restore"}]
          /\ callBlock \in [Calls -> 0..MaxBlocks]
          /\ hpc \in [Calls -> {"none", "send", "await", "ok", "timeout"}]
          /\ apc \in {"recv", "apply", "respond"}
          /\ acall \in {NoCall} \cup Calls
          /\ applied \in Seq(1..MaxBlocks)

(* Every CommitBlock or GetSnapshot call returns, with the answer or an   *)
(* error: the per-call deadline of spec section 5.                         *)
CallsReturn == \A c \in Calls : hpc[c] = "send" ~> Returned(c)
=============================================================================
