----------------------------- MODULE NodeStates -----------------------------
(***************************************************************************)
(* The node's two goroutine trackers side by side (src/src/node/           *)
(* peer_selector2.go): nodeState, on a sync.WaitGroup (NodeState.tla), and *)
(* nodeState2, on a wip counter and a sync.Cond (NodeState2.tla).  Each    *)
(* has its own caller and routines; a step is a step of one of them, and   *)
(* each keeps its own fairness.  One run asks of both implementations the  *)
(* question the node's shutdown depends on: does waitRoutines return, and  *)
(* only after the routines it covers are done.                             *)
(***************************************************************************)
EXTENDS Naturals

CONSTANTS Routines

VARIABLES
    wg, rpc, wpc, launched, state,              \* nodeState
    wip, condL, rpc2, wpc2, launched2, state2   \* nodeState2

WG  == INSTANCE NodeState
WIP == INSTANCE NodeState2 WITH rpc <- rpc2, wpc <- wpc2,
                                launched <- launched2, state <- state2

wgVars  == <<wg, rpc, wpc, launched, state>>
wipVars == <<wip, condL, rpc2, wpc2, launched2, state2>>
vars == <<wgVars, wipVars>>

Init == WG!Init /\ WIP!Init

Next == \/ WG!Next /\ UNCHANGED wipVars
        \/ WIP!Next /\ UNCHANGED wgVars

Spec == Init /\ [][Next]_vars /\ WG!Fairness /\ WIP!Fairness

-----------------------------------------------------------------------------
TypeOK == WG!TypeOK /\ WIP!TypeOK

(* nodeState: once waitRoutines returns, every routine goFunc started     *)
(* before it was called has finished: the WaitGroup's Add runs in the     *)
(* caller, before the goroutine exists.                                    *)
WaitCoversLaunched == WG!WaitCoversLaunched

(* nodeState: waitRoutines returns once Shutdown is set (every routine    *)
(* sees it, returns and calls Done).                                       *)
WaitTerminates == WG!WaitTerminates

(* nodeState2: waitRoutines returns: every routine's decrement is         *)
(* followed by a Broadcast under L, and the waiter re-reads wip after     *)
(* each wake-up, so no decrement is missed.                                *)
Wait2Terminates == WIP!WaitTerminates
=============================================================================
