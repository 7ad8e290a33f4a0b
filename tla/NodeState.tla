----------------------------- MODULE NodeState -----------------------------
(***************************************************************************)
(* nodeState (src/src/node/peer_selector2.go, the node_state part): the    *)
(* node's goroutine tracker built on a sync.WaitGroup.  goFunc adds one to *)
(* the group in the caller and starts a goroutine that runs f and then     *)
(* calls Done; waitRoutines blocks in wg.Wait until the count is zero.     *)
(*                                                                         *)
(* The node state (Gossiping, CatchingUp, Shutdown) is a uint32 read and  *)
(* written atomically by getState/setState.  The caller is one thread     *)
(* (the node launching its loops and later shutting down): it calls       *)
(* goFunc for some routines, may switch between Gossiping and CatchingUp, *)
(* sets Shutdown and then calls waitRoutines (spec section 5: shutdown     *)
(* moves the node to Shutdown; the caller is not in the repository).  f   *)
(* is the body of a node loop: it returns once getState() is Shutdown.    *)
(***************************************************************************)
EXTENDS Naturals, FiniteSets

CONSTANTS Routines      \* the goroutines goFunc may start

\* type NodeState uint32: Gossiping (iota, the zero value), CatchingUp, Shutdown
States == {"Gossiping", "CatchingUp", "Shutdown"}

VARIABLES
    wg,         \* the WaitGroup counter
    rpc,        \* rpc[r]: "idle" (not started), "running", "returned" (f returned), "done"
    wpc,        \* the caller: "launching", "waiting" (in wg.Wait), "returned"
    launched,   \* the routines started before waitRoutines was called (history)
    state       \* b.state

vars == <<wg, rpc, wpc, launched, state>>

Init == /\ wg = 0
        /\ state = "Gossiping"
        /\ rpc = [r \in Routines |-> "idle"]
        /\ wpc = "launching"
        /\ launched = {}

(* goFunc with the caller's wg.Add(1) left out *)
GoFuncNoAdd(r) ==
    /\ wpc = "launching" /\ rpc[r] = "idle"
    /\ rpc' = [rpc EXCEPT ![r] = "running"]
    /\ UNCHANGED <<wg, wpc, launched, state>>

(* goFunc: wg.Add(1) in the caller, then the goroutine starts *)
GoFunc(r) ==
    /\ wpc = "launching" /\ rpc[r] = "idle"
    /\ wg' = wg + 1
    /\ rpc' = [rpc EXCEPT ![r] = "running"]
    /\ UNCHANGED <<wpc, launched, state>>

(* getState: atomic.LoadUint32 *)
GetState == state

(* setState: atomic.StoreUint32, by the caller before it waits *)
SetState(s) ==
    /\ wpc = "launching" /\ state # "Shutdown"
    /\ state' = s
    /\ UNCHANGED <<wg, rpc, wpc, launched>>

(* the goroutine body: f() returns once the node is shut down *)
RunF(r) ==
    /\ rpc[r] = "running" /\ GetState = "Shutdown"
    /\ rpc' = [rpc EXCEPT ![r] = "returned"]
    /\ UNCHANGED <<wg, wpc, launched, state>>

(* the deferred wg.Done() *)
DoneNoDecrement(r) ==
    /\ rpc[r] = "returned"
    /\ rpc' = [rpc EXCEPT ![r] = "done"]
    /\ UNCHANGED <<wg, wpc, launched, state>>

Done(r) ==
    /\ rpc[r] = "returned"
    /\ wg' = wg - 1
    /\ rpc' = [rpc EXCEPT ![r] = "done"]
    /\ UNCHANGED <<wpc, launched, state>>

(* waitRoutines: the caller enters wg.Wait ... *)
WaitRoutines ==
    /\ wpc = "launching" /\ state = "Shutdown"
    /\ wpc' = "waiting"
    /\ launched' = {r \in Routines : rpc[r] # "idle"}
    /\ UNCHANGED <<wg, rpc, state>>

(* ... and leaves it when the counter is zero *)
WaitReturn ==
    /\ wpc = "waiting" /\ wg = 0
    /\ wpc' = "returned"
    /\ UNCHANGED <<wg, rpc, launched, state>>

Next == \/ \E r \in Routines : GoFunc(r) \/ RunF(r) \/ Done(r)
        \/ \E s \in States : SetState(s)
        \/ WaitRoutines \/ WaitReturn

(* goroutines are scheduled and Wait wakes when the count reaches zero; the *)
(* caller itself may never call waitRoutines, so it is not fair           *)
Fairness == /\ \A r \in Routines : WF_vars(RunF(r)) /\ WF_vars(Done(r))
            /\ WF_vars(WaitReturn)

Spec == Init /\ [][Next]_vars /\ Fairness

TypeOK == /\ wg \in 0..Cardinality(Routines)
          /\ rpc \in [Routines -> {"idle", "running", "returned", "done"}]
          /\ wpc \in {"launching", "waiting", "returned"}
          /\ launched \subseteq Routines
          /\ state \in States

(* Shutdown relies on it: when waitRoutines returns, every goroutine that  *)
(* goFunc started before the call has finished.                            *)
WaitCoversLaunched == wpc = "returned" => \A r \in launched : rpc[r] = "done"

(* waitRoutines never blocks forever: once the caller waits, it returns.   *)
WaitTerminates == wpc = "waiting" ~> wpc = "returned"
=============================================================================
