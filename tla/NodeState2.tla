----------------------------- MODULE NodeState2 -----------------------------
(***************************************************************************)
(* nodeState2 (src/src/node/peer_selector2.go, the node_state2 part): the  *)
(* goroutine tracker built on a counter wip under an RWMutex and a         *)
(* sync.Cond whose lock L is a separate mutex.                             *)
(*                                                                         *)
(*   goFunc starts a goroutine that: locks, wip++, unlocks; runs f; locks, *)
(*   wip--, unlocks; then takes L, Broadcasts and releases L.              *)
(*   waitRoutines takes L, then loops: reads wip under RLock; if it is not *)
(*   zero it Waits on the Cond (which releases L and retakes it when       *)
(*   woken) and reads again; at zero it releases L and returns.            *)
(*                                                                         *)
(* The wip updates and the read are each one step (the RWMutex makes them *)
(* atomic).  The node state lives in the goroutine mtx, which serves       *)
(* getState and setState over unbuffered channels, so each call is one    *)
(* step with mtx's select.  The caller launches some routines, sets        *)
(* Shutdown and then calls waitRoutines, as nodeState's caller does        *)
(* (NodeState.tla); each routine returns once getState() is Shutdown.     *)
(***************************************************************************)
EXTENDS Naturals, FiniteSets

CONSTANTS Routines

States == {"Gossiping", "CatchingUp", "Shutdown"}
Free == "free"
Waiter == "waiter"

VARIABLES
    wip,        \* the counter of routines in progress
    condL,      \* holder of the Cond's lock L: Free or Waiter (a routine holds it only within its Broadcast step)
    rpc,        \* rpc[r]: "idle", "spawned", "running", "finished", "broadcast", "done"
    wpc,        \* the caller: "launching", "acquire", "check", "waiting", "reacquire", "returned"
    launched,   \* the routines goFunc started before waitRoutines was called
    state       \* s.state, owned by the mtx goroutine

vars == <<wip, condL, rpc, wpc, launched, state>>

Init == /\ wip = 0
        /\ state = "Gossiping"
        /\ condL = Free
        /\ rpc = [r \in Routines |-> "idle"]
        /\ wpc = "launching"
        /\ launched = {}

(* goFunc: `go func() {...}()`: the goroutine exists but has not run yet *)
GoFunc(r) ==
    /\ wpc = "launching" /\ rpc[r] = "idle"
    /\ rpc' = [rpc EXCEPT ![r] = "spawned"]
    /\ UNCHANGED <<wip, condL, wpc, launched, state>>

(* s.lock.Lock(); s.wip++; s.lock.Unlock() *)
Increment(r) ==
    /\ rpc[r] = "spawned"
    /\ wip' = wip + 1
    /\ rpc' = [rpc EXCEPT ![r] = "running"]
    /\ UNCHANGED <<condL, wpc, launched, state>>

(* getState: <-s.getStateChan, served by mtx's `case s.getStateChan <- s.state` *)
GetState == state

(* setState: s.setStateChan <- state, taken by mtx's `case s.state = <-s.setStateChan` *)
SetState(st) ==
    /\ wpc = "launching" /\ state # "Shutdown"
    /\ state' = st
    /\ UNCHANGED <<wip, condL, rpc, wpc, launched>>

(* fu() returns once the node is shut down *)
RunF(r) ==
    /\ rpc[r] = "running" /\ GetState = "Shutdown"
    /\ rpc' = [rpc EXCEPT ![r] = "finished"]
    /\ UNCHANGED <<wip, condL, wpc, launched, state>>

(* s.lock.Lock(); s.wip--; s.lock.Unlock() *)
DecrementAnyOrder(r) ==
    /\ rpc[r] \in {"spawned", "running", "finished"}
    /\ wip' = wip - 1
    /\ rpc' = [rpc EXCEPT ![r] = "broadcast"]
    /\ UNCHANGED <<condL, wpc, launched, state>>

Decrement(r) ==
    /\ rpc[r] = "finished"
    /\ wip' = wip - 1
    /\ rpc' = [rpc EXCEPT ![r] = "broadcast"]
    /\ UNCHANGED <<condL, wpc, launched, state>>

BroadcastNoWake(r) ==
    /\ rpc[r] = "broadcast" /\ condL = Free
    /\ rpc' = [rpc EXCEPT ![r] = "done"]
    /\ UNCHANGED <<wip, condL, wpc, launched, state>>

(* s.cond.L.Lock(); s.cond.Broadcast(); deferred Unlock: L is held only   *)
(* around the Broadcast, so the three are one step taken when L is free   *)
Broadcast(r) ==
    /\ rpc[r] = "broadcast" /\ condL = Free
    /\ wpc' = IF wpc = "waiting" THEN "reacquire" ELSE wpc
    /\ rpc' = [rpc EXCEPT ![r] = "done"]
    /\ UNCHANGED <<wip, condL, launched, state>>

(* waitRoutines is called: s.cond.L.Lock() is next *)
WaitRoutines ==
    /\ wpc = "launching" /\ state = "Shutdown"
    /\ wpc' = "acquire"
    /\ launched' = {r \in Routines : rpc[r] # "idle"}
    /\ UNCHANGED <<wip, condL, rpc, state>>

(* L.Lock(), first on entry and again when Wait returns *)
AcquireL ==
    /\ wpc \in {"acquire", "reacquire"} /\ condL = Free
    /\ condL' = Waiter
    /\ wpc' = "check"
    /\ UNCHANGED <<wip, rpc, launched, state>>

(* the loop body: wip != 0 -> cond.Wait() (releases L); else break and the *)
(* deferred L.Unlock()                                                     *)
Check ==
    /\ wpc = "check"
    /\ condL' = Free
    /\ wpc' = IF wip # 0 THEN "waiting" ELSE "returned"
    /\ UNCHANGED <<wip, rpc, launched, state>>

Next == \/ \E r \in Routines : \/ GoFunc(r) \/ Increment(r) \/ RunF(r)
                               \/ Decrement(r) \/ Broadcast(r)
        \/ \E st \in States : SetState(st)
        \/ WaitRoutines \/ AcquireL \/ Check

(* the Go scheduler runs every runnable goroutine; the caller is not       *)
(* obliged to launch anything or to call waitRoutines                      *)
Fairness == /\ \A r \in Routines : /\ WF_vars(Increment(r)) /\ WF_vars(RunF(r))
                                   /\ WF_vars(Decrement(r)) /\ WF_vars(Broadcast(r))
            /\ WF_vars(AcquireL) /\ WF_vars(Check)

Spec == Init /\ [][Next]_vars /\ Fairness

TypeOK == /\ wip \in 0..Cardinality(Routines)
          /\ condL \in {Free, Waiter}
          /\ rpc \in [Routines -> {"idle", "spawned", "running", "finished", "broadcast", "done"}]
          /\ wpc \in {"launching", "acquire", "check", "waiting", "reacquire", "returned"}
          /\ launched \subseteq Routines
          /\ state \in States

(* No lost wake-up: once waitRoutines is called it returns, whatever the  *)
(* order of the routines' decrements, broadcasts and the caller's reads.   *)
WaitTerminates == wpc = "acquire" ~> wpc = "returned"

(* As for nodeState: when waitRoutines returns, every goroutine goFunc     *)
(* started before the call has finished.                                   *)
WaitCoversLaunched == wpc = "returned" => \A r \in launched : rpc[r] = "done"
=============================================================================
