------------------------------- MODULE Tester -------------------------------
(***************************************************************************)
(* The transaction generator PingNodesN (src/tester/tester.go): n times,   *)
(* add one to a WaitGroup, pick a participant at random, submit one        *)
(* transaction to it through a SocketLachesisProxyClient (transact), which *)
(* succeeds or returns an error, print the outcome with the last id of a   *)
(* UniqueID counter, and sleep; then wait on the WaitGroup.                *)
(* The prints and the sleep are left out; the counter is kept because      *)
(* every print calls Get, which increments it.                             *)
(***************************************************************************)
EXTENDS Naturals

CONSTANTS
    Participants,   \* the participants passed in
    N               \* n, the number of transactions to send

VARIABLES
    i,          \* the loop index
    wg,         \* the WaitGroup counter
    txId,       \* UniqueID.counter
    delivered,  \* participant -> transactions it acknowledged
    tpc         \* "loop", "wait" (in wg.Wait), "done" (returned)

vars == <<i, wg, txId, delivered, tpc>>

Init == /\ i = 0
        /\ wg = 0
        /\ txId = 1                 \* UniqueID{counter: 1}
        /\ delivered = [p \in Participants |-> 0]
        /\ tpc = "loop"

(* UniqueID.Get: a compare-and-swap loop; PingNodesN is its only caller,  *)
(* so the first CAS succeeds: return the value and increment it            *)
Get == txId' = txId + 1

(* transact: a SocketLachesisProxyClient's SubmitTx to p; the node takes  *)
(* the transaction, or the call fails, or p answers ack = false, which    *)
(* transact drops, so the tester counts it as pinged                       *)
Transact(p) ==
    \/ delivered' = [delivered EXCEPT ![p] = @ + 1]
    \/ UNCHANGED delivered

(* one iteration: wg.Add(1); participant := participants[rand.Intn(...)]; *)
(* transact(...) -> SubmitTx, acknowledged or failed; print (one Get)      *)
Ping ==
    /\ tpc = "loop" /\ i < N
    /\ wg' = wg + 1
    /\ \E p \in Participants : Transact(p)
    /\ Get
    /\ i' = i + 1
    /\ UNCHANGED tpc

(* the loop ends; "Pinging stopped"; wg.Wait() *)
StopPinging ==
    /\ tpc = "loop" /\ i = N
    /\ tpc' = "wait"
    /\ UNCHANGED <<i, wg, txId, delivered>>

WaitReturn ==
    /\ tpc = "wait" /\ wg = 0
    /\ tpc' = "done"
    /\ UNCHANGED <<i, wg, txId, delivered>>

Next == Ping \/ StopPinging \/ WaitReturn

(* one goroutine: its next statement runs (the sleeps end, wg.Wait returns *)
(* once the counter is zero)                                               *)
Spec == Init /\ [][Next]_vars /\ WF_vars(Next)

TypeOK == /\ i \in 0..N /\ wg \in 0..N /\ txId \in 1..N + 1
          /\ delivered \in [Participants -> 0..N]
          /\ tpc \in {"loop", "wait", "done"}

(* PingNodesN returns after sending its n transactions: its final wg.Wait *)
(* is released, as for every WaitGroup whose Adds are matched by Dones.    *)
PingNodesReturns == <>(tpc = "done")
====
