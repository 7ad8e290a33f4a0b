-------------------------- MODULE PayloadLifecycle --------------------------
(***************************************************************************)
(* What the Core promises for the payloads it gossips: transactions a     *)
(* client submits and the block signatures a node's commit loop makes.    *)
(* An item is handed to one node and waits in that node's pool; the       *)
(* node's next self-event carries its whole pool, and an item once carried *)
(* stays in that one event.  No item is dropped, duplicated, or carried   *)
(* by another node's event.                                                *)
(*                                                                         *)
(* where[x] is Unhanded, <<"pool", c>> (waiting at node c) or             *)
(* <<"event", e>> (carried by event e).  Events are not enumerated: Carry  *)
(* only says that everything moved lands in one event created by c, so    *)
(* the module is checked as the property of a detailed specification.     *)
(***************************************************************************)
CONSTANTS Items, Nodes

VARIABLE where

Unhanded == <<"none">>
InPool(c) == <<"pool", c>>

Init == where = [x \in Items |-> Unhanded]

(* a client submits x to c, or c's commit loop signs the block x names *)
Hand(x, c) ==
    /\ where[x] = Unhanded
    /\ where' = [where EXCEPT ![x] = InPool(c)]

(* c creates a self-event carrying its whole pool *)
Carry(c) ==
    LET moved == {x \in Items : where[x] = InPool(c)}
    IN  /\ moved # {}
        /\ \A x \in Items \ moved : where'[x] = where[x]
        /\ \A x \in moved : where'[x][1] = "event" /\ where'[x][2][1] = c
        /\ \A x, y \in moved : where'[x] = where'[y]

Next == \/ \E x \in Items, c \in Nodes : Hand(x, c)
        \/ \E c \in Nodes : Carry(c)

Spec == Init /\ [][Next]_where
=============================================================================
