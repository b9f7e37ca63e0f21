----------------------------- MODULE PlacePool ------------------------------
(***************************************************************************)
(* What the pool of places promises (connections_, closed_, timeod_ of     *)
(* HttpService): a connection that has been accepted is put into one free  *)
(* place, stays there until it is closed, and never comes back.  How a     *)
(* place becomes free (a worker, a time-out) and how a free one is found   *)
(* (a new node, the queue closed_) is the business of HttpService.         *)
(***************************************************************************)
EXTENDS Integers

CONSTANTS Conns, Places, NoConn

VARIABLES
    slot,       \* place -> the open connection in it, or NoConn
    waiting     \* connections that have not been in a place yet

poolvars == <<slot, waiting>>

Init ==
    /\ slot = [p \in Places |-> NoConn]
    /\ waiting = Conns

Occupy(c, p) ==
    /\ c \in waiting /\ slot[p] = NoConn
    /\ slot' = [slot EXCEPT ![p] = c]
    /\ waiting' = waiting \ {c}

Vacate(p) ==
    /\ slot[p] # NoConn
    /\ slot' = [slot EXCEPT ![p] = NoConn]
    /\ UNCHANGED waiting

Next == \E p \in Places : Vacate(p) \/ \E c \in Conns : Occupy(c, p)

Spec == Init /\ [][Next]_poolvars

=============================================================================
