---------------------------- MODULE MCCorService ----------------------------
(***************************************************************************)
(* CorService for TLC.                                                     *)
(*                                                                         *)
(* A routine is resumed for a connection that it does not serve any more   *)
(* after some seventy steps of three workers, too deep for all the orders  *)
(* of those steps.  LateEventSpec takes some of them only: what it reaches *)
(* the server reaches.                                                     *)
(***************************************************************************)
EXTENDS CorService, TLC

Symmetry == Permutations(Conns) \cup Permutations(Workers)

\* The main thread waits for a client, and none is waiting for it.
MainIdle == mpc = "accept" /\ backlog = <<>>

\* All the clients have connected.
AllConnected == \A c \in Conns : peer[c].state # "new"

\* The main thread takes its steps before anybody else, the clients connect
\* before they send, and accept does not time out.
MainFirst ==
    /\ ~MainIdle => Main
    /\ ~AllConnected => Main \/ \E c \in Conns : peer[c].state = "new" /\ peer'[c].state # "new"
    /\ ~(mpc = "accept" /\ mpc' = "dump")

\* A worker takes the lock of a place when no other is past its lock.
OneHandler ==
    (\E w \in Workers : wpc[w] \notin {"wait", "lock"}) =>
        \A w \in Workers : wpc[w] = "lock" => wpc'[w] = "lock"

\* A client sends its first request when the others that did are closed.
OneClientAtATime ==
    \A c, d \in Conns :
        c # d /\ peer'[c].sent > 0 /\ peer[d].sent > 0 => ~conn[c].valid \/ ~conn[d].valid

LateEventSpec == Init /\ [][Next /\ MainFirst /\ OneHandler /\ OneClientAtATime]_vars

=============================================================================
