------------------------------ MODULE MCCorLoad -----------------------------
(***************************************************************************)
(* CorService for TLC under one of several loads, since all of them        *)
(* together have too many states: several workers in one place, with       *)
(* clients that send whole requests, one after the other, and close; or a  *)
(* single worker and two places, with clients that send refused requests   *)
(* and either time out, also half way through a request, or reset.         *)
(***************************************************************************)
EXTENDS CorService, TLC

Symmetry == Permutations(Conns) \cup Permutations(Workers)

\* The workers that were started and the behaviours of Env that occur.
VARIABLE load

Loads ==
    {[workers |-> Workers, env |-> {"fin"}]}
      \cup [workers : {{w} : w \in Workers},
            env : {{"split", "bad", "time"}, {"bad", "rst"}}]

\* What the behaviours that do not occur would leave behind.
OnlyLoad ==
    \A c \in Conns :
        /\ "fin" \notin load.env => peer'[c].state # "fin"
        /\ "rst" \notin load.env => peer'[c].state # "rst"
        /\ "time" \notin load.env => conn'[c].age = 0
        /\ "split" \notin load.env => ~peer'[c].half
        /\ "bad" \notin load.env => peer'[c].state # "mute"

\* A single worker: no client begins a second request.
OneRequest == \A c \in Conns : \A i \in DOMAIN peer'[c].inbox : peer'[c].inbox[i].id = 1

\* Several workers: one place, one event at a time, and a second request of one
\* client only.
OnePlace ==
    /\ \A p \in Places : p > 1 => u_conn'[p] = NoConn
    /\ \A w \in Workers : Len(batch'[w]) <= 1
    /\ \A c, d \in Conns : c # d /\ peer'[c].sent > 1 => peer'[d].sent <= 1

Bounds ==
    /\ IF Cardinality(load.workers) = 1 THEN OneRequest ELSE OnePlace
    /\ OnlyLoad /\ UNCHANGED load

LoadInit == Init /\ load \in Loads

LoadNext ==
    \/ Main /\ Bounds
    \/ \E w \in load.workers : Worker(w) /\ Bounds
    \/ World /\ Bounds

LoadSpec == LoadInit /\ [][LoadNext]_<<vars, load>>

=============================================================================
