------------------------------ MODULE HttpCore ------------------------------
(***************************************************************************)
(* What HttpService and its worker threads share (6.http): the places of   *)
(* connections_, the queue closed_ of reusable places, the time ordered    *)
(* list timeod_, the connections themselves, the kernel's epoll instance   *)
(* and sockets, and the clients.  Also the main thread, HttpService::run:  *)
(* accept, place the connection, register it, dump the timed-out ones.     *)
(* The worker threads are in module HttpService.                           *)
(*                                                                         *)
(* A connection object is identified with the socket it owns: an element   *)
(* of Conns is accepted at most once.  A place is a node of connections_   *)
(* (net::ConnectionAndData); nodes are created in the order 1, 2, ... and  *)
(* never removed.  timeout_mutex_ is held for one step of the model each   *)
(* time it is taken, so it needs no variable; closing_mutex_ is held by    *)
(* the main thread from "replace" to "splice" and for one step elsewhere.  *)
(***************************************************************************)
EXTENDS Integers, Sequences, FiniteSets, SequencesExt

CONSTANTS
    Workers,        \* the threads of workers_
    Conns,          \* the connections clients may open
    NumPlaces,      \* bound on the nodes of connections_
    NoConn,         \* no connection: a place not created yet
    NoWorker,       \* holder of a free mutex
    ConnTimeo,      \* conn_timeo, in ticks
    KaTimeo,        \* ka_conn_timeo, in ticks
    MaxRequests,    \* bound on the requests of one client
    RespLen,        \* length of a response, in units
    Window,         \* units the kernel buffers for a client that does not read
    MaxEvents,      \* events_queue_size_ of the epoll instance
    Env             \* which of the behaviours EnvBehaviours the world shows

EnvBehaviours ==
    { "split",      \* requests may arrive in two pieces
      "bad",        \* clients may send what the parser refuses
      "pipeline",   \* clients may send a request before the last response
      "fin",        \* clients may close their sending side
      "rst",        \* clients may reset, or close with the answer on its way
      "time",       \* time passes
      "accept",     \* accept4 may fail, for want of descriptors or memory
      "shutdown" }  \* another thread may call HttpService::close

ASSUME ConstantsAssumption ==
    /\ NumPlaces \in Nat \ {0}
    /\ NoConn \notin Conns
    /\ NoWorker \notin Workers
    /\ ConnTimeo \in Nat /\ KaTimeo \in Nat
    /\ MaxRequests \in Nat
    /\ RespLen \in Nat \ {0} /\ Window \in Nat \ {0}
    /\ MaxEvents \in Nat \ {0}
    /\ Env \subseteq EnvBehaviours

Places == 1..NumPlaces

VARIABLES
    mpc,                \* control of the main thread
    mcur,               \* its p_place
    mnew,               \* the connection it has accepted
    serverOpen,         \* server_.socket().valid()
    u_conn,             \* place -> connection
    connection_mutex,   \* place -> worker holding it
    closed,             \* closed_
    timeod,             \* timeod_; timeout_iter of p is valid iff p is in it
    conn,               \* connection -> fields of HttpConnection
    epoll,              \* connection -> its registration in the kernel
    backlog,            \* connections waiting for accept4
    peer,               \* connection -> client and socket buffers
    crash               \* "none", or how the process died

mainVars == <<mpc, mcur, mnew>>
poolVars == <<u_conn, connection_mutex, closed, timeod>>
netVars  == <<backlog, peer>>
coreVars == <<mainVars, serverOpen, poolVars, conn, epoll, netVars, crash>>

-----------------------------------------------------------------------------
(* The data.                                                               *)

Option == {"READ", "WRITE", "ET_ONESHOT"}   \* net::OPTION as a set of bits
Bits   == {"READ", "WRITE"}                 \* EPOLLIN, EPOLLOUT

\* Bytes a client sends at once: a whole request, its first part cut at a
\* line end or in the body, the rest, or something Request::parse refuses.
Chunk == [kind : {"whole", "part", "rest", "bad"},
          id : 1..MaxRequests, ka : BOOLEAN]

MaxAge == IF KaTimeo > ConnTimeo THEN KaTimeo + 1 ELSE ConnTimeo + 1

MainPcs == {"loop", "accept", "replace", "splice", "emplace", "setopt", "add",
            "dump", "expire", "pop", "join", "threw"}

\* How the process can die: an exception leaves a thread function, or there is
\* undefined behaviour, after which nothing is known (the last three: in
\* 7.cor).
Crashes == {"terminate", "dangling_iterator", "use_after_free",
            "no_current_routine", "foreign_context", "foreign_routine"}

ConnFields == [valid : BOOLEAN, option : SUBSET Option, keep_alive : BOOLEAN,
               age : 0..MaxAge, read : Seq(Chunk), write : Seq(1..MaxRequests)]

Registration == [added : BOOLEAN, armed : SUBSET Bits]

PeerFields == [state : {"new", "open", "mute", "fin", "rst"}, sent : 0..MaxRequests,
               half : BOOLEAN, ka : BOOLEAN, inbox : Seq(Chunk),
               wire : Seq(1..MaxRequests), got : Seq(1..MaxRequests)]

\* HttpConnection's constructor, with the ITimed base; before it runs.
BlankConn(valid) == [valid |-> valid, option |-> {}, keep_alive |-> FALSE,
                     age |-> 0, read |-> <<>>, write |-> <<>>]
FreshConn == BlankConn(TRUE)
Unborn == BlankConn(FALSE)

NotAdded == [added |-> FALSE, armed |-> {}]

CoreInit ==
    /\ mpc = "loop" /\ mcur = 1 /\ mnew = NoConn /\ serverOpen = TRUE
    /\ u_conn = [p \in Places |-> NoConn]
    /\ connection_mutex = [p \in Places |-> NoWorker]
    /\ closed = <<>> /\ timeod = <<>>
    /\ conn = [c \in Conns |-> Unborn]
    /\ epoll = [c \in Conns |-> NotAdded]
    /\ backlog = <<>>
    /\ peer = [c \in Conns |-> [state |-> "new", sent |-> 0, half |-> FALSE,
                                ka |-> TRUE, inbox |-> <<>>, wire |-> <<>>, got |-> <<>>]]
    /\ crash = "none"

-----------------------------------------------------------------------------
(* Helpers.                                                                *)

\* list::splice(end, list, iter): p, which is in s, becomes its last element.
MoveToBack(s, p) ==
    Append(RemoveAt(s, CHOOSE i \in DOMAIN s : s[i] = p), p)

\* ITimed::is_timed_out with the limit close_if_timed_out picks.
TimedOut(c) == conn[c].age > IF conn[c].keep_alive THEN KaTimeo ELSE ConnTimeo

\* The main thread holds closing_mutex_ between the replacement and the splice.
ClosingFree == mpc # "splice"

\* HttpConnection::close: option reset, socket closed, registration gone.
Closed(c) == [conn EXCEPT ![c].valid = FALSE, ![c].option = {"ET_ONESHOT"}]
Deregistered(c) == [epoll EXCEPT ![c] = NotAdded]

\* Places whose connection is open.
Live == {p \in Places : u_conn[p] # NoConn /\ conn[u_conn[p]].valid}

\* HttpService::connections_size, nodes of connections_ minus closed_.
connections_size == Cardinality({p \in Places : u_conn[p] # NoConn}) - Len(closed)

-----------------------------------------------------------------------------
(* The main thread: HttpService::run.                                      *)

\* The test of the while loop; run ends by joining workers that never return.
RunLoop ==
    /\ mpc = "loop"
    /\ mpc' = IF serverOpen THEN "accept" ELSE "join"
    /\ UNCHANGED <<mcur, mnew, serverOpen, poolVars, conn, epoll, netVars, crash>>

\* accept_non_block returns a connection.
Accept ==
    /\ mpc = "accept" /\ backlog # <<>>
    /\ mnew' = Head(backlog)
    /\ backlog' = Tail(backlog)
    /\ mpc' = "replace"
    /\ UNCHANGED <<mcur, serverOpen, poolVars, conn, epoll, peer, crash>>

\* SO_RCVTIMEO expires: TimeOutError, caught in run.
AcceptTimeout ==
    /\ mpc = "accept" /\ backlog = <<>>
    /\ mpc' = "dump"
    /\ UNCHANGED <<mcur, mnew, serverOpen, poolVars, conn, epoll, netVars, crash>>

\* accept4 fails, with EBADF if close() came between the test of the loop and
\* the call: a tcp::Error, which run does not catch.
AcceptThrows ==
    /\ mpc = "accept" /\ (~serverOpen \/ "accept" \in Env)
    /\ mpc' = "threw"
    /\ UNCHANGED <<mcur, mnew, serverOpen, poolVars, conn, epoll, netVars, crash>>

\* try_replace_closed_with_new_conn, up to closed_.pop(): the old connection
\* object dies, without connection_mutex.  No closed place: emplace_connection
\* goes on to create one.
TryReplace ==
    /\ mpc = "replace"
    /\ \/ /\ closed = <<>>
          /\ mpc' = "emplace"
          /\ UNCHANGED <<mcur, u_conn, closed, conn>>
       \/ /\ closed # <<>>
          /\ mcur' = Head(closed)
          /\ closed' = Tail(closed)
          /\ u_conn' = [u_conn EXCEPT ![Head(closed)] = mnew]
          /\ conn' = [conn EXCEPT ![mnew] = FreshConn]
          /\ mpc' = "splice"
    /\ UNCHANGED <<mnew, serverOpen, connection_mutex, timeod, epoll, netVars, crash>>

\* The rest of it, under timeout_mutex_: splicing the iterator of a place that
\* is not in the list any more is undefined.
Splice ==
    /\ mpc = "splice"
    /\ IF timeod = <<>>
       THEN timeod' = <<mcur>> /\ crash' = crash
       ELSE IF mcur \in ToSet(timeod)
            THEN timeod' = MoveToBack(timeod, mcur) /\ crash' = crash
            ELSE crash' = "dangling_iterator" /\ timeod' = timeod
    /\ mpc' = "setopt"
    /\ UNCHANGED <<mcur, mnew, serverOpen, u_conn, connection_mutex, closed, conn,
                   epoll, netVars>>

\* Mutant: the new node is not put into timeod_.
Emplace_NotTimed ==
    /\ mpc = "emplace"
    /\ \E p \in Places :
          /\ u_conn[p] = NoConn
          /\ \A q \in 1..(p - 1) : u_conn[q] # NoConn
          /\ u_conn' = [u_conn EXCEPT ![p] = mnew]
          /\ conn' = [conn EXCEPT ![mnew] = FreshConn]
          /\ mcur' = p
    /\ mpc' = "setopt"
    /\ UNCHANGED <<mnew, serverOpen, connection_mutex, closed, timeod, epoll, netVars, crash>>

\* emplace_connection's second half: a new node of connections_.
Emplace ==
    /\ mpc = "emplace"
    /\ \E p \in Places :
          /\ u_conn[p] = NoConn
          /\ \A q \in 1..(p - 1) : u_conn[q] # NoConn
          /\ u_conn' = [u_conn EXCEPT ![p] = mnew]
          /\ conn' = [conn EXCEPT ![mnew] = FreshConn]
          /\ timeod' = Append(timeod, p)
          /\ mcur' = p
    /\ mpc' = "setopt"
    /\ UNCHANGED <<mnew, serverOpen, connection_mutex, closed, epoll, netVars, crash>>

\* client_opt = READ + ET_ONESHOT, written without any lock.
SetOption ==
    /\ mpc = "setopt"
    /\ conn' = [conn EXCEPT ![u_conn[mcur]].option = {"READ", "ET_ONESHOT"}]
    /\ mpc' = "add"
    /\ UNCHANGED <<mcur, mnew, serverOpen, poolVars, epoll, netVars, crash>>

\* epoll_.add; on a socket closed meanwhile it throws EPollError, caught in run.
EpollAdd ==
    /\ mpc = "add"
    /\ LET c == u_conn[mcur]
       IN  epoll' = IF conn[c].valid
                    THEN [epoll EXCEPT ![c] = [added |-> TRUE,
                                               armed |-> conn[c].option \ {"ET_ONESHOT"}]]
                    ELSE epoll
    /\ mpc' = "dump" /\ mnew' = NoConn
    /\ UNCHANGED <<mcur, serverOpen, poolVars, conn, netVars, crash>>

\* dump_timed_out_connections: look at the front under timeout_mutex_.
DumpFront ==
    /\ mpc = "dump"
    /\ IF timeod = <<>>
       THEN mpc' = "loop" /\ mcur' = mcur
       ELSE mpc' = "expire" /\ mcur' = Head(timeod)
    /\ UNCHANGED <<mnew, serverOpen, poolVars, conn, epoll, netVars, crash>>

\* Mutant: connection_mutex is not taken.
CloseIfTimedOut_NoMutex ==
    /\ mpc = "expire"
    /\ LET c == u_conn[mcur]
       IN  IF conn[c].valid /\ TimedOut(c)
           THEN /\ conn' = Closed(c)
                /\ epoll' = Deregistered(c)
                /\ closed' = Append(closed, mcur)
                /\ mpc' = "pop"
           ELSE mpc' = "loop" /\ UNCHANGED <<conn, epoll, closed>>
    /\ UNCHANGED <<mcur, mnew, serverOpen, u_conn, connection_mutex, timeod, netVars, crash>>

\* Mutant: socket().valid() is not tested.
CloseIfTimedOut_NoCheck ==
    /\ mpc = "expire"
    /\ connection_mutex[mcur] = NoWorker
    /\ LET c == u_conn[mcur]
       IN  IF TimedOut(c)
           THEN /\ conn' = Closed(c)
                /\ epoll' = Deregistered(c)
                /\ closed' = Append(closed, mcur)
                /\ mpc' = "pop"
           ELSE mpc' = "loop" /\ UNCHANGED <<conn, epoll, closed>>
    /\ UNCHANGED <<mcur, mnew, serverOpen, u_conn, connection_mutex, timeod, netVars, crash>>

\* Mutant: the place does not go to closed_.
CloseIfTimedOut_NoPush ==
    /\ mpc = "expire"
    /\ connection_mutex[mcur] = NoWorker
    /\ LET c == u_conn[mcur]
       IN  IF conn[c].valid /\ TimedOut(c)
           THEN /\ conn' = Closed(c)
                /\ epoll' = Deregistered(c)
                /\ closed' = closed
                /\ mpc' = "pop"
           ELSE mpc' = "loop" /\ UNCHANGED <<conn, epoll, closed>>
    /\ UNCHANGED <<mcur, mnew, serverOpen, u_conn, connection_mutex, timeod, netVars, crash>>

\* close_if_timed_out, under connection_mutex and closing_mutex_.
CloseIfTimedOut ==
    /\ mpc = "expire"
    /\ connection_mutex[mcur] = NoWorker
    /\ LET c == u_conn[mcur]
       IN  IF conn[c].valid /\ TimedOut(c)
           THEN /\ conn' = Closed(c)
                /\ epoll' = Deregistered(c)
                /\ closed' = Append(closed, mcur)
                /\ mpc' = "pop"
           ELSE mpc' = "loop" /\ UNCHANGED <<conn, epoll, closed>>
    /\ UNCHANGED <<mcur, mnew, serverOpen, u_conn, connection_mutex, timeod, netVars, crash>>

\* timeod_.pop_front(): whatever is at the front by now.
PopFront ==
    /\ mpc = "pop"
    /\ timeod' = Tail(timeod)
    /\ mpc' = "dump"
    /\ UNCHANGED <<mcur, mnew, serverOpen, u_conn, connection_mutex, closed, conn,
                   epoll, netVars, crash>>

MainNext ==
    \/ RunLoop \/ Accept \/ AcceptTimeout \/ AcceptThrows
    \/ TryReplace \/ Splice \/ Emplace \/ SetOption \/ EpollAdd
    \/ DumpFront \/ CloseIfTimedOut \/ PopFront

-----------------------------------------------------------------------------
(* The world: clients, the passing of time, the thread that calls close(). *)

\* The server has not closed its side (a connection in the backlog is open).
Reachable(c) == conn[c].valid \/ c \in ToSet(backlog) \/ c = mnew

Connect(c) ==
    /\ peer[c].state = "new" /\ serverOpen
    /\ peer' = [peer EXCEPT ![c].state = "open"]
    /\ backlog' = Append(backlog, c)
    /\ UNCHANGED <<mainVars, serverOpen, poolVars, conn, epoll, crash>>

\* A client sends a request after a keep-alive one only, and, unless it
\* pipelines, after it has read the whole previous response.
MaySend(c) ==
    /\ peer[c].state = "open" /\ Reachable(c)
    /\ ~peer[c].half /\ peer[c].ka /\ peer[c].sent < MaxRequests
    /\ "pipeline" \in Env \/ Len(peer[c].got) = peer[c].sent * RespLen

Deliver(c, chunk) == Append(peer[c].inbox, chunk)

SendWhole(c) ==
    /\ MaySend(c)
    /\ \E ka \in BOOLEAN :
          peer' = [peer EXCEPT ![c].sent = @ + 1, ![c].ka = ka,
                     ![c].inbox = Deliver(c, [kind |-> "whole", id |-> peer[c].sent + 1, ka |-> ka])]
    /\ UNCHANGED <<mainVars, serverOpen, poolVars, conn, epoll, backlog, crash>>

SendPart(c) ==
    /\ "split" \in Env /\ MaySend(c)
    /\ \E ka \in BOOLEAN :
          peer' = [peer EXCEPT ![c].half = TRUE, ![c].ka = ka,
                     ![c].inbox = Deliver(c, [kind |-> "part", id |-> peer[c].sent + 1, ka |-> ka])]
    /\ UNCHANGED <<mainVars, serverOpen, poolVars, conn, epoll, backlog, crash>>

SendRest(c) ==
    /\ peer[c].state = "open" /\ Reachable(c)
    /\ peer[c].half /\ peer[c].sent < MaxRequests
    /\ peer' = [peer EXCEPT ![c].half = FALSE, ![c].sent = @ + 1,
                  ![c].inbox = Deliver(c, [kind |-> "rest", id |-> peer[c].sent + 1,
                                           ka |-> peer[c].ka])]
    /\ UNCHANGED <<mainVars, serverOpen, poolVars, conn, epoll, backlog, crash>>

SendBad(c) ==
    /\ "bad" \in Env /\ MaySend(c)
    /\ peer' = [peer EXCEPT ![c].state = "mute",
                  ![c].inbox = Deliver(c, [kind |-> "bad", id |-> peer[c].sent + 1, ka |-> FALSE])]
    /\ UNCHANGED <<mainVars, serverOpen, poolVars, conn, epoll, backlog, crash>>

\* The client reads one unit of the response.
Receive(c) ==
    /\ peer[c].state \in {"open", "mute", "fin"} /\ peer[c].wire # <<>>
    /\ peer' = [peer EXCEPT ![c].wire = Tail(@), ![c].got = Append(@, Head(peer[c].wire))]
    /\ UNCHANGED <<mainVars, serverOpen, poolVars, conn, epoll, backlog, crash>>

Fin(c) ==
    /\ "fin" \in Env /\ peer[c].state \in {"open", "mute"}
    /\ peer' = [peer EXCEPT ![c].state = "fin"]
    /\ UNCHANGED <<mainVars, serverOpen, poolVars, conn, epoll, backlog, crash>>

Rst(c) ==
    /\ "rst" \in Env /\ peer[c].state \in {"open", "mute", "fin"}
    /\ peer' = [peer EXCEPT ![c].state = "rst"]
    /\ UNCHANGED <<mainVars, serverOpen, poolVars, conn, epoll, backlog, crash>>

\* One unit of time: every open connection gets older.
Tick ==
    /\ "time" \in Env
    /\ \E c \in Conns : conn[c].valid /\ conn[c].age < MaxAge
    /\ conn' = [c \in Conns |->
                  IF conn[c].valid /\ conn[c].age < MaxAge
                  THEN [conn[c] EXCEPT !.age = @ + 1] ELSE conn[c]]
    /\ UNCHANGED <<mainVars, serverOpen, poolVars, epoll, netVars, crash>>

\* HttpService::close.
Shutdown ==
    /\ "shutdown" \in Env /\ serverOpen
    /\ serverOpen' = FALSE
    /\ UNCHANGED <<mainVars, poolVars, conn, epoll, netVars, crash>>

ClientNext(c) ==
    \/ Connect(c) \/ SendWhole(c) \/ SendPart(c) \/ SendRest(c) \/ SendBad(c)
    \/ Receive(c) \/ Fin(c) \/ Rst(c)

EnvNext == (\E c \in Conns : ClientNext(c)) \/ Tick \/ Shutdown

=============================================================================
