---------------------------- MODULE HttpWorkers -----------------------------
(***************************************************************************)
(* What the worker threads of both servers (HttpWorker of 6.http and       *)
(* CoroutineWorker of 7.cor) share: their state, what epoll reports to     *)
(* them, taking and leaving an event, closing a client, reading and        *)
(* parsing; and the properties stated for both.                            *)
(***************************************************************************)
EXTENDS HttpCore

VARIABLES
    wpc,        \* worker -> control
    batch,      \* worker -> events still to handle, the current one first
    wconn       \* worker -> its local p_conn

workerVars == <<wpc, batch, wconn>>

WorkerPcs == {"wait", "lock", "check", "read", "write", "arm"}

Event == [place : Places, bits : SUBSET Bits]

WorkersInit ==
    /\ wpc = [w \in Workers |-> "wait"]
    /\ batch = [w \in Workers |-> <<>>]
    /\ wconn = [w \in Workers |-> NoConn]

-----------------------------------------------------------------------------
(* What the kernel reports.                                                *)

\* Conditions of c's socket: data, end of stream or error to read; room or
\* error to write.
SocketReady(c) ==
    {b \in Bits :
        \/ b = "READ" /\ (peer[c].inbox # <<>> \/ peer[c].state \in {"fin", "rst"})
        \/ b = "WRITE" /\ (Len(peer[c].wire) < Window \/ peer[c].state = "rst")}

ReadyBits(p) ==
    IF p \in Live THEN epoll[u_conn[p]].armed \cap SocketReady(u_conn[p]) ELSE {}

ReadyPlaces == {p \in Places : ReadyBits(p) # {}}

\* The sequences of events one epoll_wait can return: all ready ones up to
\* MaxEvents, in any order.
Batches ==
    LET n == IF Cardinality(ReadyPlaces) < MaxEvents
             THEN Cardinality(ReadyPlaces) ELSE MaxEvents
    IN  {[i \in 1..n |-> [place |-> s[i], bits |-> ReadyBits(s[i])]] :
            s \in {f \in [1..n -> ReadyPlaces] :
                     \A i, j \in 1..n : f[i] = f[j] => i = j}}

-----------------------------------------------------------------------------
(* Parsing.                                                                *)

\* Request's constructor on the read buffer: "ok", "expecting" (ExpectingData)
\* or "incorrect" (IncorrectData).  An empty buffer and two requests in one
\* buffer are incorrect.
Parse(buf) ==
    IF Len(buf) = 1 /\ buf[1].kind = "whole" THEN "ok"
    ELSE IF Len(buf) = 1 /\ buf[1].kind = "part" THEN "expecting"
    ELSE IF Len(buf) = 2 /\ buf[1].kind = "part" /\ buf[2].kind = "rest" THEN "ok"
    ELSE "incorrect"

\* What the application's OnRequest writes in answer to request id.
Response(id) == [i \in 1..RespLen |-> id]

-----------------------------------------------------------------------------
(* Steps of worker w.  Its current event is the first of its batch.        *)

place(w) == Head(batch[w]).place

\* Mutant: the mutex stays locked.
NextEvent_KeepsMutex(w) ==
    /\ connection_mutex' = connection_mutex
    /\ batch' = [batch EXCEPT ![w] = Tail(@)]
    /\ wpc' = [wpc EXCEPT ![w] = IF Len(batch[w]) = 1 THEN "wait" ELSE "lock"]
    /\ wconn' = [wconn EXCEPT ![w] = NoConn]

\* The end of an iteration of the event loop: lock_guard releases the mutex.
NextEvent(w) ==
    /\ connection_mutex' = [connection_mutex EXCEPT ![place(w)] = NoWorker]
    /\ batch' = [batch EXCEPT ![w] = Tail(@)]
    /\ wpc' = [wpc EXCEPT ![w] = IF Len(batch[w]) = 1 THEN "wait" ELSE "lock"]
    /\ wconn' = [wconn EXCEPT ![w] = NoConn]

\* Mutant: the place is not pushed to closed_.
CloseClient_NoPush(p) ==
    /\ ClosingFree
    /\ IF conn[u_conn[p]].valid
       THEN /\ conn' = Closed(u_conn[p])
            /\ epoll' = Deregistered(u_conn[p])
       ELSE UNCHANGED <<conn, epoll>>
    /\ closed' = closed

\* Mutant: p_conn->close() is forgotten.
CloseClient_NoClose(p) ==
    /\ ClosingFree
    /\ closed' = IF conn[u_conn[p]].valid THEN Append(closed, p) ELSE closed
    /\ UNCHANGED <<conn, epoll>>

\* close_client: under closing_mutex_, only if the socket is still open.
CloseClient(p) ==
    /\ ClosingFree
    /\ IF conn[u_conn[p]].valid
       THEN /\ closed' = Append(closed, p)
            /\ conn' = Closed(u_conn[p])
            /\ epoll' = Deregistered(u_conn[p])
       ELSE UNCHANGED <<closed, conn, epoll>>

\* Mutant: the one-shot flag is taken for an event to wait for.
EpollMod_ArmsFlag(c, opt) ==
    IF epoll[c].added
    THEN epoll' = [epoll EXCEPT ![c].armed = opt] /\ crash' = crash
    ELSE epoll' = epoll /\ crash' = "terminate"

\* EPoll::mod re-arms the connection; it is not registered: EPollError, which
\* leaves the thread function.
EpollMod(c, opt) ==
    IF epoll[c].added
    THEN epoll' = [epoll EXCEPT ![c].armed = opt \ {"ET_ONESHOT"}] /\ crash' = crash
    ELSE epoll' = epoll /\ crash' = "terminate"

\* Mutant: without EPOLLONESHOT, what is reported stays armed.
EpollWait_StaysArmed(w) ==
    /\ wpc[w] = "wait" /\ ReadyPlaces # {}
    /\ \E b \in Batches : batch' = [batch EXCEPT ![w] = b]
    /\ epoll' = epoll
    /\ wpc' = [wpc EXCEPT ![w] = "lock"]
    /\ UNCHANGED <<mainVars, serverOpen, poolVars, conn, netVars, crash, wconn>>

\* epoll_.wait: EPOLLONESHOT disarms what is reported.
EpollWait(w) ==
    /\ wpc[w] = "wait" /\ ReadyPlaces # {}
    /\ \E b \in Batches :
          /\ batch' = [batch EXCEPT ![w] = b]
          /\ epoll' = [c \in Conns |->
                         IF \E i \in DOMAIN b : u_conn[b[i].place] = c
                         THEN [epoll[c] EXCEPT !.armed = {}] ELSE epoll[c]]
    /\ wpc' = [wpc EXCEPT ![w] = "lock"]
    /\ UNCHANGED <<mainVars, serverOpen, poolVars, conn, netVars, crash, wconn>>

\* Take connection_mutex and read u_conn.
LockPlace(w) ==
    /\ wpc[w] = "lock"
    /\ connection_mutex[place(w)] = NoWorker
    /\ connection_mutex' = [connection_mutex EXCEPT ![place(w)] = w]
    /\ wconn' = [wconn EXCEPT ![w] = u_conn[place(w)]]
    /\ wpc' = [wpc EXCEPT ![w] = "check"]
    /\ UNCHANGED <<mainVars, serverOpen, u_conn, closed, timeod, conn, epoll, netVars, crash, batch>>

\* read_to_buffer returns data.
ReadToBuffer(w) ==
    LET c == wconn[w] IN
    /\ wpc[w] = "read" /\ peer[c].inbox # <<>>
    /\ conn' = [conn EXCEPT ![c].read = Append(@, Head(peer[c].inbox))]
    /\ peer' = [peer EXCEPT ![c].inbox = Tail(@)]
    /\ UNCHANGED <<mainVars, serverOpen, poolVars, epoll, backlog, crash, workerVars>>

\* read_to_buffer throws TimeOutError (EAGAIN): on to parsing.
ReadDone(w) ==
    /\ wpc[w] = "read" /\ peer[wconn[w]].inbox = <<>>
    /\ peer[wconn[w]].state \notin {"fin", "rst"}

-----------------------------------------------------------------------------
(* Properties of both servers.                                             *)

\* closed_ holds exactly the places whose socket is closed, each once: a place
\* is never handed to two new connections, and none is forgotten, though the
\* workers and the time-out of the main thread close concurrently
\* (close_client, close_if_timed_out, try_replace_closed_with_new_conn).
ClosedExact ==
    /\ \A i, j \in DOMAIN closed : closed[i] = closed[j] => i = j
    /\ \A p \in Places :
          p \in ToSet(closed) <=> u_conn[p] # NoConn /\ ~conn[u_conn[p]].valid

\* The "Active connections" run logs is the number of open connections: the
\* unsigned subtraction in connections_size never wraps around.
SizeExact == connections_size = Cardinality(Live)

\* Some worker has, or has taken, an event for place p.
HasEvent(p) == \E w \in Workers : \E i \in DOMAIN batch[w] : batch[w][i].place = p

\* The main thread has put a connection into place p and not registered it yet.
Registering(p) == mcur = p /\ mpc \in {"splice", "setopt", "add"}

\* No wake-up is lost: an open connection is armed in epoll, or an event for it
\* is in some worker's batch, or the main thread is about to register it.
ArmedOrOwned ==
    \A p \in Live : epoll[u_conn[p]].armed # {} \/ HasEvent(p) \/ Registering(p)

\* Everything sent or still to be sent to the client of c.
Stream(c) == peer[c].got \o peer[c].wire \o conn[c].write

\* That is the responses to its requests in order, each whole and once
\* (HttpConnection::write, write_from_buffer).
ResponseIntegrity ==
    \A c \in Conns : \A k \in DOMAIN Stream(c) :
        Stream(c)[k] = ((k - 1) \div RespLen) + 1

\* No exception leaves a thread, no iterator or pointer is used after its
\* object is gone.
NoCrash == crash = "none"

\* Every request a client has sent completely is answered completely, unless the
\* client closes its side first or the server is closed.
Answered ==
    \A c \in Conns : \A n \in 1..MaxRequests :
        peer[c].sent >= n
            ~> (Len(peer[c].got) >= n * RespLen \/ peer[c].state = "fin" \/ ~serverOpen)

=============================================================================
