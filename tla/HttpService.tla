---------------------------- MODULE HttpService -----------------------------
(***************************************************************************)
(* The worker threads, HttpWorker::work, beside the main thread of module  *)
(* HttpCore, and the specification of the whole 6.http server.             *)
(*                                                                         *)
(* A worker waits on the shared epoll instance, takes the events one by    *)
(* one and handles each under connection_mutex of its place.  Its control: *)
(*   "wait"   in epoll_wait           "lock"   at an event, mutex not taken *)
(*   "check"  p_conn read, not used   "read"   in try_read_request          *)
(*   "write"  in try_write_responce   "arm"    at the final subscribe/close *)
(***************************************************************************)
EXTENDS HttpWorkers

vars == <<coreVars, workerVars>>

Init == CoreInit /\ WorkersInit

-----------------------------------------------------------------------------
(* The steps of worker w.                                                  *)

\* The main thread has replaced the object p_conn points to.
StaleConn(w) ==
    /\ wpc[w] = "check" /\ wconn[w] # u_conn[place(w)]
    /\ crash' = "use_after_free"
    /\ UNCHANGED <<mainVars, serverOpen, poolVars, conn, epoll, netVars, workerVars>>

\* The socket is closed: continue.
SkipClosed(w) ==
    /\ wpc[w] = "check" /\ wconn[w] = u_conn[place(w)]
    /\ ~conn[wconn[w]].valid
    /\ NextEvent(w)
    /\ UNCHANGED <<mainVars, serverOpen, u_conn, closed, timeod, conn, epoll, netVars, crash>>

\* reset_last_activity_time, then EPOLLIN before EPOLLOUT.
ResetActivity(w) ==
    /\ wpc[w] = "check" /\ wconn[w] = u_conn[place(w)]
    /\ conn[wconn[w]].valid
    /\ conn' = [conn EXCEPT ![wconn[w]].age = 0]
    /\ IF place(w) \in ToSet(timeod)
       THEN timeod' = MoveToBack(timeod, place(w)) /\ crash' = crash
       ELSE timeod' = timeod /\ crash' = "dangling_iterator"
    /\ wpc' = [wpc EXCEPT ![w] = IF "READ" \in Head(batch[w]).bits THEN "read" ELSE "write"]
    /\ UNCHANGED <<mainVars, serverOpen, u_conn, connection_mutex, closed, epoll, netVars,
                   batch, wconn>>

\* Mutant: the end of the stream is ignored.
ReadEnd_LeavesOpen(w) ==
    /\ wpc[w] = "read" /\ peer[wconn[w]].inbox = <<>> /\ peer[wconn[w]].state = "fin"
    /\ NextEvent(w)
    /\ UNCHANGED <<mainVars, serverOpen, u_conn, closed, timeod, conn, epoll, netVars, crash>>

\* read_to_buffer returns 0: the client closed, whatever it asked before.
ReadEnd(w) ==
    /\ wpc[w] = "read" /\ peer[wconn[w]].inbox = <<>> /\ peer[wconn[w]].state = "fin"
    /\ CloseClient(place(w))
    /\ NextEvent(w)
    /\ UNCHANGED <<mainVars, serverOpen, u_conn, timeod, netVars, crash>>

\* ECONNRESET is thrown as tcp::Error, which nothing in the thread catches.
ReadReset(w) ==
    /\ wpc[w] = "read" /\ peer[wconn[w]].inbox = <<>> /\ peer[wconn[w]].state = "rst"
    /\ crash' = "terminate"
    /\ UNCHANGED <<mainVars, serverOpen, poolVars, conn, epoll, netVars, workerVars>>

\* Mutant: no subscription for the rest.
RequestIncomplete_NoRearm(w) ==
    /\ ReadDone(w) /\ Parse(conn[wconn[w]].read) = "expecting"
    /\ NextEvent(w)
    /\ UNCHANGED <<mainVars, serverOpen, u_conn, closed, timeod, conn, epoll, netVars, crash>>

\* ExpectingData: subscribe for the rest.
RequestIncomplete(w) ==
    LET c == wconn[w]
        opt == conn[c].option \cup {"READ", "ET_ONESHOT"} IN
    /\ ReadDone(w) /\ Parse(conn[c].read) = "expecting"
    /\ conn' = [conn EXCEPT ![c].option = opt]
    /\ EpollMod(c, opt)
    /\ NextEvent(w)
    /\ UNCHANGED <<mainVars, serverOpen, u_conn, closed, timeod, netVars>>

\* IncorrectData: close without an answer.
RequestIncorrect(w) ==
    /\ ReadDone(w) /\ Parse(conn[wconn[w]].read) = "incorrect"
    /\ CloseClient(place(w))
    /\ NextEvent(w)
    /\ UNCHANGED <<mainVars, serverOpen, u_conn, timeod, netVars, crash>>

\* Mutant: read_ is not cleared after a keep-alive request.
HandleRequest_KeepsBuffer(w) ==
    LET c == wconn[w]
        req == conn[c].read[1] IN
    /\ ReadDone(w) /\ Parse(conn[c].read) = "ok"
    /\ conn' = [conn EXCEPT
          ![c].keep_alive = req.ka,
          ![c].write = Response(req.id),
          ![c].option = (IF req.ka THEN @ ELSE @ \ {"READ"}) \cup {"WRITE", "ET_ONESHOT"}]
    /\ wpc' = [wpc EXCEPT ![w] = "arm"]
    /\ UNCHANGED <<mainVars, serverOpen, poolVars, epoll, netVars, crash, batch, wconn>>

\* OnRequest writes the response over write_; the reading side is emptied or
\* unsubscribed, the writing side subscribed.
HandleRequest(w) ==
    LET c == wconn[w]
        req == conn[c].read[1] IN
    /\ ReadDone(w) /\ Parse(conn[c].read) = "ok"
    /\ conn' = [conn EXCEPT
          ![c].keep_alive = req.ka,
          ![c].write = Response(req.id),
          ![c].read = IF req.ka THEN <<>> ELSE @,
          ![c].option = (IF req.ka THEN @ ELSE @ \ {"READ"}) \cup {"WRITE", "ET_ONESHOT"}]
    /\ wpc' = [wpc EXCEPT ![w] = "arm"]
    /\ UNCHANGED <<mainVars, serverOpen, poolVars, epoll, netVars, crash, batch, wconn>>

\* Mutant: what a short write has sent stays in the buffer.
WriteFromBuffer_KeepsSent(w) ==
    LET c == wconn[w]
        room == IF Len(peer[c].wire) < Window THEN Window - Len(peer[c].wire) ELSE 0
        n == IF Len(conn[c].write) < room THEN Len(conn[c].write) ELSE room IN
    /\ wpc[w] = "write" /\ peer[c].state # "rst"
    /\ room > 0 \/ conn[c].write = <<>>
    /\ peer' = [peer EXCEPT ![c].wire = @ \o SubSeq(conn[c].write, 1, n)]
    /\ IF n = Len(conn[c].write)
       THEN /\ conn' = [conn EXCEPT ![c].write = <<>>,
                          ![c].option = (@ \ {"WRITE"}) \cup {"ET_ONESHOT"}]
            /\ wpc' = [wpc EXCEPT ![w] = "arm"]
       ELSE UNCHANGED <<conn, wpc>>
    /\ UNCHANGED <<mainVars, serverOpen, poolVars, epoll, backlog, crash, batch, wconn>>

\* write_from_buffer writes what fits; the loop ends when the buffer is empty.
WriteFromBuffer(w) ==
    LET c == wconn[w]
        room == IF Len(peer[c].wire) < Window THEN Window - Len(peer[c].wire) ELSE 0
        n == IF Len(conn[c].write) < room THEN Len(conn[c].write) ELSE room IN
    /\ wpc[w] = "write" /\ peer[c].state # "rst"
    /\ room > 0 \/ conn[c].write = <<>>
    /\ peer' = [peer EXCEPT ![c].wire = @ \o SubSeq(conn[c].write, 1, n)]
    /\ IF n = Len(conn[c].write)
       THEN /\ conn' = [conn EXCEPT ![c].write = <<>>,
                          ![c].option = (@ \ {"WRITE"}) \cup {"ET_ONESHOT"}]
            /\ wpc' = [wpc EXCEPT ![w] = "arm"]
       ELSE /\ conn' = [conn EXCEPT ![c].write = SubSeq(@, n + 1, Len(@))]
            /\ wpc' = wpc
    /\ UNCHANGED <<mainVars, serverOpen, poolVars, epoll, backlog, crash, batch, wconn>>

\* EAGAIN: TimeOutError, the rest waits for the next EPOLLOUT.
WriteBlocked(w) ==
    LET c == wconn[w] IN
    /\ wpc[w] = "write" /\ peer[c].state # "rst"
    /\ Len(peer[c].wire) >= Window /\ conn[c].write # <<>>
    /\ wpc' = [wpc EXCEPT ![w] = "arm"]
    /\ UNCHANGED <<mainVars, serverOpen, poolVars, conn, epoll, netVars, crash, batch, wconn>>

\* ECONNRESET or EPIPE: tcp::Error or SIGPIPE, neither handled.
WriteReset(w) ==
    /\ wpc[w] = "write" /\ peer[wconn[w]].state = "rst"
    /\ crash' = "terminate"
    /\ UNCHANGED <<mainVars, serverOpen, poolVars, conn, epoll, netVars, workerVars>>

\* Nothing left to wait for: close.
CloseDone(w) ==
    /\ wpc[w] = "arm" /\ conn[wconn[w]].option = {"ET_ONESHOT"}
    /\ CloseClient(place(w))
    /\ NextEvent(w)
    /\ UNCHANGED <<mainVars, serverOpen, u_conn, timeod, netVars, crash>>

\* Mutant: the option is updated and epoll_.mod is not called.
Rearm_NoMod(w) ==
    LET c == wconn[w] IN
    /\ wpc[w] = "arm" /\ conn[c].option # {"ET_ONESHOT"}
    /\ conn' = [conn EXCEPT ![c].option = @ \cup {"ET_ONESHOT"}]
    /\ NextEvent(w)
    /\ UNCHANGED <<mainVars, serverOpen, u_conn, closed, timeod, epoll, netVars, crash>>

\* subscribe(p_place, UNKNOWN).
Rearm(w) ==
    LET c == wconn[w]
        opt == conn[c].option \cup {"ET_ONESHOT"} IN
    /\ wpc[w] = "arm" /\ conn[c].option # {"ET_ONESHOT"}
    /\ conn' = [conn EXCEPT ![c].option = opt]
    /\ EpollMod(c, opt)
    /\ NextEvent(w)
    /\ UNCHANGED <<mainVars, serverOpen, u_conn, closed, timeod, netVars>>

WorkerNext(w) ==
    \/ EpollWait(w) \/ LockPlace(w) \/ StaleConn(w) \/ SkipClosed(w) \/ ResetActivity(w)
    \/ ReadToBuffer(w) \/ ReadEnd(w) \/ ReadReset(w)
    \/ RequestIncomplete(w) \/ RequestIncorrect(w) \/ HandleRequest(w)
    \/ WriteFromBuffer(w) \/ WriteBlocked(w) \/ WriteReset(w)
    \/ CloseDone(w) \/ Rearm(w)

-----------------------------------------------------------------------------
(* The server.  A dead process takes no step.                              *)

Main == crash = "none" /\ MainNext /\ UNCHANGED workerVars
Worker(w) == crash = "none" /\ WorkerNext(w)
World == crash = "none" /\ EnvNext /\ UNCHANGED workerVars

Next == Main \/ (\E w \in Workers : Worker(w)) \/ World

\* Every thread keeps running and every client keeps reading; clients owe the
\* server nothing else, and time passes only if it passes at all.
Fairness ==
    /\ WF_vars(Main)
    /\ \A w \in Workers : WF_vars(Worker(w))
    /\ \A c \in Conns : WF_vars(crash = "none" /\ Receive(c) /\ UNCHANGED workerVars)
    /\ WF_vars(crash = "none" /\ Tick /\ UNCHANGED workerVars)

Spec == Init /\ [][Next]_vars

FairSpec == Spec /\ Fairness

-----------------------------------------------------------------------------
(* Properties.                                                             *)

\* Every variable keeps to its type.
TypeOK ==
    /\ mpc \in MainPcs /\ mcur \in Places /\ mnew \in Conns \cup {NoConn}
    /\ serverOpen \in BOOLEAN
    /\ u_conn \in [Places -> Conns \cup {NoConn}]
    /\ connection_mutex \in [Places -> Workers \cup {NoWorker}]
    /\ closed \in Seq(Places) /\ timeod \in Seq(Places)
    /\ conn \in [Conns -> ConnFields]
    /\ epoll \in [Conns -> Registration]
    /\ backlog \in Seq(Conns)
    /\ peer \in [Conns -> PeerFields]
    /\ crash \in Crashes \cup {"none"}
    /\ wpc \in [Workers -> WorkerPcs]
    /\ batch \in [Workers -> Seq(Event)]
    /\ wconn \in [Workers -> Conns \cup {NoConn}]

\* While a worker handles an event past the validity check, it holds the mutex
\* of the place, and the object its p_conn points to is still the one in the
\* place and still open: neither the time-out nor the replacement of the main
\* thread, nor another worker, takes it away (HttpWorker::work).
HandlerSafe ==
    \A w \in Workers : wpc[w] \in {"read", "write", "arm"} =>
        /\ connection_mutex[place(w)] = w
        /\ wconn[w] = u_conn[place(w)]
        /\ conn[wconn[w]].valid

\* The places, their queues and their locks implement PlacePool: an accepted
\* connection enters one free place, keeps it until it is closed, and no step
\* opens, closes or moves two connections at once.
PoolSlot == [p \in Places |-> IF p \in Live THEN u_conn[p] ELSE NoConn]
PoolWaiting ==
    {c \in Conns : \/ peer[c].state = "new" \/ c \in ToSet(backlog)
                   \/ c = mnew /\ mpc \in {"replace", "emplace"}}
Pool == INSTANCE PlacePool WITH slot <- PoolSlot, waiting <- PoolWaiting
PoolSpec == Pool!Spec

\* The main thread always comes back to accept, until close() ends its loop: the
\* locks it waits for are always released (dump_timed_out_connections,
\* close_if_timed_out).
MainProgress == []<>(mpc \in {"accept", "join", "threw"})

\* A connection whose client has closed is closed by the server.
FinClosed ==
    \A c \in Conns :
        (conn[c].valid /\ peer[c].state = "fin") ~> ~conn[c].valid

\* A connection idle beyond its time-out does not stay open for ever while the
\* process lives: it is closed, or there is activity on it again.
IdleClosed ==
    \A c \in Conns :
        (conn[c].valid /\ TimedOut(c))
            ~> (~(conn[c].valid /\ TimedOut(c)) \/ crash # "none")

\* A time-out, and the reuse of the place after it, leaves the server running.
TimeoutSafe == crash \notin {"dangling_iterator", "use_after_free"}

-----------------------------------------------------------------------------
(* The inductive invariant behind ClosedExact, HandlerSafe and PoolSpec.   *)

\* A connection is in one place at most.
PlacedOnce ==
    \A p, q \in Places : u_conn[p] = u_conn[q] /\ u_conn[p] # NoConn => p = q

\* What the main thread and the list timeod_ refer to exists.
MainInv ==
    /\ mpc \in {"replace", "splice", "emplace", "setopt", "add"} => mnew \in Conns
    /\ mpc \in {"splice", "setopt", "add", "expire", "pop"} => u_conn[mcur] # NoConn
    /\ mpc \in {"expire", "pop"} => timeod # <<>>
    /\ \A i \in DOMAIN timeod : u_conn[timeod[i]] # NoConn

\* A connection waiting to be accepted or just accepted is waiting once, and
\* is not in a place.
FreshInv ==
    /\ \A i, j \in DOMAIN backlog : backlog[i] = backlog[j] => i = j
    /\ \A i \in DOMAIN backlog :
          peer[backlog[i]].state # "new" /\ \A p \in Places : u_conn[p] # backlog[i]
    /\ \A c \in Conns : peer[c].state = "new" => \A p \in Places : u_conn[p] # c
    /\ mpc \in {"replace", "emplace"} =>
          /\ peer[mnew].state # "new"
          /\ \A i \in DOMAIN backlog : backlog[i] # mnew
          /\ \A p \in Places : u_conn[p] # mnew

\* Events name existing places; a worker past the lock holds the mutex; past the
\* check it works on the open connection of the place.
WorkerInv ==
    \A w \in Workers :
        /\ wpc[w] # "wait" => batch[w] # <<>>
        /\ \A i \in DOMAIN batch[w] : u_conn[batch[w][i].place] # NoConn
        /\ wpc[w] \in {"check", "read", "write", "arm"} =>
              connection_mutex[place(w)] = w /\ wconn[w] \in Conns

IInv == TypeOK /\ PlacedOnce /\ MainInv /\ FreshInv /\ ClosedExact /\ WorkerInv /\ HandlerSafe

-----------------------------------------------------------------------------
(* The inductive invariant behind ArmedOrOwned, on top of IInv.            *)

\* Place p holds a new connection whose option is not set yet.
Blank(p) == mcur = p /\ mpc \in {"splice", "setopt"}

\* A worker is about to subscribe or to close the connection of place p.
Arming(p) == \E w \in Workers : wpc[w] = "arm" /\ place(w) = p

\* The open connection of place p is registered, has an event to wait for in its
\* option, and is armed, each as soon as the main thread has come to it and
\* unless a worker is to see to it; ET_ONESHOT stays in its option.
ArmedAt(p) ==
    LET c == u_conn[p] IN
    /\ epoll[c].added \/ Registering(p)
    /\ "ET_ONESHOT" \in conn[c].option \/ Blank(p)
    /\ conn[c].option # {"ET_ONESHOT"} \/ Blank(p) \/ Arming(p)
    /\ epoll[c].armed # {} \/ HasEvent(p) \/ Registering(p)

\* A worker in epoll_wait has no event; every open connection is waited for
\* (HttpService::subscribe, HttpWorker::work).
ArmInv ==
    /\ \A w \in Workers : wpc[w] = "wait" => batch[w] = <<>>
    /\ \A p \in Live : ArmedAt(p)


-----------------------------------------------------------------------------
(* The inductive invariant behind NoCrash, on top of IInv and ArmInv, for  *)
(* a server without time-outs whose clients do not reset.                  *)

Calm == Env \cap {"time", "rst"} = {}

\* EPOLLONESHOT: no two events of the workers' batches are of the same place.
OneEvent ==
    \A v, w \in Workers : \A i \in DOMAIN batch[v], j \in DOMAIN batch[w] :
        batch[v][i].place = batch[w][j].place => v = w /\ i = j

\* An event is of an open, registered place, so that no worker meets a place
\* again after it was closed; what is armed is registered and has no event.
EventsFresh ==
    /\ \A p \in Places : HasEvent(p) => p \in Live /\ ~Registering(p)
    /\ \A c \in Conns : epoll[c].armed # {} =>
          \E p \in Live : u_conn[p] = c /\ ~HasEvent(p) /\ ~Registering(p)
    /\ \A w \in Workers : wpc[w] = "check" => wconn[w] = u_conn[place(w)]

\* Nothing times out, so every place stays in timeod_.
NothingExpires ==
    /\ mpc # "pop"
    /\ \A c \in Conns : conn[c].age = 0 /\ peer[c].state # "rst"
    /\ \A p \in Places : u_conn[p] # NoConn => p \in ToSet(timeod)

\* Without time-outs and resets no step of the threads (HttpService::run,
\* HttpWorker::work) prepares a crash: what they keep across steps - events,
\* p_conn, timeout_iter - still refers to what it referred to.
CalmInv == NoCrash /\ OneEvent /\ EventsFresh /\ NothingExpires


-----------------------------------------------------------------------------
(* The inductive invariant behind ResponseIntegrity, on top of IInv and    *)
(* CalmInv, for clients that do not pipeline.  p is the client's side of a *)
(* connection, b the server's.                                             *)

\* Bytes of requests that no response was written for, unless it was the last.
Pending(p, b) == b.read \o p.inbox

\* Units of responses the client has got or is to get.
Replied(p, b) == Len(p.got) + Len(p.wire) + Len(b.write)

\* Every request is answered and the next one has not begun.
Idle(p, b) == ~p.half /\ Pending(p, b) = <<>> /\ Replied(p, b) = p.sent * RespLen

\* The first part of a request is there, and the client has all it asked for.
Halfway(p, b) ==
    /\ p.half /\ Parse(Pending(p, b)) = "expecting"
    /\ Pending(p, b)[1].id = p.sent + 1 /\ Pending(p, b)[1].ka = p.ka
    /\ Replied(p, b) = p.sent * RespLen /\ Len(p.got) = Replied(p, b)

\* One whole request waits for its response, and write_ is empty.
Asked(p, b) ==
    /\ ~p.half /\ Parse(Pending(p, b)) = "ok"
    /\ Pending(p, b)[1].id = p.sent /\ Pending(p, b)[1].ka = p.ka
    /\ Replied(p, b) + RespLen = p.sent * RespLen /\ Len(p.got) = Replied(p, b)

\* What the parser refuses is there; the client says nothing more.
Refused(p, b) ==
    /\ p.state \in {"mute", "fin", "rst"} /\ p.ka /\ Parse(Pending(p, b)) = "incorrect"
    /\ Replied(p, b) = p.sent * RespLen

\* The last request of the connection is answered, and still in read_.
LastReplied(p, b) ==
    /\ ~p.half /\ ~p.ka /\ p.inbox = <<>> /\ b.read # <<>>
    /\ Replied(p, b) = p.sent * RespLen

\* s continues the responses after their first "from" units.
Continues(s, from) ==
    \A k \in DOMAIN s : s[k] = ((from + k - 1) \div RespLen) + 1

TalkInv(p, b) ==
    /\ \/ Idle(p, b) \/ Halfway(p, b) \/ Asked(p, b) \/ Refused(p, b) \/ LastReplied(p, b)
    /\ Continues(p.got, 0) /\ Continues(p.wire, Len(p.got))
    /\ Continues(b.write, Len(p.got) + Len(p.wire))

\* After the last response nobody waits or looks for more to read, except the
\* worker that has just written it.
LastInv ==
    \A c \in Conns : LastReplied(peer[c], conn[c]) =>
        /\ "READ" \notin conn[c].option /\ "READ" \notin epoll[c].armed
        /\ \A w \in Workers : \A i \in DOMAIN batch[w] :
              u_conn[batch[w][i].place] = c /\ "READ" \in batch[w][i].bits
                 => i = 1 /\ wpc[w] = "arm"

\* The main thread has not come to the end of registering c.
Unserved(c) ==
    \/ peer[c].state = "new" \/ c \in ToSet(backlog)
    \/ c = mnew /\ mpc \in {"replace", "emplace", "splice", "setopt", "add"}

\* Until then nothing was read from it or written to it.
UnservedInv ==
    /\ mpc \in {"splice", "setopt", "add"} => u_conn[mcur] = mnew
    /\ \A c \in Conns : Unserved(c) => conn[c].read = <<>> /\ conn[c].write = <<>>

\* Every response is written once and when write_ is empty, since a request in
\* read_ is handled once: it is cleared or not looked at again
\* (HttpWorker::try_read_request, HttpConnection::write).
ReplyInv ==
    /\ \A c \in Conns : TalkInv(peer[c], conn[c])
    /\ \A w \in Workers : wpc[w] = "read" => "READ" \in Head(batch[w]).bits
    /\ LastInv /\ UnservedInv

=============================================================================
