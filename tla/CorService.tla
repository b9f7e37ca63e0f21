----------------------------- MODULE CorService -----------------------------
(***************************************************************************)
(* 7.cor: CoroutineService.  Its main thread does what HttpService's does; *)
(* its workers serve a client in a coroutine (serve_client) which yields   *)
(* when a request is incomplete, when the answer is ready and when the     *)
(* client's window is full, and is resumed by whichever worker takes the   *)
(* next event of the client's place.                                       *)
(*                                                                         *)
(* A routine is an index into main_ordinator.routines.  Where it goes on   *)
(* when it is resumed:                                                     *)
(*   "entry"    at the start of serve_client                               *)
(*   "reading"  in try_read_request, after ExpectingData                   *)
(*   "writing"  in try_write_responce                                      *)
(*   "returned" in entry(), after serve_client: it still has to put itself *)
(*              on the queue of finished routines                          *)
(*   "finished" nowhere: it waits to be reused                             *)
(* A worker's "arm" is the end of serve_client, after the last write.      *)
(***************************************************************************)
EXTENDS HttpWorkers

CONSTANTS MaxRoutines       \* bound on the routines created

ASSUME CorAssumption == MaxRoutines \in Nat

Routines == 1..MaxRoutines
None == 0                   \* nullptr

VARIABLES
    p_rout,     \* connection -> its routine, or None
    routine,    \* routine -> where it goes on, and where entry() returns to
    made,       \* length of main_ordinator.routines
    finished,   \* main_ordinator.finished
    current     \* worker -> current of its ordinator

routineVars == <<p_rout, routine, made, finished, current>>
vars == <<coreVars, workerVars, routineVars>>

Goes == {"entry", "reading", "writing", "returned", "finished"}
Suspended == {"entry", "reading", "writing"}

\* starter: the thread whose ordinator entry() keeps a reference to.
\* link: uc_link, the thread whose resume() continues when entry() returns; it
\* is the one of the last makecontext.  resumer: uc_link as resume() sets it.
\* client: the connection in the place that its function captured.
RoutineFields == [at : Goes, client : Conns \cup {NoConn}, starter : Workers \cup {NoWorker},
                  link : Workers \cup {NoWorker}, resumer : Workers \cup {NoWorker}]

Init ==
    /\ CoreInit /\ WorkersInit
    /\ p_rout = [c \in Conns |-> None]
    /\ routine = [r \in Routines |-> [at |-> "finished", client |-> NoConn,
              starter |-> NoWorker, link |-> NoWorker, resumer |-> NoWorker]]
    /\ made = 0 /\ finished = <<>>
    /\ current = [w \in Workers |-> None]

-----------------------------------------------------------------------------
(* The main thread: CoroutineService overrides HttpService's methods with  *)
(* the same steps.  It inherits HttpService as a protected base and does   *)
(* not publish close(): nobody closes its listening socket.                *)

Run == RunLoop \/ Accept \/ AcceptTimeout \/ AcceptThrows \/ SetOption \/ EpollAdd
try_replace_closed_with_new_conn == TryReplace \/ Splice
emplace_connection == Emplace
close_if_timed_out == CloseIfTimedOut
dump_timed_out_connections == DumpFront \/ PopFront

CorMainNext ==
    \/ Run \/ try_replace_closed_with_new_conn \/ emplace_connection
    \/ close_if_timed_out \/ dump_timed_out_connections

-----------------------------------------------------------------------------
(* Coroutines.  The routine worker w runs is that of its connection.       *)

\* The step of serve_client that ends in cor::yield: it goes on at "at".  A
\* worker whose current has been taken from it follows a null pointer.
YieldAt(w, at, mod) ==
    /\ NextEvent(w)
    /\ IF current[w] = None
       THEN crash' = "no_current_routine" /\ UNCHANGED <<routine, current>>
       ELSE /\ crash' = mod
            /\ routine' = [routine EXCEPT ![current[w]].at = at]
            /\ current' = [current EXCEPT ![w] = None]
    /\ UNCHANGED <<p_rout, made, finished>>

\* The step in which serve_client returns: entry() swaps back to the worker,
\* which still has the routine as its current one.
ReturnFrom(w, rout) ==
    /\ NextEvent(w)
    /\ routine' = [routine EXCEPT ![rout].at = "returned"]
    /\ UNCHANGED <<made, finished, current>>

\* cor::create and the start of resume: a finished routine is reused, with the
\* uc_link its last resume left, or one is made.
Create(w) ==
    LET c == wconn[w] IN
    /\ wpc[w] = "check" /\ wconn[w] = u_conn[place(w)] /\ p_rout[c] = None
    /\ \/ /\ finished = <<>> /\ made < MaxRoutines
          /\ made' = made + 1 /\ finished' = finished
          /\ p_rout' = [p_rout EXCEPT ![c] = made + 1]
          /\ routine' = [routine EXCEPT ![made + 1] =
                [at |-> "entry", client |-> c, starter |-> w, link |-> w, resumer |-> w]]
       \/ /\ finished # <<>>
          /\ finished' = Tail(finished) /\ made' = made
          /\ p_rout' = [p_rout EXCEPT ![c] = Head(finished)]
          /\ routine' = [routine EXCEPT ![Head(finished)] =
                [at |-> "entry", client |-> c, starter |-> w, link |-> @.resumer, resumer |-> w]]
    /\ UNCHANGED <<coreVars, workerVars, current>>

\* resume of a routine that has not returned; a new one first resets the time
\* of the last activity.
Resume(w) ==
    LET c == wconn[w]
        r == p_rout[c] IN
    /\ wpc[w] = "check" /\ wconn[w] = u_conn[place(w)] /\ r # None
    /\ routine[r].at \in Suspended /\ routine[r].client = c
    /\ current' = [current EXCEPT ![w] = r]
    /\ routine' = [routine EXCEPT ![r].resumer = w]
    /\ IF routine[r].at = "entry"
       THEN /\ conn' = [conn EXCEPT ![c].age = 0]
            /\ IF place(w) \in ToSet(timeod)
               THEN timeod' = MoveToBack(timeod, place(w)) /\ crash' = crash
               ELSE timeod' = timeod /\ crash' = "dangling_iterator"
       ELSE UNCHANGED <<conn, timeod, crash>>
    /\ wpc' = [wpc EXCEPT ![w] = IF routine[r].at = "writing" THEN "write" ELSE "read"]
    /\ UNCHANGED <<mainVars, serverOpen, u_conn, connection_mutex, closed, epoll, netVars,
                   batch, wconn, p_rout, made, finished>>

\* resume, for a late event of a closed connection, of a routine that has been
\* recycled for another client.  It goes on serving that one, without the mutex
\* of its place, and perhaps on the stack it is running on: undefined.
ResumeForeign(w) ==
    LET r == p_rout[wconn[w]] IN
    /\ wpc[w] = "check" /\ wconn[w] = u_conn[place(w)] /\ r # None
    /\ routine[r].at \in Suspended /\ routine[r].client # wconn[w]
    /\ crash' = "foreign_routine"
    /\ UNCHANGED <<mainVars, serverOpen, poolVars, conn, epoll, netVars, workerVars, routineVars>>

\* resume of a routine that has returned: the end of entry().  It clears the
\* current routine of the thread that started it, and leaves for the thread
\* that was in uc_link at makecontext: another one's stack, unless that is w.
ResumeReturned(w) ==
    LET r == p_rout[wconn[w]] IN
    /\ wpc[w] = "check" /\ wconn[w] = u_conn[place(w)] /\ r # None
    /\ routine[r].at = "returned"
    /\ routine' = [routine EXCEPT ![r].at = "finished", ![r].resumer = w]
    /\ finished' = Append(finished, r)
    /\ current' = [[current EXCEPT ![w] = r] EXCEPT ![routine[r].starter] = None]
    /\ crash' = IF routine[r].link = w THEN crash ELSE "foreign_context"
    /\ NextEvent(w)
    /\ UNCHANGED <<mainVars, serverOpen, u_conn, closed, timeod, conn, epoll, netVars, p_rout, made>>

\* resume returns false.
ResumeFinished(w) ==
    LET r == p_rout[wconn[w]] IN
    /\ wpc[w] = "check" /\ wconn[w] = u_conn[place(w)] /\ r # None
    /\ routine[r].at = "finished"
    /\ NextEvent(w)
    /\ UNCHANGED <<mainVars, serverOpen, u_conn, closed, timeod, conn, epoll, netVars, crash, routineVars>>

-----------------------------------------------------------------------------
(* serve_client on worker w.                                               *)

\* The main thread replaces closed connections without connection_mutex, and
\* the workers do not look whether theirs is closed.
StaleConn(w) ==
    /\ wpc[w] \in {"check", "read", "write", "arm"} /\ wconn[w] # u_conn[place(w)]
    /\ crash' = "use_after_free"
    /\ UNCHANGED <<mainVars, serverOpen, poolVars, conn, epoll, netVars, workerVars, routineVars>>

InRoutine(w, at) == wpc[w] = at /\ wconn[w] = u_conn[place(w)]

\* EBADF: DescriptorError; close_client finds the socket closed.
OnClosed(w) ==
    /\ InRoutine(w, "read") \/ InRoutine(w, "write")
    /\ ~conn[wconn[w]].valid
    /\ ReturnFrom(w, p_rout[wconn[w]])
    /\ UNCHANGED <<mainVars, serverOpen, u_conn, closed, timeod, conn, epoll, netVars, crash, p_rout>>

Reading(w) == InRoutine(w, "read") /\ conn[wconn[w]].valid
Writing(w) == InRoutine(w, "write") /\ conn[wconn[w]].valid

CorRead(w) == Reading(w) /\ ReadToBuffer(w) /\ UNCHANGED routineVars

CorReadEnd(w) ==
    /\ Reading(w) /\ peer[wconn[w]].inbox = <<>> /\ peer[wconn[w]].state = "fin"
    /\ CloseClient(place(w))
    /\ ReturnFrom(w, p_rout[wconn[w]])
    /\ UNCHANGED <<mainVars, serverOpen, u_conn, timeod, netVars, crash, p_rout>>

\* tcp::Error: kept in the routine, thrown again by resume, caught by nobody.
SocketReset(w) ==
    /\ \/ Reading(w) /\ peer[wconn[w]].inbox = <<>>
       \/ Writing(w)
    /\ peer[wconn[w]].state = "rst"
    /\ crash' = "terminate"
    /\ UNCHANGED <<mainVars, serverOpen, poolVars, conn, epoll, netVars, workerVars, routineVars>>

\* What EPoll::mod leaves of crash.
ModResult(c) == IF epoll[c].added THEN crash ELSE "terminate"
Armed(c, opt) == IF epoll[c].added
                 THEN [epoll EXCEPT ![c].armed = opt \ {"ET_ONESHOT"}] ELSE epoll

\* Mutant: yield without a subscription.
CorIncomplete_NoSubscribe(w) ==
    /\ Reading(w) /\ ReadDone(w) /\ Parse(conn[wconn[w]].read) = "expecting"
    /\ YieldAt(w, "reading", crash)
    /\ UNCHANGED <<mainVars, serverOpen, u_conn, closed, timeod, conn, epoll, netVars>>

\* ExpectingData: subscribe(READ), yield.
CorIncomplete(w) ==
    LET c == wconn[w]
        opt == conn[c].option \cup {"READ", "ET_ONESHOT"} IN
    /\ Reading(w) /\ ReadDone(w) /\ Parse(conn[c].read) = "expecting"
    /\ conn' = [conn EXCEPT ![c].option = opt]
    /\ epoll' = Armed(c, opt)
    /\ YieldAt(w, "reading", ModResult(c))
    /\ UNCHANGED <<mainVars, serverOpen, u_conn, closed, timeod, netVars>>

CorIncorrect(w) ==
    /\ Reading(w) /\ ReadDone(w) /\ Parse(conn[wconn[w]].read) = "incorrect"
    /\ CloseClient(place(w))
    /\ ReturnFrom(w, p_rout[wconn[w]])
    /\ UNCHANGED <<mainVars, serverOpen, u_conn, timeod, netVars, crash, p_rout>>

\* OnRequest's answer goes to write_, read_ is cleared; unsubscribe(READ) arms
\* nothing, subscribe(WRITE) the rest; yield.
CorRequest(w) ==
    LET c == wconn[w]
        req == conn[c].read[1]
        opt == (IF req.ka THEN conn[c].option ELSE conn[c].option \ {"READ"})
                  \cup {"WRITE", "ET_ONESHOT"} IN
    /\ Reading(w) /\ ReadDone(w) /\ Parse(conn[c].read) = "ok"
    /\ conn' = [conn EXCEPT ![c].keep_alive = req.ka, ![c].write = Response(req.id),
                            ![c].read = <<>>, ![c].option = opt]
    /\ epoll' = Armed(c, opt)
    /\ YieldAt(w, "writing", ModResult(c))
    /\ UNCHANGED <<mainVars, serverOpen, u_conn, closed, timeod, netVars>>

\* Mutant: a short write does not shorten the buffer.
CorWrite_KeepsSent(w) ==
    LET c == wconn[w]
        room == IF Len(peer[c].wire) < Window THEN Window - Len(peer[c].wire) ELSE 0
        n == IF Len(conn[c].write) < room THEN Len(conn[c].write) ELSE room
        opt == (conn[c].option \ {"WRITE"}) \cup {"ET_ONESHOT"} IN
    /\ Writing(w) /\ peer[c].state # "rst"
    /\ room > 0 \/ conn[c].write = <<>>
    /\ peer' = [peer EXCEPT ![c].wire = @ \o SubSeq(conn[c].write, 1, n)]
    /\ IF n = Len(conn[c].write)
       THEN /\ conn' = [conn EXCEPT ![c].write = <<>>, ![c].option = opt]
            /\ epoll' = Armed(c, opt) /\ crash' = ModResult(c)
            /\ wpc' = [wpc EXCEPT ![w] = "arm"]
       ELSE UNCHANGED <<conn, epoll, crash, wpc>>
    /\ UNCHANGED <<mainVars, serverOpen, poolVars, backlog, batch, wconn, routineVars>>

\* write_from_buffer; when the buffer is empty, unsubscribe(WRITE) re-arms the
\* connection while serve_client has not ended.
CorWrite(w) ==
    LET c == wconn[w]
        room == IF Len(peer[c].wire) < Window THEN Window - Len(peer[c].wire) ELSE 0
        n == IF Len(conn[c].write) < room THEN Len(conn[c].write) ELSE room
        opt == (conn[c].option \ {"WRITE"}) \cup {"ET_ONESHOT"} IN
    /\ Writing(w) /\ peer[c].state # "rst"
    /\ room > 0 \/ conn[c].write = <<>>
    /\ peer' = [peer EXCEPT ![c].wire = @ \o SubSeq(conn[c].write, 1, n)]
    /\ IF n = Len(conn[c].write)
       THEN /\ conn' = [conn EXCEPT ![c].write = <<>>, ![c].option = opt]
            /\ epoll' = Armed(c, opt) /\ crash' = ModResult(c)
            /\ wpc' = [wpc EXCEPT ![w] = "arm"]
       ELSE /\ conn' = [conn EXCEPT ![c].write = SubSeq(@, n + 1, Len(@))]
            /\ UNCHANGED <<epoll, crash, wpc>>
    /\ UNCHANGED <<mainVars, serverOpen, poolVars, backlog, batch, wconn, routineVars>>

\* EAGAIN: subscribe(WRITE), yield.
CorWriteBlocked(w) ==
    LET c == wconn[w]
        opt == conn[c].option \cup {"WRITE", "ET_ONESHOT"} IN
    /\ Writing(w) /\ peer[c].state # "rst"
    /\ Len(peer[c].wire) >= Window /\ conn[c].write # <<>>
    /\ conn' = [conn EXCEPT ![c].option = opt]
    /\ epoll' = Armed(c, opt)
    /\ YieldAt(w, "writing", ModResult(c))
    /\ UNCHANGED <<mainVars, serverOpen, u_conn, closed, timeod, netVars>>

CorCloseDone(w) ==
    /\ InRoutine(w, "arm") /\ conn[wconn[w]].option = {"ET_ONESHOT"}
    /\ CloseClient(place(w))
    /\ ReturnFrom(w, p_rout[wconn[w]])
    /\ UNCHANGED <<mainVars, serverOpen, u_conn, timeod, netVars, crash, p_rout>>

\* set_routine(nullptr), subscribe(UNKNOWN): the connection is armed again.
CorRearm(w) ==
    LET c == wconn[w] IN
    /\ InRoutine(w, "arm") /\ conn[c].option # {"ET_ONESHOT"}
    /\ p_rout' = [p_rout EXCEPT ![c] = None]
    /\ EpollMod(c, conn[c].option)
    /\ ReturnFrom(w, p_rout[c])
    /\ UNCHANGED <<mainVars, serverOpen, u_conn, closed, timeod, conn, netVars>>

WorkerNext(w) ==
    \/ (EpollWait(w) \/ LockPlace(w)) /\ UNCHANGED routineVars
    \/ Create(w) \/ Resume(w) \/ ResumeForeign(w) \/ ResumeReturned(w) \/ ResumeFinished(w)
    \/ StaleConn(w) \/ OnClosed(w) \/ CorRead(w) \/ CorReadEnd(w) \/ SocketReset(w)
    \/ CorIncomplete(w) \/ CorIncorrect(w) \/ CorRequest(w)
    \/ CorWrite(w) \/ CorWriteBlocked(w) \/ CorCloseDone(w) \/ CorRearm(w)

-----------------------------------------------------------------------------
(* The server.                                                             *)

Main == crash = "none" /\ CorMainNext /\ UNCHANGED <<workerVars, routineVars>>
Worker(w) == crash = "none" /\ WorkerNext(w)
World ==
    /\ crash = "none"
    /\ (\E c \in Conns : ClientNext(c)) \/ Tick
    /\ UNCHANGED <<workerVars, routineVars>>

Next == Main \/ (\E w \in Workers : Worker(w)) \/ World

Spec == Init /\ [][Next]_vars

-----------------------------------------------------------------------------
(* Properties.                                                             *)

TypeOK ==
    /\ mpc \in MainPcs /\ mcur \in Places /\ mnew \in Conns \cup {NoConn}
    /\ closed \in Seq(Places) /\ timeod \in Seq(Places)
    /\ conn \in [Conns -> ConnFields] /\ epoll \in [Conns -> Registration]
    /\ peer \in [Conns -> PeerFields] /\ crash \in Crashes \cup {"none"}
    /\ wpc \in [Workers -> WorkerPcs] /\ batch \in [Workers -> Seq(Event)]
    /\ p_rout \in [Conns -> Routines \cup {None}]
    /\ routine \in [Routines -> RoutineFields]
    /\ made \in 0..MaxRoutines /\ finished \in Seq(Routines)
    /\ current \in [Workers -> Routines \cup {None}]

\* A routine serves one client: no two open connections have the same one, two
\* workers never run the same one, a routine on the queue of finished ones
\* serves nobody, and no event resumes the routine of another client (create,
\* resume, set_routine).
RoutineExclusive ==
    /\ \A c, d \in Conns :
          c # d /\ conn[c].valid /\ conn[d].valid /\ p_rout[c] # None => p_rout[c] # p_rout[d]
    /\ \A v, w \in Workers :
          v # w /\ wpc[v] \in {"read", "write", "arm"} /\ wpc[w] \in {"read", "write", "arm"}
             => p_rout[wconn[v]] # p_rout[wconn[w]]
    /\ \A i \in DOMAIN finished : \A c \in Conns :
          conn[c].valid => p_rout[c] # finished[i]
    /\ crash # "foreign_routine"

\* A suspended routine of an open connection waits for what epoll waits for:
\* "writing" ones have something to write and are armed for it or have an event.
SuspendedArmed ==
    \A p \in Live :
        LET c == u_conn[p] IN
        crash = "none" /\ p_rout[c] # None /\ routine[p_rout[c]].at \in {"reading", "writing"}
          /\ (\A w \in Workers : wconn[w] # c)
          => \/ (IF routine[p_rout[c]].at = "reading" THEN "READ" ELSE "WRITE") \in epoll[c].armed
             \/ \E w \in Workers : \E i \in DOMAIN batch[w] : batch[w][i].place = p

\* Resuming a routine leads back to the worker that resumed it.
ContextSafe == crash \notin {"foreign_context", "no_current_routine"}

-----------------------------------------------------------------------------
(* The inductive invariant behind SuspendedArmed and what is true of       *)
(* RoutineExclusive: as long as no late event resumes a foreign routine.   *)

InRoutinePcs == {"read", "write", "arm"}

\* Worker w has, or has taken, an event for place p.
Has(w, p) == \E i \in DOMAIN batch[w] : batch[w][i].place = p

\* c has been put into a place.
Entered(c) ==
    /\ peer[c].state # "new" /\ c \notin ToSet(backlog)
    /\ ~(c = mnew /\ mpc \in {"replace", "emplace"})

\* A worker has one event of a place at most, and none while it waits.
BatchInv ==
    \A w \in Workers :
        /\ wpc[w] = "wait" => batch[w] = <<>>
        /\ \A i, j \in DOMAIN batch[w] : batch[w][i].place = batch[w][j].place => i = j

\* The connection of a worker past the lock has been in the worker's place and
\* in no other, and no two workers have the same one.
HoldInv ==
    /\ \A w \in Workers : wpc[w] \in {"wait", "lock"} => wconn[w] = NoConn
    /\ \A w \in Workers :
          wpc[w] \in {"check", "read", "write", "arm"} =>
              /\ Entered(wconn[w])
              /\ \A p \in Places : u_conn[p] = wconn[w] => p = place(w)
    /\ \A v, w \in Workers :
          /\ wpc[v] \in {"check", "read", "write", "arm"}
          /\ wpc[w] \in {"check", "read", "write", "arm"}
          /\ wconn[v] = wconn[w]
          => v = w

\* Routines are handed out in order; one on the queue has nowhere to go on and
\* is there once.
QueueInv ==
    /\ \A c \in Conns : p_rout[c] # None => p_rout[c] <= made /\ Entered(c)
    /\ \A i, j \in DOMAIN finished : finished[i] = finished[j] => i = j
    /\ \A i \in DOMAIN finished :
          finished[i] <= made /\ routine[finished[i]].at = "finished"

\* r serves c and has not returned.
ServedBy(c, r) == r # None /\ routine[r].client = c /\ routine[r].at \in Suspended

\* The routine of an open connection is its own and not finished.
OwnInv == \A c \in Conns : conn[c].valid /\ p_rout[c] # None => ServedBy(c, p_rout[c])

\* A worker inside serve_client runs the routine of its connection, which is
\* perhaps closed, but not recycled.
ServeInv ==
    \A w \in Workers : wpc[w] \in InRoutinePcs =>
        /\ ServedBy(wconn[w], p_rout[wconn[w]])
        /\ current[w] \in {None, p_rout[wconn[w]]}

\* What is registered in epoll is in a place, and was not registered before the
\* main thread did it.
RegisteredInv ==
    \A c \in Conns : epoll[c] # NotAdded =>
        Entered(c) /\ \A p \in Places : u_conn[p] = c => ~Registering(p)

RoutineInv ==
    /\ BatchInv /\ HoldInv /\ QueueInv /\ OwnInv /\ ServeInv
    /\ RegisteredInv /\ SuspendedArmed

=============================================================================
