----------------------------- MODULE NetService -----------------------------
(***************************************************************************)
(* 5.net: Service::run, its listener (as the calculator and the echo       *)
(* server of the tests), the kernel's epoll and sockets, and clients that  *)
(* use tcp::Connection (3.tcp): connect, send a request, read the answer,  *)
(* close.  An exception that leaves run() ends the Service; the program    *)
(* around it makes a new one, and clients that are refused try again.      *)
(***************************************************************************)
EXTENDS Integers, Sequences, SequencesExt, FiniteSetsExt

CONSTANTS
    Clients,    \* tcp::Connection objects, and their connections
    NoClient,
    NumFd,      \* descriptors the server has for connections
    ReqLen,     \* units of a request
    RespLen,    \* units of an answer
    BufSize,    \* units read_to_buffer takes (BUF_SIZE)
    Window,     \* units the socket to a client holds
    Env         \* "abort": clients give up (time-outs); "refuse": the listener
                \* closes some new connections; "hangup": or served ones;
                \* "nofile": the system runs out of descriptors

ASSUME NetAssumption ==
    /\ NoClient \notin Clients
    /\ NumFd \in Nat \ {0} /\ ReqLen \in Nat \ {0} /\ RespLen \in Nat \ {0}
    /\ BufSize \in Nat \ {0} /\ Window \in Nat \ {0}
    /\ Env \subseteq {"abort", "refuse", "hangup", "nofile"}

VARIABLES
    spc,            \* the service: "wait" in epoll_wait, "events", "down"
    batch,          \* events of the last epoll_wait not handled yet
    connections,    \* connections_
    conn,           \* a BufferedConnection: _fd, epoll_option_, read_, write_
    file,           \* the kernel: which connection a descriptor refers to,
    reg,            \* and what it is registered for
    backlog,        \* connections not accepted yet
    peer            \* the client's side: where it is, units sent, received, on
                    \* the way to the server (inbox) and back (wire), and what
                    \* the server's socket knows of its end

serverVars == <<spc, batch, connections, conn, file, reg, backlog>>
vars == <<serverVars, peer>>

Fds == 1..NumFd
SERVER == 0         \* server_'s descriptor
CLOSED == -1        \* the _fd of an invalid Descriptor

NoConn == [fd |-> CLOSED, opt |-> {}, read |-> 0, write |-> <<>>]

Init ==
    /\ spc = "wait" /\ batch = {} /\ connections = <<>> /\ backlog = <<>>
    /\ conn = [c \in Clients |-> NoConn]
    /\ file = [fd \in Fds |-> NoClient] /\ reg = [fd \in Fds |-> {}]
    /\ peer = [c \in Clients |-> [st |-> "idle", sent |-> 0, got |-> <<>>,
                                  inbox |-> 0, wire |-> <<>>, end |-> "open"]]

-----------------------------------------------------------------------------
(* The kernel.                                                             *)

Answer(c) == [k \in 1..RespLen |-> <<c, k>>]

\* The server's end of c's connection exists.
Attached(c) == c \in ToSet(backlog) \/ \E fd \in Fds : file[fd] = c

Ready(c) ==
    (IF peer[c].inbox > 0 \/ peer[c].end # "open" THEN {"IN"} ELSE {})
    \cup (IF Len(peer[c].wire) < Window \/ peer[c].end = "rst" THEN {"OUT"} ELSE {})
    \cup (IF peer[c].end # "open" THEN {"RDHUP"} ELSE {})

\* What epoll_wait reports of a descriptor; errors are reported unasked.
Reported(fd) ==
    (reg[fd] \cap Ready(file[fd])) \cup (IF peer[file[fd]].end = "rst" THEN {"ERR"} ELSE {})

Events ==
    {[fd |-> fd, of |-> file[fd], bits |-> Reported(fd)] :
        fd \in {x \in Fds : file[x] # NoClient /\ Reported(x) # {}}}
    \cup (IF backlog = <<>> THEN {} ELSE {[fd |-> SERVER, of |-> NoClient, bits |-> {"IN"}]})

FreeFds == {fd \in Fds : file[fd] = NoClient}

\* ::close of a connection's descriptor also ends its registration.
Release(fd) ==
    /\ file' = [f \in Fds |-> IF f = fd THEN NoClient ELSE file[f]]
    /\ reg' = [f \in Fds |-> IF f = fd THEN {} ELSE reg[f]]

-----------------------------------------------------------------------------
(* BufferedConnection and the listener.                                    *)

\* Mutant: CLOSE is not kept in the options.
Subscribe_NoClose(b, opt) == [b EXCEPT !.opt = @ \cup opt]

Subscribe(b, opt) == [b EXCEPT !.opt = @ \cup opt \cup {"RDHUP"}]
Unsubscribe(b, opt) == [b EXCEPT !.opt = (@ \ opt) \cup {"RDHUP"}]

CloseConn(b) == [b EXCEPT !.opt = {}, !.fd = CLOSED]

\* What a callback may leave of its connection b.
OnNewConnection(b) ==
    {Subscribe(b, {"IN"})} \cup (IF "refuse" \in Env THEN {CloseConn(b)} ELSE {})

\* A listener that expects another request stays subscribed for reading.
OnReadAvailable(c, b) ==
    IF b.read = ReqLen
    THEN {[Subscribe(r, {"OUT"}) EXCEPT !.write = @ \o Answer(c)] : r \in {b, Unsubscribe(b, {"IN"})}}
    ELSE {b}

OnWriteDone(b) ==
    {Unsubscribe(b, {"OUT"})} \cup (IF "hangup" \in Env THEN {CloseConn(b)} ELSE {})

\* The calculator writes -1.
OnError(c, b) == {b, [b EXCEPT !.write = Append(@, <<c, -1>>)]}

-----------------------------------------------------------------------------
(* Service::run.                                                           *)

EpollWait ==
    /\ spc = "wait" /\ Events # {}
    /\ batch' = Events /\ spc' = "events"
    /\ UNCHANGED <<connections, conn, file, reg, backlog, peer>>

Handled(e) ==
    /\ batch' = batch \ {e}
    /\ spc' = IF batch = {e} THEN "wait" ELSE "events"

\* An exception leaves run(): the Service and its descriptors are destroyed.
Throw ==
    /\ spc' = "down" /\ batch' = {} /\ connections' = <<>> /\ backlog' = <<>>
    /\ conn' = [c \in Clients |-> NoConn]
    /\ file' = [fd \in Fds |-> NoClient] /\ reg' = [fd \in Fds |-> {}]
    /\ UNCHANGED peer

\* Mutant: the new connection stays registered for CLOSE only.
Accepted_NoMod(fd, b) ==
    /\ file' = [file EXCEPT ![fd] = IF b.fd = CLOSED THEN NoClient ELSE Head(backlog)]
    /\ reg' = [reg EXCEPT ![fd] = IF b.fd = CLOSED THEN {} ELSE {"RDHUP"}]

\* accept_non_block, epoll_.add, and after the callback epoll_.mod.
Accepted(fd, b) ==
    /\ file' = [file EXCEPT ![fd] = IF b.fd = CLOSED THEN NoClient ELSE Head(backlog)]
    /\ reg' = [reg EXCEPT ![fd] = b.opt]

Accept(e) ==
    LET c == Head(backlog)
        fd == Min(FreeFds)
    IN
    /\ e.fd = SERVER /\ FreeFds # {}
    /\ \E b \in OnNewConnection([NoConn EXCEPT !.fd = fd]) :
          conn' = [conn EXCEPT ![c] = b] /\ Accepted(fd, b)
    /\ connections' = Append(connections, c)
    /\ backlog' = Tail(backlog)
    /\ Handled(e) /\ UNCHANGED peer

\* accept4 fails: no descriptor is left to the process or the system.
AcceptFails(e) == e.fd = SERVER /\ (FreeFds = {} \/ "nofile" \in Env) /\ Throw

\* find_if: the first element with the event's descriptor.
Matches(e) == {i \in DOMAIN connections : conn[connections[i]].fd = e.fd}
Found(e) == connections[Min(Matches(e))]

\* Mutant: the first connection is erased in place of the one that is closed.
Settle_ErasesFirst(e, c, b) ==
    IF b.opt = {} \/ "RDHUP" \in e.bits
    THEN /\ connections' = Tail(connections)
         /\ conn' = [conn EXCEPT ![c] = NoConn]
         /\ Release(e.fd)
    ELSE /\ conn' = [conn EXCEPT ![c] = b]
         /\ reg' = [reg EXCEPT ![e.fd] = b.opt]
         /\ UNCHANGED <<connections, file>>

\* The end of a client's event: the listener has closed the connection or the
\* client has, or epoll_.mod.  After erase the code looks at the destroyed
\* connection; its _fd still is -1 there and nothing more is done.
Settle(e, c, b) ==
    IF b.opt = {} \/ "RDHUP" \in e.bits
    THEN /\ connections' = RemoveAt(connections, Min(Matches(e)))
         /\ conn' = [conn EXCEPT ![c] = NoConn]
         /\ Release(e.fd)
    ELSE /\ conn' = [conn EXCEPT ![c] = b]
         /\ reg' = [reg EXCEPT ![e.fd] = b.opt]
         /\ UNCHANGED <<connections, file>>

EventError(e, c) ==
    /\ "ERR" \in e.bits
    /\ \E b \in OnError(c, conn[c]) : Settle(e, c, b)
    /\ Handled(e) /\ UNCHANGED <<backlog, peer>>

\* Mutant: read_to_buffer does not resize its buffer to what was read.
ReadToBuffer_Whole(b, n) == [b EXCEPT !.read = @ + BufSize]

ReadToBuffer(b, n) == [b EXCEPT !.read = @ + n]

\* read_to_buffer, then the callback.  A reset that has arrived since
\* epoll_wait makes read throw when no data are left.
EventIn(e, c) ==
    LET n == Min({BufSize, peer[c].inbox})
        b == ReadToBuffer(conn[c], n)
    IN
    /\ "ERR" \notin e.bits /\ "IN" \in e.bits
    /\ IF n = 0 /\ peer[c].end = "rst" THEN Throw
       ELSE /\ \E r \in IF n = 0 THEN OnError(c, b) ELSE OnReadAvailable(c, b) : Settle(e, c, r)
            /\ peer' = [peer EXCEPT ![c].inbox = @ - n]
            /\ Handled(e) /\ UNCHANGED backlog

\* Mutant: write_ keeps what has been written.
WriteFromBuffer_Keeps(b, n) == b

\* Mutant: write_from_buffer forgets what the socket did not take.
WriteFromBuffer_Drops(b, n) == [b EXCEPT !.write = <<>>]

\* write_.erase(0, size).
WriteFromBuffer(b, n) == [b EXCEPT !.write = SubSeq(@, n + 1, Len(@))]

EventOut(e, c) ==
    LET n == Min({Window - Len(peer[c].wire), Len(conn[c].write)}) IN
    /\ e.bits \cap {"ERR", "IN"} = {} /\ "OUT" \in e.bits
    /\ IF conn[c].write = <<>>
       THEN /\ \E b \in OnWriteDone(conn[c]) : Settle(e, c, b)
            /\ Handled(e) /\ UNCHANGED <<backlog, peer>>
       ELSE IF peer[c].end = "rst" THEN Throw
       ELSE /\ Settle(e, c, WriteFromBuffer(conn[c], n))
            /\ peer' = [peer EXCEPT ![c].wire = @ \o SubSeq(conn[c].write, 1, n)]
            /\ Handled(e) /\ UNCHANGED backlog

EventClose(e, c) ==
    /\ e.bits = {"RDHUP"}
    /\ Settle(e, c, conn[c])
    /\ Handled(e) /\ UNCHANGED <<backlog, peer>>

ClientEvent(e) ==
    /\ e.fd # SERVER /\ Matches(e) # {}
    /\ LET c == Found(e) IN
       EventError(e, c) \/ EventIn(e, c) \/ EventOut(e, c) \/ EventClose(e, c)

\* The program makes a new Service.
Restart ==
    /\ spc = "down" /\ spc' = "wait"
    /\ UNCHANGED <<batch, connections, conn, file, reg, backlog, peer>>

ServerNext ==
    \/ EpollWait \/ Restart
    \/ \E e \in batch : Accept(e) \/ AcceptFails(e) \/ ClientEvent(e)

-----------------------------------------------------------------------------
(* The clients: tcp::Connection.                                           *)

\* connect; while the service is down it throws AddressError and is retried.
Connect(c) ==
    /\ peer[c].st = "idle" /\ spc # "down"
    /\ peer' = [peer EXCEPT ![c].st = "open"]
    /\ backlog' = Append(backlog, c)
    /\ UNCHANGED <<spc, batch, connections, conn, file, reg>>

\* A unit of writeExact.
Write(c) ==
    /\ peer[c].st = "open" /\ peer[c].sent < ReqLen /\ Attached(c)
    /\ peer' = [peer EXCEPT ![c].sent = @ + 1, ![c].inbox = @ + 1]
    /\ UNCHANGED serverVars

\* A read, or one of readExact: up to the length asked for.
Read(c) ==
    /\ peer[c].st = "open"
    /\ \E n \in 1..Len(peer[c].wire) :
          peer' = [peer EXCEPT ![c].got = @ \o SubSeq(peer[c].wire, 1, n),
                               ![c].wire = SubSeq(@, n + 1, Len(@))]
    /\ UNCHANGED serverVars

\* close: unread data make it a reset.  The object forgets what it has read.
CloseClient(c, st) ==
    peer' = [peer EXCEPT ![c] = [st |-> st, sent |-> 0, got |-> <<>>, wire |-> <<>>,
                                 inbox |-> IF Attached(c) THEN @.inbox ELSE 0,
                                 end |-> IF @.wire = <<>> THEN "fin" ELSE "rst"]]

Finish(c) ==
    /\ peer[c].st = "open" /\ Len(peer[c].got) = RespLen
    /\ CloseClient(c, "done")
    /\ UNCHANGED serverVars

\* read returns 0 or an error, write an error: readExact and writeExact throw.
Fail(c) ==
    /\ peer[c].st = "open" /\ ~Attached(c)
    /\ peer[c].wire = <<>> /\ Len(peer[c].got) < RespLen
    /\ CloseClient(c, "failed")
    /\ UNCHANGED serverVars

\* TimeOutError, or the program ends.
Abort(c) ==
    /\ "abort" \in Env /\ peer[c].st = "open"
    /\ CloseClient(c, "failed")
    /\ UNCHANGED serverVars

\* Data for a closed socket are answered with a reset.
Reset(c) ==
    /\ peer[c].st \in {"done", "failed"} /\ peer[c].wire # <<>>
    /\ peer' = [peer EXCEPT ![c].wire = <<>>, ![c].end = "rst"]
    /\ UNCHANGED serverVars

ClientWorks(c) == Connect(c) \/ Write(c) \/ Read(c) \/ Finish(c) \/ Fail(c)

Next ==
    \/ ServerNext
    \/ \E c \in Clients : ClientWorks(c) \/ Abort(c) \/ Reset(c)

\* The server's thread and the clients keep running.
Spec ==
    /\ Init /\ [][Next]_vars
    /\ WF_vars(ServerNext) /\ \A c \in Clients : WF_vars(ClientWorks(c))

-----------------------------------------------------------------------------
(* Properties.                                                             *)

EventType == [fd : Fds \cup {SERVER}, of : Clients \cup {NoClient},
              bits : SUBSET {"ERR", "IN", "OUT", "RDHUP"}]
ConnType == [fd : Fds \cup {CLOSED}, opt : SUBSET {"IN", "OUT", "RDHUP"},
             read : 0..ReqLen, write : Seq(Clients \X Int)]
PeerType == [st : {"idle", "open", "done", "failed"}, sent : 0..ReqLen,
             got : Seq(Clients \X Int), inbox : 0..ReqLen,
             wire : Seq(Clients \X Int), end : {"open", "fin", "rst"}]

TypeOK ==
    /\ spc \in {"wait", "events", "down"}
    /\ batch \subseteq EventType
    /\ connections \in Seq(Clients) /\ backlog \in Seq(Clients)
    /\ conn \in [Clients -> ConnType]
    /\ file \in [Fds -> Clients \cup {NoClient}]
    /\ reg \in [Fds -> SUBSET {"IN", "OUT", "RDHUP"}]
    /\ peer \in [Clients -> PeerType]

\* Descriptors are closed and reused while events of the same epoll_wait are
\* still to be handled; find_if nevertheless finds a connection for each of
\* them (it never dereferences end()), and it is the one the event is about.
EventFindsOwner ==
    \A e \in batch : e.fd # SERVER => Matches(e) # {} /\ Found(e) = e.of

\* Every descriptor belongs to one connection of connections_, and between two
\* calls of epoll_wait the kernel waits for exactly what the connection is
\* subscribed to: no subscription of a callback is lost.
RegistrationExact ==
    /\ \A fd \in Fds : file[fd] # NoClient =>
          file[fd] \in ToSet(connections) /\ conn[file[fd]].fd = fd
    /\ spc = "wait" => \A c \in ToSet(connections) :
          conn[c].fd # CLOSED => file[conn[c].fd] = c /\ reg[conn[c].fd] = conn[c].opt

\* A client receives its own answer, in order and without gaps, and nothing
\* that onError has written.
AnswerIntegrity ==
    \A c \in Clients :
        peer[c].st = "open" => IsPrefix(peer[c].got \o peer[c].wire, Answer(c))

\* Every client comes to an end: it is answered, or learns that it will not be,
\* however often the service is made anew.
ClientsEnd == \A c \in Clients : <>(peer[c].st \in {"done", "failed"})

\* The service lets go of client c.
LetGoDone(c) ==
    peer[c].st = "open" /\ Attached(c) /\ ~Attached(c)' =>
        \/ Len(peer[c].got) + Len(peer[c].wire) = RespLen
        \/ c \in ToSet(backlog) \/ spc' = "down"

\* The service lets go of a connected client only when the whole answer is on
\* its way, when the listener refuses it, or when an exception ends the service.
NotDropped == [][\A c \in Clients : LetGoDone(c)]_vars

\* The connection of a client that has closed is closed and leaves the list.
ClosedLeaves ==
    \A c \in Clients :
        (peer[c].st \in {"done", "failed"}) ~> (~Attached(c) /\ conn[c].fd = CLOSED)

-----------------------------------------------------------------------------
(* The inductive invariant.                                                *)

\* A client is in one list and once; backlog is what has not been accepted.
ListsInv ==
    /\ \A i, j \in DOMAIN connections : connections[i] = connections[j] => i = j
    /\ \A i, j \in DOMAIN backlog : backlog[i] = backlog[j] => i = j
    /\ \A c \in Clients : c \in ToSet(connections) => c \notin ToSet(backlog) /\ peer[c].st # "idle"
    /\ \A c \in Clients : c \in ToSet(backlog) =>
          peer[c].st # "idle" /\ (peer[c].st = "open" => peer[c].got = <<>> /\ peer[c].wire = <<>>)
    /\ spc = "down" => connections = <<>> /\ backlog = <<>>

\* file and the _fd of the connections are inverse to each other.
FilesInv ==
    /\ \A fd \in Fds : file[fd] # NoClient =>
          file[fd] \in ToSet(connections) /\ conn[file[fd]].fd = fd
    /\ \A c \in Clients : conn[c].fd # CLOSED =>
          /\ file[conn[c].fd] = c /\ reg[conn[c].fd] = conn[c].opt
          /\ "RDHUP" \in conn[c].opt

\* What was true when epoll_wait reported an event still is.
EventInv(e) ==
    IF e.fd = SERVER THEN backlog # <<>>
    ELSE /\ e.of \in Clients /\ file[e.fd] = e.of
         /\ "ERR" \in e.bits => "RDHUP" \in e.bits
         /\ "RDHUP" \in e.bits => peer[e.of].end # "open"
         /\ "OUT" \in e.bits => "OUT" \in reg[e.fd]
         /\ "IN" \in e.bits => peer[e.of].inbox > 0 \/ "RDHUP" \in e.bits

BatchInv ==
    /\ (batch # {}) <=> (spc = "events")
    /\ \A e, f \in batch : e.fd = f.fd => e = f
    /\ \A e \in batch : EventInv(e)

Numbered(c, s, from) == \A k \in 1..Len(s) : s[k] = <<c, from + k>>

\* The client's side p of a connection and the server's side b: the answer is
\* spread over what the client has got, the wire and write_.
PairInv(c, p, b) ==
    /\ p.st \in {"idle", "open"} => p.end = "open"
    /\ b.read + p.inbox <= ReqLen /\ Len(p.wire) <= Window
    /\ p.st = "idle" =>
          b = NoConn /\ p.sent = 0 /\ p.inbox = 0 /\ p.got = <<>> /\ p.wire = <<>>
    /\ p.st = "open" =>
          /\ b.read + p.inbox <= p.sent
          /\ Numbered(c, p.got, 0) /\ Numbered(c, p.wire, Len(p.got))
          /\ Len(p.got) + Len(p.wire) <= RespLen
          /\ b.fd # CLOSED =>
                IF b.read = ReqLen
                THEN /\ Numbered(c, b.write, Len(p.got) + Len(p.wire))
                     /\ Len(p.got) + Len(p.wire) + Len(b.write) = RespLen
                ELSE /\ p.got = <<>> /\ p.wire = <<>> /\ b.write = <<>>
                     /\ "OUT" \notin b.opt

\* Inductive: lists, descriptors and registrations agree, what epoll_wait has
\* reported still is so when it is handled, and every client's answer is in
\* order over its three places (Service::run, write_from_buffer).
IInv ==
    /\ TypeOK /\ ListsInv /\ FilesInv /\ BatchInv
    /\ \A c \in Clients : PairInv(c, peer[c], conn[c])

=============================================================================
