-------------------------- MODULE PlacePoolProofs ---------------------------
(***************************************************************************)
(* HttpService implements PlacePool.  A step that opens and closes nothing *)
(* and accepts nobody is a stuttering step of the pool; a close, by a      *)
(* worker or by a time-out, is Vacate; handing a new or a reused place to  *)
(* an accepted connection is Occupy.  IInv gives the guards: what is       *)
(* reused is closed, and what is placed has never been placed before.      *)
(***************************************************************************)
EXTENDS HttpServiceProofs

-----------------------------------------------------------------------------
(* Stuttering steps of the pool.                                           *)

\* Nothing is opened or closed and no place changes hands.
SameSlots ==
  /\ u_conn' = u_conn
  /\ \A c \in Conns : conn'[c].valid = conn[c].valid

\* Nobody connects, is accepted or is placed.
SameWaiting ==
  /\ backlog' = backlog
  /\ \A c \in Conns : peer'[c].state = "new" <=> peer[c].state = "new"
  /\ mpc \in {"replace", "emplace"} <=> mpc' \in {"replace", "emplace"}
  /\ mpc \in {"replace", "emplace"} => mnew' = mnew

\* Only what places and sockets say matters to the pool, not the buffers,
\* registrations, ages and locks.
LEMMA SlotsStutter ==
  ASSUME IInv, SameSlots
  PROVE  PoolSlot' = PoolSlot
<1>1. \A p \in Places : u_conn[p] # NoConn => u_conn[p] \in Conns
  BY DEF IInv, TypeOK
<1>2. \A p \in Places : p \in Live' <=> p \in Live
  BY <1>1 DEF SameSlots, Live
<1>3. u_conn' = u_conn
  BY DEF SameSlots
<1> QED BY <1>2, <1>3 DEF PoolSlot

\* A connection waits for a place from before it connects until it is placed.
LEMMA WaitingStutter ==
  ASSUME SameWaiting
  PROVE  PoolWaiting' = PoolWaiting
<1>1. ToSet(backlog') = ToSet(backlog)
  BY DEF SameWaiting
<1>2. ASSUME NEW c \in Conns
      PROVE  (c = mnew' /\ mpc' \in {"replace", "emplace"}) <=> (c = mnew /\ mpc \in {"replace", "emplace"})
  BY DEF SameWaiting
<1>3. \A c \in Conns : peer'[c].state = "new" <=> peer[c].state = "new"
  BY DEF SameWaiting
<1> QED BY <1>1, <1>2, <1>3 DEF PoolWaiting

\* Most steps of the server are stuttering steps of the pool.
LEMMA PoolStutter ==
  ASSUME IInv, SameSlots, SameWaiting
  PROVE  UNCHANGED Pool!poolvars
BY SlotsStutter, WaitingStutter DEF Pool!poolvars

-----------------------------------------------------------------------------
(* Steps of the pool.                                                      *)

\* A close of an open connection, whoever does it, vacates one place.
LEMMA CloseVacates ==
  ASSUME IInv, NEW p \in Places, NEW c \in Conns, CloseUpdate(c, p), conn[c].valid, SameWaiting
  PROVE  Pool!Vacate(p)
<1>1. /\ ~conn'[c].valid
      /\ \A d \in Conns : d # c => conn'[d] = conn[d]
  BY CloseFacts
<1>2. u_conn' = u_conn /\ u_conn[p] = c /\ c # NoConn
  BY ConstantsAssumption DEF CloseUpdate
<1>3. \A q \in Places : q # p /\ u_conn[q] # NoConn => u_conn[q] # c /\ u_conn[q] \in Conns
  BY <1>2 DEF IInv, PlacedOnce, TypeOK
<1>4. p \in Live /\ p \notin Live'
  BY <1>1, <1>2 DEF Live
<1>5. \A q \in Places : q # p => (q \in Live' <=> q \in Live)
  BY <1>1, <1>2, <1>3 DEF Live
<1>6. PoolSlot[p] # NoConn
  BY <1>2, <1>4 DEF PoolSlot
<1>7. PoolSlot' = [PoolSlot EXCEPT ![p] = NoConn]
  BY <1>2, <1>4, <1>5 DEF PoolSlot
<1> QED BY <1>6, <1>7, WaitingStutter DEF Pool!Vacate

\* Putting the accepted connection into a place that is new or closed occupies
\* a free place with a connection that was waiting and waits no more.
LEMMA PlacingOccupies ==
  ASSUME IInv, NEW p \in Places,
         mpc \in {"replace", "emplace"}, mpc' \notin {"replace", "emplace"},
         u_conn[p] = NoConn \/ ~conn[u_conn[p]].valid,
         u_conn' = [u_conn EXCEPT ![p] = mnew],
         conn' = [conn EXCEPT ![mnew] = FreshConn],
         UNCHANGED <<backlog, peer>>
  PROVE  Pool!Occupy(mnew, p) /\ mnew \in Conns
<1>1. mnew \in Conns /\ mnew # NoConn
  BY ConstantsAssumption DEF IInv, MainInv
<1>2. /\ peer[mnew].state # "new" /\ \A i \in DOMAIN backlog : backlog[i] # mnew
      /\ \A q \in Places : u_conn[q] # mnew
  BY DEF IInv, FreshInv
<1>3. mnew \in PoolWaiting
  BY <1>1 DEF PoolWaiting
<1>4. PoolWaiting' = PoolWaiting \ {mnew}
  <2>1. mnew \notin ToSet(backlog)
    BY <1>2 DEF ToSet
  <2> QED BY <1>2, <2>1 DEF PoolWaiting
<1>5. PoolSlot[p] = NoConn
  BY DEF PoolSlot, Live
<1>6. /\ u_conn \in [Places -> Conns \cup {NoConn}] /\ conn \in [Conns -> ConnFields]
  BY DEF IInv, TypeOK
<1>7. p \in Live' /\ u_conn'[p] = mnew
  <2>1. u_conn'[p] = mnew /\ conn'[mnew].valid
    BY <1>1, <1>6 DEF FreshConn, BlankConn
  <2> QED BY <1>1, <2>1 DEF Live
<1>8. ASSUME NEW q \in Places, q # p
      PROVE  u_conn'[q] = u_conn[q] /\ (q \in Live' <=> q \in Live)
  <2>1. u_conn'[q] = u_conn[q]
    BY <1>6, <1>8
  <2>2. u_conn[q] # NoConn => conn'[u_conn[q]] = conn[u_conn[q]]
    BY <1>2, <1>6
  <2> QED BY <2>1, <2>2 DEF Live
<1>9. PoolSlot' = [PoolSlot EXCEPT ![p] = mnew]
  BY <1>7, <1>8 DEF PoolSlot
<1> QED BY <1>1, <1>3, <1>4, <1>5, <1>9 DEF Pool!Occupy

-----------------------------------------------------------------------------
(* The steps of the server.                                                *)

\* Setting a field other than valid neither opens nor closes a connection.
LEMMA FieldSame ==
  ASSUME IInv, NEW c, NEW r,
         conn' = [conn EXCEPT ![c] = r], c \in Conns => r.valid = conn[c].valid
  PROVE  \A d \in Conns : conn'[d].valid = conn[d].valid
BY DEF IInv, TypeOK

\* The main thread's steps: two of them place a connection (a reused and a new
\* node), one closes a connection that timed out, the others leave the pool.
LEMMA MainPool ==
  ASSUME IInv, MainNext, UNCHANGED workerVars
  PROVE  [Pool!Next]_(Pool!poolvars)
<1>1. CASE RunLoop \/ AcceptTimeout \/ AcceptThrows \/ Splice \/ DumpFront \/ PopFront \/ EpollAdd
  <2>1. /\ UNCHANGED <<u_conn, conn, backlog, peer>>
        /\ mpc \notin {"replace", "emplace"} /\ mpc' \notin {"replace", "emplace"}
    BY <1>1 DEF RunLoop, AcceptTimeout, AcceptThrows, Splice, DumpFront, PopFront, EpollAdd,
                poolVars, netVars
  <2>2. SameSlots /\ SameWaiting
    BY <2>1 DEF SameSlots, SameWaiting
  <2> QED BY <2>2, PoolStutter
<1>2. CASE Accept
  <2>1. /\ UNCHANGED <<u_conn, conn, peer>> /\ mpc = "accept" /\ mpc' = "replace"
        /\ backlog # <<>> /\ mnew' = Head(backlog) /\ backlog' = Tail(backlog)
        /\ backlog \in Seq(Conns)
    BY <1>2 DEF Accept, poolVars, IInv, TypeOK
  <2>2. ToSet(backlog) = ToSet(backlog') \cup {mnew'}
    <3>1. /\ DOMAIN backlog = 1..Len(backlog) /\ Len(backlog) \in Nat
          /\ DOMAIN backlog' = 1..(Len(backlog) - 1)
          /\ \A i \in DOMAIN backlog' : i + 1 \in DOMAIN backlog /\ backlog'[i] = backlog[i + 1]
          /\ 1 \in DOMAIN backlog /\ mnew' = backlog[1]
      BY <2>1, HeadTail
    <3>2. \A i \in DOMAIN backlog : i # 1 => i - 1 \in DOMAIN backlog' /\ backlog[i] = backlog'[i - 1]
      <4> SUFFICES ASSUME NEW i \in DOMAIN backlog, i # 1
                   PROVE  i - 1 \in DOMAIN backlog' /\ backlog[i] = backlog'[i - 1]
        OBVIOUS
      <4>1. i - 1 \in DOMAIN backlog' /\ (i - 1) + 1 = i
        BY <3>1
      <4> QED BY <3>1, <4>1
    <3>3. ToSet(backlog) \subseteq ToSet(backlog') \cup {mnew'}
      BY <3>1, <3>2 DEF ToSet
    <3>4. ToSet(backlog') \cup {mnew'} \subseteq ToSet(backlog)
      BY <3>1 DEF ToSet
    <3> QED BY <3>3, <3>4
  <2>3. PoolWaiting' = PoolWaiting
    BY <2>1, <2>2 DEF PoolWaiting
  <2>4. SameSlots
    BY <2>1 DEF SameSlots
  <2> QED BY <2>3, <2>4, SlotsStutter DEF Pool!poolvars
<1>3. CASE TryReplace
  <2>1. CASE closed = <<>>
    <3>1. /\ UNCHANGED <<u_conn, conn, backlog, peer, mnew>>
          /\ mpc = "replace" /\ mpc' = "emplace"
      BY <1>3, <2>1 DEF TryReplace, netVars
    <3>2. SameSlots /\ SameWaiting
      BY <3>1 DEF SameSlots, SameWaiting
    <3> QED BY <3>2, PoolStutter
  <2>2. CASE closed # <<>>
    <3> DEFINE p == Head(closed)
    <3>1. /\ mpc = "replace" /\ mpc' = "splice"
          /\ u_conn' = [u_conn EXCEPT ![p] = mnew]
          /\ conn' = [conn EXCEPT ![mnew] = FreshConn]
          /\ UNCHANGED <<backlog, peer>>
      BY <1>3, <2>2 DEF TryReplace, netVars
    <3>2. p \in Places /\ 1 \in DOMAIN closed /\ p = closed[1]
      BY <2>2, HeadTail DEF IInv, TypeOK
    <3>3. ~conn[u_conn[p]].valid
      BY <3>2 DEF IInv, ClosedExact, ToSet
    <3> HIDE DEF p
    <3>4. Pool!Occupy(mnew, p) /\ mnew \in Conns
      BY <3>1, <3>2, <3>3, PlacingOccupies
    <3> QED BY <3>2, <3>4 DEF Pool!Next
  <2> QED BY <2>1, <2>2
<1>4. CASE Emplace
  <2>1. PICK p \in Places :
          /\ u_conn[p] = NoConn
          /\ u_conn' = [u_conn EXCEPT ![p] = mnew]
          /\ conn' = [conn EXCEPT ![mnew] = FreshConn]
    BY <1>4 DEF Emplace
  <2>2. mpc = "emplace" /\ mpc' = "setopt" /\ UNCHANGED <<backlog, peer>>
    BY <1>4 DEF Emplace, netVars
  <2>3. Pool!Occupy(mnew, p) /\ mnew \in Conns
    BY <2>1, <2>2, PlacingOccupies
  <2> QED BY <2>3 DEF Pool!Next
<1>5. CASE SetOption
  <2> DEFINE c == u_conn[mcur]
  <2>1. /\ mpc = "setopt" /\ mpc' = "add" /\ UNCHANGED <<u_conn, backlog, peer>>
        /\ conn' = [conn EXCEPT ![c] = [conn[c] EXCEPT !.option = {"READ", "ET_ONESHOT"}]]
    BY <1>5 DEF SetOption, poolVars, netVars
  <2>2. c \in Conns => [conn[c] EXCEPT !.option = {"READ", "ET_ONESHOT"}].valid = conn[c].valid
    BY OptionUpdate DEF IInv, TypeOK, Option
  <2>3. \A d \in Conns : conn'[d].valid = conn[d].valid
    BY <2>1, <2>2, FieldSame
  <2>4. SameSlots /\ SameWaiting
    BY <2>1, <2>3 DEF SameSlots, SameWaiting
  <2> QED BY <2>4, PoolStutter
<1>6. CASE CloseIfTimedOut
  <2> DEFINE c == u_conn[mcur]
  <2>1. /\ mpc = "expire" /\ mpc' \in {"pop", "loop"}
        /\ UNCHANGED <<u_conn, backlog, peer>>
        /\ mcur \in Places /\ c \in Conns
    BY <1>6 DEF CloseIfTimedOut, netVars, IInv, TypeOK, MainInv
  <2>2. SameWaiting
    BY <2>1 DEF SameWaiting
  <2>3. CASE conn[c].valid /\ TimedOut(c)
    <3>1. CloseUpdate(c, mcur)
      BY <1>6, <2>1, <2>3 DEF CloseIfTimedOut, CloseUpdate
    <3>2. Pool!Vacate(mcur)
      BY <2>1, <2>2, <2>3, <3>1, CloseVacates
    <3> QED BY <2>1, <3>2 DEF Pool!Next
  <2>4. CASE ~(conn[c].valid /\ TimedOut(c))
    <3>1. conn' = conn
      BY <1>6, <2>4 DEF CloseIfTimedOut
    <3>2. SameSlots
      BY <2>1, <3>1 DEF SameSlots
    <3> QED BY <2>2, <3>2, PoolStutter
  <2> QED BY <2>3, <2>4
<1> QED BY <1>1, <1>2, <1>3, <1>4, <1>5, <1>6 DEF MainNext

\* The clients, the clock and the caller of close() leave the pool: a client
\* that connects goes on waiting.
LEMMA WorldPool ==
  ASSUME IInv, EnvNext, UNCHANGED workerVars
  PROVE  [Pool!Next]_(Pool!poolvars)
<1>1. CASE Tick \/ Shutdown
  <2>1. /\ UNCHANGED <<mpc, mnew, u_conn, backlog, peer>>
    BY <1>1 DEF Tick, Shutdown, mainVars, poolVars, netVars
  <2>2. \A d \in Conns : conn'[d].valid = conn[d].valid
    <3>1. CASE Shutdown
      BY <3>1 DEF Shutdown
    <3>2. CASE Tick
      <4>1. conn \in [Conns -> ConnFields]
        BY DEF IInv, TypeOK
      <4>2. \A d \in Conns : [conn[d] EXCEPT !.age = @ + 1].valid = conn[d].valid
        BY <4>1 DEF ConnFields
      <4> QED BY <3>2, <4>2 DEF Tick
    <3> QED BY <1>1, <3>1, <3>2
  <2>3. SameSlots /\ SameWaiting
    BY <2>1, <2>2 DEF SameSlots, SameWaiting
  <2> QED BY <2>3, PoolStutter
<1>2. ASSUME NEW c \in Conns, Connect(c) PROVE UNCHANGED Pool!poolvars
  <2>1. /\ UNCHANGED <<mpc, mnew, u_conn, conn>>
        /\ peer[c].state = "new" /\ peer' = [peer EXCEPT ![c].state = "open"]
        /\ backlog' = Append(backlog, c)
        /\ backlog \in Seq(Conns) /\ peer \in [Conns -> PeerFields]
    BY <1>2 DEF Connect, mainVars, poolVars, IInv, TypeOK
  <2>2. ToSet(backlog') = ToSet(backlog) \cup {c}
    BY <2>1, AppendFacts DEF ToSet
  <2>3. \A d \in Conns : peer'[d].state = "new" <=> peer[d].state = "new" /\ d # c
    <3>1. peer[c] \in PeerFields
      BY <2>1
    <3>2. [peer[c] EXCEPT !.state = "open"].state = "open"
      BY <3>1 DEF PeerFields
    <3> QED BY <2>1, <3>2
  <2>4. PoolWaiting' = PoolWaiting
    BY <2>1, <2>2, <2>3 DEF PoolWaiting
  <2>5. SameSlots
    BY <2>1 DEF SameSlots
  <2> QED BY <2>4, <2>5, SlotsStutter DEF Pool!poolvars
<1>3. ASSUME NEW c \in Conns,
             SendWhole(c) \/ SendPart(c) \/ SendRest(c) \/ SendBad(c)
               \/ Receive(c) \/ Fin(c) \/ Rst(c)
      PROVE  UNCHANGED Pool!poolvars
  <2>1. PeerOnly
    BY <1>3, ClientTalks
  <2>2. SameSlots /\ SameWaiting
    BY <2>1 DEF PeerOnly, SameSlots, SameWaiting
  <2> QED BY <2>2, PoolStutter
<1> QED BY <1>1, <1>2, <1>3 DEF EnvNext, ClientNext

\* A worker's steps: closing its client vacates the place; the others change
\* buffers, registrations and locks.
LEMMA WorkerPool ==
  ASSUME IInv, NEW w \in Workers, WorkerNext(w)
  PROVE  [Pool!Next]_(Pool!poolvars)
<1> DEFINE c == wconn[w]
<1>1. CASE \/ EpollWait(w) \/ LockPlace(w) \/ StaleConn(w) \/ SkipClosed(w)
           \/ ReadReset(w) \/ WriteBlocked(w) \/ WriteReset(w)
  <2>1. UNCHANGED <<mpc, mnew, u_conn, conn, backlog, peer>>
    BY <1>1 DEF EpollWait, LockPlace, StaleConn, SkipClosed, ReadReset, WriteBlocked, WriteReset,
                mainVars, poolVars, netVars
  <2>2. SameSlots /\ SameWaiting
    BY <2>1 DEF SameSlots, SameWaiting
  <2> QED BY <2>2, PoolStutter
<1>2. CASE ReadEnd(w) \/ RequestIncorrect(w) \/ CloseDone(w)
  <2>1. /\ wpc[w] \in {"read", "write", "arm"} /\ CloseClient(place(w))
        /\ UNCHANGED <<mpc, mnew, u_conn, backlog, peer>>
    BY <1>2 DEF ReadEnd, RequestIncorrect, ReadDone, CloseDone, mainVars, netVars
  <2>2. place(w) \in Places /\ u_conn[place(w)] \in Conns
    BY <2>1, PlaceType
  <2>3. conn[u_conn[place(w)]].valid
    BY <2>1 DEF IInv, HandlerSafe
  <2>4. CloseUpdate(u_conn[place(w)], place(w))
    BY <2>1, <2>3 DEF CloseClient, CloseUpdate
  <2>5. SameWaiting
    BY <2>1 DEF SameWaiting
  <2>6. Pool!Vacate(place(w))
    BY <2>2, <2>3, <2>4, <2>5, CloseVacates
  <2> QED BY <2>2, <2>6 DEF Pool!Next
<1>3. CASE \/ ResetActivity(w) \/ ReadToBuffer(w) \/ RequestIncomplete(w)
           \/ HandleRequest(w) \/ WriteFromBuffer(w) \/ Rearm(w)
  <2>1. UNCHANGED <<mpc, mnew, u_conn, backlog>> /\ wpc[w] \in {"check", "read", "write", "arm"}
    BY <1>3 DEF ResetActivity, ReadToBuffer, RequestIncomplete, ReadDone, HandleRequest,
                WriteFromBuffer, Rearm, mainVars, poolVars, netVars
  <2>2. /\ c \in Conns /\ conn \in [Conns -> ConnFields] /\ peer \in [Conns -> PeerFields]
        /\ conn[c] \in ConnFields /\ peer[c] \in PeerFields
    BY <2>1 DEF IInv, TypeOK, WorkerInv
  <2>3. \A d \in Conns : conn'[d].valid = conn[d].valid
    <3>1. CASE ResetActivity(w)
      <4>1. conn' = [conn EXCEPT ![c] = [conn[c] EXCEPT !.age = 0]]
        BY <2>2, <3>1 DEF ResetActivity
      <4> QED BY <2>2, <4>1 DEF ConnFields
    <3>2. CASE ReadToBuffer(w)
      <4> DEFINE rd == Append(conn[c].read, Head(peer[c].inbox))
      <4>1. conn' = [conn EXCEPT ![c] = [conn[c] EXCEPT !.read = rd]]
        BY <2>2, <3>2 DEF ReadToBuffer
      <4> HIDE DEF rd
      <4> QED BY <2>2, <4>1 DEF ConnFields
    <3>3. CASE RequestIncomplete(w) \/ Rearm(w)
      <4>1. PICK opt : conn' = [conn EXCEPT ![c] = [conn[c] EXCEPT !.option = opt]]
        BY <2>2, <3>3 DEF RequestIncomplete, Rearm
      <4> QED BY <2>2, <4>1 DEF ConnFields
    <3>4. CASE HandleRequest(w)
      <4> DEFINE req == conn[c].read[1]
                 wr  == Response(req.id)
                 rd  == IF req.ka THEN <<>> ELSE conn[c].read
                 opt == (IF req.ka THEN conn[c].option ELSE conn[c].option \ {"READ"})
                           \cup {"WRITE", "ET_ONESHOT"}
                 ka  == req.ka
      <4>1. conn' = [conn EXCEPT ![c] =
                       [conn[c] EXCEPT !.keep_alive = ka, !.write = wr, !.read = rd, !.option = opt]]
        BY <2>2, <3>4 DEF HandleRequest
      <4> HIDE DEF req, wr, rd, opt, ka
      <4> QED BY <2>2, <4>1 DEF ConnFields
    <3>5. CASE WriteFromBuffer(w)
      <4> DEFINE opt == (conn[c].option \ {"WRITE"}) \cup {"ET_ONESHOT"}
      <4>1. \/ conn' = [conn EXCEPT ![c] = [conn[c] EXCEPT !.write = <<>>, !.option = opt]]
            \/ \E rest : conn' = [conn EXCEPT ![c] = [conn[c] EXCEPT !.write = rest]]
        BY <2>2, <3>5 DEF WriteFromBuffer
      <4> HIDE DEF opt
      <4>2. CASE conn' = [conn EXCEPT ![c] = [conn[c] EXCEPT !.write = <<>>, !.option = opt]]
        BY <2>2, <4>2 DEF ConnFields
      <4>3. ASSUME NEW rest, conn' = [conn EXCEPT ![c] = [conn[c] EXCEPT !.write = rest]]
            PROVE  \A d \in Conns : conn'[d].valid = conn[d].valid
        BY <2>2, <4>3 DEF ConnFields
      <4> QED BY <4>1, <4>2, <4>3
    <3> QED BY <1>3, <3>1, <3>2, <3>3, <3>4, <3>5
  <2>4. \A d \in Conns : peer'[d].state = peer[d].state
    <3>1. CASE ReadToBuffer(w)
      <4>1. PICK t : peer' = [peer EXCEPT ![c] = [peer[c] EXCEPT !.inbox = t]]
        BY <2>2, <3>1 DEF ReadToBuffer
      <4> QED BY <2>2, <4>1 DEF PeerFields
    <3>2. CASE WriteFromBuffer(w)
      <4>1. PICK t : peer' = [peer EXCEPT ![c] = [peer[c] EXCEPT !.wire = t]]
        BY <2>2, <3>2 DEF WriteFromBuffer
      <4> QED BY <2>2, <4>1 DEF PeerFields
    <3>3. CASE ResetActivity(w) \/ RequestIncomplete(w) \/ HandleRequest(w) \/ Rearm(w)
      BY <3>3 DEF ResetActivity, RequestIncomplete, HandleRequest, Rearm, netVars
    <3> QED BY <1>3, <3>1, <3>2, <3>3
  <2>5. SameSlots /\ SameWaiting
    BY <2>1, <2>3, <2>4 DEF SameSlots, SameWaiting
  <2> QED BY <2>5, PoolStutter
<1> QED BY <1>1, <1>2, <1>3 DEF WorkerNext

-----------------------------------------------------------------------------
(* The theorem.                                                            *)

\* The server implements the pool, for any number of workers, connections and
\* places: every accepted connection enters one free place, keeps it until it
\* is closed and never comes back, though the workers close, the main thread
\* times out and reuses places, and clients come and go, all at once
\* (emplace_connection, try_replace_closed_with_new_conn, close_client,
\* close_if_timed_out).
THEOREM Refinement == Spec => PoolSpec
<1>1. Init => Pool!Init
  <2> SUFFICES ASSUME Init PROVE Pool!Init
    OBVIOUS
  <2>1. PoolSlot = [p \in Places |-> NoConn]
    BY DEF Init, CoreInit, PoolSlot, Live
  <2>2. PoolWaiting = Conns
    BY DEF Init, CoreInit, PoolWaiting
  <2> QED BY <2>1, <2>2 DEF Pool!Init
<1>2. IInv /\ [Next]_vars => [Pool!Next]_(Pool!poolvars)
  <2> SUFFICES ASSUME IInv, [Next]_vars PROVE [Pool!Next]_(Pool!poolvars)
    OBVIOUS
  <2>1. CASE Main
    BY <2>1, MainPool DEF Main
  <2>2. CASE World
    BY <2>2, WorldPool DEF World
  <2>3. ASSUME NEW w \in Workers, Worker(w) PROVE [Pool!Next]_(Pool!poolvars)
    BY <2>3, WorkerPool DEF Worker
  <2>4. CASE UNCHANGED vars
    <3>1. UNCHANGED <<mpc, mnew, u_conn, conn, backlog, peer>>
      BY <2>4 DEF vars, coreVars, mainVars, poolVars, netVars
    <3>2. SameSlots /\ SameWaiting
      BY <3>1 DEF SameSlots, SameWaiting
    <3> QED BY <3>2, PoolStutter
  <2> QED BY <2>1, <2>2, <2>3, <2>4 DEF Next
<1> QED BY <1>1, <1>2, Invariance, PTL DEF Spec, PoolSpec, Pool!Spec

=============================================================================
