-------------------------- MODULE CorServiceProofs --------------------------
(***************************************************************************)
(* Proofs about CorService.  Its main thread, its clients and its locks    *)
(* are HttpService's, so that what HttpServiceProofs shows of them is used *)
(* here: a worker of 7.cor between lock and release is mapped to one of    *)
(* 6.http that has not looked at its connection yet, which is all that is  *)
(* known of it, since 7.cor does not test whether the connection is closed *)
(* or was replaced.  The second part is about the routines: until a late   *)
(* event resumes a foreign one no two connections and no two workers share *)
(* one, and one that is suspended is armed for what it waits for.          *)
(***************************************************************************)
EXTENDS CorService, SequenceFacts, TLAPS

\* The control of the workers as far as the locks are concerned.
LockPc == [w \in Workers |-> IF wpc[w] \in {"read", "write", "arm"} THEN "check" ELSE wpc[w]]

H == INSTANCE HttpServiceProofs WITH wpc <- LockPc

\* The types of what CorService adds.
RoutineTypes ==
    /\ wpc \in [Workers -> WorkerPcs]
    /\ p_rout \in [Conns -> Routines \cup {None}]
    /\ routine \in [Routines -> RoutineFields]
    /\ made \in 0..MaxRoutines /\ finished \in Seq(Routines)
    /\ current \in [Workers -> Routines \cup {None}]

\* The inductive invariant behind TypeOK and ClosedExact.
CorInv == H!IInv /\ RoutineTypes

-----------------------------------------------------------------------------
(* The main thread and the world.                                          *)

\* The constants are those of HttpService.
LEMMA SameConstants == H!ConstantsAssumption
BY ConstantsAssumption DEF H!ConstantsAssumption, EnvBehaviours, H!EnvBehaviours

\* The main thread takes steps of HttpService's main thread.
LEMMA MainSame == ASSUME Main PROVE H!Main
<1>1. crash = "none" /\ UNCHANGED <<wpc, batch, wconn>> /\ CorMainNext
  BY DEF Main, workerVars
<1>2. LockPc' = LockPc
  BY <1>1 DEF LockPc
<1>3. UNCHANGED H!workerVars
  BY <1>1, <1>2 DEF H!workerVars
<1>5. /\ (RunLoop => H!RunLoop) /\ (Accept => H!Accept) /\ (AcceptTimeout => H!AcceptTimeout)
      /\ (AcceptThrows => H!AcceptThrows)
  BY DEF AcceptThrows, H!AcceptThrows, RunLoop, H!RunLoop, Accept, H!Accept, AcceptTimeout, H!AcceptTimeout,
         poolVars, H!poolVars, netVars, H!netVars
<1>6. (SetOption => H!SetOption) /\ (EpollAdd => H!EpollAdd)
  BY DEF SetOption, H!SetOption, EpollAdd, H!EpollAdd, poolVars, H!poolVars, netVars, H!netVars
<1>7. (TryReplace => H!TryReplace) /\ (Emplace => H!Emplace)
  BY DEF TryReplace, H!TryReplace, Emplace, H!Emplace, Places, H!Places, FreshConn, H!FreshConn,
         BlankConn, H!BlankConn, netVars, H!netVars
<1>8. (Splice => H!Splice) /\ (DumpFront => H!DumpFront) /\ (PopFront => H!PopFront)
  BY DEF Splice, H!Splice, MoveToBack, H!MoveToBack, RemoveAt, H!RemoveAt, ToSet, H!ToSet, DumpFront, H!DumpFront, PopFront, H!PopFront,
         poolVars, H!poolVars, netVars, H!netVars
<1>9. CloseIfTimedOut => H!CloseIfTimedOut
  BY DEF CloseIfTimedOut, H!CloseIfTimedOut, Closed, H!Closed, Deregistered, H!Deregistered,
         NotAdded, H!NotAdded, TimedOut, H!TimedOut, netVars, H!netVars
<1> QED BY <1>1, <1>3, <1>5, <1>6, <1>7, <1>8, <1>9
        DEF CorMainNext, Run, try_replace_closed_with_new_conn, emplace_connection,
            close_if_timed_out, dump_timed_out_connections, H!Main, H!MainNext

\* The world is the same, without the call of close().
LEMMA WorldSame == ASSUME World PROVE H!World
<1>1. crash = "none" /\ UNCHANGED <<wpc, batch, wconn>> /\ ((\E c \in Conns : ClientNext(c)) \/ Tick)
  BY DEF World, workerVars
<1>2. LockPc' = LockPc
  BY <1>1 DEF LockPc
<1>3. UNCHANGED H!workerVars
  BY <1>1, <1>2 DEF H!workerVars
<1>4. Tick => H!Tick
  BY DEF Tick, H!Tick, MaxAge, H!MaxAge, mainVars, H!mainVars, poolVars, H!poolVars, netVars, H!netVars
<1>5. ASSUME NEW c \in Conns, ClientNext(c) PROVE H!ClientNext(c)
  <2>1. (Connect(c) => H!Connect(c)) /\ (Receive(c) => H!Receive(c)) /\ (Fin(c) => H!Fin(c)) /\ (Rst(c) => H!Rst(c))
    BY DEF Connect, H!Connect, Receive, H!Receive, Fin, H!Fin, Rst, H!Rst,
           mainVars, H!mainVars, poolVars, H!poolVars
  <2>2. (SendWhole(c) => H!SendWhole(c)) /\ (SendPart(c) => H!SendPart(c))
    BY DEF SendWhole, H!SendWhole, SendPart, H!SendPart, MaySend, H!MaySend, Reachable, H!Reachable, ToSet, H!ToSet,
           Deliver, H!Deliver, mainVars, H!mainVars, poolVars, H!poolVars
  <2>3. (SendRest(c) => H!SendRest(c)) /\ (SendBad(c) => H!SendBad(c))
    BY DEF SendRest, H!SendRest, SendBad, H!SendBad, MaySend, H!MaySend, Reachable, H!Reachable, ToSet, H!ToSet,
           Deliver, H!Deliver, mainVars, H!mainVars, poolVars, H!poolVars
  <2> QED BY <1>5, <2>1, <2>2, <2>3 DEF ClientNext, H!ClientNext
<1> QED BY <1>1, <1>3, <1>4, <1>5 DEF H!World, H!EnvNext

LEMMA MainCor == ASSUME CorInv, Main PROVE CorInv'
<1>1. H!IInv'
  BY MainSame, SameConstants, H!MainStep DEF CorInv
<1> QED BY <1>1 DEF CorInv, RoutineTypes, Main, workerVars, routineVars

LEMMA WorldCor == ASSUME CorInv, World PROVE CorInv'
<1>1. H!IInv'
  BY WorldSame, SameConstants, H!WorldStep DEF CorInv
<1> QED BY <1>1 DEF CorInv, RoutineTypes, World, workerVars, routineVars

LEMMA InitCor == Init => CorInv
<1> SUFFICES ASSUME Init PROVE CorInv
  OBVIOUS
<1>1. H!Init
  <2>1. CoreInit => H!CoreInit
    BY DEF CoreInit, H!CoreInit, Places, H!Places, Unborn, H!Unborn, BlankConn, H!BlankConn,
           NotAdded, H!NotAdded
  <2>2. LockPc = [w \in Workers |-> "wait"]
    BY DEF LockPc, Init, WorkersInit
  <2> QED BY <2>1, <2>2 DEF Init, WorkersInit, H!Init, H!WorkersInit
<1>2. RoutineTypes
  BY CorAssumption DEF Init, WorkersInit, RoutineTypes, WorkerPcs, RoutineFields, Goes, None
<1> QED BY <1>1, <1>2, SameConstants, H!InitInv DEF CorInv

-----------------------------------------------------------------------------
(* The workers.                                                            *)

\* What is known of a worker between lock and release, and of the state.
LEMMA PastLock ==
  ASSUME CorInv, NEW w \in Workers, wpc[w] \in {"check", "read", "write", "arm"}
  PROVE  /\ LockPc[w] = "check" /\ place(w) = H!place(w) /\ place(w) \in Places
         /\ u_conn[place(w)] \in Conns /\ wconn[w] \in Conns
         /\ conn \in [Conns -> ConnFields] /\ peer \in [Conns -> PeerFields]
         /\ epoll \in [Conns -> Registration] /\ closed \in Seq(Places) /\ timeod \in Seq(Places)
         /\ crash \in Crashes \cup {"none"} /\ u_conn \in [Places -> Conns \cup {NoConn}]
         /\ ClosedExact
<1>1. LockPc[w] = "check" /\ place(w) = H!place(w)
  BY DEF LockPc, place, H!place
<1>2. H!IInv
  BY DEF CorInv
<1>3. H!place(w) \in H!Places /\ u_conn[H!place(w)] \in Conns
  BY <1>1, <1>2, SameConstants, H!PlaceType
<1>4. wconn[w] \in Conns
  BY <1>1, <1>2, SameConstants, H!Handling
<1>5. /\ conn \in [Conns -> ConnFields] /\ peer \in [Conns -> PeerFields]
      /\ epoll \in [Conns -> Registration] /\ closed \in Seq(Places) /\ timeod \in Seq(Places)
      /\ crash \in Crashes \cup {"none"} /\ u_conn \in [Places -> Conns \cup {NoConn}]
  BY <1>2 DEF H!IInv, H!TypeOK, H!Places, Places, H!ConnFields, ConnFields, H!PeerFields, PeerFields,
         H!Registration, Registration, H!Crashes, Crashes, H!Option, Option, H!Bits, Bits,
         H!Chunk, Chunk, H!MaxAge, MaxAge
<1>6. ClosedExact
  BY <1>2 DEF H!IInv, H!ClosedExact, ClosedExact, H!ToSet, ToSet, H!Places, Places
<1> QED BY <1>1, <1>3, <1>4, <1>5, <1>6 DEF H!Places, Places

\* The types of CorService's own names are those of HttpService.
LEMMA SameTypes ==
  /\ H!Places = Places /\ H!ConnFields = ConnFields /\ H!PeerFields = PeerFields
  /\ H!Registration = Registration /\ H!Crashes = Crashes /\ H!WorkerPcs = WorkerPcs
  /\ H!Event = Event /\ H!ClosedExact = ClosedExact
<1>1. H!Places = Places /\ H!Option = Option /\ H!Bits = Bits /\ H!Chunk = Chunk /\ H!MaxAge = MaxAge
  BY DEF H!Places, Places, H!Option, Option, H!Bits, Bits, H!Chunk, Chunk, H!MaxAge, MaxAge
<1>2. H!ConnFields = ConnFields /\ H!PeerFields = PeerFields /\ H!Registration = Registration
  BY <1>1 DEF H!ConnFields, ConnFields, H!PeerFields, PeerFields, H!Registration, Registration
<1>3. H!Crashes = Crashes /\ H!WorkerPcs = WorkerPcs /\ H!Event = Event
  BY <1>1 DEF H!Crashes, Crashes, H!WorkerPcs, WorkerPcs, H!Event, Event
<1>4. H!ClosedExact = ClosedExact
  BY <1>1, Zenon DEF H!ClosedExact, ClosedExact, H!ToSet, ToSet
<1> QED BY <1>1, <1>2, <1>3, <1>4

\* The end of an event.
LEMMA ReleaseCor ==
  ASSUME CorInv, NEW w \in Workers, wpc[w] \in {"check", "read", "write", "arm"}, NextEvent(w),
         UNCHANGED <<mpc, mcur, mnew, serverOpen, u_conn, timeod, backlog, peer>>,
         conn' \in [Conns -> ConnFields], epoll' \in [Conns -> Registration],
         closed' \in Seq(Places), crash' \in Crashes \cup {"none"}, ClosedExact',
         \A d \in Conns : d # u_conn[place(w)] => conn'[d].valid = conn[d].valid
  PROVE  H!IInv' /\ wpc' \in [Workers -> WorkerPcs]
<1>0. H!IInv /\ wpc \in [Workers -> WorkerPcs] /\ LockPc[w] = "check" /\ place(w) = H!place(w)
  BY PastLock DEF CorInv, RoutineTypes
<1>1. /\ wpc' = [wpc EXCEPT ![w] = IF Len(batch[w]) = 1 THEN "wait" ELSE "lock"]
      /\ connection_mutex' = [connection_mutex EXCEPT ![H!place(w)] = NoWorker]
      /\ batch' = [batch EXCEPT ![w] = Tail(@)]
      /\ wconn' = [wconn EXCEPT ![w] = NoConn]
  BY <1>0 DEF NextEvent
<1>2. /\ LockPc' = [LockPc EXCEPT ![w] = IF Len(batch[w]) = 1 THEN "wait" ELSE "lock"]
      /\ wpc' \in [Workers -> WorkerPcs]
  BY <1>0, <1>1 DEF LockPc, WorkerPcs
<1>3. H!NextEvent(w)
  BY <1>1, <1>2 DEF H!NextEvent
<1>4. /\ connection_mutex' \in [H!Places -> Workers \cup {NoWorker}]
      /\ LockPc' \in [Workers -> H!WorkerPcs] /\ batch' \in [Workers -> Seq(H!Event)]
      /\ wconn' \in [Workers -> Conns \cup {NoConn}]
      /\ H!WorkerInv' /\ H!HandlerSafe'
  BY <1>0, <1>3, SameConstants, H!ReleaseStep
<1>5. H!TypeOK'
  BY <1>0, <1>4, SameTypes DEF H!IInv, H!TypeOK
<1>6. H!PlacedOnce' /\ H!MainInv' /\ H!FreshInv'
  BY <1>0 DEF H!IInv, H!PlacedOnce, H!MainInv, H!FreshInv
<1>7. H!ClosedExact'
  BY SameTypes DEF H!ClosedExact, ClosedExact, H!ToSet, ToSet
<1> QED BY <1>2, <1>4, <1>5, <1>6, <1>7 DEF H!IInv

\* A step inside a handler.
LEMMA StayCor ==
  ASSUME CorInv, NEW w \in Workers, wpc[w] \in {"check", "read", "write", "arm"},
         NEW pc \in {"check", "read", "write", "arm"}, wpc' = [wpc EXCEPT ![w] = pc],
         UNCHANGED <<mpc, mcur, mnew, serverOpen, u_conn, connection_mutex, closed, backlog, batch, wconn>>,
         timeod' \in Seq(Places), timeod # <<>> => timeod' # <<>>,
         \A i \in DOMAIN timeod' : \E k \in DOMAIN timeod : timeod'[i] = timeod[k],
         peer' \in [Conns -> PeerFields], \A d \in Conns : peer'[d].state = peer[d].state,
         conn' \in [Conns -> ConnFields], \A d \in Conns : conn'[d].valid = conn[d].valid,
         epoll' \in [Conns -> Registration], crash' \in Crashes \cup {"none"}
  PROVE  H!IInv' /\ wpc' \in [Workers -> WorkerPcs]
<1>0. H!IInv /\ wpc \in [Workers -> WorkerPcs]
  BY DEF CorInv, RoutineTypes
<1>1. LockPc' = LockPc /\ wpc' \in [Workers -> WorkerPcs]
  BY <1>0 DEF LockPc, WorkerPcs
<1>2. H!TypeOK'
  BY <1>0, <1>1, SameTypes DEF H!IInv, H!TypeOK
<1>3. H!PlacedOnce' /\ H!MainInv'
  BY <1>0 DEF H!IInv, H!PlacedOnce, H!MainInv
<1>4. H!FreshInv'
  BY <1>0, SameConstants, H!SameStates
<1>5. H!ClosedExact'
  <2>1. H!ClosedExact /\ closed' = closed /\ u_conn' = u_conn /\ \A p \in H!Places : u_conn[p] # NoConn => u_conn[p] \in Conns
    BY <1>0 DEF H!IInv, H!TypeOK
  <2>2. H!ToSet(closed)' = H!ToSet(closed)
    BY <2>1 DEF H!ToSet
  <2> QED BY <2>1, <2>2 DEF H!ClosedExact
<1>6. H!WorkerInv' /\ H!HandlerSafe'
  <2>1. \A v \in Workers : LockPc[v] \notin {"read", "write", "arm"}
    BY DEF LockPc
  <2> QED BY <1>0, <1>1, <2>1 DEF H!IInv, H!WorkerInv, H!HandlerSafe, H!place
<1> QED BY <1>1, <1>2, <1>3, <1>4, <1>5, <1>6 DEF H!IInv

\* Waiting for events and taking one are HttpWorker's steps.
LEMMA TakeCor ==
  ASSUME CorInv, NEW w \in Workers, crash = "none", EpollWait(w) \/ LockPlace(w)
  PROVE  H!IInv' /\ wpc' \in [Workers -> WorkerPcs]
<1>0. H!IInv /\ wpc \in [Workers -> WorkerPcs]
  BY DEF CorInv, RoutineTypes
<1>1. PICK pc \in {"lock", "check"} :
         wpc' = [wpc EXCEPT ![w] = pc] /\ wpc[w] = (IF pc = "lock" THEN "wait" ELSE "lock")
  BY DEF EpollWait, LockPlace
<1>2. /\ LockPc' = [LockPc EXCEPT ![w] = pc] /\ LockPc[w] = (IF pc = "lock" THEN "wait" ELSE "lock")
      /\ wpc' \in [Workers -> WorkerPcs]
  BY <1>0, <1>1 DEF LockPc, WorkerPcs
<1>3. ReadyPlaces = H!ReadyPlaces /\ Batches = H!Batches
  <2>1. \A c : SocketReady(c) = H!SocketReady(c)
    BY DEF SocketReady, H!SocketReady, Bits, H!Bits
  <2>2. Live = H!Live
    BY DEF Live, H!Live, Places, H!Places
  <2>3. \A p : ReadyBits(p) = H!ReadyBits(p)
    BY <2>1, <2>2 DEF ReadyBits, H!ReadyBits
  <2>4. ReadyPlaces = H!ReadyPlaces
    BY <2>3 DEF ReadyPlaces, H!ReadyPlaces, Places, H!Places
  <2>5. \A S : Cardinality(S) = H!Cardinality(S)
    BY DEF Cardinality, H!Cardinality
  <2> QED BY <2>3, <2>4, <2>5 DEF Batches, H!Batches
<1>4. CASE EpollWait(w)
  <2>1. pc = "lock"
    BY <1>0, <1>1, <1>4 DEF EpollWait
  <2>2. H!EpollWait(w)
    BY <1>2, <1>3, <1>4, <2>1 DEF EpollWait, H!EpollWait, mainVars, H!mainVars, poolVars, H!poolVars,
       netVars, H!netVars
  <2>3. H!Worker(w)
    BY <2>2 DEF H!Worker, H!WorkerNext
  <2> QED BY <1>0, <1>2, <2>3, SameConstants, H!WorkerStep
<1>5. CASE LockPlace(w)
  <2>1. pc = "check"
    BY <1>0, <1>1, <1>5 DEF LockPlace
  <2>2. H!LockPlace(w)
    BY <1>2, <1>5, <2>1 DEF LockPlace, H!LockPlace, place, H!place, mainVars, H!mainVars, netVars, H!netVars
  <2>3. H!Worker(w)
    BY <2>2 DEF H!Worker, H!WorkerNext
  <2> QED BY <1>0, <1>2, <2>3, SameConstants, H!WorkerStep
<1> QED BY <1>4, <1>5

\* close_client and the end of the event.
LEMMA CloseCor ==
  ASSUME CorInv, NEW w \in Workers, wpc[w] \in {"read", "write", "arm"}, CloseClient(place(w)), NextEvent(w),
         UNCHANGED <<mpc, mcur, mnew, serverOpen, u_conn, timeod, backlog, peer, crash>>
  PROVE  H!IInv' /\ wpc' \in [Workers -> WorkerPcs]
<1> DEFINE p == place(w)
           c == u_conn[p]
<1>1. /\ p \in Places /\ c \in Conns /\ conn \in [Conns -> ConnFields] /\ epoll \in [Conns -> Registration]
      /\ closed \in Seq(Places) /\ crash \in Crashes \cup {"none"} /\ ClosedExact /\ H!IInv
  BY PastLock DEF CorInv
<1>2. CASE conn[c].valid
  <2>1. H!CloseUpdate(c, p)
    BY <1>2 DEF CloseClient, H!CloseUpdate, Closed, H!Closed, Deregistered, H!Deregistered, NotAdded, H!NotAdded
  <2> HIDE DEF c, p
  <2>2. /\ conn' \in [Conns -> H!ConnFields] /\ epoll' \in [Conns -> H!Registration]
        /\ closed' \in Seq(H!Places) /\ H!ClosedExact'
        /\ \A d \in Conns : d # c => conn'[d] = conn[d]
    BY <1>1, <1>2, <2>1, SameTypes, SameConstants, H!CloseFacts
  <2>3. ClosedExact'
    BY <2>2, SameTypes DEF H!ClosedExact, ClosedExact, H!ToSet, ToSet
  <2> QED BY <1>1, <2>2, <2>3, SameTypes, ReleaseCor DEF c, p
<1>3. CASE ~conn[c].valid
  <2>1. UNCHANGED <<conn, epoll, closed>>
    BY <1>3 DEF CloseClient
  <2>2. ClosedExact'
    BY <1>1, <2>1 DEF ClosedExact, ToSet
  <2> QED BY <1>1, <2>1, <2>2, ReleaseCor
<1> QED BY <1>2, <1>3

\* subscribe of an open connection, which may also change its buffers, and the
\* end of the event.
LEMMA SubscribeCor ==
  ASSUME CorInv, NEW w \in Workers, wpc[w] \in {"read", "write", "arm"}, NextEvent(w),
         NEW r \in ConnFields, r.valid = conn[wconn[w]].valid, conn' = [conn EXCEPT ![wconn[w]] = r],
         epoll' \in [Conns -> Registration], crash' \in Crashes \cup {"none"},
         UNCHANGED <<mpc, mcur, mnew, serverOpen, u_conn, closed, timeod, backlog, peer>>
  PROVE  H!IInv' /\ wpc' \in [Workers -> WorkerPcs]
<1>1. /\ wconn[w] \in Conns /\ conn \in [Conns -> ConnFields] /\ u_conn \in [Places -> Conns \cup {NoConn}]
      /\ closed \in Seq(Places) /\ ClosedExact
  BY PastLock
<1>2. conn' \in [Conns -> ConnFields] /\ \A d \in Conns : conn'[d].valid = conn[d].valid
  BY <1>1
<1>3. ClosedExact'
  BY <1>1, <1>2 DEF ClosedExact, ToSet
<1> QED BY <1>1, <1>2, <1>3, ReleaseCor

\* A routine that is suspended or has returned is still a routine.
LEMMA RoutineMoved ==
  ASSUME routine \in [Routines -> RoutineFields], NEW r, NEW a \in Goes
  PROVE  [routine EXCEPT ![r].at = a] \in [Routines -> RoutineFields]
<1>1. \A q \in RoutineFields : [q EXCEPT !.at = a] \in RoutineFields
  BY DEF RoutineFields
<1> QED BY <1>1

\* cor::yield leaves a current routine in its place.
LEMMA YieldTypes ==
  ASSUME RoutineTypes, wpc' \in [Workers -> WorkerPcs], NEW w \in Workers, NEW a \in Goes,
         NEW m \in Crashes \cup {"none"}, YieldAt(w, a, m)
  PROVE  RoutineTypes' /\ crash' \in Crashes \cup {"none"}
<1>1. CASE current[w] = None
  BY <1>1 DEF YieldAt, RoutineTypes, Crashes
<1>2. CASE current[w] # None
  <2>1. /\ routine' = [routine EXCEPT ![current[w]].at = a] /\ crash' = m
        /\ current' = [current EXCEPT ![w] = None] /\ UNCHANGED <<p_rout, made, finished>>
    BY <1>2 DEF YieldAt
  <2>2. routine' \in [Routines -> RoutineFields]
    BY <2>1, RoutineMoved DEF RoutineTypes
  <2> QED BY <2>1, <2>2 DEF RoutineTypes
<1> QED BY <1>1, <1>2

\* The return of serve_client.
LEMMA ReturnTypes ==
  ASSUME RoutineTypes, wpc' \in [Workers -> WorkerPcs], NEW w \in Workers, NEW r, ReturnFrom(w, r),
         p_rout' \in [Conns -> Routines \cup {None}]
  PROVE  RoutineTypes'
<1>1. routine' = [routine EXCEPT ![r].at = "returned"] /\ UNCHANGED <<made, finished, current>>
  BY DEF ReturnFrom
<1>2. routine' \in [Routines -> RoutineFields]
  BY <1>1, RoutineMoved DEF RoutineTypes, Goes
<1> QED BY <1>1, <1>2 DEF RoutineTypes

\* What EPoll::mod leaves.
LEMMA ArmedTypes ==
  ASSUME epoll \in [Conns -> Registration], crash \in Crashes \cup {"none"}, NEW c \in Conns, NEW opt \in SUBSET Option
  PROVE  Armed(c, opt) \in [Conns -> Registration] /\ ModResult(c) \in Crashes \cup {"none"}
<1> DEFINE a == opt \ {"ET_ONESHOT"}
<1>1. a \in SUBSET Bits
  BY DEF Option, Bits
<1>2. Armed(c, opt) = IF epoll[c].added THEN [epoll EXCEPT ![c].armed = a] ELSE epoll
  BY DEF Armed
<1> HIDE DEF a
<1>3. [epoll EXCEPT ![c].armed = a] \in [Conns -> Registration]
  BY <1>1 DEF Registration
<1> QED BY <1>2, <1>3 DEF ModResult, Crashes

\* cor::create.
LEMMA CreateCor == ASSUME CorInv, NEW w \in Workers, Create(w) PROVE CorInv'
<1> DEFINE c == wconn[w]
<1>0. /\ H!IInv /\ RoutineTypes /\ UNCHANGED <<coreVars, workerVars, current>>
      /\ wpc[w] = "check" /\ c \in Conns
  BY PastLock DEF CorInv, Create
<1>1. H!IInv' /\ wpc' = wpc
  <2>1. UNCHANGED <<mpc, mcur, mnew, serverOpen, u_conn, connection_mutex, closed, timeod, conn,
                    epoll, backlog, peer, crash, wpc, batch, wconn>>
    BY <1>0 DEF coreVars, mainVars, poolVars, netVars, workerVars
  <2>2. LockPc' = LockPc
    BY <2>1 DEF LockPc
  <2>3. UNCHANGED H!vars
    BY <2>1, <2>2 DEF H!vars, H!coreVars, H!mainVars, H!poolVars, H!netVars, H!workerVars
  <2> QED BY <1>0, <2>1, <2>3, SameConstants, H!Stutter
<1>2. RoutineTypes'
  <2>1. CASE finished = <<>>
    <3> DEFINE r == made + 1
               q == [at |-> "entry", client |-> c, starter |-> w, link |-> w, resumer |-> w]
    <3>1. /\ made < MaxRoutines /\ made' = r /\ finished' = finished
          /\ p_rout' = [p_rout EXCEPT ![c] = r] /\ routine' = [routine EXCEPT ![r] = q]
      BY <2>1 DEF Create
    <3>2. q \in RoutineFields
      BY <1>0 DEF RoutineFields, Goes
    <3>3. r \in Routines /\ r \in 0..MaxRoutines
      BY <1>0, <3>1, CorAssumption DEF RoutineTypes, Routines
    <3> HIDE DEF r, q
    <3> QED BY <1>0, <1>1, <3>1, <3>2, <3>3 DEF RoutineTypes
  <2>2. CASE finished # <<>>
    <3> DEFINE r == Head(finished)
               q == [at |-> "entry", client |-> c, starter |-> w, link |-> routine[r].resumer, resumer |-> w]
    <3>1. r \in Routines /\ Tail(finished) \in Seq(Routines)
      BY <1>0, <2>2 DEF RoutineTypes
    <3>2. /\ made' = made /\ finished' = Tail(finished)
          /\ p_rout' = [p_rout EXCEPT ![c] = r] /\ routine' = [routine EXCEPT ![r] = q]
      BY <1>0, <2>2, <3>1 DEF Create, RoutineTypes
    <3>3. q \in RoutineFields
      BY <1>0, <3>1 DEF RoutineTypes, RoutineFields, Goes
    <3> HIDE DEF r, q
    <3> QED BY <1>0, <1>1, <3>1, <3>2, <3>3 DEF RoutineTypes
  <2> QED BY <2>1, <2>2
<1> QED BY <1>1, <1>2 DEF CorInv

\* cor::resume, in its three cases.
LEMMA ResumeCor ==
  ASSUME CorInv, NEW w \in Workers, Resume(w) \/ ResumeReturned(w) \/ ResumeFinished(w) PROVE CorInv'
<1> DEFINE c == wconn[w]
           r == p_rout[c]
<1>0. /\ H!IInv /\ RoutineTypes /\ wpc[w] = "check" /\ r # None /\ c = u_conn[place(w)]
  BY DEF CorInv, Resume, ResumeReturned, ResumeFinished
<1>1. /\ c \in Conns /\ conn \in [Conns -> ConnFields] /\ peer \in [Conns -> PeerFields]
      /\ epoll \in [Conns -> Registration] /\ closed \in Seq(Places) /\ timeod \in Seq(Places)
      /\ crash \in Crashes \cup {"none"} /\ ClosedExact /\ place(w) \in Places
  BY <1>0, PastLock
<1>2. r \in Routines
  BY <1>0, <1>1 DEF RoutineTypes
<1>3. CASE Resume(w)
  <2>1. /\ current' = [current EXCEPT ![w] = r] /\ routine' = [routine EXCEPT ![r].resumer = w]
        /\ UNCHANGED <<mpc, mcur, mnew, serverOpen, u_conn, connection_mutex, closed, epoll, backlog, peer,
                       batch, wconn, p_rout, made, finished>>
    BY <1>3 DEF Resume, mainVars, netVars
  <2>2. PICK pc \in {"read", "write"} : wpc' = [wpc EXCEPT ![w] = pc]
    BY <1>3 DEF Resume
  <2>3. /\ conn' \in [Conns -> ConnFields] /\ \A d \in Conns : conn'[d].valid = conn[d].valid
    <3>1. [conn[c] EXCEPT !.age = 0] \in ConnFields /\ [conn[c] EXCEPT !.age = 0].valid = conn[c].valid
      <4>1. 0 \in 0..MaxAge
        BY ConstantsAssumption DEF MaxAge
      <4> QED BY <1>1, <4>1 DEF ConnFields
    <3>2. conn' = conn \/ conn' = [conn EXCEPT ![c] = [conn[c] EXCEPT !.age = 0]]
      BY <1>1, <1>3 DEF Resume
    <3> HIDE DEF c
    <3> QED BY <1>1, <3>1, <3>2
  <2>4. /\ timeod' \in Seq(Places) /\ (timeod # <<>> => timeod' # <<>>) /\ crash' \in Crashes \cup {"none"}
        /\ \A i \in DOMAIN timeod' : \E k \in DOMAIN timeod : timeod'[i] = timeod[k]
    <3>1. \/ timeod' = timeod /\ crash' \in {crash, "dangling_iterator"}
          \/ timeod' = MoveToBack(timeod, place(w)) /\ crash' = crash /\ place(w) \in ToSet(timeod)
      BY <1>3 DEF Resume
    <3>2. CASE timeod' = timeod /\ crash' \in {crash, "dangling_iterator"}
      BY <1>1, <3>2 DEF Crashes
    <3>3. CASE timeod' = MoveToBack(timeod, place(w)) /\ crash' = crash /\ place(w) \in ToSet(timeod)
      <4>1. timeod' = H!MoveToBack(timeod, place(w)) /\ place(w) \in H!ToSet(timeod)
        BY <3>3 DEF MoveToBack, H!MoveToBack, RemoveAt, H!RemoveAt, ToSet, H!ToSet
      <4>2. /\ H!MoveToBack(timeod, place(w)) \in Seq(Places) /\ H!MoveToBack(timeod, place(w)) # <<>>
            /\ \A j \in DOMAIN H!MoveToBack(timeod, place(w)) :
                  \E k \in DOMAIN timeod : H!MoveToBack(timeod, place(w))[j] = timeod[k]
        BY <1>1, <4>1, SameConstants, H!MoveToBackFacts
      <4> QED BY <1>1, <3>3, <4>1, <4>2
    <3> QED BY <3>1, <3>2, <3>3
  <2>5. H!IInv' /\ wpc' \in [Workers -> WorkerPcs]
    BY <1>0, <1>1, <2>1, <2>2, <2>3, <2>4, StayCor
  <2>6. routine' \in [Routines -> RoutineFields]
    BY <1>0, <2>1 DEF RoutineTypes, RoutineFields
  <2> HIDE DEF r
  <2> QED BY <1>0, <1>2, <2>1, <2>5, <2>6 DEF CorInv, RoutineTypes
<1>4. CASE ResumeReturned(w)
  <2>1. /\ routine' = [routine EXCEPT ![r].at = "finished", ![r].resumer = w]
        /\ finished' = Append(finished, r)
        /\ current' = [[current EXCEPT ![w] = r] EXCEPT ![routine[r].starter] = None]
        /\ crash' = (IF routine[r].link = w THEN crash ELSE "foreign_context") /\ NextEvent(w)
        /\ UNCHANGED <<mpc, mcur, mnew, serverOpen, u_conn, closed, timeod, conn, epoll, backlog, peer,
                       p_rout, made>>
    BY <1>4 DEF ResumeReturned, mainVars, netVars
  <2>2. ClosedExact'
    BY <1>1, <2>1 DEF ClosedExact, ToSet
  <2>3. H!IInv' /\ wpc' \in [Workers -> WorkerPcs]
    BY <1>0, <1>1, <2>1, <2>2, ReleaseCor DEF Crashes
  <2>4. routine' \in [Routines -> RoutineFields]
    BY <1>0, <2>1, ZenonT(40) DEF RoutineTypes, RoutineFields, Goes
  <2>5. current' \in [Workers -> Routines \cup {None}]
    BY <1>0, <1>2, <2>1 DEF RoutineTypes
  <2> HIDE DEF r
  <2>6. finished' \in Seq(Routines)
    BY <1>0, <1>2, <2>1 DEF RoutineTypes
  <2>7. p_rout' = p_rout /\ made' = made
    BY <2>1
  <2> QED BY <1>0, <2>3, <2>4, <2>5, <2>6, <2>7 DEF CorInv, RoutineTypes
<1>5. CASE ResumeFinished(w)
  <2>1. /\ NextEvent(w)
        /\ UNCHANGED <<mpc, mcur, mnew, serverOpen, u_conn, closed, timeod, conn, epoll, backlog, peer, crash,
                       p_rout, routine, made, finished, current>>
    BY <1>5 DEF ResumeFinished, mainVars, netVars, routineVars
  <2>2. ClosedExact'
    BY <1>1, <2>1 DEF ClosedExact, ToSet
  <2>3. H!IInv' /\ wpc' \in [Workers -> WorkerPcs]
    BY <1>0, <1>1, <2>1, <2>2, ReleaseCor
  <2> QED BY <1>0, <2>1, <2>3 DEF CorInv, RoutineTypes
<1> QED BY <1>3, <1>4, <1>5

\* Every step of a worker, in and outside serve_client.
LEMMA WorkerCor == ASSUME CorInv, NEW w \in Workers, Worker(w) PROVE CorInv'
<1> DEFINE c == wconn[w]
<1>0. H!IInv /\ RoutineTypes /\ crash = "none"
  BY DEF CorInv, Worker
<1>1. CASE (EpollWait(w) \/ LockPlace(w)) /\ UNCHANGED routineVars
  <2>1. H!IInv' /\ wpc' \in [Workers -> WorkerPcs]
    BY <1>0, <1>1, TakeCor
  <2> QED BY <1>0, <1>1, <2>1 DEF CorInv, RoutineTypes, routineVars
<1>2. CASE Create(w)
  BY <1>2, CreateCor
<1>3. CASE Resume(w) \/ ResumeReturned(w) \/ ResumeFinished(w)
  BY <1>3, ResumeCor
<1>4. CASE StaleConn(w) \/ SocketReset(w) \/ ResumeForeign(w)
  <2>1. /\ wpc[w] \in {"check", "read", "write", "arm"} /\ crash' \in {"use_after_free", "terminate", "foreign_routine"}
        /\ UNCHANGED <<mpc, mcur, mnew, serverOpen, u_conn, connection_mutex, closed, timeod, conn, epoll,
                       backlog, peer, wpc, batch, wconn, p_rout, routine, made, finished, current>>
    BY <1>4 DEF StaleConn, SocketReset, ResumeForeign, Reading, Writing, InRoutine, mainVars, poolVars, netVars, workerVars,
                routineVars
  <2>2. /\ conn \in [Conns -> ConnFields] /\ peer \in [Conns -> PeerFields]
        /\ epoll \in [Conns -> Registration] /\ timeod \in Seq(Places)
    BY <2>1, PastLock
  <2>3. crash' \in Crashes \cup {"none"} /\ wpc' = [wpc EXCEPT ![w] = wpc[w]]
    BY <1>0, <2>1 DEF Crashes, RoutineTypes
  <2>4. H!IInv' /\ wpc' \in [Workers -> WorkerPcs]
    <3>1. PICK pc \in {"check", "read", "write", "arm"} : pc = wpc[w]
      BY <2>1
    <3> QED BY <2>1, <2>2, <2>3, <3>1, StayCor
  <2> QED BY <1>0, <2>1, <2>4 DEF CorInv, RoutineTypes
<1>5. CASE OnClosed(w)
  <2>1. /\ wpc[w] \in {"read", "write"} /\ ReturnFrom(w, p_rout[c]) /\ NextEvent(w)
        /\ UNCHANGED <<mpc, mcur, mnew, serverOpen, u_conn, closed, timeod, conn, epoll, backlog, peer, crash, p_rout>>
    BY <1>5 DEF OnClosed, InRoutine, ReturnFrom, mainVars, netVars
  <2>2. /\ conn \in [Conns -> ConnFields] /\ epoll \in [Conns -> Registration] /\ closed \in Seq(Places)
        /\ crash \in Crashes \cup {"none"} /\ ClosedExact
    BY <2>1, PastLock
  <2>3. ClosedExact'
    BY <2>1, <2>2 DEF ClosedExact, ToSet
  <2>4. H!IInv' /\ wpc' \in [Workers -> WorkerPcs]
    BY <2>1, <2>2, <2>3, ReleaseCor
  <2>5. RoutineTypes'
    BY <1>0, <2>1, <2>4, ReturnTypes DEF RoutineTypes
  <2> QED BY <2>4, <2>5 DEF CorInv
<1>6. CASE CorRead(w)
  <2> DEFINE h == Head(peer[c].inbox)
             t == Tail(peer[c].inbox)
             rd == Append(conn[c].read, h)
  <2>1. /\ wpc[w] = "read" /\ peer[c].inbox # <<>>
        /\ conn' = [conn EXCEPT ![c].read = rd] /\ peer' = [peer EXCEPT ![c].inbox = t]
        /\ UNCHANGED <<mpc, mcur, mnew, serverOpen, u_conn, connection_mutex, closed, timeod, epoll,
                       backlog, crash, wpc, batch, wconn, p_rout, routine, made, finished, current>>
    BY <1>6, PastLock DEF CorRead, ReadToBuffer, mainVars, poolVars, workerVars, routineVars
  <2>2. /\ c \in Conns /\ conn \in [Conns -> ConnFields] /\ peer \in [Conns -> PeerFields]
        /\ epoll \in [Conns -> Registration] /\ timeod \in Seq(Places) /\ crash \in Crashes \cup {"none"}
    BY <2>1, PastLock
  <2>3. rd \in Seq(Chunk) /\ t \in Seq(Chunk)
    BY <2>1, <2>2 DEF ConnFields, PeerFields
  <2> HIDE DEF rd, t, c
  <2>4. conn' \in [Conns -> ConnFields] /\ \A d \in Conns : conn'[d].valid = conn[d].valid
    BY <2>1, <2>2, <2>3 DEF ConnFields
  <2>5. peer' \in [Conns -> PeerFields] /\ \A d \in Conns : peer'[d].state = peer[d].state
    BY <2>1, <2>2, <2>3, ZenonT(40) DEF PeerFields
  <2>6. wpc' = [wpc EXCEPT ![w] = "read"]
    BY <1>0, <2>1 DEF RoutineTypes
  <2>7. H!IInv' /\ wpc' \in [Workers -> WorkerPcs]
    BY <2>1, <2>2, <2>4, <2>5, <2>6, StayCor
  <2> QED BY <1>0, <2>1, <2>7 DEF CorInv, RoutineTypes
<1>7. CASE CorReadEnd(w) \/ CorIncorrect(w) \/ CorCloseDone(w)
  <2>1. /\ wpc[w] \in {"read", "arm"} /\ CloseClient(place(w)) /\ ReturnFrom(w, p_rout[c]) /\ NextEvent(w)
        /\ UNCHANGED <<mpc, mcur, mnew, serverOpen, u_conn, timeod, backlog, peer, crash, p_rout>>
    BY <1>7 DEF CorReadEnd, CorIncorrect, CorCloseDone, Reading, InRoutine, ReturnFrom, mainVars, netVars
  <2>2. H!IInv' /\ wpc' \in [Workers -> WorkerPcs]
    BY <2>1, CloseCor
  <2>3. RoutineTypes'
    BY <1>0, <2>1, <2>2, ReturnTypes DEF RoutineTypes
  <2> QED BY <2>2, <2>3 DEF CorInv
<1>8. CASE CorIncomplete(w) \/ CorWriteBlocked(w)
  <2> DEFINE Step(opt, at) ==
               /\ opt \in {conn[c].option \cup {"READ", "ET_ONESHOT"}, conn[c].option \cup {"WRITE", "ET_ONESHOT"}}
               /\ at \in {"reading", "writing"}
               /\ wpc[w] \in {"read", "write"}
               /\ conn' = [conn EXCEPT ![c].option = opt] /\ epoll' = Armed(c, opt)
               /\ YieldAt(w, at, ModResult(c)) /\ NextEvent(w)
               /\ UNCHANGED <<mpc, mcur, mnew, serverOpen, u_conn, closed, timeod, backlog, peer>>
  <2>0. \E opt, at : Step(opt, at)
    <3>1. CASE CorIncomplete(w)
      <4>1. Step(conn[c].option \cup {"READ", "ET_ONESHOT"}, "reading")
        BY <3>1 DEF CorIncomplete, Reading, InRoutine, YieldAt, mainVars, netVars
      <4> HIDE DEF Step
      <4> QED BY <4>1
    <3>2. CASE CorWriteBlocked(w)
      <4>1. Step(conn[c].option \cup {"WRITE", "ET_ONESHOT"}, "writing")
        BY <3>2 DEF CorWriteBlocked, Writing, InRoutine, YieldAt, mainVars, netVars
      <4> HIDE DEF Step
      <4> QED BY <4>1
    <3> QED BY <1>8, <3>1, <3>2
  <2>1. PICK opt, at : Step(opt, at)
    BY <2>0
  <2>2. /\ c \in Conns /\ conn \in [Conns -> ConnFields] /\ epoll \in [Conns -> Registration]
        /\ crash \in Crashes \cup {"none"}
    BY <2>1, PastLock
  <2>3. opt \in SUBSET Option
    BY <2>1, <2>2 DEF ConnFields, Option
  <2>4. Armed(c, opt) \in [Conns -> Registration] /\ ModResult(c) \in Crashes \cup {"none"}
    BY <2>2, <2>3, ArmedTypes
  <2> DEFINE r == [conn[c] EXCEPT !.option = opt]
  <2>5. r \in ConnFields /\ r.valid = conn[c].valid /\ conn' = [conn EXCEPT ![c] = r]
    BY <2>1, <2>2, <2>3 DEF ConnFields
  <2>6. wpc' \in [Workers -> WorkerPcs]
    BY <1>0, <2>1 DEF NextEvent, RoutineTypes, WorkerPcs
  <2>7. RoutineTypes' /\ crash' \in Crashes \cup {"none"}
    BY <1>0, <2>1, <2>4, <2>6, YieldTypes DEF Goes
  <2> HIDE DEF r
  <2>8. H!IInv'
    BY <2>1, <2>4, <2>5, <2>7, SubscribeCor
  <2> QED BY <2>7, <2>8 DEF CorInv
<1>9. CASE CorRequest(w)
  <2> DEFINE req == conn[c].read[1]
             wr == Response(req.id)
             opt == (IF req.ka THEN conn[c].option ELSE conn[c].option \ {"READ"}) \cup {"WRITE", "ET_ONESHOT"}
             r == [conn[c] EXCEPT !.keep_alive = req.ka, !.write = wr, !.read = <<>>, !.option = opt]
  <2>1. /\ wpc[w] = "read" /\ Parse(conn[c].read) = "ok" /\ epoll' = Armed(c, opt)
        /\ YieldAt(w, "writing", ModResult(c)) /\ NextEvent(w)
        /\ UNCHANGED <<mpc, mcur, mnew, serverOpen, u_conn, closed, timeod, backlog, peer>>
    BY <1>9 DEF CorRequest, Reading, InRoutine, YieldAt, mainVars, netVars
  <2>2. /\ c \in Conns /\ conn \in [Conns -> ConnFields] /\ epoll \in [Conns -> Registration]
        /\ crash \in Crashes \cup {"none"}
    BY <2>1, PastLock
  <2>3. conn' = [conn EXCEPT ![c] = r]
    BY <1>9, <2>2 DEF CorRequest
  <2>4. opt \in SUBSET Option
    BY <2>2 DEF ConnFields, Option
  <2>5. req.ka \in BOOLEAN /\ wr \in Seq(1..MaxRequests)
    <3>1. conn[c].read \in Seq(Chunk)
      BY <2>2 DEF ConnFields
    <3>2. req \in Chunk
      <4>1. Len(conn[c].read) \in {1, 2}
        BY <2>1 DEF Parse
      <4> QED BY <3>1, <4>1
    <3>3. req.id \in 1..MaxRequests /\ req.ka \in BOOLEAN
      BY <3>2 DEF Chunk
    <3>4. RespLen \in Nat
      BY ConstantsAssumption
    <3> HIDE DEF req
    <3> QED BY <3>3, <3>4 DEF Response
  <2> HIDE DEF wr, opt
  <2>6. r \in ConnFields /\ r.valid = conn[c].valid
    <3>1. <<>> \in Seq(Chunk)
      OBVIOUS
    <3> HIDE DEF req
    <3> QED BY <2>2, <2>4, <2>5, <3>1 DEF ConnFields
  <2>7. Armed(c, opt) \in [Conns -> Registration] /\ ModResult(c) \in Crashes \cup {"none"}
    BY <2>2, <2>4, ArmedTypes
  <2>8. wpc' \in [Workers -> WorkerPcs]
    BY <1>0, <2>1 DEF NextEvent, RoutineTypes, WorkerPcs
  <2>9. RoutineTypes' /\ crash' \in Crashes \cup {"none"}
    BY <1>0, <2>1, <2>7, <2>8, YieldTypes DEF Goes
  <2> HIDE DEF r
  <2>10. H!IInv'
    BY <2>1, <2>3, <2>6, <2>7, <2>9, SubscribeCor
  <2> QED BY <2>9, <2>10 DEF CorInv
<1>10. CASE CorWrite(w)
  <2> DEFINE room == IF Len(peer[c].wire) < Window THEN Window - Len(peer[c].wire) ELSE 0
             n == IF Len(conn[c].write) < room THEN Len(conn[c].write) ELSE room
             opt == (conn[c].option \ {"WRITE"}) \cup {"ET_ONESHOT"}
             wire == peer[c].wire \o SubSeq(conn[c].write, 1, n)
             rest == SubSeq(conn[c].write, n + 1, Len(conn[c].write))
             r1 == [conn[c] EXCEPT !.write = <<>>, !.option = opt]
             r2 == [conn[c] EXCEPT !.write = rest]
  <2>1. /\ wpc[w] = "write"
        /\ UNCHANGED <<mpc, mcur, mnew, serverOpen, u_conn, connection_mutex, closed, timeod, backlog,
                       batch, wconn, p_rout, routine, made, finished, current>>
    BY <1>10 DEF CorWrite, Writing, InRoutine, mainVars, poolVars, routineVars
  <2>2. /\ c \in Conns /\ conn \in [Conns -> ConnFields] /\ epoll \in [Conns -> Registration]
        /\ crash \in Crashes \cup {"none"} /\ peer \in [Conns -> PeerFields] /\ timeod \in Seq(Places)
    BY <2>1, PastLock
  <2>3. /\ peer' = [peer EXCEPT ![c] = [peer[c] EXCEPT !.wire = wire]]
        /\ \/ /\ conn' = [conn EXCEPT ![c] = r1] /\ wpc' = [wpc EXCEPT ![w] = "arm"]
              /\ epoll' = Armed(c, opt) /\ crash' = ModResult(c)
           \/ conn' = [conn EXCEPT ![c] = r2] /\ UNCHANGED <<epoll, crash, wpc>>
    BY <1>10, <2>2 DEF CorWrite
  <2>4. wire \in Seq(1..MaxRequests) /\ rest \in Seq(1..MaxRequests) /\ opt \in SUBSET Option
    <3>1. /\ peer[c].wire \in Seq(1..MaxRequests) /\ conn[c].write \in Seq(1..MaxRequests)
          /\ opt \in SUBSET Option
      BY <2>2 DEF ConnFields, PeerFields, Option
    <3>2. n \in 0..Len(conn[c].write)
      <4>1. Len(conn[c].write) \in Nat /\ Len(peer[c].wire) \in Nat /\ Window \in Nat
        BY <3>1, ConstantsAssumption
      <4> QED BY <4>1
    <3> HIDE DEF n
    <3>3. SubSeq(conn[c].write, 1, n) \in Seq(1..MaxRequests) /\ rest \in Seq(1..MaxRequests)
      BY <3>1, <3>2, SplitFacts
    <3> QED BY <3>1, <3>3, ConcatProperties
  <2> HIDE DEF wire, rest, opt
  <2>5. /\ r1 \in ConnFields /\ r1.valid = conn[c].valid /\ r2 \in ConnFields /\ r2.valid = conn[c].valid
    <3>1. <<>> \in Seq(1..MaxRequests)
      OBVIOUS
    <3> QED BY <2>2, <2>4, <3>1 DEF ConnFields
  <2>6. /\ [peer[c] EXCEPT !.wire = wire] \in PeerFields
        /\ [peer[c] EXCEPT !.wire = wire].state = peer[c].state
    BY <2>2, <2>4, ZenonT(40) DEF PeerFields
  <2> HIDE DEF r1, r2
  <2>7. conn' \in [Conns -> ConnFields] /\ \A d \in Conns : conn'[d].valid = conn[d].valid
    BY <2>2, <2>3, <2>5
  <2>8. peer' \in [Conns -> PeerFields] /\ \A d \in Conns : peer'[d].state = peer[d].state
    BY <2>2, <2>3, <2>6
  <2>9. epoll' \in [Conns -> Registration] /\ crash' \in Crashes \cup {"none"}
    BY <2>2, <2>3, <2>4, ArmedTypes
  <2>10. PICK pc \in {"write", "arm"} : wpc' = [wpc EXCEPT ![w] = pc]
    BY <1>0, <2>1, <2>3 DEF RoutineTypes
  <2>11. H!IInv' /\ wpc' \in [Workers -> WorkerPcs]
    BY <2>1, <2>2, <2>7, <2>8, <2>9, <2>10, StayCor
  <2> QED BY <1>0, <2>1, <2>11 DEF CorInv, RoutineTypes
<1>11. CASE CorRearm(w)
  <2> DEFINE opt == conn[c].option
  <2>1. /\ wpc[w] = "arm" /\ p_rout' = [p_rout EXCEPT ![c] = None] /\ EpollMod(c, opt)
        /\ ReturnFrom(w, p_rout[c]) /\ NextEvent(w)
        /\ UNCHANGED <<mpc, mcur, mnew, serverOpen, u_conn, closed, timeod, conn, backlog, peer>>
    BY <1>11 DEF CorRearm, InRoutine, ReturnFrom, mainVars, netVars
  <2>2. /\ c \in Conns /\ conn \in [Conns -> ConnFields] /\ epoll \in [Conns -> Registration]
        /\ crash \in Crashes \cup {"none"}
    BY <2>1, PastLock
  <2>3. opt \in SUBSET Option /\ epoll' = Armed(c, opt) /\ crash' = ModResult(c)
    BY <2>1, <2>2 DEF ConnFields, EpollMod, Armed, ModResult
  <2>4. epoll' \in [Conns -> Registration] /\ crash' \in Crashes \cup {"none"}
    BY <2>2, <2>3, ArmedTypes
  <2>5. conn[c] \in ConnFields /\ conn' = [conn EXCEPT ![c] = conn[c]]
    BY <2>1, <2>2
  <2>6. H!IInv' /\ wpc' \in [Workers -> WorkerPcs]
    BY <2>1, <2>4, <2>5, SubscribeCor
  <2>7. RoutineTypes'
    BY <1>0, <2>1, <2>6, ReturnTypes DEF RoutineTypes
  <2> QED BY <2>6, <2>7 DEF CorInv
<1> QED
  BY <1>1, <1>2, <1>3, <1>4, <1>5, <1>6, <1>7, <1>8, <1>9, <1>10, <1>11 DEF Worker, WorkerNext

-----------------------------------------------------------------------------
(* The theorems.                                                           *)

\* The inductive invariant holds in every state of CoroutineService, for any
\* number of workers, connections, places, requests and routines, and whatever
\* the clients do: connection_mutex has one owner, a connection is in one place.
THEOREM CorInvariance == Spec => []CorInv
<1>1. Init => CorInv
  BY InitCor
<1>2. CorInv /\ [Next]_vars => CorInv'
  <2> SUFFICES ASSUME CorInv, [Next]_vars PROVE CorInv'
    OBVIOUS
  <2>1. CASE UNCHANGED vars
    <3>1. UNCHANGED <<mpc, mcur, mnew, serverOpen, u_conn, connection_mutex, closed, timeod, conn,
                      epoll, backlog, peer, crash, wpc, batch, wconn, p_rout, routine, made, finished, current>>
      BY <2>1 DEF vars, coreVars, mainVars, poolVars, netVars, workerVars, routineVars
    <3>2. LockPc' = LockPc
      BY <3>1 DEF LockPc
    <3>3. UNCHANGED H!vars
      BY <3>1, <3>2 DEF H!vars, H!coreVars, H!mainVars, H!poolVars, H!netVars, H!workerVars
    <3>4. H!IInv'
      BY <3>3, SameConstants, H!Stutter DEF CorInv
    <3> QED BY <3>1, <3>4 DEF CorInv, RoutineTypes
  <2> QED BY <2>1, MainCor, WorldCor, WorkerCor DEF Next
<1> QED BY <1>1, <1>2, PTL DEF Spec

\* Every variable of CoroutineService keeps to its type.
THEOREM CorTypeCorrect == Spec => []TypeOK
<1>1. CorInv => TypeOK
  BY SameTypes DEF CorInv, RoutineTypes, H!IInv, H!TypeOK, TypeOK, H!MainPcs, MainPcs
<1> QED BY <1>1, CorInvariance, PTL

\* closed_ of CoroutineService is exact: the coroutines of any number of workers
\* and the time-outs of the main thread, which close concurrently (close_client,
\* close_if_timed_out), never push a place twice, and never lose one.
THEOREM CorClosedExact == Spec => []ClosedExact
<1>1. CorInv => ClosedExact
  BY SameTypes DEF CorInv, H!IInv, H!ClosedExact, ClosedExact, H!ToSet, ToSet
<1> QED BY <1>1, CorInvariance, PTL

-----------------------------------------------------------------------------
(* Routines serve one client each, until a late event resumes a foreign    *)
(* one.                                                                    *)

PastPcs == {"check", "read", "write", "arm"}

\* The parts of CorInv the rest needs, in CorService's own names.
LEMMA Basics ==
  ASSUME CorInv
  PROVE  /\ conn \in [Conns -> ConnFields] /\ peer \in [Conns -> PeerFields]
         /\ epoll \in [Conns -> Registration] /\ u_conn \in [Places -> Conns \cup {NoConn}]
         /\ batch \in [Workers -> Seq(Event)] /\ wconn \in [Workers -> Conns \cup {NoConn}]
         /\ wpc \in [Workers -> WorkerPcs] /\ backlog \in Seq(Conns) /\ mcur \in Places
         /\ connection_mutex \in [Places -> Workers \cup {NoWorker}]
         /\ \A p, q \in Places : u_conn[p] = u_conn[q] /\ u_conn[p] # NoConn => p = q
         /\ \A p \in Places : u_conn[p] # NoConn => u_conn[p] \in Conns /\ Entered(u_conn[p])
         /\ mpc \in {"replace", "splice", "emplace", "setopt", "add"} => mnew \in Conns
         /\ mpc \in {"splice", "setopt", "add", "expire", "pop"} => u_conn[mcur] # NoConn
         /\ RoutineTypes
<1>1. H!TypeOK /\ H!PlacedOnce /\ H!MainInv /\ H!FreshInv /\ RoutineTypes
  BY DEF CorInv, H!IInv
<1>2. /\ conn \in [Conns -> ConnFields] /\ peer \in [Conns -> PeerFields]
      /\ epoll \in [Conns -> Registration] /\ u_conn \in [Places -> Conns \cup {NoConn}]
      /\ batch \in [Workers -> Seq(Event)] /\ wconn \in [Workers -> Conns \cup {NoConn}]
      /\ backlog \in Seq(Conns) /\ mcur \in Places
      /\ connection_mutex \in [Places -> Workers \cup {NoWorker}]
  BY <1>1, SameTypes DEF H!TypeOK
<1>3. \A p, q \in Places : u_conn[p] = u_conn[q] /\ u_conn[p] # NoConn => p = q
  BY <1>1, SameTypes DEF H!PlacedOnce
<1>4. ASSUME NEW p \in Places, u_conn[p] # NoConn PROVE u_conn[p] \in Conns /\ Entered(u_conn[p])
  <2>1. u_conn[p] \in Conns
    BY <1>2, <1>4
  <2>2. peer[u_conn[p]].state # "new" /\ u_conn[p] \notin ToSet(backlog)
    BY <1>1, <2>1, SameTypes DEF H!FreshInv, ToSet
  <2>3. ~(u_conn[p] = mnew /\ mpc \in {"replace", "emplace"})
    BY <1>1, SameTypes DEF H!FreshInv
  <2> QED BY <2>1, <2>2, <2>3 DEF Entered
<1>5. /\ mpc \in {"replace", "splice", "emplace", "setopt", "add"} => mnew \in Conns
      /\ mpc \in {"splice", "setopt", "add", "expire", "pop"} => u_conn[mcur] # NoConn
  BY <1>1 DEF H!MainInv
<1>6. wpc \in [Workers -> WorkerPcs]
  BY <1>1 DEF RoutineTypes
<1> QED BY <1>1, <1>2, <1>3, <1>4, <1>5, <1>6

\* What is known of a worker that has an event.
LEMMA WorkerBasics ==
  ASSUME CorInv, NEW w \in Workers
  PROVE  /\ \A i \in DOMAIN batch[w] : batch[w][i].place \in Places /\ u_conn[batch[w][i].place] \in Conns
         /\ wpc[w] # "wait" =>
               /\ place(w) \in Places /\ u_conn[place(w)] \in Conns /\ Has(w, place(w))
               /\ batch[w] \in Seq(Event) /\ batch[w] # <<>>
         /\ wpc[w] \in PastPcs => connection_mutex[place(w)] = w /\ wconn[w] \in Conns
<1>1. H!IInv /\ batch \in [Workers -> Seq(Event)] /\ u_conn \in [Places -> Conns \cup {NoConn}]
  BY Basics DEF CorInv
<1>2. \A i \in DOMAIN batch[w] : batch[w][i].place \in Places /\ u_conn[batch[w][i].place] \in Conns
  <2>1. \A i \in DOMAIN batch[w] : batch[w][i] \in Event
    BY <1>1
  <2>2. \A i \in DOMAIN batch[w] : u_conn[batch[w][i].place] # NoConn
    BY <1>1 DEF H!IInv, H!WorkerInv
  <2> QED BY <1>1, <2>1, <2>2 DEF Event
<1>3. ASSUME wpc[w] # "wait" PROVE batch[w] \in Seq(Event) /\ batch[w] # <<>>
  BY <1>1, <1>3 DEF H!IInv, H!WorkerInv, LockPc
<1>4. ASSUME wpc[w] # "wait" PROVE place(w) \in Places /\ u_conn[place(w)] \in Conns /\ Has(w, place(w))
  <2>1. 1 \in DOMAIN batch[w] /\ Head(batch[w]) = batch[w][1]
    BY <1>3, <1>4
  <2> QED BY <1>2, <2>1 DEF place, Has
<1>5. ASSUME wpc[w] \in PastPcs PROVE connection_mutex[place(w)] = w /\ wconn[w] \in Conns
  <2>1. LockPc[w] = "check" /\ place(w) = H!place(w)
    BY <1>5 DEF LockPc, PastPcs, place, H!place
  <2> QED BY <1>1, <2>1 DEF H!IInv, H!WorkerInv
<1> QED BY <1>2, <1>3, <1>4, <1>5

\* Steps that leave the routines alone and bring no connection that has been in
\* a place back.
LEMMA QuietRoutines ==
  ASSUME CorInv, BatchInv, HoldInv, QueueInv, OwnInv, ServeInv,
         UNCHANGED <<wpc, batch, wconn, p_rout, routine, made, finished, current>>,
         \A c \in Conns : Entered(c) =>
            /\ Entered(c)' /\ (conn'[c].valid => conn[c].valid)
            /\ \A p \in Places : u_conn'[p] = c => u_conn[p] = c
  PROVE  BatchInv' /\ HoldInv' /\ QueueInv' /\ OwnInv' /\ ServeInv'
<1>1. BatchInv'
  BY DEF BatchInv
<1>2. HoldInv'
  <2>1. \A w \in Workers : wpc[w] \in PastPcs => wconn[w] \in Conns
    BY WorkerBasics
  <2>2. \A w \in Workers : place(w)' = place(w)
    BY DEF place
  <2> QED BY <2>1, <2>2 DEF HoldInv, PastPcs
<1>3. QueueInv'
  BY DEF QueueInv
<1>4. ServeInv'
  BY DEF ServeInv, ServedBy
<1>6. OwnInv'
  BY DEF OwnInv, QueueInv, ServedBy
<1> QED BY <1>1, <1>2, <1>3, <1>4, <1>6

\* A connection that has not been in a place has no routine and is not in epoll.
LEMMA NotEntered ==
  ASSUME CorInv, RoutineInv, NEW c \in Conns, ~Entered(c)
  PROVE  p_rout[c] = None /\ epoll[c] = NotAdded
BY DEF RoutineInv, QueueInv, RegisteredInv

\* Steps of the main thread and of the world that register nothing: places get
\* new connections only, and what epoll forgets is closed.
LEMMA QuietStep ==
  ASSUME CorInv, RoutineInv, CorInv', crash = "none",
         UNCHANGED <<wpc, batch, wconn, p_rout, routine, made, finished, current>>,
         \A c \in Conns : Entered(c) =>
            /\ Entered(c)' /\ (conn'[c].valid => conn[c].valid)
            /\ \A p \in Places : u_conn'[p] = c => u_conn[p] = c,
         \A c \in Conns : epoll'[c] = epoll[c] \/ (epoll'[c] = NotAdded /\ ~conn'[c].valid),
         \A p \in Places : Registering(p)' =>
            \/ Registering(p) /\ u_conn'[p] = u_conn[p]
            \/ ~Entered(u_conn'[p])
  PROVE  RoutineInv'
<1>1. BatchInv' /\ HoldInv' /\ QueueInv' /\ OwnInv' /\ ServeInv'
  BY QuietRoutines DEF RoutineInv
<1>2. RegisteredInv'
  BY DEF RoutineInv, RegisteredInv
<1>3. SuspendedArmed'
  <2> SUFFICES ASSUME NEW p \in Live', p_rout[u_conn'[p]] # None,
                      routine[p_rout[u_conn'[p]]].at \in {"reading", "writing"},
                      \A w \in Workers : wconn[w] # u_conn'[p]
               PROVE  \/ (IF routine[p_rout[u_conn'[p]]].at = "reading" THEN "READ" ELSE "WRITE")
                              \in epoll'[u_conn'[p]].armed
                      \/ \E w \in Workers : \E i \in DOMAIN batch[w] : batch[w][i].place = p
    BY DEF SuspendedArmed
  <2> DEFINE c == u_conn'[p]
  <2>1. p \in Places /\ c \in Conns /\ conn'[c].valid
    <3>1. u_conn' \in [Places -> Conns \cup {NoConn}]
      BY SameTypes DEF CorInv, H!IInv, H!TypeOK, Places, H!Places
    <3>2. p \in Places /\ c # NoConn /\ conn'[c].valid
      BY DEF Live, Places
    <3> QED BY <3>1, <3>2
  <2>2. Entered(c)
    BY <2>1, NotEntered
  <2>3. u_conn[p] = c /\ conn[c].valid /\ epoll'[c] = epoll[c]
    BY <2>1, <2>2
  <2>4. p \in Live /\ u_conn[p] = c
    BY <2>1, <2>3 DEF Live
  <2> HIDE DEF c
  <2>5. \/ (IF routine[p_rout[c]].at = "reading" THEN "READ" ELSE "WRITE") \in epoll[c].armed
        \/ \E w \in Workers : \E i \in DOMAIN batch[w] : batch[w][i].place = p
    BY <2>4 DEF RoutineInv, SuspendedArmed, c
  <2> QED BY <2>3, <2>5 DEF c
<1> QED BY <1>1, <1>2, <1>3 DEF RoutineInv

LEMMA MainRoutines == ASSUME CorInv, RoutineInv, Main PROVE RoutineInv'
<1>0. /\ crash = "none" /\ CorMainNext /\ CorInv'
      /\ UNCHANGED <<wpc, batch, wconn, p_rout, routine, made, finished, current>>
  BY MainCor DEF Main, workerVars, routineVars
<1>b. /\ conn \in [Conns -> ConnFields] /\ epoll \in [Conns -> Registration]
      /\ u_conn \in [Places -> Conns \cup {NoConn}] /\ backlog \in Seq(Conns) /\ mcur \in Places
      /\ \A p \in Places : u_conn[p] # NoConn => u_conn[p] \in Conns /\ Entered(u_conn[p])
      /\ mpc \in {"replace", "splice", "emplace", "setopt", "add"} => mnew \in Conns
      /\ mpc \in {"splice", "setopt", "add", "expire", "pop"} => u_conn[mcur] # NoConn
  BY Basics
<1>1. CASE RunLoop \/ AcceptTimeout \/ AcceptThrows \/ DumpFront \/ PopFront
  <2>1. /\ UNCHANGED <<conn, epoll, u_conn, backlog, peer>>
        /\ mpc' \in {"accept", "join", "dump", "threw", "loop", "expire"}
    BY <1>1 DEF RunLoop, AcceptTimeout, AcceptThrows, DumpFront, PopFront, poolVars, netVars
  <2>2. \A c \in Conns : Entered(c) => Entered(c)'
    BY <2>1 DEF Entered, ToSet
  <2>3. \A p \in Places : ~Registering(p)'
    BY <2>1 DEF Registering
  <2> QED BY <1>0, <2>1, <2>2, <2>3, QuietStep
<1>2. CASE Accept
  <2>1. /\ UNCHANGED <<conn, epoll, u_conn, peer>> /\ mpc' = "replace" /\ mnew' = Head(backlog)
        /\ backlog # <<>> /\ backlog' = Tail(backlog)
    BY <1>2 DEF Accept, poolVars
  <2>2. \A c \in Conns : Entered(c) => Entered(c)'
    <3>1. Head(backlog) \in ToSet(backlog) /\ ToSet(Tail(backlog)) \subseteq ToSet(backlog)
      <4>1. /\ 1 \in DOMAIN backlog /\ Head(backlog) = backlog[1]
            /\ \A i \in DOMAIN Tail(backlog) : i + 1 \in DOMAIN backlog /\ Tail(backlog)[i] = backlog[i + 1]
        BY <1>b, <2>1
      <4> QED BY <4>1 DEF ToSet
    <3> QED BY <2>1, <3>1 DEF Entered
  <2>3. \A p \in Places : ~Registering(p)'
    BY <2>1 DEF Registering
  <2> QED BY <1>0, <2>1, <2>2, <2>3, QuietStep
<1>3. CASE TryReplace
  <2>1. CASE mpc' = "emplace"
    <3>1. UNCHANGED <<mnew, conn, epoll, u_conn, backlog, peer>> /\ mpc = "replace"
      BY <1>3, <2>1 DEF TryReplace, netVars
    <3>2. \A c \in Conns : Entered(c) => Entered(c)'
      BY <3>1 DEF Entered, ToSet
    <3>3. \A p \in Places : ~Registering(p)'
      BY <2>1 DEF Registering
    <3> QED BY <1>0, <3>1, <3>2, <3>3, QuietStep
  <2>2. CASE mpc' = "splice"
    <3>1. /\ UNCHANGED <<mnew, epoll, backlog, peer>> /\ mpc = "replace" /\ mcur' = Head(closed)
          /\ u_conn' = [u_conn EXCEPT ![Head(closed)] = mnew] /\ conn' = [conn EXCEPT ![mnew] = FreshConn]
          /\ mnew \in Conns /\ ~Entered(mnew)
      BY <1>b, <1>3, <2>2 DEF TryReplace, netVars, Entered
    <3>2. \A c \in Conns : Entered(c) =>
            /\ Entered(c)' /\ (conn'[c].valid => conn[c].valid)
            /\ \A p \in Places : u_conn'[p] = c => u_conn[p] = c
      BY <1>b, <2>2, <3>1 DEF Entered, ToSet
    <3>3. \A p \in Places : Registering(p)' => ~Entered(u_conn'[p])
      BY <1>b, <3>1 DEF Registering
    <3> QED BY <1>0, <3>1, <3>2, <3>3, QuietStep
  <2> QED BY <1>3, <2>1, <2>2 DEF TryReplace
<1>4. CASE Emplace
  <2>1. PICK p \in Places :
          /\ mcur' = p /\ u_conn' = [u_conn EXCEPT ![p] = mnew] /\ conn' = [conn EXCEPT ![mnew] = FreshConn]
          /\ UNCHANGED <<mnew, epoll, backlog, peer>> /\ mpc = "emplace" /\ mpc' = "setopt"
    BY <1>4 DEF Emplace, netVars
  <2>2. mnew \in Conns /\ ~Entered(mnew)
    BY <1>b, <2>1 DEF Entered
  <2>3. \A c \in Conns : Entered(c) =>
            /\ Entered(c)' /\ (conn'[c].valid => conn[c].valid)
            /\ \A q \in Places : u_conn'[q] = c => u_conn[q] = c
    BY <1>b, <2>1, <2>2 DEF Entered, ToSet
  <2>4. \A q \in Places : Registering(q)' => ~Entered(u_conn'[q])
    BY <1>b, <2>1, <2>2 DEF Registering
  <2> QED BY <1>0, <2>1, <2>3, <2>4, QuietStep
<1>5. CASE Splice \/ SetOption
  <2>1. /\ UNCHANGED <<mcur, mnew, u_conn, backlog, peer, epoll>> /\ mpc \in {"splice", "setopt"}
        /\ mpc' \in {"setopt", "add"}
    BY <1>5 DEF Splice, SetOption, netVars, poolVars
  <2>2. \A c \in Conns : conn'[c].valid = conn[c].valid
    <3>1. CASE Splice
      BY <3>1 DEF Splice
    <3>2. CASE SetOption
      <4> DEFINE d == u_conn[mcur]
                 o == {"READ", "ET_ONESHOT"}
      <4>1. conn' = [conn EXCEPT ![d].option = o]
        BY <3>2 DEF SetOption
      <4> HIDE DEF d, o
      <4> QED BY <1>b, <4>1 DEF ConnFields
    <3> QED BY <1>5, <3>1, <3>2
  <2>3. \A c \in Conns : Entered(c) => Entered(c)'
    BY <2>1 DEF Entered, ToSet
  <2>4. \A p \in Places : Registering(p)' => Registering(p)
    BY <2>1 DEF Registering
  <2> QED BY <1>0, <2>1, <2>2, <2>3, <2>4, QuietStep
<1>6. CASE CloseIfTimedOut
  <2>1. /\ UNCHANGED <<mnew, u_conn, backlog, peer>> /\ mpc = "expire" /\ mpc' \in {"pop", "loop"}
        /\ \/ UNCHANGED <<conn, epoll>>
           \/ conn' = Closed(u_conn[mcur]) /\ epoll' = Deregistered(u_conn[mcur])
    BY <1>6 DEF CloseIfTimedOut, netVars
  <2>2. \A c \in Conns : conn'[c].valid => conn[c].valid
    <3> DEFINE d == u_conn[mcur]
    <3>1. UNCHANGED conn \/ conn' = Closed(d)
      BY <2>1
    <3>2. d \in Conns
      BY <1>b, <2>1
    <3> HIDE DEF d
    <3>3. \A c \in Conns : c # d => Closed(d)[c] = conn[c]
      BY <1>b DEF Closed
    <3>4. ~Closed(d)[d].valid
      BY <1>b, <3>2 DEF Closed, ConnFields
    <3> QED BY <3>1, <3>3, <3>4
  <2>3. \A c \in Conns : epoll'[c] = epoll[c] \/ (epoll'[c] = NotAdded /\ ~conn'[c].valid)
    BY <1>b, <2>1 DEF Closed, Deregistered, ConnFields
  <2>4. \A c \in Conns : Entered(c) => Entered(c)'
    BY <2>1 DEF Entered, ToSet
  <2>5. \A p \in Places : ~Registering(p)'
    BY <2>1 DEF Registering
  <2> QED BY <1>0, <2>1, <2>2, <2>3, <2>4, <2>5, QuietStep
<1>7. CASE EpollAdd
  <2> DEFINE d == u_conn[mcur]
  <2>1. /\ UNCHANGED <<mcur, conn, u_conn, backlog, peer, crash>> /\ mpc = "add" /\ mpc' = "dump"
        /\ \A c \in Conns : c # d => epoll'[c] = epoll[c]
    BY <1>7, <1>b DEF EpollAdd, netVars, poolVars
  <2>2. d \in Conns /\ Entered(d) /\ epoll[d] = NotAdded
    <3>1. Registering(mcur)
      BY <2>1 DEF Registering
    <3> QED BY <1>b, <2>1, <3>1 DEF RoutineInv, RegisteredInv
  <2>3. \A c \in Conns : Entered(c) => Entered(c)'
    BY <2>1 DEF Entered, ToSet
  <2>4. BatchInv' /\ HoldInv' /\ QueueInv' /\ OwnInv' /\ ServeInv'
    BY <1>0, <2>1, <2>3, QuietRoutines DEF RoutineInv
  <2>5. \A p \in Places : ~Registering(p)'
    BY <2>1 DEF Registering
  <2>6. RegisteredInv'
    BY <2>1, <2>2, <2>3, <2>5 DEF RoutineInv, RegisteredInv
  <2>7. SuspendedArmed'
    <3>1. Live' = Live
      BY <2>1 DEF Live
    <3>2. epoll[d].armed = {}
      BY <2>2 DEF NotAdded
    <3>3. \A p \in Live : u_conn[p] \in Conns
      BY <1>b DEF Live
    <3> HIDE DEF d
    <3> QED BY <1>0, <2>1, <3>1, <3>2, <3>3 DEF RoutineInv, SuspendedArmed
  <2> QED BY <2>4, <2>6, <2>7 DEF RoutineInv
<1> QED BY <1>0, <1>1, <1>2, <1>3, <1>4, <1>5, <1>6, <1>7
        DEF CorMainNext, Run, try_replace_closed_with_new_conn, emplace_connection,
            close_if_timed_out, dump_timed_out_connections

LEMMA WorldRoutines == ASSUME CorInv, RoutineInv, World PROVE RoutineInv'
<1>0. /\ crash = "none" /\ ((\E c \in Conns : ClientNext(c)) \/ Tick) /\ CorInv'
      /\ UNCHANGED <<wpc, batch, wconn, p_rout, routine, made, finished, current>>
  BY WorldCor DEF World, workerVars, routineVars
<1>b. conn \in [Conns -> ConnFields] /\ peer \in [Conns -> PeerFields] /\ backlog \in Seq(Conns)
  BY Basics
<1>1. CASE Tick
  <2>1. UNCHANGED <<mpc, mcur, mnew, u_conn, backlog, peer, epoll>>
    BY <1>1 DEF Tick, mainVars, poolVars, netVars
  <2>2. \A c \in Conns : conn'[c].valid = conn[c].valid
    BY <1>1, <1>b DEF Tick, ConnFields
  <2>3. \A c \in Conns : Entered(c)' = Entered(c)
    BY <2>1 DEF Entered, ToSet
  <2>4. \A p \in Places : Registering(p)' = Registering(p)
    BY <2>1 DEF Registering
  <2> QED BY <1>0, <2>1, <2>2, <2>3, <2>4, QuietStep
<1>2. ASSUME NEW d \in Conns, ClientNext(d) PROVE RoutineInv'
  <2>1. UNCHANGED <<mpc, mcur, mnew, u_conn, conn, epoll>>
    BY <1>2 DEF ClientNext, Connect, SendWhole, SendPart, SendRest, SendBad, Receive, Fin, Rst, mainVars, poolVars
  <2>2. \A c \in Conns : Entered(c) => Entered(c)'
    <3>1. CASE Connect(d)
      <4>1. peer[d].state = "new" /\ backlog' = Append(backlog, d) /\ peer' = [peer EXCEPT ![d].state = "open"]
        BY <3>1 DEF Connect
      <4>2. ToSet(Append(backlog, d)) = ToSet(backlog) \cup {d}
        BY <1>b, AppendElements
      <4> QED BY <1>b, <2>1, <4>1, <4>2 DEF Entered
    <3>2. CASE ~Connect(d)
      <4>1. /\ UNCHANGED backlog /\ \A c \in Conns : c # d => peer'[c] = peer[c]
            /\ peer[d].state # "new" => peer'[d].state # "new"
        <5>1. CASE SendWhole(d) \/ SendPart(d)
          <6>1. CASE SendWhole(d)
            <7>1. PICK ka, ch :
                    peer' = [peer EXCEPT ![d].sent = @ + 1, ![d].ka = ka, ![d].inbox = ch]
              BY <6>1 DEF SendWhole
            <7> QED BY <1>b, <6>1, <7>1 DEF SendWhole, PeerFields
          <6>2. CASE SendPart(d)
            <7>1. PICK ka, ch :
                    peer' = [peer EXCEPT ![d].half = TRUE, ![d].ka = ka, ![d].inbox = ch]
              BY <6>2 DEF SendPart
            <7> QED BY <1>b, <6>2, <7>1 DEF SendPart, PeerFields
          <6> QED BY <5>1, <6>1, <6>2
        <5>2. CASE SendRest(d) \/ SendBad(d)
          BY <1>b, <5>2 DEF SendRest, SendBad, PeerFields
        <5>3. CASE Receive(d)
          BY <1>b, <5>3 DEF Receive, PeerFields
        <5>4. CASE Fin(d) \/ Rst(d)
          BY <1>b, <5>4 DEF Fin, Rst, PeerFields
        <5> QED BY <1>2, <3>2, <5>1, <5>2, <5>3, <5>4 DEF ClientNext
      <4> QED BY <2>1, <4>1 DEF Entered, ToSet
    <3> QED BY <3>1, <3>2
  <2>3. \A p \in Places : Registering(p)' = Registering(p)
    BY <2>1 DEF Registering
  <2> QED BY <1>0, <2>1, <2>2, <2>3, QuietStep
<1> QED BY <1>0, <1>1, <1>2

\* The end of an event: the worker has no other event of the place.
LEMMA LeaveFacts ==
  ASSUME CorInv, BatchInv, HoldInv, NEW w \in Workers, wpc[w] \in PastPcs, NextEvent(w),
         UNCHANGED <<mpc, mnew, u_conn, backlog, peer>>
  PROVE  /\ BatchInv' /\ HoldInv'
         /\ \A v \in Workers, q \in Places : Has(v, q)' <=> Has(v, q) /\ ~(v = w /\ q = place(w))
         /\ \A d \in Conns : Entered(d)' = Entered(d)
         /\ \A v \in Workers : wpc'[v] \in PastPcs => v # w /\ wpc'[v] = wpc[v]
         /\ \A v \in Workers : v # w => wconn'[v] = wconn[v]
<1> DEFINE t == Tail(batch[w])
<1>1. /\ batch[w] \in Seq(Event) /\ batch[w] # <<>> /\ place(w) \in Places
      /\ wpc \in [Workers -> WorkerPcs] /\ batch \in [Workers -> Seq(Event)]
      /\ wconn \in [Workers -> Conns \cup {NoConn}]
  BY Basics, WorkerBasics DEF PastPcs
<1>2. /\ Len(batch[w]) \in Nat \ {0} /\ 1 \in DOMAIN batch[w] /\ place(w) = batch[w][1].place
      /\ DOMAIN t = 1..(Len(batch[w]) - 1) /\ DOMAIN batch[w] = 1..Len(batch[w])
      /\ \A i \in DOMAIN t : i + 1 \in DOMAIN batch[w] /\ t[i] = batch[w][i + 1]
      /\ Len(batch[w]) = 1 => t = <<>>
  <2> DEFINE b == batch[w]
  <2>1. b \in Seq(Event) /\ b # <<>> /\ place(w) = Head(b).place /\ t = Tail(b)
    BY <1>1 DEF place
  <2> HIDE DEF b, t
  <2>2. /\ Len(b) \in Nat \ {0} /\ 1 \in DOMAIN b /\ Head(b) = b[1] /\ Tail(b) \in Seq(Event)
        /\ DOMAIN Tail(b) = 1..(Len(b) - 1) /\ Len(Tail(b)) = Len(b) - 1 /\ DOMAIN b = 1..Len(b)
        /\ \A i \in DOMAIN Tail(b) : i + 1 \in DOMAIN b /\ Tail(b)[i] = b[i + 1]
    BY <2>1
  <2>3. Len(b) = 1 => Tail(b) = <<>>
    BY <2>2, EmptySeq
  <2> QED BY <2>1, <2>2, <2>3 DEF b
<1>3. /\ batch' = [batch EXCEPT ![w] = t] /\ wconn' = [wconn EXCEPT ![w] = NoConn]
      /\ wpc' = [wpc EXCEPT ![w] = IF Len(batch[w]) = 1 THEN "wait" ELSE "lock"]
  BY DEF NextEvent
<1> HIDE DEF t
<1>4. /\ batch'[w] = t /\ wconn'[w] = NoConn /\ wpc'[w] = (IF Len(batch[w]) = 1 THEN "wait" ELSE "lock")
      /\ \A v \in Workers : v # w => batch'[v] = batch[v] /\ wconn'[v] = wconn[v] /\ wpc'[v] = wpc[v]
  BY <1>1, <1>3
<1>5. \A i, j \in DOMAIN batch[w] : batch[w][i].place = batch[w][j].place => i = j
  BY DEF BatchInv
<1>6. \A i, j \in DOMAIN t : t[i].place = t[j].place => i = j
  <2> SUFFICES ASSUME NEW i \in DOMAIN t, NEW j \in DOMAIN t, t[i].place = t[j].place PROVE i = j
    OBVIOUS
  <2>1. i + 1 = j + 1
    BY <1>2, <1>5, SMTT(30)
  <2> QED BY <1>2, <2>1
<1>7. \A v \in Workers : v # w => /\ place(v)' = place(v) /\ \A q \in Places : Has(v, q)' = Has(v, q)
  BY <1>4 DEF place, Has
<1>8. ASSUME NEW q \in Places PROVE Has(w, q)' <=> Has(w, q) /\ q # place(w)
  <2>1. ASSUME NEW i \in DOMAIN t, t[i].place = q PROVE Has(w, q) /\ q # place(w)
    <3>1. i + 1 \in DOMAIN batch[w] /\ batch[w][i + 1].place = q /\ i + 1 # 1
      BY <1>2, <2>1
    <3> QED BY <1>2, <1>5, <3>1 DEF Has
  <2>2. ASSUME NEW k \in DOMAIN batch[w], batch[w][k].place = q, q # place(w)
        PROVE  \E i \in DOMAIN t : t[i].place = q
    <3>1. k # 1 /\ k - 1 \in DOMAIN t /\ (k - 1) + 1 = k
      <4> DEFINE n == Len(batch[w])
      <4>1. n \in Nat \ {0} /\ k \in 1..n /\ DOMAIN t = 1..(n - 1) /\ k # 1
        BY <1>2, <2>2
      <4> HIDE DEF n
      <4> QED BY <4>1
    <3> QED BY <1>2, <2>2, <3>1
  <2> QED BY <1>4, <2>1, <2>2 DEF Has
<1>9. \A d \in Conns : Entered(d)' = Entered(d)
  BY DEF Entered, ToSet
<1>10. BatchInv'
  BY <1>2, <1>4, <1>6, SMTT(30) DEF BatchInv
<1>11. HoldInv'
  <2>1. \A v \in Workers : wpc[v] \in PastPcs => wconn[v] \in Conns
    BY WorkerBasics
  <2> QED BY <1>4, <1>7, <1>9, <2>1 DEF HoldInv, PastPcs
<1> QED BY <1>4, <1>7, <1>8, <1>9, <1>10, <1>11 DEF PastPcs

\* What a worker past the lock knows of its connection.
LEMMA HeldFacts ==
  ASSUME CorInv, RoutineInv, NEW w \in Workers, wpc[w] \in PastPcs, wconn[w] = u_conn[place(w)]
  PROVE  /\ place(w) \in Places /\ wconn[w] \in Conns /\ Entered(wconn[w])
         /\ \A p \in Places : u_conn[p] = wconn[w] => p = place(w)
         /\ \A v \in Workers : v # w /\ wpc[v] \in PastPcs => wconn[v] # wconn[w]
<1>1. place(w) \in Places /\ wconn[w] \in Conns
  BY WorkerBasics DEF PastPcs
<1> QED BY <1>1 DEF RoutineInv, HoldInv, PastPcs

\* The client of routine q, and whether it is suspended, are as before.
Kept(q) == routine'[q].at = routine[q].at /\ routine'[q].client = routine[q].client

\* A routine that serves a connection is that one's only.
LEMMA ServedOne ==
  ASSUME NEW c, NEW d, NEW r, ServedBy(c, r), ServedBy(d, r) PROVE c = d
BY DEF ServedBy

\* A step that ends an event of connection c and touches the routine of c only,
\* which serves c or has returned: it is suspended with c armed, or returns with
\* c closed, or is put on the queue.
LEMMA ReleaseRoutine ==
  ASSUME CorInv, RoutineInv, NEW w \in Workers, wpc[w] \in PastPcs, wconn[w] = u_conn[place(w)],
         crash = "none", NextEvent(w), UNCHANGED <<mpc, mcur, mnew, u_conn, backlog, peer, made>>,
         NEW c \in Conns, c = wconn[w], p_rout[c] # None,
         \A d \in Conns : d # c => conn'[d] = conn[d] /\ epoll'[d] = epoll[d] /\ p_rout'[d] = p_rout[d],
         conn'[c].valid => conn[c].valid, epoll'[c] # NotAdded => epoll[c] # NotAdded,
         p_rout'[c] \in {None, p_rout[c]},
         \A q \in Routines : q # p_rout[c] => Kept(q),
         ServedBy(c, p_rout[c]) \/ routine[p_rout[c]].at = "returned"
            \/ (routine[p_rout[c]].at = "finished" /\ routine'[p_rout[c]].at = "finished"),
         \A v \in Workers : v # w => current'[v] \in {None, current[v]},
         \/ finished' = finished
         \/ /\ finished' = Append(finished, p_rout[c]) /\ routine[p_rout[c]].at = "returned"
            /\ routine'[p_rout[c]].at = "finished",
         conn'[c].valid /\ p_rout'[c] # None => ServedBy(c, p_rout[c])',
         crash' = "none" /\ conn'[c].valid /\ p_rout'[c] # None =>
            /\ routine'[p_rout[c]].at = "reading" => "READ" \in epoll'[c].armed
            /\ routine'[p_rout[c]].at = "writing" => "WRITE" \in epoll'[c].armed
  PROVE  RoutineInv'
<1> DEFINE p == place(w)
           r == p_rout[c]
<1>b. /\ u_conn \in [Places -> Conns \cup {NoConn}] /\ p_rout \in [Conns -> Routines \cup {None}]
      /\ finished \in Seq(Routines) /\ r \in Routines
  BY Basics DEF RoutineTypes
<1>1. p \in Places /\ Entered(c) /\ \A q \in Places : u_conn[q] = c => q = p
  BY HeldFacts
<1>2. /\ BatchInv' /\ HoldInv'
      /\ \A v \in Workers, q \in Places : Has(v, q)' <=> Has(v, q) /\ ~(v = w /\ q = p)
      /\ \A d \in Conns : Entered(d)' = Entered(d)
      /\ \A v \in Workers : wpc'[v] \in PastPcs => v # w /\ wpc'[v] = wpc[v]
      /\ \A v \in Workers : v # w => wconn'[v] = wconn[v]
  BY LeaveFacts DEF RoutineInv
<1> HIDE DEF p, r
<1>3. \A q \in Places : (HasEvent(q)' => HasEvent(q)) /\ (q # p => (HasEvent(q)' <=> HasEvent(q)))
  BY <1>2 DEF HasEvent, Has
<1>4. \A d \in Conns : p_rout[d] \in Routines /\ p_rout[d] # r => (ServedBy(d, p_rout[d]) => ServedBy(d, p_rout[d])')
  BY DEF ServedBy, Kept, r
<1>5. \A d \in Conns : d # c /\ ServedBy(d, p_rout[d]) => p_rout[d] # r
  BY ServedOne DEF ServedBy, Suspended, r
<1>6. r <= made
  BY DEF RoutineInv, QueueInv, r
<1>7. finished' # finished => r \notin ToSet(finished)
  BY DEF RoutineInv, QueueInv, ToSet, r
<1>8. /\ \A i, j \in DOMAIN finished' : finished'[i] = finished'[j] => i = j
      /\ \A i \in DOMAIN finished' : finished'[i] <= made /\ routine'[finished'[i]].at = "finished"
  <2>0. /\ \A i, j \in DOMAIN finished : finished[i] = finished[j] => i = j
        /\ \A e \in ToSet(finished) : e <= made /\ routine[e].at = "finished" /\ e \in Routines
    BY <1>b DEF RoutineInv, QueueInv, ToSet
  <2>1. \A e \in ToSet(finished) : routine'[e].at = "finished"
    BY <2>0 DEF Kept, ServedBy, Suspended
  <2>2. CASE finished' = finished
    BY <2>0, <2>1, <2>2 DEF ToSet
  <2>3. CASE finished' # finished
    <3>0. finished' = Append(finished, r) /\ routine'[r].at = "finished"
      BY <2>3 DEF r
    <3>1. /\ ToSet(Append(finished, r)) = ToSet(finished) \cup {r}
          /\ \A i, j \in DOMAIN Append(finished, r) : Append(finished, r)[i] = Append(finished, r)[j] => i = j
      BY <1>b, <1>7, <2>0, <2>3, AppendElements
    <3>2. \A i \in DOMAIN finished' : finished'[i] \in ToSet(finished')
      BY DEF ToSet
    <3> QED BY <1>6, <2>0, <2>1, <3>0, <3>1, <3>2
  <2> QED BY <2>2, <2>3
<1>9. QueueInv'
  <2>1. \A d \in Conns : p_rout'[d] # None => p_rout'[d] = p_rout[d]
    OBVIOUS
  <2> QED BY <1>2, <1>8, <2>1 DEF RoutineInv, QueueInv
<1>10. OwnInv'
  <2> SUFFICES ASSUME NEW d \in Conns, conn'[d].valid, p_rout'[d] # None PROVE ServedBy(d, p_rout[d])'
    BY DEF OwnInv
  <2>1. p_rout'[d] = p_rout[d] /\ p_rout[d] \in Routines
    BY <1>b
  <2>2. CASE d = c
    BY <2>1, <2>2
  <2>3. CASE d # c
    <3>1. ServedBy(d, p_rout[d])
      BY <2>1, <2>3 DEF RoutineInv, OwnInv
    <3>2. ServedBy(d, p_rout[d])'
      BY <1>4, <1>5, <2>1, <2>3, <3>1
    <3> QED BY <3>2
  <2> QED BY <2>2, <2>3
<1>11. ServeInv'
  <2> SUFFICES ASSUME NEW v \in Workers, wpc'[v] \in InRoutinePcs
               PROVE  ServedBy(wconn[v], p_rout[wconn[v]])' /\ current'[v] \in {None, p_rout'[wconn'[v]]}
    BY DEF ServeInv
  <2>1. v # w /\ wpc[v] \in InRoutinePcs /\ wconn'[v] = wconn[v]
    BY <1>2 DEF InRoutinePcs, PastPcs
  <2>2. wconn[v] \in Conns /\ wconn[v] # c
    BY <2>1, HeldFacts, WorkerBasics DEF InRoutinePcs, PastPcs
  <2>3. ServedBy(wconn[v], p_rout[wconn[v]]) /\ current[v] \in {None, p_rout[wconn[v]]}
    BY <2>1 DEF RoutineInv, ServeInv
  <2>4. p_rout[wconn[v]] \in Routines /\ p_rout'[wconn[v]] = p_rout[wconn[v]]
    BY <1>b, <2>2, <2>3 DEF ServedBy
  <2>5. ServedBy(wconn[v], p_rout[wconn[v]])'
    BY <1>4, <1>5, <2>1, <2>2, <2>3, <2>4 DEF ServedBy
  <2> QED BY <2>1, <2>3, <2>4, <2>5
<1>12. RegisteredInv'
  <2>1. \A q \in Places : Registering(q)' = Registering(q)
    BY DEF Registering
  <2> QED BY <1>2, <2>1 DEF RoutineInv, RegisteredInv
<1>13. SuspendedArmed'
  <2> SUFFICES ASSUME NEW q \in Live', crash' = "none", p_rout'[u_conn'[q]] # None,
                      routine'[p_rout'[u_conn'[q]]].at \in {"reading", "writing"},
                      \A v \in Workers : wconn'[v] # u_conn'[q]
               PROVE  \/ (IF routine'[p_rout'[u_conn'[q]]].at = "reading" THEN "READ" ELSE "WRITE")
                              \in epoll'[u_conn'[q]].armed
                      \/ \E v \in Workers : \E i \in DOMAIN batch'[v] : batch'[v][i].place = q
    BY DEF SuspendedArmed
  <2> DEFINE d == u_conn[q]
  <2>1. q \in Places /\ u_conn'[q] = d /\ d \in Conns /\ conn'[d].valid
    BY <1>b DEF Live, Places
  <2>2. p_rout'[d] = p_rout[d] /\ p_rout[d] # None /\ p_rout[d] \in Routines
    BY <1>b, <2>1
  <2>3. CASE d = c
    BY <2>1, <2>2, <2>3
  <2>4. CASE d # c
    <3>1. conn[d].valid /\ q \in Live /\ epoll'[d] = epoll[d]
      BY <1>b, <2>1, <2>4, ConstantsAssumption DEF Live
    <3>2. routine'[p_rout[d]].at = routine[p_rout[d]].at
      <4>1. ServedBy(d, p_rout[d])
        BY <2>1, <2>2, <3>1 DEF RoutineInv, OwnInv
      <4>2. p_rout[d] # r
        BY <1>5, <2>1, <2>4, <4>1
      <4> QED BY <2>2, <4>2 DEF Kept, r
    <3>3. \A v \in Workers : wconn[v] # d
      BY <1>2, <2>1, <2>4
    <3> HIDE DEF d
    <3>4. \/ (IF routine[p_rout[d]].at = "reading" THEN "READ" ELSE "WRITE") \in epoll[d].armed
          \/ HasEvent(q)
      BY <2>1, <2>2, <3>1, <3>2, <3>3 DEF RoutineInv, SuspendedArmed, HasEvent, d
    <3>5. q # p
      BY <1>1, <2>1, <2>4 DEF d, p
    <3> QED BY <1>3, <2>1, <2>2, <3>1, <3>2, <3>4, <3>5 DEF HasEvent
  <2> QED BY <2>3, <2>4
<1> QED BY <1>2, <1>9, <1>10, <1>11, <1>12, <1>13 DEF RoutineInv

\* A step that neither takes nor leaves an event and changes nothing of the
\* routines but which worker runs one.
LEMMA StayRoutine ==
  ASSUME CorInv, RoutineInv, NEW w \in Workers, wpc[w] \in PastPcs, wconn[w] = u_conn[place(w)],
         crash = "none", UNCHANGED <<mpc, mcur, mnew, u_conn, backlog, batch, wconn, p_rout, made, finished>>,
         NEW pc \in PastPcs, wpc' = [wpc EXCEPT ![w] = pc],
         \A d \in Conns : peer'[d].state = peer[d].state /\ conn'[d].valid = conn[d].valid,
         NEW c \in Conns, c = wconn[w], p_rout[c] # None,
         \A d \in Conns : d # c => epoll'[d] = epoll[d],
         epoll'[c] # NotAdded => epoll[c] # NotAdded,
         \A q \in Routines : Kept(q),
         \A v \in Workers : v # w => current'[v] = current[v],
         ServedBy(c, p_rout[c]), current'[w] \in {None, p_rout[c]}
  PROVE  RoutineInv'
<1>b. /\ u_conn \in [Places -> Conns \cup {NoConn}] /\ p_rout \in [Conns -> Routines \cup {None}]
      /\ wpc \in [Workers -> WorkerPcs] /\ finished \in Seq(Routines)
  BY Basics DEF RoutineTypes
<1>1. \A d \in Conns : ServedBy(d, p_rout[d]) => ServedBy(d, p_rout[d])'
  BY <1>b DEF ServedBy, Kept
<1>2. \A v \in Workers : v # w => wpc'[v] = wpc[v]
  BY <1>b
<1>3. \A d \in Conns : Entered(d)' = Entered(d)
  BY DEF Entered, ToSet
<1>4. BatchInv'
  BY <1>b DEF RoutineInv, BatchInv, PastPcs
<1>5. HoldInv'
  <2>1. \A v \in Workers : place(v)' = place(v) /\ (wpc'[v] \in PastPcs <=> wpc[v] \in PastPcs)
    BY <1>b DEF place
  <2>2. \A v \in Workers : wpc[v] \in PastPcs => wconn[v] \in Conns
    BY WorkerBasics
  <2>3. \A v \in Workers : wpc'[v] \in {"wait", "lock"} => wpc[v] \in {"wait", "lock"}
    BY <1>b DEF PastPcs
  <2> QED BY <1>3, <2>1, <2>2, <2>3 DEF RoutineInv, HoldInv, PastPcs
<1>6. QueueInv'
  <2>1. \A i \in DOMAIN finished : routine'[finished[i]].at = routine[finished[i]].at
    BY <1>b DEF Kept
  <2> QED BY <1>3, <2>1 DEF RoutineInv, QueueInv
<1>11. OwnInv'
  <2> SUFFICES ASSUME NEW d \in Conns, conn'[d].valid, p_rout'[d] # None PROVE ServedBy(d, p_rout[d])'
    BY DEF OwnInv
  <2> QED BY <1>1 DEF RoutineInv, OwnInv
<1>12. ServeInv'
  <2> SUFFICES ASSUME NEW v \in Workers, wpc'[v] \in InRoutinePcs
               PROVE  ServedBy(wconn[v], p_rout[wconn[v]])' /\ current'[v] \in {None, p_rout[wconn[v]]}
    BY DEF ServeInv
  <2>1. CASE v = w
    BY <1>1, <2>1 DEF ServedBy
  <2>2. CASE v # w
    <3>1. ServedBy(wconn[v], p_rout[wconn[v]]) /\ current[v] \in {None, p_rout[wconn[v]]}
      BY <1>2, <2>2 DEF RoutineInv, ServeInv
    <3>2. wconn[v] \in Conns
      BY <1>2, <2>2, WorkerBasics DEF InRoutinePcs, PastPcs
    <3>3. ServedBy(wconn[v], p_rout[wconn[v]])'
      BY <1>1, <3>1, <3>2 DEF ServedBy
    <3> QED BY <2>2, <3>1, <3>3
  <2> QED BY <2>1, <2>2
<1>13. RegisteredInv'
  <2>1. \A q \in Places : Registering(q)' = Registering(q)
    BY DEF Registering
  <2> QED BY <1>3, <2>1 DEF RoutineInv, RegisteredInv
<1>14. SuspendedArmed'
  <2> SUFFICES ASSUME NEW q \in Live', p_rout[u_conn[q]] # None,
                      routine'[p_rout[u_conn[q]]].at \in {"reading", "writing"},
                      \A v \in Workers : wconn[v] # u_conn[q]
               PROVE  \/ (IF routine'[p_rout[u_conn[q]]].at = "reading" THEN "READ" ELSE "WRITE")
                              \in epoll'[u_conn[q]].armed
                      \/ \E v \in Workers : \E i \in DOMAIN batch[v] : batch[v][i].place = q
    BY DEF SuspendedArmed
  <2> DEFINE d == u_conn[q]
  <2>1. q \in Places /\ d \in Conns /\ conn'[d].valid
    BY <1>b DEF Live, Places
  <2>2. d # c /\ conn[d].valid /\ q \in Live /\ epoll'[d] = epoll[d] /\ p_rout[d] \in Routines
    BY <1>b, <2>1, ConstantsAssumption DEF Live
  <2>3. routine'[p_rout[d]].at = routine[p_rout[d]].at
    BY <2>2 DEF Kept
  <2> QED BY <2>1, <2>2, <2>3 DEF RoutineInv, SuspendedArmed
<1> QED BY <1>4, <1>5, <1>6, <1>11, <1>12, <1>13, <1>14 DEF RoutineInv

\* What epoll_wait disarms has an event.
LEMMA WaitRoutines ==
  ASSUME CorInv, RoutineInv, NEW w \in Workers, crash = "none", EpollWait(w), UNCHANGED routineVars
  PROVE  RoutineInv'
<1>b. /\ u_conn \in [Places -> Conns \cup {NoConn}] /\ epoll \in [Conns -> Registration]
      /\ wpc \in [Workers -> WorkerPcs] /\ batch \in [Workers -> Seq(Event)]
      /\ \A p, q \in Places : u_conn[p] = u_conn[q] /\ u_conn[p] # NoConn => p = q
  BY Basics
<1>1. PICK b \in Batches :
        /\ batch' = [batch EXCEPT ![w] = b]
        /\ epoll' = [c \in Conns |-> IF \E i \in DOMAIN b : u_conn[b[i].place] = c
                                     THEN [epoll[c] EXCEPT !.armed = {}] ELSE epoll[c]]
  BY DEF EpollWait
<1>2. /\ wpc[w] = "wait" /\ wpc' = [wpc EXCEPT ![w] = "lock"]
      /\ UNCHANGED <<mpc, mcur, mnew, u_conn, conn, backlog, peer, crash, wconn, p_rout, routine, made, finished, current>>
  BY DEF EpollWait, mainVars, poolVars, netVars, routineVars
<1>3. /\ \A i \in DOMAIN b : b[i].place \in Live /\ b[i].place \in Places
      /\ \A i, j \in DOMAIN b : b[i].place = b[j].place => i = j
  <2> DEFINE n == IF Cardinality(ReadyPlaces) < MaxEvents THEN Cardinality(ReadyPlaces) ELSE MaxEvents
  <2>1. PICK f \in [1..n -> ReadyPlaces] :
          /\ b = [i \in 1..n |-> [place |-> f[i], bits |-> ReadyBits(f[i])]]
          /\ \A i, j \in 1..n : f[i] = f[j] => i = j
    BY DEF Batches
  <2> HIDE DEF n
  <2>2. \A q \in ReadyPlaces : q \in Live /\ q \in Places
    BY DEF ReadyPlaces, ReadyBits
  <2>3. DOMAIN b = 1..n /\ \A i \in 1..n : b[i].place = f[i] /\ f[i] \in ReadyPlaces
    BY <2>1
  <2> QED BY <2>1, <2>2, <2>3
<1>4. /\ batch'[w] = b /\ batch[w] = <<>> /\ wpc'[w] = "lock"
      /\ \A v \in Workers : v # w => batch'[v] = batch[v] /\ wpc'[v] = wpc[v]
  BY <1>b, <1>1, <1>2 DEF RoutineInv, BatchInv
<1>5. \A v \in Workers : wpc'[v] \in PastPcs => v # w /\ wpc[v] = wpc'[v] /\ place(v)' = place(v)
  BY <1>4 DEF PastPcs, place
<1>6. \A d \in Conns : Entered(d)' = Entered(d)
  BY <1>2 DEF Entered, ToSet
<1>7. BatchInv'
  BY <1>3, <1>4 DEF RoutineInv, BatchInv
<1>8. HoldInv'
  <2>1. \A v \in Workers : wpc[v] \in PastPcs => wconn[v] \in Conns
    BY WorkerBasics
  <2>2. \A v \in Workers : wpc'[v] \in {"wait", "lock"} => wpc[v] \in {"wait", "lock"}
    BY <1>2, <1>4
  <2> QED BY <1>2, <1>5, <1>6, <2>1, <2>2 DEF RoutineInv, HoldInv, PastPcs
<1>9. QueueInv'
  BY <1>2, <1>6 DEF RoutineInv, QueueInv
<1>10. ServeInv'
  BY <1>2, <1>5 DEF RoutineInv, ServeInv, ServedBy, InRoutinePcs, PastPcs
<1>11. \A v \in Workers, q \in Places : Has(v, q) => Has(v, q)'
  BY <1>4 DEF Has
<1>14. OwnInv'
  BY <1>2 DEF RoutineInv, OwnInv, ServedBy
<1>15. \A d \in Conns : epoll'[d] = epoll[d] \/ (epoll'[d] = [epoll[d] EXCEPT !.armed = {}]
                                               /\ \E i \in DOMAIN b : u_conn[b[i].place] = d)
  BY <1>1
<1>16. RegisteredInv'
  <2>1. \A q \in Places : Registering(q)' = Registering(q)
    BY <1>2 DEF Registering
  <2>2. \A d \in Conns : epoll'[d] # NotAdded => epoll[d] # NotAdded
    <3>1. [NotAdded EXCEPT !.armed = {}] = NotAdded
      BY DEF NotAdded
    <3> QED BY <1>15, <3>1
  <2> QED BY <1>2, <1>6, <2>1, <2>2 DEF RoutineInv, RegisteredInv
<1>17. SuspendedArmed'
  <2> SUFFICES ASSUME NEW q \in Live', p_rout[u_conn[q]] # None,
                      routine[p_rout[u_conn[q]]].at \in {"reading", "writing"},
                      \A v \in Workers : wconn[v] # u_conn[q]
               PROVE  \/ (IF routine[p_rout[u_conn[q]]].at = "reading" THEN "READ" ELSE "WRITE")
                              \in epoll'[u_conn[q]].armed
                      \/ HasEvent(q)'
    BY <1>2 DEF SuspendedArmed, HasEvent
  <2>1. q \in Live /\ q \in Places /\ u_conn[q] \in Conns
    BY <1>b, <1>2 DEF Live
  <2>2. HasEvent(q) => HasEvent(q)'
    BY <1>11, <2>1 DEF HasEvent, Has
  <2>3. CASE epoll'[u_conn[q]] = epoll[u_conn[q]]
    BY <2>1, <2>2, <2>3 DEF RoutineInv, SuspendedArmed, HasEvent
  <2>4. CASE \E i \in DOMAIN b : u_conn[b[i].place] = u_conn[q]
    <3>1. PICK i \in DOMAIN b : u_conn[b[i].place] = u_conn[q]
      BY <2>4
    <3>2. b[i].place = q
      BY <1>b, <1>3, <2>1, <3>1, ConstantsAssumption
    <3> QED BY <1>4, <3>2 DEF HasEvent
  <2> QED BY <1>15, <2>1, <2>3, <2>4
<1> QED BY <1>7, <1>8, <1>9, <1>10, <1>14, <1>16, <1>17 DEF RoutineInv

\* Taking connection_mutex: a connection is in one place, so no other worker has
\* it.
LEMMA LockRoutines ==
  ASSUME CorInv, RoutineInv, NEW w \in Workers, crash = "none", LockPlace(w), UNCHANGED routineVars
  PROVE  RoutineInv'
<1>b. /\ u_conn \in [Places -> Conns \cup {NoConn}]
      /\ wpc \in [Workers -> WorkerPcs] /\ wconn \in [Workers -> Conns \cup {NoConn}]
      /\ \A p, q \in Places : u_conn[p] = u_conn[q] /\ u_conn[p] # NoConn => p = q
      /\ \A p \in Places : u_conn[p] # NoConn => u_conn[p] \in Conns /\ Entered(u_conn[p])
  BY Basics
<1>2. PICK p \in Places, c \in Conns : p = place(w) /\ c = u_conn[p] /\ c # NoConn
  BY WorkerBasics, ConstantsAssumption DEF LockPlace
<1>1. /\ wpc[w] = "lock" /\ wpc' = [wpc EXCEPT ![w] = "check"] /\ wconn' = [wconn EXCEPT ![w] = c]
      /\ connection_mutex[p] = NoWorker
      /\ UNCHANGED <<mpc, mcur, mnew, u_conn, conn, epoll, backlog, peer, crash, batch, p_rout, routine, made, finished, current>>
  BY <1>2 DEF LockPlace, mainVars, netVars, routineVars
<1>3. \A v \in Workers : place(v)' = place(v)
  BY <1>1 DEF place
<1>4. /\ wpc'[w] = "check" /\ wconn'[w] = c /\ wconn[w] = NoConn
      /\ \A v \in Workers : v # w => wconn'[v] = wconn[v] /\ wpc'[v] = wpc[v]
  BY <1>b, <1>1 DEF RoutineInv, HoldInv
<1>5. \A d \in Conns : Entered(d)' = Entered(d)
  BY <1>1 DEF Entered, ToSet
<1>6. ASSUME NEW v \in Workers, v # w, wpc[v] \in PastPcs PROVE wconn[v] # c /\ wconn[v] \in Conns
  <2>1. connection_mutex[place(v)] = v /\ wconn[v] \in Conns
    BY <1>6, WorkerBasics
  <2>2. place(v) # p
    BY <1>1, <2>1, ConstantsAssumption
  <2> QED BY <1>2, <1>6, <2>1, <2>2 DEF RoutineInv, HoldInv, PastPcs
<1>7. BatchInv'
  BY <1>1, <1>4 DEF RoutineInv, BatchInv
<1>8. HoldInv'
  <2>1. \A v \in Workers : wpc'[v] \in {"wait", "lock"} => wconn'[v] = NoConn
    BY <1>4 DEF RoutineInv, HoldInv
  <2>2. ASSUME NEW v \in Workers, wpc'[v] \in PastPcs
        PROVE  Entered(wconn[v])' /\ \A q \in Places : u_conn'[q] = wconn'[v] => q = place(v)'
    <3>0. ASSUME NEW d \in Conns, d = wconn'[v], Entered(d) PROVE Entered(wconn[v])'
      <4>1. Entered(d)'
        BY <1>5, <3>0
      <4> QED BY <3>0, <4>1
    <3>1. CASE v = w
      <4>1. wconn'[v] = c /\ place(v)' = p
        BY <1>2, <1>3, <1>4, <3>1
      <4>2. Entered(c)
        BY <1>b, <1>2
      <4> QED BY <1>b, <1>1, <1>2, <3>0, <4>1, <4>2
    <3>2. CASE v # w
      <4>1. wpc[v] \in PastPcs /\ wconn'[v] = wconn[v] /\ wconn[v] \in Conns
        BY <1>4, <1>6, <2>2, <3>2
      <4>2. Entered(wconn[v]) /\ \A q \in Places : u_conn[q] = wconn[v] => q = place(v)
        BY <4>1 DEF RoutineInv, HoldInv, PastPcs
      <4> QED BY <1>1, <1>3, <3>0, <4>1, <4>2
    <3> QED BY <3>1, <3>2
  <2>3. ASSUME NEW u \in Workers, NEW v \in Workers, wpc'[u] \in PastPcs, wpc'[v] \in PastPcs, wconn'[u] = wconn'[v]
        PROVE  u = v
    BY <1>4, <1>6, <2>3 DEF RoutineInv, HoldInv, PastPcs
  <2> QED BY <2>1, <2>2, <2>3, Zenon DEF HoldInv, PastPcs
<1>9. QueueInv'
  BY <1>1, <1>5 DEF RoutineInv, QueueInv
<1>10. ServeInv'
  BY <1>1, <1>4 DEF RoutineInv, ServeInv, ServedBy, InRoutinePcs
<1>13. OwnInv'
  BY <1>1 DEF RoutineInv, OwnInv, ServedBy
<1>14. RegisteredInv'
  <2>1. \A q \in Places : Registering(q)' = Registering(q)
    BY <1>1 DEF Registering
  <2> QED BY <1>1, <1>5, <2>1 DEF RoutineInv, RegisteredInv
<1>15. SuspendedArmed'
  <2>1. Live' = Live /\ \A q \in Live : u_conn[q] # NoConn
    BY <1>1 DEF Live
  <2>2. \A d : d # NoConn /\ (\A v \in Workers : wconn'[v] # d) => \A v \in Workers : wconn[v] # d
    BY <1>4
  <2> SUFFICES ASSUME NEW q \in Live, p_rout[u_conn[q]] # None,
                      routine[p_rout[u_conn[q]]].at \in {"reading", "writing"},
                      \A v \in Workers : wconn'[v] # u_conn[q]
               PROVE  \/ (IF routine[p_rout[u_conn[q]]].at = "reading" THEN "READ" ELSE "WRITE")
                              \in epoll[u_conn[q]].armed
                      \/ \E v \in Workers : \E i \in DOMAIN batch[v] : batch[v][i].place = q
    BY <1>1, <2>1 DEF SuspendedArmed
  <2> QED BY <2>1, <2>2 DEF RoutineInv, SuspendedArmed
<1> QED BY <1>7, <1>8, <1>9, <1>10, <1>13, <1>14, <1>15 DEF RoutineInv

\* cor::create hands out a routine that nobody uses.
LEMMA CreateRoutines == ASSUME CorInv, RoutineInv, NEW w \in Workers, Create(w) PROVE RoutineInv'
<1>0. wpc[w] = "check" /\ wconn[w] = u_conn[place(w)]
  BY DEF Create
<1>1. PICK c \in Conns : c = wconn[w]
  BY <1>0, HeldFacts DEF PastPcs
<1>2. /\ Entered(c) /\ \A v \in Workers : v # w /\ wpc[v] \in PastPcs => wconn[v] # c
  BY <1>0, <1>1, HeldFacts DEF PastPcs
<1>b. /\ p_rout \in [Conns -> Routines \cup {None}] /\ routine \in [Routines -> RoutineFields]
      /\ finished \in Seq(Routines) /\ made \in 0..MaxRoutines /\ u_conn \in [Places -> Conns \cup {NoConn}]
      /\ \A i, j \in DOMAIN finished : finished[i] = finished[j] => i = j
      /\ \A e \in ToSet(finished) : e <= made /\ e \in Routines /\ routine[e].at = "finished"
      /\ MaxRoutines \in Nat
  <2>1. RoutineTypes /\ u_conn \in [Places -> Conns \cup {NoConn}]
    BY Basics
  <2>2. QueueInv
    BY DEF RoutineInv
  <2> QED BY <2>1, <2>2, CorAssumption DEF RoutineTypes, QueueInv, ToSet
<1>3. /\ UNCHANGED <<mpc, mcur, mnew, u_conn, conn, epoll, backlog, peer, crash, wpc, batch, wconn, current>>
      /\ p_rout[c] = None
  BY <1>1 DEF Create, coreVars, mainVars, poolVars, netVars, workerVars
<1>4. PICK r \in Routines :
        /\ p_rout' = [p_rout EXCEPT ![c] = r] /\ r <= made' /\ made <= made' /\ made' \in Nat
        /\ routine'[r].at = "entry" /\ routine'[r].client = c
        /\ \A q \in Routines : q # r => routine'[q] = routine[q]
        /\ \A i, j \in DOMAIN finished' : finished'[i] = finished'[j] => i = j
        /\ ToSet(finished') = ToSet(finished) \ {r}
        /\ \A d \in Conns : ServedBy(d, p_rout[d]) => p_rout[d] # r
  <2>1. CASE finished = <<>> /\ finished' = finished
    <3> DEFINE r == made + 1
               f == [at |-> "entry", client |-> c, starter |-> w, link |-> w, resumer |-> w]
    <3>1. /\ made < MaxRoutines /\ made' = r /\ p_rout' = [p_rout EXCEPT ![c] = r]
          /\ routine' = [routine EXCEPT ![r] = f]
      BY <1>1, <2>1 DEF Create
    <3>2. r \in Routines /\ made \in Nat /\ made < r
      BY <1>b, <3>1 DEF Routines
    <3>3. f.at = "entry" /\ f.client = c
      OBVIOUS
    <3>4. \A d \in Conns : p_rout[d] # r
      BY <1>b, <3>2 DEF RoutineInv, QueueInv, None, Routines
    <3>5. \A e \in ToSet(finished) : e # r
      BY <1>b, <3>2 DEF Routines
    <3> HIDE DEF f, r
    <3>6. routine'[r].at = "entry" /\ routine'[r].client = c /\ \A q \in Routines : q # r => routine'[q] = routine[q]
      BY <1>b, <3>1, <3>2, <3>3
    <3>7. r <= made' /\ made <= made' /\ made' \in Nat
      BY <3>1, <3>2 DEF Routines
    <3>8. /\ ToSet(finished') = ToSet(finished) \ {r}
          /\ \A i, j \in DOMAIN finished' : finished'[i] = finished'[j] => i = j
      BY <1>b, <2>1, <3>5
    <3> QED BY <3>1, <3>2, <3>4, <3>6, <3>7, <3>8, Zenon
  <2>2. CASE finished # <<>> /\ finished' = Tail(finished)
    <3> DEFINE r == Head(finished)
    <3>1. /\ made' = made /\ p_rout' = [p_rout EXCEPT ![c] = r]
          /\ routine' = [routine EXCEPT ![r] = [at |-> "entry", client |-> c, starter |-> w, link |-> @.resumer, resumer |-> w]]
      <4>1. Tail(finished) # finished
        BY <1>b, <2>2
      <4> QED BY <1>1, <2>2, <4>1 DEF Create
    <3>2. /\ r \in Routines /\ r \in ToSet(finished) /\ ToSet(Tail(finished)) = ToSet(finished) \ {r}
          /\ \A i, j \in DOMAIN Tail(finished) : Tail(finished)[i] = Tail(finished)[j] => i = j
      BY <1>b, <2>2, TailFacts DEF ToSet
    <3> HIDE DEF r
    <3>3. \A d \in Conns : ServedBy(d, p_rout[d]) => p_rout[d] # r
      BY <1>b, <3>2 DEF ServedBy, Suspended
    <3>4. routine'[r].at = "entry" /\ routine'[r].client = c /\ \A q \in Routines : q # r => routine'[q] = routine[q]
      BY <1>b, <3>1, <3>2
    <3>5. r <= made' /\ made <= made' /\ made' \in Nat
      BY <1>b, <3>1, <3>2
    <3> QED BY <1>b, <2>2, <3>1, <3>2, <3>3, <3>4, <3>5
  <2> QED BY <1>b, <2>1, <2>2 DEF Create
<1>5. p_rout'[c] = r /\ r # None /\ \A d \in Conns : d # c => p_rout'[d] = p_rout[d]
  BY <1>b, <1>4 DEF None, Routines
<1>6. BatchInv' /\ HoldInv'
  BY <1>3 DEF RoutineInv, BatchInv, HoldInv, place, Entered, ToSet
<1>7. QueueInv'
  <2>1. \A d \in Conns : Entered(d)' = Entered(d)
    BY <1>3 DEF Entered, ToSet
  <2>2. \A i \in DOMAIN finished' : finished'[i] \in ToSet(finished')
    BY DEF ToSet
  <2>3. \A e \in ToSet(finished') : e <= made' /\ routine'[e].at = "finished"
    BY <1>b, <1>4 DEF Routines
  <2>4. \A d \in Conns : p_rout'[d] # None => p_rout'[d] <= made' /\ Entered(d)
    <3>1. \A d \in Conns : p_rout[d] # None => p_rout[d] <= made /\ Entered(d) /\ p_rout[d] \in Nat
      BY <1>b DEF RoutineInv, QueueInv, Routines
    <3> QED BY <1>b, <1>2, <1>4, <1>5, <3>1
  <2> QED BY <1>4, <2>1, <2>2, <2>3, <2>4 DEF QueueInv
<1>8. \A d \in Conns : d # c /\ ServedBy(d, p_rout[d]) => p_rout'[d] = p_rout[d] /\ ServedBy(d, p_rout[d])'
  <2> SUFFICES ASSUME NEW d \in Conns, d # c, ServedBy(d, p_rout[d])
               PROVE  p_rout'[d] = p_rout[d] /\ ServedBy(d, p_rout[d])'
    OBVIOUS
  <2>1. p_rout'[d] = p_rout[d] /\ p_rout[d] # r /\ p_rout[d] \in Routines
    BY <1>b, <1>4, <1>5 DEF ServedBy
  <2> QED BY <1>4, <2>1 DEF ServedBy
<1>9. OwnInv'
  <2> SUFFICES ASSUME NEW d \in Conns, conn[d].valid, p_rout'[d] # None PROVE ServedBy(d, p_rout[d])'
    BY <1>3 DEF OwnInv
  <2>1. CASE d = c
    BY <1>4, <1>5, <2>1 DEF ServedBy, Suspended
  <2>2. CASE d # c
    BY <1>5, <1>8, <2>2 DEF RoutineInv, OwnInv
  <2> QED BY <2>1, <2>2
<1>10. ServeInv'
  <2> SUFFICES ASSUME NEW v \in Workers, wpc[v] \in InRoutinePcs
               PROVE  ServedBy(wconn[v], p_rout[wconn[v]])' /\ current[v] \in {None, p_rout'[wconn[v]]}
    BY <1>3 DEF ServeInv
  <2>1. v # w /\ wpc[v] \in PastPcs
    BY <1>0 DEF InRoutinePcs, PastPcs
  <2>2. wconn[v] \in Conns /\ wconn[v] # c
    BY <1>2, <2>1, WorkerBasics
  <2>3. ServedBy(wconn[v], p_rout[wconn[v]]) /\ current[v] \in {None, p_rout[wconn[v]]}
    BY DEF RoutineInv, ServeInv
  <2>4. p_rout'[wconn[v]] = p_rout[wconn[v]] /\ ServedBy(wconn[v], p_rout[wconn[v]])'
    <3>1. PICK d \in Conns : d = wconn[v]
      BY <2>2
    <3>2. p_rout'[d] = p_rout[d] /\ ServedBy(d, p_rout[d])'
      BY <1>8, <2>2, <2>3, <3>1
    <3> QED BY <1>3, <3>1, <3>2 DEF ServedBy
  <2> QED BY <2>3, <2>4
<1>11. RegisteredInv'
  BY <1>3 DEF RoutineInv, RegisteredInv, Registering, Entered, ToSet
<1>12. SuspendedArmed'
  <2> SUFFICES ASSUME NEW q \in Live, crash = "none", p_rout'[u_conn[q]] # None,
                      routine'[p_rout'[u_conn[q]]].at \in {"reading", "writing"},
                      \A v \in Workers : wconn[v] # u_conn[q]
               PROVE  \/ (IF routine'[p_rout'[u_conn[q]]].at = "reading" THEN "READ" ELSE "WRITE")
                              \in epoll[u_conn[q]].armed
                      \/ \E v \in Workers : \E i \in DOMAIN batch[v] : batch[v][i].place = q
    BY <1>3 DEF SuspendedArmed, Live
  <2>1. u_conn[q] \in Conns /\ u_conn[q] # c /\ conn[u_conn[q]].valid
    BY <1>b, <1>1 DEF Live
  <2>2. p_rout'[u_conn[q]] = p_rout[u_conn[q]] /\ p_rout[u_conn[q]] \in Routines /\ p_rout[u_conn[q]] # r
    <3>1. p_rout'[u_conn[q]] = p_rout[u_conn[q]]
      BY <1>5, <2>1
    <3>2. ServedBy(u_conn[q], p_rout[u_conn[q]])
      BY <2>1, <3>1 DEF RoutineInv, OwnInv
    <3> QED BY <1>b, <1>4, <2>1, <3>1, <3>2
  <2>3. routine'[p_rout[u_conn[q]]] = routine[p_rout[u_conn[q]]]
    BY <1>4, <2>2
  <2> QED BY <2>1, <2>2, <2>3 DEF RoutineInv, SuspendedArmed
<1> QED BY <1>6, <1>7, <1>9, <1>10, <1>11, <1>12 DEF RoutineInv

\* serve_client yields: c is armed for what its routine waits for.
LEMMA YieldRoutine ==
  ASSUME CorInv, RoutineInv, NEW w \in Workers, wpc[w] \in InRoutinePcs, wconn[w] = u_conn[place(w)],
         crash = "none", UNCHANGED <<mpc, mcur, mnew, u_conn, backlog, peer>>,
         NEW c \in Conns, c = wconn[w], NEW a \in {"reading", "writing"}, NEW opt,
         \A d \in Conns : d # c => conn'[d] = conn[d], conn'[c].valid = conn[c].valid,
         epoll' = Armed(c, opt), YieldAt(w, a, ModResult(c)),
         (IF a = "reading" THEN "READ" ELSE "WRITE") \in opt
  PROVE  RoutineInv'
<1>b. /\ epoll \in [Conns -> Registration] /\ routine \in [Routines -> RoutineFields]
      /\ p_rout \in [Conns -> Routines \cup {None}] /\ current \in [Workers -> Routines \cup {None}]
  BY Basics DEF RoutineTypes
<1>1. wpc[w] \in PastPcs
  BY DEF PastPcs, InRoutinePcs
<1>2. /\ p_rout[c] # None /\ p_rout[c] \in Routines /\ current[w] \in {None, p_rout[c]}
      /\ ServedBy(c, p_rout[c])
  BY <1>b DEF RoutineInv, ServeInv, ServedBy
<1>4. NextEvent(w) /\ UNCHANGED <<p_rout, made, finished>>
  BY DEF YieldAt
<1>5. /\ \A d \in Conns : d # c => epoll'[d] = epoll[d]
      /\ epoll'[c] # NotAdded => epoll[c] # NotAdded
  BY <1>b DEF Armed, NotAdded
<1>6. ModResult(c) = "none" =>
        (IF a = "reading" THEN "READ" ELSE "WRITE") \in epoll'[c].armed
  BY <1>b DEF ModResult, Armed, Registration
<1>7. CASE current[w] = None
  <2>1. crash' # "none" /\ UNCHANGED <<routine, current>>
    BY <1>7 DEF YieldAt
  <2>2. ServedBy(c, p_rout[c])'
    BY <1>2, <1>4, <2>1 DEF ServedBy
  <2>3. \A q \in Routines : Kept(q)
    BY <2>1 DEF Kept
  <2> QED BY <1>1, <1>2, <1>4, <1>5, <2>1, <2>2, <2>3, ReleaseRoutine
<1>8. CASE current[w] # None
  <2>1. /\ crash' = ModResult(c) /\ routine' = [routine EXCEPT ![p_rout[c]].at = a]
        /\ current' = [current EXCEPT ![w] = None]
    BY <1>2, <1>8 DEF YieldAt
  <2>2. /\ routine'[p_rout[c]].at = a /\ routine'[p_rout[c]].client = routine[p_rout[c]].client
        /\ \A q \in Routines : q # p_rout[c] => Kept(q)
    BY <1>b, <1>2, <2>1 DEF RoutineFields, Kept
  <2>3. \A v \in Workers : v # w => current'[v] \in {None, current[v]}
    BY <1>b, <2>1
  <2>4. ServedBy(c, p_rout[c])'
    BY <1>2, <1>4, <2>2 DEF ServedBy, Suspended
  <2> QED BY <1>1, <1>2, <1>4, <1>5, <1>6, <2>1, <2>2, <2>3, <2>4, ReleaseRoutine
<1> QED BY <1>7, <1>8

\* serve_client returns and c is closed.
LEMMA ReturnRoutine ==
  ASSUME CorInv, RoutineInv, NEW w \in Workers, wpc[w] \in InRoutinePcs, wconn[w] = u_conn[place(w)],
         crash = "none", UNCHANGED <<mpc, mcur, mnew, u_conn, backlog, peer, p_rout>>,
         NEW c \in Conns, c = wconn[w],
         \A d \in Conns : d # c => conn'[d] = conn[d] /\ epoll'[d] = epoll[d],
         ~conn'[c].valid, epoll'[c] # NotAdded => epoll[c] # NotAdded,
         ReturnFrom(w, p_rout[c])
  PROVE  RoutineInv'
<1>b. routine \in [Routines -> RoutineFields] /\ p_rout \in [Conns -> Routines \cup {None}]
  BY Basics DEF RoutineTypes
<1>1. wpc[w] \in PastPcs
  BY DEF PastPcs, InRoutinePcs
<1>2. p_rout[c] # None /\ p_rout[c] \in Routines /\ ServedBy(c, p_rout[c])
  BY <1>b DEF RoutineInv, ServeInv, ServedBy
<1>3. /\ NextEvent(w) /\ UNCHANGED <<made, finished, current>>
      /\ routine' = [routine EXCEPT ![p_rout[c]].at = "returned"]
  BY DEF ReturnFrom
<1>4. \A q \in Routines : q # p_rout[c] => Kept(q)
  BY <1>b, <1>2, <1>3 DEF Kept
<1> QED BY <1>1, <1>2, <1>3, <1>4, ReleaseRoutine

\* The end of entry(): a routine that has returned serves nobody.
LEMMA FinishRoutine ==
  ASSUME CorInv, RoutineInv, NEW w \in Workers, crash = "none", ResumeReturned(w)
  PROVE  RoutineInv'
<1>0. wpc[w] = "check" /\ wconn[w] = u_conn[place(w)] /\ wpc[w] \in PastPcs
  BY DEF ResumeReturned, PastPcs
<1>1. PICK c \in Conns : c = wconn[w] /\ p_rout[c] # None
  BY <1>0, HeldFacts DEF ResumeReturned
<1>b. /\ routine \in [Routines -> RoutineFields] /\ p_rout \in [Conns -> Routines \cup {None}]
      /\ current \in [Workers -> Routines \cup {None}] /\ p_rout[c] \in Routines
  BY <1>1, Basics DEF RoutineTypes
<1>3. /\ routine[p_rout[c]].at = "returned" /\ NextEvent(w) /\ finished' = Append(finished, p_rout[c])
      /\ routine' = [routine EXCEPT ![p_rout[c]].at = "finished", ![p_rout[c]].resumer = w]
      /\ current' = [[current EXCEPT ![w] = p_rout[c]] EXCEPT ![routine[p_rout[c]].starter] = None]
      /\ UNCHANGED <<mpc, mcur, mnew, u_conn, conn, epoll, backlog, peer, p_rout, made>>
  BY <1>1 DEF ResumeReturned, mainVars, netVars
<1>4. ~conn[c].valid
  BY <1>1, <1>3 DEF RoutineInv, OwnInv, ServedBy, Suspended
<1>5. /\ \A q \in Routines : q # p_rout[c] => Kept(q)
      /\ routine'[p_rout[c]].at = "finished"
  BY <1>b, <1>3, ZenonT(40) DEF Kept, RoutineFields
<1>6. \A v \in Workers : v # w => current'[v] \in {None, current[v]}
  BY <1>b, <1>3
<1>7. ~conn'[c].valid
  BY <1>3, <1>4
<1> QED BY <1>0, <1>1, <1>3, <1>5, <1>6, <1>7, ReleaseRoutine

\* resume returns false: the routine was finished, and c is closed.
LEMMA NothingResumed ==
  ASSUME CorInv, RoutineInv, NEW w \in Workers, crash = "none", ResumeFinished(w)
  PROVE  RoutineInv'
<1>0. wpc[w] = "check" /\ wconn[w] = u_conn[place(w)] /\ wpc[w] \in PastPcs
  BY DEF ResumeFinished, PastPcs
<1>1. PICK c \in Conns : c = wconn[w] /\ p_rout[c] # None
  BY <1>0, HeldFacts DEF ResumeFinished
<1>2. /\ routine[p_rout[c]].at = "finished" /\ NextEvent(w)
      /\ UNCHANGED <<mpc, mcur, mnew, u_conn, conn, epoll, backlog, peer, p_rout, routine, made,
                     finished, current>>
  BY <1>1 DEF ResumeFinished, mainVars, netVars, routineVars
<1>3. ~conn'[c].valid
  BY <1>1, <1>2 DEF RoutineInv, OwnInv, ServedBy, Suspended
<1>4. \A q \in Routines : Kept(q)
  BY <1>2 DEF Kept
<1> QED BY <1>0, <1>1, <1>2, <1>3, <1>4, ReleaseRoutine

LEMMA WorkerRoutines ==
  ASSUME CorInv, RoutineInv, NEW w \in Workers, Worker(w) PROVE RoutineInv'
<1>0. crash = "none" /\ WorkerNext(w)
  BY DEF Worker
<1>b. /\ conn \in [Conns -> ConnFields] /\ peer \in [Conns -> PeerFields]
      /\ epoll \in [Conns -> Registration] /\ RoutineTypes
  BY Basics
<1>1. CASE (EpollWait(w) \/ LockPlace(w)) /\ UNCHANGED routineVars
  BY <1>0, <1>1, WaitRoutines, LockRoutines
<1>2. CASE Create(w)
  BY <1>2, CreateRoutines
<1>3. CASE ResumeReturned(w)
  BY <1>0, <1>3, FinishRoutine
<1>4. CASE StaleConn(w) \/ SocketReset(w) \/ ResumeForeign(w)
  <2>1. /\ crash' # "none"
        /\ UNCHANGED <<mpc, mcur, mnew, u_conn, conn, epoll, backlog, peer, wpc, batch, wconn, p_rout, routine, made, finished, current>>
    BY <1>4 DEF StaleConn, SocketReset, ResumeForeign, mainVars, poolVars, netVars, workerVars, routineVars
  <2>2. \A c \in Conns : Entered(c)' = Entered(c)
    BY <2>1 DEF Entered, ToSet
  <2>3. BatchInv' /\ HoldInv' /\ QueueInv' /\ OwnInv' /\ ServeInv'
    BY <2>1, <2>2, QuietRoutines DEF RoutineInv
  <2>4. RegisteredInv'
    BY <2>1, <2>2 DEF RoutineInv, RegisteredInv, Registering
  <2>5. SuspendedArmed'
    BY <2>1 DEF SuspendedArmed
  <2> QED BY <2>3, <2>4, <2>5 DEF RoutineInv
<1>5. CASE ResumeFinished(w)
  BY <1>0, <1>5, NothingResumed
<1>6. CASE Resume(w)
  <2>0. wpc[w] = "check" /\ wconn[w] = u_conn[place(w)] /\ wpc[w] \in PastPcs
    BY <1>6 DEF Resume, PastPcs
  <2>1. PICK c \in Conns : c = wconn[w]
    BY <2>0, HeldFacts
  <2>2. p_rout[c] # None /\ p_rout[c] \in Routines
    BY <1>b, <1>6, <2>1 DEF Resume, RoutineTypes
  <2>4. /\ ServedBy(c, p_rout[c])
        /\ routine' = [routine EXCEPT ![p_rout[c]].resumer = w]
        /\ current' = [current EXCEPT ![w] = p_rout[c]]
        /\ conn' = conn \/ conn' = [conn EXCEPT ![c].age = 0]
        /\ wpc' = [wpc EXCEPT ![w] = IF routine[p_rout[c]].at = "writing" THEN "write" ELSE "read"]
        /\ UNCHANGED <<mpc, mcur, mnew, u_conn, epoll, backlog, peer, batch, wconn, p_rout, made, finished>>
    BY <1>6, <2>1, <2>2 DEF Resume, ServedBy, mainVars, netVars
  <2>5. \A q \in Routines : Kept(q)
    BY <1>b, <2>2, <2>4 DEF RoutineTypes, RoutineFields, Kept
  <2>6. \A d \in Conns : conn'[d].valid = conn[d].valid
    BY <1>b, <2>4, ZenonT(40) DEF ConnFields
  <2>7. current'[w] = p_rout[c] /\ \A v \in Workers : v # w => current'[v] = current[v]
    BY <1>b, <2>4 DEF RoutineTypes
  <2>8. PICK pc \in PastPcs : wpc' = [wpc EXCEPT ![w] = pc]
    BY <2>4 DEF PastPcs
  <2>10. /\ UNCHANGED <<mpc, mcur, mnew, u_conn, backlog, batch, wconn, p_rout, made, finished>>
         /\ \A d \in Conns : peer'[d].state = peer[d].state /\ epoll'[d] = epoll[d]
    BY <2>4
  <2>11. /\ \A d \in Conns : peer'[d].state = peer[d].state /\ conn'[d].valid = conn[d].valid
         /\ \A d \in Conns : d # c => epoll'[d] = epoll[d]
         /\ epoll'[c] # NotAdded => epoll[c] # NotAdded
         /\ current'[w] \in {None, p_rout[c]}
         /\ c = wconn[w] /\ ServedBy(c, p_rout[c])
    BY <2>1, <2>4, <2>6, <2>7, <2>10
  <2> QED BY <1>0, <2>0, <2>2, <2>5, <2>7, <2>8, <2>10, <2>11, StayRoutine
<1>7. ASSUME wpc[w] \in InRoutinePcs, wconn[w] = u_conn[place(w)], ~Create(w)
      PROVE  RoutineInv'
  <2>0. PICK c \in Conns : c = wconn[w]
    BY <1>7, HeldFacts DEF PastPcs, InRoutinePcs
  <2>1. /\ wpc[w] \in PastPcs /\ p_rout[c] # None /\ p_rout[c] \in Routines
        /\ current[w] \in {None, p_rout[c]} /\ ServedBy(c, p_rout[c])
    BY <1>7, <1>b, <2>0 DEF PastPcs, InRoutinePcs, RoutineInv, ServeInv, ServedBy, RoutineTypes
  <2>2. CASE OnClosed(w)
    <3>1. /\ UNCHANGED <<mpc, mcur, mnew, u_conn, conn, epoll, backlog, peer, p_rout>> /\ ~conn[c].valid
          /\ ReturnFrom(w, p_rout[c])
      BY <2>0, <2>2 DEF OnClosed, mainVars, netVars
    <3>2. ~conn'[c].valid
      BY <3>1
    <3> QED BY <1>0, <1>7, <2>0, <3>1, <3>2, ReturnRoutine
  <2>3. CASE CorReadEnd(w) \/ CorIncorrect(w) \/ CorCloseDone(w)
    <3>1. /\ UNCHANGED <<mpc, mcur, mnew, u_conn, backlog, peer, p_rout>>
          /\ CloseClient(place(w)) /\ ReturnFrom(w, p_rout[c])
      BY <2>0, <2>3 DEF CorReadEnd, CorIncorrect, CorCloseDone, mainVars, netVars
    <3>2. (UNCHANGED <<conn, epoll>> /\ ~conn[c].valid) \/ (conn' = Closed(c) /\ epoll' = Deregistered(c))
      BY <1>7, <2>0, <3>1 DEF CloseClient
    <3>3. /\ \A d \in Conns : d # c => conn'[d] = conn[d] /\ epoll'[d] = epoll[d]
          /\ ~conn'[c].valid
      BY <1>b, <3>2 DEF Closed, Deregistered, ConnFields
    <3>4. epoll'[c] # NotAdded => epoll[c] # NotAdded
      BY <1>b, <3>2 DEF Deregistered
    <3> QED BY <1>0, <1>7, <2>0, <3>1, <3>3, <3>4, ReturnRoutine
  <2>4. CASE CorIncomplete(w)
    <3> DEFINE opt == conn[c].option \cup {"READ", "ET_ONESHOT"}
    <3>1. /\ UNCHANGED <<mpc, mcur, mnew, u_conn, backlog, peer>> /\ conn' = [conn EXCEPT ![c].option = opt]
          /\ epoll' = Armed(c, opt) /\ YieldAt(w, "reading", ModResult(c))
      BY <2>0, <2>4 DEF CorIncomplete, mainVars, netVars
    <3>2. "READ" \in opt
      OBVIOUS
    <3> HIDE DEF opt
    <3>3. /\ \A d \in Conns : d # c => conn'[d] = conn[d]
          /\ conn'[c].valid = conn[c].valid
      BY <1>b, <3>1 DEF ConnFields
    <3> QED BY <1>0, <1>7, <2>0, <3>1, <3>2, <3>3, YieldRoutine
  <2>5. CASE CorWriteBlocked(w)
    <3> DEFINE opt == conn[c].option \cup {"WRITE", "ET_ONESHOT"}
    <3>1. /\ UNCHANGED <<mpc, mcur, mnew, u_conn, backlog, peer>> /\ conn' = [conn EXCEPT ![c].option = opt]
          /\ epoll' = Armed(c, opt) /\ YieldAt(w, "writing", ModResult(c))
      BY <2>0, <2>5 DEF CorWriteBlocked, mainVars, netVars
    <3>2. "WRITE" \in opt
      OBVIOUS
    <3> HIDE DEF opt
    <3>3. /\ \A d \in Conns : d # c => conn'[d] = conn[d]
          /\ conn'[c].valid = conn[c].valid
      BY <1>b, <3>1 DEF ConnFields
    <3> QED BY <1>0, <1>7, <2>0, <3>1, <3>2, <3>3, YieldRoutine
  <2>6. CASE CorRequest(w)
    <3> DEFINE ka == conn[c].read[1].ka
               wr == Response(conn[c].read[1].id)
               opt == (IF ka THEN conn[c].option ELSE conn[c].option \ {"READ"}) \cup {"WRITE", "ET_ONESHOT"}
    <3>1. /\ UNCHANGED <<mpc, mcur, mnew, u_conn, backlog, peer>>
          /\ conn' = [conn EXCEPT ![c].keep_alive = ka, ![c].write = wr, ![c].read = <<>>, ![c].option = opt]
          /\ epoll' = Armed(c, opt) /\ YieldAt(w, "writing", ModResult(c))
      BY <2>0, <2>6 DEF CorRequest, mainVars, netVars
    <3>2. "WRITE" \in opt
      OBVIOUS
    <3> HIDE DEF opt, wr, ka
    <3>3. /\ \A d \in Conns : d # c => conn'[d] = conn[d]
          /\ conn'[c].valid = conn[c].valid
      BY <1>b, <3>1 DEF ConnFields
    <3> QED BY <1>0, <1>7, <2>0, <3>1, <3>2, <3>3, YieldRoutine
  <2>7. CASE CorRearm(w)
    <3>1. /\ UNCHANGED <<mpc, mcur, mnew, u_conn, conn, backlog, peer, made, finished, current>>
          /\ p_rout' = [p_rout EXCEPT ![c] = None] /\ NextEvent(w)
          /\ routine' = [routine EXCEPT ![p_rout[c]].at = "returned"]
          /\ EpollMod(c, conn[c].option)
      BY <2>0, <2>7 DEF CorRearm, ReturnFrom, mainVars, netVars
    <3>2. /\ p_rout'[c] = None /\ \A d \in Conns : d # c => p_rout'[d] = p_rout[d]
      BY <1>b, <3>1 DEF RoutineTypes
    <3>3. /\ \A d \in Conns : d # c => epoll'[d] = epoll[d]
          /\ epoll'[c] # NotAdded => epoll[c] # NotAdded
      <4> DEFINE opt == conn[c].option
      <4>1. EpollMod(c, opt)
        BY <3>1
      <4> HIDE DEF opt
      <4>2. epoll[c] = NotAdded => ~epoll[c].added
        BY DEF NotAdded
      <4> QED BY <1>b, <4>1, <4>2 DEF EpollMod
    <3>4. \A q \in Routines : q # p_rout[c] => Kept(q)
      BY <1>b, <3>1 DEF RoutineTypes, Kept
    <3> QED BY <1>0, <1>7, <2>0, <2>1, <3>1, <3>2, <3>3, <3>4, ReleaseRoutine
  <2>8. CASE CorRead(w) \/ CorWrite(w)
    <3>1. /\ UNCHANGED <<mpc, mcur, mnew, u_conn, backlog, batch, wconn, p_rout, made, finished, routine, current>>
          /\ wpc' = wpc \/ wpc' = [wpc EXCEPT ![w] = "arm"]
      BY <2>8 DEF CorRead, ReadToBuffer, CorWrite, mainVars, poolVars, workerVars, routineVars
    <3>0. \A q \in Routines : Kept(q)
      BY <3>1 DEF Kept
    <3>2. PICK pc \in PastPcs : wpc' = [wpc EXCEPT ![w] = pc]
      <4>1. [wpc EXCEPT ![w] = wpc[w]] = wpc
        BY <1>b DEF RoutineTypes
      <4> QED BY <2>1, <3>1, <4>1 DEF PastPcs
    <3>3. CASE CorRead(w)
      <4> DEFINE x == Append(conn[c].read, Head(peer[c].inbox))
                 y == Tail(peer[c].inbox)
      <4>1. conn' = [conn EXCEPT ![c].read = x] /\ peer' = [peer EXCEPT ![c].inbox = y] /\ epoll' = epoll
        BY <2>0, <3>3 DEF CorRead, ReadToBuffer
      <4> HIDE DEF x, y
      <4>2. \A d \in Conns : peer'[d].state = peer[d].state /\ conn'[d].valid = conn[d].valid
        BY <1>b, <4>1 DEF ConnFields, PeerFields
      <4> QED BY <1>0, <1>7, <2>0, <2>1, <3>0, <3>1, <3>2, <4>1, <4>2, StayRoutine
    <3>4. CASE CorWrite(w)
      <4> DEFINE room == IF Len(peer[c].wire) < Window THEN Window - Len(peer[c].wire) ELSE 0
                 n == IF Len(conn[c].write) < room THEN Len(conn[c].write) ELSE room
                 y == peer[c].wire \o SubSeq(conn[c].write, 1, n)
                 x == SubSeq(conn[c].write, n + 1, Len(conn[c].write))
                 opt == (conn[c].option \ {"WRITE"}) \cup {"ET_ONESHOT"}
      <4>1. /\ peer' = [peer EXCEPT ![c].wire = y]
            /\ \/ conn' = [conn EXCEPT ![c].write = <<>>, ![c].option = opt] /\ epoll' = Armed(c, opt)
               \/ conn' = [conn EXCEPT ![c].write = x] /\ epoll' = epoll
        BY <2>0, <3>4 DEF CorWrite
      <4> HIDE DEF x, y, n, opt
      <4>2. \A d \in Conns : peer'[d].state = peer[d].state
        BY <1>b, <4>1 DEF PeerFields
      <4>3. \A d \in Conns : conn'[d].valid = conn[d].valid
        <5>1. CASE conn' = [conn EXCEPT ![c].write = x]
          BY <1>b, <5>1 DEF ConnFields
        <5>2. CASE conn' = [conn EXCEPT ![c].write = <<>>, ![c].option = opt]
          BY <1>b, <5>2 DEF ConnFields
        <5> QED BY <4>1, <5>1, <5>2
      <4>4. epoll[c] = NotAdded => ~epoll[c].added
        BY DEF NotAdded
      <4>5. /\ \A d \in Conns : d # c => epoll'[d] = epoll[d]
            /\ epoll'[c] # NotAdded => epoll[c] # NotAdded
        BY <1>b, <4>1, <4>4 DEF Armed
      <4> QED BY <1>0, <1>7, <2>0, <2>1, <3>0, <3>1, <3>2, <4>2, <4>3, <4>5, StayRoutine
    <3> QED BY <2>8, <3>3, <3>4
  <2>9. ~ResumeReturned(w) /\ ~ResumeFinished(w) /\ ~Resume(w) /\ ~ResumeForeign(w) /\ ~EpollWait(w) /\ ~LockPlace(w)
    BY <1>7 DEF ResumeReturned, ResumeFinished, Resume, ResumeForeign, EpollWait, LockPlace, InRoutinePcs
  <2> QED BY <1>0, <1>4, <1>7, <2>2, <2>3, <2>4, <2>5, <2>6, <2>7, <2>8, <2>9 DEF WorkerNext
<1>8. OnClosed(w) \/ CorRead(w) \/ CorReadEnd(w) \/ CorIncomplete(w) \/ CorIncorrect(w)
        \/ CorRequest(w) \/ CorWrite(w) \/ CorWriteBlocked(w) \/ CorCloseDone(w) \/ CorRearm(w)
      => wpc[w] \in InRoutinePcs /\ wconn[w] = u_conn[place(w)]
  BY DEF OnClosed, CorRead, CorReadEnd, CorIncomplete, CorIncorrect, CorRequest, CorWrite, CorWriteBlocked,
         CorCloseDone, CorRearm, Reading, Writing, InRoutine, InRoutinePcs
<1> QED BY <1>0, <1>1, <1>2, <1>3, <1>4, <1>5, <1>6, <1>7, <1>8 DEF WorkerNext

\* What serve_client and its routines rest on, for any number of workers: the
\* routine of an open connection serves it and has not returned, a worker inside
\* serve_client runs the routine of its connection, the routines on the queue
\* are there once and have nowhere to go on (create, resume, entry, yield).
THEOREM RoutineInvariance == Spec => []RoutineInv
<1>1. Init => RoutineInv
  <2> SUFFICES ASSUME Init PROVE RoutineInv
    OBVIOUS
  <2>1. /\ \A w \in Workers : wpc[w] = "wait" /\ batch[w] = <<>> /\ wconn[w] = NoConn
        /\ \A c \in Conns : p_rout[c] = None /\ epoll[c] = NotAdded
        /\ \A p \in Places : u_conn[p] = NoConn
        /\ finished = <<>> /\ made = 0
    BY DEF Init, CoreInit, WorkersInit
  <2>2. BatchInv /\ HoldInv /\ QueueInv /\ OwnInv /\ ServeInv
    BY <2>1 DEF BatchInv, HoldInv, QueueInv, OwnInv, ServeInv, InRoutinePcs
  <2>3. RegisteredInv /\ SuspendedArmed
    BY <2>1 DEF RegisteredInv, SuspendedArmed, Live
  <2> QED BY <2>2, <2>3 DEF RoutineInv
<1>2. CorInv /\ RoutineInv /\ [Next]_vars => RoutineInv'
  <2> SUFFICES ASSUME CorInv, RoutineInv, [Next]_vars PROVE RoutineInv'
    OBVIOUS
  <2>1. CASE UNCHANGED vars
    <3>1. UNCHANGED <<mpc, mcur, mnew, u_conn, conn, epoll, backlog, peer, crash, wpc, batch, wconn,
                      p_rout, routine, made, finished, current>>
      BY <2>1 DEF vars, coreVars, mainVars, poolVars, netVars, workerVars, routineVars
    <3>2. \A c \in Conns : Entered(c)' = Entered(c)
      BY <3>1 DEF Entered, ToSet
    <3>3. BatchInv' /\ HoldInv' /\ QueueInv' /\ OwnInv' /\ ServeInv'
      BY <3>1, <3>2, QuietRoutines DEF RoutineInv
    <3>4. RegisteredInv'
      BY <3>1, <3>2 DEF RoutineInv, RegisteredInv, Registering
    <3>5. SuspendedArmed'
      BY <3>1 DEF RoutineInv, SuspendedArmed, Live
    <3> QED BY <3>3, <3>4, <3>5 DEF RoutineInv
  <2> QED BY <2>1, MainRoutines, WorldRoutines, WorkerRoutines DEF Next
<1> QED BY <1>1, <1>2, CorInvariance, PTL DEF Spec

\* Late events of closed connections, returned routines on other threads and
\* the recycling of finished ones never make two open connections or two workers
\* share a routine, nor put the routine of an open connection on the queue, for
\* any number of workers; the one way to another client's routine is a late
\* event of a connection that is closed (create, resume, set_routine).
THEOREM RoutinesExclusive ==
  Spec => [](crash # "foreign_routine" => RoutineExclusive)
<1>1. CorInv /\ RoutineInv /\ crash # "foreign_routine" => RoutineExclusive
  <2> SUFFICES ASSUME CorInv, RoutineInv, crash # "foreign_routine" PROVE RoutineExclusive
    OBVIOUS
  <2>1. \A c \in Conns : conn[c].valid /\ p_rout[c] # None => ServedBy(c, p_rout[c])
    BY DEF RoutineInv, OwnInv
  <2>2. ASSUME NEW v \in Workers, NEW w \in Workers, v # w, wpc[v] \in InRoutinePcs, wpc[w] \in InRoutinePcs
        PROVE  p_rout[wconn[v]] # p_rout[wconn[w]]
    <3>1. wpc[v] \in PastPcs /\ wpc[w] \in PastPcs
      BY <2>2 DEF PastPcs, InRoutinePcs
    <3>2. wconn[v] # wconn[w]
      BY <2>2, <3>1 DEF RoutineInv, HoldInv, PastPcs
    <3>3. ServedBy(wconn[v], p_rout[wconn[v]]) /\ ServedBy(wconn[w], p_rout[wconn[w]])
      BY <2>2 DEF RoutineInv, ServeInv
    <3> QED BY <3>2, <3>3 DEF ServedBy
  <2>3. \A c, d \in Conns :
          c # d /\ conn[c].valid /\ conn[d].valid /\ p_rout[c] # None => p_rout[c] # p_rout[d]
    BY <2>1 DEF ServedBy
  <2>4. ASSUME NEW i \in DOMAIN finished, NEW c \in Conns, conn[c].valid PROVE p_rout[c] # finished[i]
    <3>1. routine[finished[i]].at = "finished" /\ finished[i] # None
      <4>1. finished \in Seq(Routines)
        BY Basics DEF RoutineTypes
      <4>2. finished[i] \in Routines
        BY <4>1
      <4>3. 0 \notin Routines
        BY CorAssumption DEF Routines
      <4> QED BY <4>2, <4>3 DEF RoutineInv, QueueInv, None
    <3> QED BY <2>1, <2>4, <3>1 DEF ServedBy, Suspended
  <2> QED BY <2>2, <2>3, <2>4 DEF RoutineExclusive, InRoutinePcs
<1> QED BY <1>1, CorInvariance, RoutineInvariance, PTL

\* Nobody but a worker with an event of a closed connection, whose place the main
\* thread has not replaced yet, resumes another client's routine (resume).
THEOREM ForeignOnlyLate ==
  Spec => [][crash' = "foreign_routine" =>
                \E w \in Workers : /\ wpc[w] = "check" /\ wconn[w] = u_conn[place(w)]
                                   /\ ~conn[wconn[w]].valid]_vars
<1>1. CorInv /\ RoutineInv /\ [Next]_vars =>
        [crash' = "foreign_routine" =>
            \E w \in Workers : /\ wpc[w] = "check" /\ wconn[w] = u_conn[place(w)]
                               /\ ~conn[wconn[w]].valid]_vars
  <2> SUFFICES ASSUME CorInv, RoutineInv, Next, crash' = "foreign_routine"
               PROVE  \E w \in Workers : /\ wpc[w] = "check" /\ wconn[w] = u_conn[place(w)]
                                         /\ ~conn[wconn[w]].valid
    OBVIOUS
  <2>0. crash = "none"
    BY DEF Next, Main, Worker, World
  <2>1. CASE Main
    <3>1. crash' \in {crash, "dangling_iterator"}
      BY <2>1 DEF Main, CorMainNext, Run, try_replace_closed_with_new_conn, emplace_connection,
         close_if_timed_out, dump_timed_out_connections, RunLoop, Accept, AcceptTimeout, AcceptThrows,
         SetOption, EpollAdd, TryReplace, Splice, Emplace, CloseIfTimedOut, DumpFront, PopFront
    <3> QED BY <2>0, <3>1
  <2>2. CASE World
    <3>1. crash' = crash
      BY <2>2 DEF World, ClientNext, Connect, SendWhole, SendPart, SendRest, SendBad, Receive, Fin, Rst, Tick
    <3> QED BY <2>0, <3>1
  <2>3. ASSUME NEW w \in Workers, Worker(w)
        PROVE  wpc[w] = "check" /\ wconn[w] = u_conn[place(w)] /\ ~conn[wconn[w]].valid
    <3>1. CASE ResumeForeign(w)
      <4>1. wpc[w] = "check" /\ wconn[w] = u_conn[place(w)] /\ wpc[w] \in PastPcs
        BY <3>1 DEF ResumeForeign, PastPcs
      <4>2. PICK c \in Conns : c = wconn[w]
        BY <4>1, HeldFacts
      <4>3. ~conn[c].valid
        BY <3>1, <4>2 DEF ResumeForeign, RoutineInv, OwnInv, ServedBy
      <4> QED BY <4>1, <4>2, <4>3
    <3>2. CASE ~ResumeForeign(w)
      <4>1. EpollWait(w) \/ LockPlace(w) \/ Create(w) \/ OnClosed(w) \/ CorRead(w) \/ ResumeFinished(w)
              \/ CorReadEnd(w) \/ CorIncorrect(w) \/ CorCloseDone(w) => crash' = crash
        BY DEF EpollWait, LockPlace, Create, OnClosed, CorRead, ReadToBuffer, ResumeFinished, CorReadEnd,
               CorIncorrect, CorCloseDone, coreVars
      <4>2. StaleConn(w) \/ SocketReset(w) \/ Resume(w) \/ ResumeReturned(w) =>
              crash' \in {crash, "use_after_free", "terminate", "dangling_iterator", "foreign_context"}
        BY DEF StaleConn, SocketReset, Resume, ResumeReturned
      <4>3. \A c : ModResult(c) \in {crash, "terminate"}
        BY DEF ModResult
      <4>4. CorIncomplete(w) \/ CorRequest(w) \/ CorWriteBlocked(w) =>
              crash' \in {crash, "terminate", "no_current_routine"}
        BY <4>3 DEF CorIncomplete, CorRequest, CorWriteBlocked, YieldAt
      <4>5. CorWrite(w) => crash' \in {crash, "terminate"}
        BY <4>3 DEF CorWrite
      <4>6. CorRearm(w) => crash' \in {crash, "terminate"}
        BY DEF CorRearm, EpollMod
      <4> QED BY <2>0, <2>3, <3>2, <4>1, <4>2, <4>4, <4>5, <4>6 DEF Worker, WorkerNext
    <3> QED BY <3>1, <3>2
  <2> QED BY <2>1, <2>2, <2>3 DEF Next
<1> QED BY <1>1, CorInvariance, RoutineInvariance, PTL DEF Spec

\* No wake-up of a suspended routine is lost, for any number of workers: epoll
\* waits for what it waits for, or there is an event for its place (cor::yield
\* after subscribe in try_read_request, try_write_responce).
THEOREM SuspendedAlwaysArmed == Spec => []SuspendedArmed
<1>1. RoutineInv => SuspendedArmed
  BY DEF RoutineInv
<1> QED BY <1>1, RoutineInvariance, PTL

=============================================================================
