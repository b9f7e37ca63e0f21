------------------------- MODULE HttpServiceProofs --------------------------
(***************************************************************************)
(* Proofs about HttpService: the inductive invariant IInv and what follows *)
(* from it.  The main thread, the workers and the world are taken in turn; *)
(* a worker's step changes one place, whose connection_mutex it holds, so  *)
(* the work is to show that no other thread relied on that place.          *)
(***************************************************************************)
EXTENDS HttpService, FiniteSetTheorems, TLAPS

-----------------------------------------------------------------------------
(* Sequences: closed_, timeod_, the backlog and the batches of events.     *)

\* Taking the first element of a queue (closed_.pop, timeod_.pop_front, the
\* next event of a batch) leaves a queue with the other elements in order.
LEMMA HeadTail ==
  ASSUME NEW S, NEW s \in Seq(S), s # <<>>
  PROVE  /\ Head(s) \in S /\ Tail(s) \in Seq(S)
         /\ Len(s) \in Nat \ {0} /\ 1 \in DOMAIN s /\ Head(s) = s[1]
         /\ DOMAIN Tail(s) = 1..(Len(s) - 1)
         /\ \A i \in DOMAIN Tail(s) : i + 1 \in DOMAIN s /\ Tail(s)[i] = s[i + 1]
  OBVIOUS

\* Adding an element at the end (closed_.push, timeod_.push_back) keeps the
\* others where they are.
LEMMA AppendFacts ==
  ASSUME NEW S, NEW s \in Seq(S), NEW e \in S
  PROVE  /\ Append(s, e) \in Seq(S) /\ Append(s, e) # <<>>
         /\ DOMAIN Append(s, e) = 1..(Len(s) + 1) /\ DOMAIN s = 1..Len(s)
         /\ Len(s) \in Nat
         /\ \A i \in DOMAIN s : Append(s, e)[i] = s[i]
         /\ Append(s, e)[Len(s) + 1] = e
         /\ \A i \in DOMAIN Append(s, e) : i = Len(s) + 1 \/ i \in DOMAIN s
  OBVIOUS

\* The elements of a concatenation are those of its parts.
LEMMA ConcatFacts ==
  ASSUME NEW S, NEW a \in Seq(S), NEW b \in Seq(S)
  PROVE  /\ a \o b \in Seq(S) /\ Len(a \o b) = Len(a) + Len(b)
         /\ Len(a) \in Nat /\ Len(b) \in Nat
         /\ \A j \in 1..Len(a) : (a \o b)[j] = a[j]
         /\ \A j \in (Len(a) + 1)..(Len(a) + Len(b)) :
               (a \o b)[j] = b[j - Len(a)] /\ j - Len(a) \in 1..Len(b)
  OBVIOUS

\* The splice of shift_to_back and try_replace_closed_with_new_conn adds no
\* place to timeod_.
LEMMA MoveToBackFacts ==
  ASSUME NEW S, NEW s \in Seq(S), NEW p \in ToSet(s)
  PROVE  /\ MoveToBack(s, p) \in Seq(S) /\ MoveToBack(s, p) # <<>>
         /\ \A j \in DOMAIN MoveToBack(s, p) : \E k \in DOMAIN s : MoveToBack(s, p)[j] = s[k]
<1> DEFINE i == CHOOSE k \in DOMAIN s : s[k] = p
           a == SubSeq(s, 1, i - 1)
           b == SubSeq(s, i + 1, Len(s))
           r == a \o b
<1>1. i \in DOMAIN s /\ s[i] = p /\ p \in S
  <2>1. \E k \in DOMAIN s : s[k] = p
    BY DEF ToSet
  <2> QED BY <2>1
<1>7. MoveToBack(s, p) = Append(r, p)
  BY DEF MoveToBack, RemoveAt
<1> HIDE DEF i
<1>4. /\ a \in Seq(S) /\ b \in Seq(S)
      /\ \A j \in 1..Len(a) : j \in DOMAIN s /\ a[j] = s[j]
      /\ \A j \in 1..Len(b) : i + j \in DOMAIN s /\ b[j] = s[i + j]
  BY <1>1
<1> HIDE DEF a, b
<1>5. r \in Seq(S) /\ Len(r) = Len(a) + Len(b)
  BY <1>4, ConcatFacts
<1>6. \A j \in 1..Len(r) : \E k \in DOMAIN s : r[j] = s[k]
  <2> SUFFICES ASSUME NEW j \in 1..Len(r) PROVE \E k \in DOMAIN s : r[j] = s[k]
    OBVIOUS
  <2>1. Len(a) \in Nat /\ Len(b) \in Nat
    BY <1>4
  <2>2. CASE j \in 1..Len(a)
    BY <2>2, <1>4, ConcatFacts
  <2>3. CASE j \in (Len(a) + 1)..(Len(a) + Len(b))
    <3>1. r[j] = b[j - Len(a)] /\ j - Len(a) \in 1..Len(b)
      BY <2>3, <1>4, ConcatFacts
    <3> QED BY <3>1, <1>4
  <2> QED BY <2>1, <2>2, <2>3, <1>5
<1> HIDE DEF r
<1>8. Append(r, p) \in Seq(S) /\ Append(r, p) # <<>>
  BY <1>1, <1>5
<1>9. ASSUME NEW j \in DOMAIN Append(r, p)
      PROVE  \E k \in DOMAIN s : Append(r, p)[j] = s[k]
  <2> DEFINE t == Append(r, p)
  <2>1. /\ \A k \in DOMAIN r : t[k] = r[k]
        /\ t[Len(r) + 1] = p /\ DOMAIN r = 1..Len(r)
        /\ j = Len(r) + 1 \/ j \in DOMAIN r
    BY <1>1, <1>5, AppendFacts
  <2> HIDE DEF t
  <2>2. CASE j = Len(r) + 1
    <3>1. t[j] = p
      BY <2>1, <2>2
    <3> QED BY <1>1, <3>1 DEF t
  <2>3. CASE j \in DOMAIN r
    <3>1. t[j] = r[j] /\ j \in 1..Len(r)
      BY <2>1, <2>3
    <3> QED BY <1>6, <3>1 DEF t
  <2> QED BY <2>1, <2>2, <2>3
<1> QED BY <1>7, <1>8, <1>9

-----------------------------------------------------------------------------
(* Types of the connection's fields.                                       *)

\* HttpConnection's constructor makes a well-typed connection.
LEMMA FreshConnType == FreshConn \in ConnFields /\ Unborn \in ConnFields /\ MaxAge \in Nat
<1>1. MaxAge \in Nat
  BY ConstantsAssumption DEF MaxAge
<1>2. /\ 0 \in 0..MaxAge /\ {} \in SUBSET Option
      /\ <<>> \in Seq(Chunk) /\ <<>> \in Seq(1..MaxRequests)
  BY <1>1
<1>3. FreshConn \in ConnFields
  BY <1>2, Zenon DEF FreshConn, BlankConn, ConnFields
<1>4. Unborn \in ConnFields
  BY <1>2, Zenon DEF Unborn, BlankConn, ConnFields
<1> QED BY <1>1, <1>3, <1>4

\* Setting epoll_option_ (subscribe, unsubscribe) neither opens nor closes the
\* connection.
LEMMA OptionUpdate ==
  ASSUME NEW r \in ConnFields, NEW o \in SUBSET Option
  PROVE  /\ [r EXCEPT !.option = o] \in ConnFields
         /\ [r EXCEPT !.option = o].valid = r.valid
BY DEF ConnFields

-----------------------------------------------------------------------------
(* The invariant holds initially and is preserved by the main thread.      *)

\* A service that has just been opened satisfies the invariant.
LEMMA InitInv == Init => IInv
<1> SUFFICES ASSUME Init PROVE IInv
  OBVIOUS
<1> USE ConstantsAssumption DEF Init, CoreInit, WorkersInit
<1>1. TypeOK
  <2>1. conn \in [Conns -> ConnFields]
    BY FreshConnType
  <2>2. epoll \in [Conns -> Registration]
    BY DEF NotAdded, Registration
  <2>3. peer \in [Conns -> PeerFields]
    BY DEF PeerFields
  <2> QED BY <2>1, <2>2, <2>3 DEF TypeOK, MainPcs, Places, WorkerPcs
<1>2. PlacedOnce /\ MainInv
  BY DEF PlacedOnce, MainInv, Places
<1>3. FreshInv
  BY DEF FreshInv, Places
<1>4. ClosedExact
  BY DEF ClosedExact, ToSet
<1>5. WorkerInv /\ HandlerSafe
  BY DEF WorkerInv, HandlerSafe
<1> QED BY <1>1, <1>2, <1>3, <1>4, <1>5 DEF IInv

\* What a close of connection c of place p changes, whoever does it
\* (close_client, close_if_timed_out).
CloseUpdate(c, p) ==
  /\ c = u_conn[p] /\ u_conn' = u_conn
  /\ conn' = Closed(c) /\ epoll' = Deregistered(c)
  /\ closed' = Append(closed, p)

\* Closing an open connection and pushing its place keeps closed_ exact.
LEMMA CloseFacts ==
  ASSUME IInv, NEW p \in Places, NEW c \in Conns, CloseUpdate(c, p)
  PROVE  /\ conn' \in [Conns -> ConnFields] /\ epoll' \in [Conns -> Registration]
         /\ closed' \in Seq(Places)
         /\ ~conn'[c].valid
         /\ \A d \in Conns : d # c => conn'[d] = conn[d]
         /\ conn[c].valid => ClosedExact'
<1>1. conn \in [Conns -> ConnFields] /\ epoll \in [Conns -> Registration] /\ closed \in Seq(Places)
  BY DEF IInv, TypeOK
<1>2. conn' = [conn EXCEPT ![c] = [conn[c] EXCEPT !.valid = FALSE, !.option = {"ET_ONESHOT"}]]
  BY <1>1 DEF CloseUpdate, Closed
<1>3. /\ [conn[c] EXCEPT !.valid = FALSE, !.option = {"ET_ONESHOT"}] \in ConnFields
      /\ ~[conn[c] EXCEPT !.valid = FALSE, !.option = {"ET_ONESHOT"}].valid
  BY <1>1 DEF ConnFields, Option
<1>4. /\ conn' \in [Conns -> ConnFields] /\ ~conn'[c].valid
      /\ \A d \in Conns : d # c => conn'[d] = conn[d]
  BY <1>1, <1>2, <1>3
<1>5. epoll' \in [Conns -> Registration]
  BY <1>1 DEF CloseUpdate, Deregistered, NotAdded, Registration
<1>6. closed' = Append(closed, p) /\ u_conn' = u_conn /\ c = u_conn[p]
  BY DEF CloseUpdate
<1>7. /\ closed' \in Seq(Places) /\ DOMAIN closed' = 1..(Len(closed) + 1)
      /\ DOMAIN closed = 1..Len(closed) /\ Len(closed) \in Nat
      /\ \A i \in DOMAIN closed : closed'[i] = closed[i]
      /\ closed'[Len(closed) + 1] = p
  BY <1>1, <1>6, AppendFacts
<1>8. ASSUME conn[c].valid PROVE ClosedExact'
  <2>1. \A i \in DOMAIN closed : closed[i] # p
    BY <1>6, <1>8 DEF IInv, ClosedExact, ToSet
  <2>2. \A i, j \in DOMAIN closed' : closed'[i] = closed'[j] => i = j
    BY <1>7, <2>1 DEF IInv, ClosedExact
  <2>3. \A q \in Places : q \in ToSet(closed') <=> q \in ToSet(closed) \/ q = p
    BY <1>7 DEF ToSet
  <2>4. \A q \in Places : q # p /\ u_conn[q] # NoConn => u_conn[q] # c /\ u_conn[q] \in Conns
    BY <1>6 DEF IInv, PlacedOnce, TypeOK
  <2> QED BY <1>4, <1>6, <2>2, <2>3, <2>4, ConstantsAssumption DEF IInv, ClosedExact
<1> QED BY <1>4, <1>5, <1>7, <1>8

\* The place a worker's current event names exists and has a connection.
LEMMA PlaceType ==
  ASSUME IInv, NEW w \in Workers, wpc[w] # "wait"
  PROVE  /\ place(w) \in Places /\ Head(batch[w]) \in Event /\ Tail(batch[w]) \in Seq(Event)
         /\ batch[w] \in Seq(Event) /\ batch[w] # <<>>
         /\ u_conn[place(w)] \in Conns /\ u_conn[place(w)] # NoConn
<1>1. batch[w] \in Seq(Event) /\ batch[w] # <<>>
  BY DEF IInv, TypeOK, WorkerInv
<1>2. Head(batch[w]) \in Event /\ Tail(batch[w]) \in Seq(Event) /\ 1 \in DOMAIN batch[w]
      /\ Head(batch[w]) = batch[w][1]
  BY <1>1, HeadTail
<1>3. place(w) \in Places
  BY <1>2 DEF place, Event
<1> QED BY <1>1, <1>2, <1>3, ConstantsAssumption DEF IInv, WorkerInv, TypeOK, place

\* Every step of HttpService::run preserves the invariant: accepting, handing a
\* closed or a new place to the connection, registering it, and closing the
\* connections that timed out.
LEMMA MainStep == IInv /\ Main => IInv'
<1> SUFFICES ASSUME IInv, MainNext, UNCHANGED workerVars PROVE IInv'
  BY DEF Main
<1> USE ConstantsAssumption
<1>1. CASE RunLoop
  <2>1. TypeOK'
    BY <1>1 DEF RunLoop, IInv, TypeOK, mainVars, poolVars, netVars, workerVars, MainPcs
  <2>2. PlacedOnce'
    BY <1>1 DEF RunLoop, IInv, PlacedOnce, FreshInv, mainVars, poolVars, netVars, workerVars
  <2>3. MainInv'
    BY <1>1 DEF RunLoop, IInv, TypeOK, MainInv, mainVars, poolVars, netVars, workerVars
  <2>4. FreshInv'
    BY <1>1 DEF RunLoop, IInv, FreshInv, TypeOK, mainVars, poolVars, netVars, workerVars
  <2>5. ClosedExact'
    BY <1>1 DEF RunLoop, IInv, ClosedExact, ToSet, mainVars, poolVars, netVars, workerVars
  <2>6. WorkerInv'
    BY <1>1 DEF RunLoop, IInv, WorkerInv, place, mainVars, poolVars, netVars, workerVars
  <2>7. HandlerSafe'
    BY <1>1 DEF RunLoop, IInv, HandlerSafe, place, mainVars, poolVars, netVars, workerVars
  <2> QED BY <2>1, <2>2, <2>3, <2>4, <2>5, <2>6, <2>7 DEF IInv
<1>2. CASE Accept
  <2>a. /\ backlog \in Seq(Conns) /\ backlog # <<>>
        /\ backlog' = Tail(backlog) /\ mnew' = Head(backlog)
    BY <1>2 DEF Accept, IInv, TypeOK
  <2>b. /\ mnew' \in Conns /\ backlog' \in Seq(Conns)
        /\ 1 \in DOMAIN backlog /\ mnew' = backlog[1] /\ DOMAIN backlog' = 1..(Len(backlog) - 1)
        /\ Len(backlog) \in Nat
        /\ \A i \in DOMAIN backlog' : i + 1 \in DOMAIN backlog /\ backlog'[i] = backlog[i + 1]
    BY <2>a, HeadTail
  <2>1. TypeOK'
    BY <1>2, <2>b DEF Accept, IInv, TypeOK, mainVars, poolVars, netVars, workerVars, MainPcs
  <2>2. PlacedOnce'
    BY <1>2, <2>b DEF Accept, IInv, PlacedOnce, FreshInv, mainVars, poolVars, netVars, workerVars
  <2>3. MainInv'
    BY <1>2, <2>b DEF Accept, IInv, TypeOK, MainInv, mainVars, poolVars, netVars, workerVars
  <2>4. FreshInv'
    BY <1>2, <2>b DEF Accept, IInv, FreshInv, TypeOK, mainVars, poolVars, netVars, workerVars
  <2>5. ClosedExact'
    BY <1>2, <2>b DEF Accept, IInv, ClosedExact, ToSet, mainVars, poolVars, netVars, workerVars
  <2>6. WorkerInv'
    BY <1>2, <2>b DEF Accept, IInv, WorkerInv, place, mainVars, poolVars, netVars, workerVars
  <2>7. HandlerSafe'
    BY <1>2, <2>b DEF Accept, IInv, HandlerSafe, place, mainVars, poolVars, netVars, workerVars
  <2> QED BY <2>1, <2>2, <2>3, <2>4, <2>5, <2>6, <2>7 DEF IInv
<1>3. CASE AcceptTimeout
  <2>1. TypeOK'
    BY <1>3 DEF AcceptTimeout, IInv, TypeOK, mainVars, poolVars, netVars, workerVars, MainPcs
  <2>2. PlacedOnce'
    BY <1>3 DEF AcceptTimeout, IInv, PlacedOnce, FreshInv, mainVars, poolVars, netVars, workerVars
  <2>3. MainInv'
    BY <1>3 DEF AcceptTimeout, IInv, TypeOK, MainInv, mainVars, poolVars, netVars, workerVars
  <2>4. FreshInv'
    BY <1>3 DEF AcceptTimeout, IInv, FreshInv, TypeOK, mainVars, poolVars, netVars, workerVars
  <2>5. ClosedExact'
    BY <1>3 DEF AcceptTimeout, IInv, ClosedExact, ToSet, mainVars, poolVars, netVars, workerVars
  <2>6. WorkerInv'
    BY <1>3 DEF AcceptTimeout, IInv, WorkerInv, place, mainVars, poolVars, netVars, workerVars
  <2>7. HandlerSafe'
    BY <1>3 DEF AcceptTimeout, IInv, HandlerSafe, place, mainVars, poolVars, netVars, workerVars
  <2> QED BY <2>1, <2>2, <2>3, <2>4, <2>5, <2>6, <2>7 DEF IInv
<1>4. CASE AcceptThrows
  <2>1. TypeOK'
    BY <1>4 DEF AcceptThrows, IInv, TypeOK, mainVars, poolVars, netVars, workerVars, MainPcs
  <2>2. PlacedOnce'
    BY <1>4 DEF AcceptThrows, IInv, PlacedOnce, FreshInv, mainVars, poolVars, netVars, workerVars
  <2>3. MainInv'
    BY <1>4 DEF AcceptThrows, IInv, TypeOK, MainInv, mainVars, poolVars, netVars, workerVars
  <2>4. FreshInv'
    BY <1>4 DEF AcceptThrows, IInv, FreshInv, TypeOK, mainVars, poolVars, netVars, workerVars
  <2>5. ClosedExact'
    BY <1>4 DEF AcceptThrows, IInv, ClosedExact, ToSet, mainVars, poolVars, netVars, workerVars
  <2>6. WorkerInv'
    BY <1>4 DEF AcceptThrows, IInv, WorkerInv, place, mainVars, poolVars, netVars, workerVars
  <2>7. HandlerSafe'
    BY <1>4 DEF AcceptThrows, IInv, HandlerSafe, place, mainVars, poolVars, netVars, workerVars
  <2> QED BY <2>1, <2>2, <2>3, <2>4, <2>5, <2>6, <2>7 DEF IInv
<1>5. CASE TryReplace
  <2>1. CASE closed = <<>>
    <3>1. UNCHANGED <<mcur, mnew, u_conn, connection_mutex, closed, timeod, conn, backlog, peer,
                      serverOpen, epoll, crash, wpc, batch, wconn>>
          /\ mpc = "replace" /\ mpc' = "emplace"
      BY <1>5, <2>1 DEF TryReplace, mainVars, netVars, workerVars
    <3>2. TypeOK'
      BY <3>1 DEF IInv, TypeOK, MainPcs
    <3>3. PlacedOnce' /\ MainInv' /\ FreshInv'
      BY <3>1 DEF IInv, PlacedOnce, MainInv, FreshInv
    <3>4. ClosedExact' /\ WorkerInv' /\ HandlerSafe'
      BY <3>1 DEF IInv, ClosedExact, ToSet, WorkerInv, HandlerSafe, place
    <3> QED BY <3>2, <3>3, <3>4 DEF IInv
  <2>2. CASE closed # <<>>
    <3> DEFINE p == Head(closed)
    <3>1. /\ mpc = "replace" /\ mpc' = "splice" /\ mcur' = p
          /\ closed' = Tail(closed)
          /\ u_conn' = [u_conn EXCEPT ![p] = mnew]
          /\ conn' = [conn EXCEPT ![mnew] = FreshConn]
          /\ UNCHANGED <<mnew, serverOpen, connection_mutex, timeod, epoll, backlog, peer, crash,
                         wpc, batch, wconn>>
      BY <1>5, <2>2 DEF TryReplace, netVars, workerVars
    <3>2. mnew \in Conns /\ mnew # NoConn
      BY <3>1 DEF IInv, MainInv
    <3>3. /\ p \in Places /\ closed' \in Seq(Places)
          /\ 1 \in DOMAIN closed /\ p = closed[1] /\ DOMAIN closed' = 1..(Len(closed) - 1)
          /\ DOMAIN closed = 1..Len(closed) /\ Len(closed) \in Nat
          /\ \A i \in DOMAIN closed' : i + 1 \in DOMAIN closed /\ closed'[i] = closed[i + 1]
      BY <2>2, <3>1, HeadTail DEF IInv, TypeOK
    <3>4. u_conn[p] # NoConn /\ ~conn[u_conn[p]].valid
      BY <3>3 DEF IInv, ClosedExact, ToSet
    <3>5. /\ u_conn'[p] = mnew /\ \A q \in Places : q # p => u_conn'[q] = u_conn[q]
          /\ u_conn' \in [Places -> Conns \cup {NoConn}]
      BY <3>1, <3>2, <3>3 DEF IInv, TypeOK
    <3>6. /\ conn'[mnew].valid /\ \A c \in Conns : c # mnew => conn'[c] = conn[c]
          /\ conn' \in [Conns -> ConnFields]
      BY <3>1, <3>2, FreshConnType DEF IInv, TypeOK, FreshConn, BlankConn
    <3>7. \A q \in Places : u_conn[q] # mnew
      BY <3>1 DEF IInv, FreshInv
    <3> HIDE DEF p
    <3>8. TypeOK'
      BY <3>1, <3>3, <3>5, <3>6 DEF IInv, TypeOK, MainPcs
    <3>9. PlacedOnce'
      BY <3>2, <3>5, <3>7 DEF IInv, PlacedOnce
    <3>10. MainInv'
      BY <3>1, <3>2, <3>3, <3>5 DEF IInv, MainInv, TypeOK
    <3>11. FreshInv'
      BY <3>1, <3>2, <3>5, <3>7 DEF IInv, FreshInv, TypeOK
    <3>12. ClosedExact'
      <4>1. \A i, j \in DOMAIN closed' : closed'[i] = closed'[j] => i = j
        BY <3>3 DEF IInv, ClosedExact
      <4>2. \A q \in Places : q \in ToSet(closed') <=> q \in ToSet(closed) /\ q # p
        <5>1. \A i \in DOMAIN closed : i # 1 => i - 1 \in DOMAIN closed' /\ closed'[i - 1] = closed[i]
          BY <3>3
        <5>2. \A i \in DOMAIN closed : i # 1 => closed[i] # p
          BY <3>3 DEF IInv, ClosedExact
        <5> QED BY <3>3, <5>1, <5>2 DEF ToSet
      <4>3. \A q \in Places : q # p =>
               (u_conn'[q] # NoConn /\ ~conn'[u_conn'[q]].valid
                  <=> u_conn[q] # NoConn /\ ~conn[u_conn[q]].valid)
        BY <3>5, <3>6, <3>7 DEF IInv, TypeOK
      <4> QED BY <4>1, <4>2, <4>3, <3>5, <3>6 DEF IInv, ClosedExact
    <3>13. WorkerInv'
      BY <3>1, <3>2, <3>5 DEF IInv, WorkerInv, TypeOK, Event, place
    <3>14. HandlerSafe'
      <4> SUFFICES ASSUME NEW w \in Workers, wpc[w] \in {"read", "write", "arm"}
                   PROVE  /\ connection_mutex[place(w)] = w
                          /\ wconn[w] = u_conn'[place(w)]
                          /\ conn'[wconn[w]].valid
        BY <3>1 DEF HandlerSafe, place
      <4>1. /\ connection_mutex[place(w)] = w /\ wconn[w] = u_conn[place(w)]
            /\ conn[wconn[w]].valid /\ wconn[w] \in Conns
        BY DEF IInv, HandlerSafe, WorkerInv
      <4>2. place(w) \in Places
        BY PlaceType
      <4> QED BY <4>1, <4>2, <3>4, <3>5, <3>6, <3>7
    <3> QED BY <3>8, <3>9, <3>10, <3>11, <3>12, <3>13, <3>14 DEF IInv
  <2> QED BY <2>1, <2>2
<1>6. CASE Splice
  <2>1. /\ mpc = "splice" /\ mpc' = "setopt" /\ u_conn[mcur] # NoConn
        /\ UNCHANGED <<mcur, mnew, serverOpen, u_conn, connection_mutex, closed, conn, epoll,
                       backlog, peer, wpc, batch, wconn>>
    BY <1>6 DEF Splice, IInv, MainInv, netVars, workerVars
  <2>2. /\ timeod' \in Seq(Places) /\ crash' \in Crashes \cup {"none"}
        /\ \A i \in DOMAIN timeod' : timeod'[i] = mcur \/ \E k \in DOMAIN timeod : timeod'[i] = timeod[k]
    <3>1. timeod \in Seq(Places) /\ mcur \in Places /\ crash \in Crashes \cup {"none"}
      BY DEF IInv, TypeOK
    <3>2. CASE timeod = <<>>
      <4>1. timeod' = <<mcur>> /\ crash' = crash
        BY <1>6, <3>2 DEF Splice
      <4>2. <<mcur>> \in Seq(Places) /\ \A i \in DOMAIN <<mcur>> : <<mcur>>[i] = mcur
        BY <3>1
      <4> QED BY <4>1, <4>2, <3>1
    <3>3. CASE timeod # <<>> /\ mcur \in ToSet(timeod)
      BY <1>6, <3>1, <3>3, MoveToBackFacts DEF Splice
    <3>4. CASE timeod # <<>> /\ mcur \notin ToSet(timeod)
      BY <1>6, <3>1, <3>4 DEF Splice, Crashes
    <3> QED BY <3>2, <3>3, <3>4
  <2>3. TypeOK'
    BY <2>1, <2>2 DEF IInv, TypeOK, MainPcs
  <2>4. MainInv'
    BY <2>1, <2>2 DEF IInv, MainInv
  <2>5. PlacedOnce' /\ FreshInv' /\ ClosedExact'
    BY <2>1 DEF IInv, PlacedOnce, FreshInv, ClosedExact, ToSet
  <2>6. WorkerInv' /\ HandlerSafe'
    BY <2>1 DEF IInv, WorkerInv, HandlerSafe, place
  <2> QED BY <2>3, <2>4, <2>5, <2>6 DEF IInv
<1>7. CASE Emplace
  <2>1. PICK p \in Places : /\ u_conn[p] = NoConn
                            /\ u_conn' = [u_conn EXCEPT ![p] = mnew]
                            /\ conn' = [conn EXCEPT ![mnew] = FreshConn]
                            /\ timeod' = Append(timeod, p)
                            /\ mcur' = p
    BY <1>7 DEF Emplace
  <2>2. /\ mpc = "emplace" /\ mpc' = "setopt"
        /\ UNCHANGED <<mnew, serverOpen, connection_mutex, closed, epoll, backlog, peer, crash,
                       wpc, batch, wconn>>
    BY <1>7 DEF Emplace, netVars, workerVars
  <2>3. mnew \in Conns /\ mnew # NoConn /\ \A q \in Places : u_conn[q] # mnew
    BY <2>2 DEF IInv, MainInv, FreshInv
  <2>4. /\ u_conn'[p] = mnew /\ \A q \in Places : q # p => u_conn'[q] = u_conn[q]
        /\ u_conn' \in [Places -> Conns \cup {NoConn}]
    BY <2>1, <2>3 DEF IInv, TypeOK
  <2>5. /\ conn'[mnew].valid /\ \A c \in Conns : c # mnew => conn'[c] = conn[c]
        /\ conn' \in [Conns -> ConnFields]
    BY <2>1, <2>3, FreshConnType DEF IInv, TypeOK, FreshConn, BlankConn
  <2>6. /\ timeod' \in Seq(Places)
        /\ \A i \in DOMAIN timeod' : timeod'[i] = p \/ (i \in DOMAIN timeod /\ timeod'[i] = timeod[i])
    <3>1. timeod \in Seq(Places)
      BY DEF IInv, TypeOK
    <3>2. /\ timeod' \in Seq(Places)
          /\ \A i \in DOMAIN timeod : timeod'[i] = timeod[i]
          /\ timeod'[Len(timeod) + 1] = p
          /\ \A i \in DOMAIN timeod' : i = Len(timeod) + 1 \/ i \in DOMAIN timeod
      BY <2>1, <3>1, AppendFacts
    <3> QED BY <3>2
  <2>7. TypeOK'
    BY <2>1, <2>2, <2>4, <2>5, <2>6 DEF IInv, TypeOK, MainPcs
  <2>8. PlacedOnce' /\ FreshInv'
    <3>1. PlacedOnce'
      BY <2>3, <2>4 DEF IInv, PlacedOnce
    <3>2. FreshInv'
      BY <2>2, <2>3, <2>4 DEF IInv, FreshInv, TypeOK
    <3> QED BY <3>1, <3>2
  <2>9. MainInv'
    <3>1. \A i \in DOMAIN timeod : timeod[i] \in Places /\ u_conn[timeod[i]] # NoConn
      BY DEF IInv, TypeOK, MainInv
    <3> QED BY <2>1, <2>2, <2>3, <2>4, <2>6, <3>1 DEF MainInv
  <2>10. ClosedExact'
    BY <2>1, <2>2, <2>3, <2>4, <2>5 DEF IInv, ClosedExact, ToSet, TypeOK
  <2>11. \A w \in Workers : \A i \in DOMAIN batch[w] :
            batch[w][i].place \in Places /\ batch[w][i].place # p
    <3> SUFFICES ASSUME NEW w \in Workers, NEW i \in DOMAIN batch[w]
                 PROVE  batch[w][i].place \in Places /\ batch[w][i].place # p
      OBVIOUS
    <3>1. batch[w] \in Seq(Event) /\ u_conn[batch[w][i].place] # NoConn
      BY DEF IInv, WorkerInv, TypeOK
    <3>2. batch[w][i] \in Event
      BY <3>1
    <3> QED BY <2>1, <3>1, <3>2 DEF Event
  <2>12. WorkerInv'
    BY <2>2, <2>3, <2>4, <2>11 DEF IInv, WorkerInv, place
  <2>13. HandlerSafe'
    <3> SUFFICES ASSUME NEW w \in Workers, wpc[w] \in {"read", "write", "arm"}
                 PROVE  /\ connection_mutex[place(w)] = w
                        /\ wconn[w] = u_conn'[place(w)]
                        /\ conn'[wconn[w]].valid
      BY <2>2 DEF HandlerSafe, place
    <3>1. /\ connection_mutex[place(w)] = w /\ wconn[w] = u_conn[place(w)]
          /\ conn[wconn[w]].valid /\ wconn[w] \in Conns
      BY DEF IInv, HandlerSafe, WorkerInv
    <3> QED BY <3>1, <2>1, <2>3, <2>4, <2>5, PlaceType
  <2> QED BY <2>7, <2>8, <2>9, <2>10, <2>12, <2>13 DEF IInv
<1>8. CASE SetOption
  <2>1. /\ mpc = "setopt" /\ mpc' = "add"
        /\ conn' = [conn EXCEPT ![u_conn[mcur]].option = {"READ", "ET_ONESHOT"}]
        /\ UNCHANGED <<mcur, mnew, serverOpen, u_conn, connection_mutex, closed, timeod, epoll,
                       backlog, peer, crash, wpc, batch, wconn>>
    BY <1>8 DEF SetOption, poolVars, netVars, workerVars
  <2>2. u_conn[mcur] \in Conns
    BY <2>1 DEF IInv, MainInv, TypeOK
  <2>3. /\ conn' \in [Conns -> ConnFields]
        /\ \A c \in Conns : conn'[c].valid = conn[c].valid
    <3>1. conn \in [Conns -> ConnFields] /\ {"READ", "ET_ONESHOT"} \in SUBSET Option
      BY DEF IInv, TypeOK, Option
    <3>2. conn' = [conn EXCEPT ![u_conn[mcur]] = [conn[u_conn[mcur]] EXCEPT !.option = {"READ", "ET_ONESHOT"}]]
      BY <2>1, <2>2, <3>1
    <3> QED BY <2>2, <3>1, <3>2, OptionUpdate
  <2>4. TypeOK'
    BY <2>1, <2>3 DEF IInv, TypeOK, MainPcs
  <2>5. PlacedOnce' /\ FreshInv' /\ MainInv'
    BY <2>1 DEF IInv, PlacedOnce, FreshInv, MainInv
  <2>6. ClosedExact'
    BY <2>1, <2>3 DEF IInv, ClosedExact, ToSet, TypeOK
  <2>7. WorkerInv' /\ HandlerSafe'
    BY <2>1, <2>3 DEF IInv, WorkerInv, HandlerSafe, place
  <2> QED BY <2>4, <2>5, <2>6, <2>7 DEF IInv
<1>9. CASE EpollAdd
  <2>1. /\ mpc = "add" /\ mpc' = "dump" /\ mnew' = NoConn
        /\ UNCHANGED <<mcur, serverOpen, u_conn, connection_mutex, closed, timeod, conn,
                       backlog, peer, crash, wpc, batch, wconn>>
    BY <1>9 DEF EpollAdd, poolVars, netVars, workerVars
  <2>2. epoll' \in [Conns -> Registration]
    <3>1. u_conn[mcur] \in Conns /\ epoll \in [Conns -> Registration] /\ conn \in [Conns -> ConnFields]
      BY <2>1 DEF IInv, MainInv, TypeOK
    <3>2. conn[u_conn[mcur]].option \ {"ET_ONESHOT"} \in SUBSET Bits
      BY <3>1 DEF ConnFields, Option, Bits
    <3> QED BY <1>9, <3>1, <3>2 DEF EpollAdd, Registration
  <2>3. TypeOK'
    BY <2>1, <2>2 DEF IInv, TypeOK, MainPcs
  <2>4. PlacedOnce' /\ FreshInv' /\ MainInv' /\ ClosedExact'
    BY <2>1 DEF IInv, PlacedOnce, FreshInv, MainInv, ClosedExact, ToSet
  <2>5. WorkerInv' /\ HandlerSafe'
    BY <2>1 DEF IInv, WorkerInv, HandlerSafe, place
  <2> QED BY <2>3, <2>4, <2>5 DEF IInv
<1>10. CASE DumpFront
  <2>1. /\ mpc = "dump"
        /\ UNCHANGED <<mnew, serverOpen, u_conn, connection_mutex, closed, timeod, conn, epoll,
                       backlog, peer, crash, wpc, batch, wconn>>
    BY <1>10 DEF DumpFront, poolVars, netVars, workerVars
  <2>2. \/ mpc' = "loop" /\ mcur' \in Places
        \/ mpc' = "expire" /\ timeod # <<>> /\ mcur' \in Places /\ u_conn[mcur'] # NoConn
    <3>1. timeod \in Seq(Places) /\ mcur \in Places /\ \A i \in DOMAIN timeod : u_conn[timeod[i]] # NoConn
      BY DEF IInv, TypeOK, MainInv
    <3>2. CASE timeod = <<>>
      BY <1>10, <3>1, <3>2 DEF DumpFront
    <3>3. CASE timeod # <<>>
      <4>1. Head(timeod) \in Places /\ u_conn[Head(timeod)] # NoConn
        BY <3>1, <3>3, HeadTail
      <4> QED BY <1>10, <3>3, <4>1 DEF DumpFront
    <3> QED BY <3>2, <3>3
  <2>3. TypeOK'
    BY <2>1, <2>2 DEF IInv, TypeOK, MainPcs
  <2>4. PlacedOnce' /\ FreshInv' /\ MainInv' /\ ClosedExact'
    BY <2>1, <2>2 DEF IInv, PlacedOnce, FreshInv, MainInv, ClosedExact, ToSet
  <2>5. WorkerInv' /\ HandlerSafe'
    BY <2>1 DEF IInv, WorkerInv, HandlerSafe, place
  <2> QED BY <2>3, <2>4, <2>5 DEF IInv
<1>11. CASE CloseIfTimedOut
  <2> DEFINE c == u_conn[mcur]
  <2>1. /\ mpc = "expire" /\ connection_mutex[mcur] = NoWorker
        /\ UNCHANGED <<mcur, mnew, serverOpen, u_conn, connection_mutex, timeod,
                       backlog, peer, crash, wpc, batch, wconn>>
    BY <1>11 DEF CloseIfTimedOut, netVars, workerVars
  <2>2. c \in Conns /\ mcur \in Places /\ timeod # <<>>
    BY <2>1 DEF IInv, MainInv, TypeOK
  <2>3. CASE conn[c].valid /\ TimedOut(c)
    <3>1. /\ conn' = Closed(c) /\ epoll' = Deregistered(c)
          /\ closed' = Append(closed, mcur) /\ mpc' = "pop"
      BY <1>11, <2>3 DEF CloseIfTimedOut
    <3>2. CloseUpdate(c, mcur)
      BY <2>1, <2>2, <3>1 DEF CloseUpdate
    <3>3. TypeOK'
      BY <2>1, <2>2, <3>1, <3>2, CloseFacts DEF IInv, TypeOK, MainPcs
    <3>4. PlacedOnce' /\ FreshInv' /\ MainInv'
      BY <2>1, <2>2, <3>1 DEF IInv, PlacedOnce, FreshInv, MainInv
    <3>5. ClosedExact'
      BY <2>1, <2>2, <2>3, <3>2, CloseFacts
    <3>6. WorkerInv'
      BY <2>1 DEF IInv, WorkerInv, place
    <3>7. HandlerSafe'
      <4> SUFFICES ASSUME NEW w \in Workers, wpc[w] \in {"read", "write", "arm"}
                   PROVE  /\ connection_mutex[place(w)] = w
                          /\ wconn[w] = u_conn[place(w)]
                          /\ conn'[wconn[w]].valid
        BY <2>1 DEF HandlerSafe, place
      <4>1. /\ connection_mutex[place(w)] = w /\ wconn[w] = u_conn[place(w)]
            /\ conn[wconn[w]].valid /\ wconn[w] \in Conns
        BY DEF IInv, HandlerSafe, WorkerInv
      <4>2. place(w) # mcur /\ wconn[w] # c
        BY <4>1, <2>1, <2>2, PlaceType, ConstantsAssumption DEF IInv, PlacedOnce
      <4> QED BY <4>1, <4>2, <2>2, <3>2, CloseFacts
    <3> QED BY <3>3, <3>4, <3>5, <3>6, <3>7 DEF IInv
  <2>4. CASE ~(conn[c].valid /\ TimedOut(c))
    <3>1. mpc' = "loop" /\ UNCHANGED <<conn, epoll, closed>>
      BY <1>11, <2>4 DEF CloseIfTimedOut
    <3>2. TypeOK'
      BY <2>1, <3>1 DEF IInv, TypeOK, MainPcs
    <3>3. PlacedOnce' /\ FreshInv' /\ MainInv' /\ ClosedExact'
      BY <2>1, <3>1 DEF IInv, PlacedOnce, FreshInv, MainInv, ClosedExact, ToSet
    <3>4. WorkerInv' /\ HandlerSafe'
      BY <2>1, <3>1 DEF IInv, WorkerInv, HandlerSafe, place
    <3> QED BY <3>2, <3>3, <3>4 DEF IInv
  <2> QED BY <2>3, <2>4
<1>12. CASE PopFront
  <2>1. /\ mpc = "pop" /\ mpc' = "dump" /\ timeod' = Tail(timeod)
        /\ UNCHANGED <<mcur, mnew, serverOpen, u_conn, connection_mutex, closed, conn, epoll,
                       backlog, peer, crash, wpc, batch, wconn>>
    BY <1>12 DEF PopFront, netVars, workerVars
  <2>2. timeod \in Seq(Places) /\ timeod # <<>>
    BY <2>1 DEF IInv, TypeOK, MainInv
  <2>3. /\ timeod' \in Seq(Places)
        /\ \A i \in DOMAIN timeod' : i + 1 \in DOMAIN timeod /\ timeod'[i] = timeod[i + 1]
    BY <2>1, <2>2, HeadTail
  <2>4. TypeOK'
    BY <2>1, <2>3 DEF IInv, TypeOK, MainPcs
  <2>5. MainInv'
    BY <2>1, <2>3 DEF IInv, MainInv
  <2>6. PlacedOnce' /\ FreshInv' /\ ClosedExact'
    BY <2>1 DEF IInv, PlacedOnce, FreshInv, ClosedExact, ToSet
  <2>7. WorkerInv' /\ HandlerSafe'
    BY <2>1 DEF IInv, WorkerInv, HandlerSafe, place
  <2> QED BY <2>4, <2>5, <2>6, <2>7 DEF IInv
<1> QED BY <1>1, <1>2, <1>3, <1>4, <1>5, <1>6, <1>7, <1>8, <1>9, <1>10, <1>11, <1>12 DEF MainNext

-----------------------------------------------------------------------------
(* The clients, time and close().                                          *)

\* A step of a client that opens no connection.
PeerOnly ==
  /\ UNCHANGED <<mpc, mcur, mnew, serverOpen, u_conn, connection_mutex, closed, timeod, conn,
                 epoll, backlog, crash, wpc, batch, wconn>>
  /\ peer' \in [Conns -> PeerFields]
  /\ \A c \in Conns : peer'[c].state = "new" <=> peer[c].state = "new"

\* Such a step preserves the invariant.
LEMMA PeerOnlyStep ==
  ASSUME IInv, PeerOnly
  PROVE  IInv'
<1>1. TypeOK'
  BY DEF PeerOnly, IInv, TypeOK
<1>2. PlacedOnce' /\ MainInv' /\ ClosedExact'
  BY DEF PeerOnly, IInv, PlacedOnce, MainInv, ClosedExact, ToSet
<1>3. FreshInv'
  <2>1. /\ \A i \in DOMAIN backlog : backlog[i] \in Conns
        /\ mpc \in {"replace", "emplace"} => mnew \in Conns
    BY DEF IInv, TypeOK, MainInv
  <2> QED BY <2>1 DEF PeerOnly, IInv, FreshInv
<1>4. WorkerInv' /\ HandlerSafe'
  BY DEF PeerOnly, IInv, WorkerInv, HandlerSafe, place
<1> QED BY <1>1, <1>2, <1>3, <1>4 DEF IInv

\* A client that sends, reads, closes or resets changes its own record only, and
\* has connected before.
LEMMA ClientTalks ==
  ASSUME IInv, UNCHANGED workerVars, NEW c \in Conns,
         SendWhole(c) \/ SendPart(c) \/ SendRest(c) \/ SendBad(c) \/ Receive(c) \/ Fin(c) \/ Rst(c)
  PROVE  PeerOnly
<1> USE ConstantsAssumption
<1>a. peer \in [Conns -> PeerFields]
  BY DEF IInv, TypeOK
<1>1. peer[c] \in PeerFields /\ peer[c].state # "new"
  BY <1>a DEF SendWhole, SendPart, SendRest, SendBad, MaySend, Receive, Fin, Rst
<1>b. peer[c].sent \in 0..MaxRequests /\ MaxRequests \in Nat
  BY <1>1 DEF PeerFields
<1>2. UNCHANGED <<mpc, mcur, mnew, serverOpen, u_conn, connection_mutex, closed, timeod, conn,
                  epoll, backlog, crash, wpc, batch, wconn>>
  BY DEF SendWhole, SendPart, SendRest, SendBad, Receive, Fin, Rst,
              mainVars, poolVars, workerVars
<1>3. ASSUME NEW chunk \in Chunk PROVE Deliver(c, chunk) \in Seq(Chunk)
  BY <1>1, <1>3 DEF Deliver, PeerFields
<1>4. \E r \in PeerFields : peer' = [peer EXCEPT ![c] = r] /\ r.state # "new"
  <2>1. CASE SendWhole(c)
    <3>1. PICK ka \in BOOLEAN :
             peer' = [peer EXCEPT ![c].sent = @ + 1, ![c].ka = ka,
               ![c].inbox = Deliver(c, [kind |-> "whole", id |-> peer[c].sent + 1, ka |-> ka])]
      BY <2>1 DEF SendWhole
    <3>0. peer[c].sent < MaxRequests
      BY <2>1 DEF SendWhole, MaySend
    <3>2. peer[c].sent + 1 \in 1..MaxRequests
      BY <1>b, <3>0
    <3>3. [kind |-> "whole", id |-> peer[c].sent + 1, ka |-> ka] \in Chunk
      BY <3>2 DEF Chunk
    <3> DEFINE q == Deliver(c, [kind |-> "whole", id |-> peer[c].sent + 1, ka |-> ka])
               n == peer[c].sent + 1
               r == [peer[c] EXCEPT !.sent = n, !.ka = ka, !.inbox = q]
    <3>4. q \in Seq(Chunk)
      BY <1>3, <3>3
    <3>5. peer' = [peer EXCEPT ![c] = r]
      BY <1>a, <3>1
    <3>7. n \in 0..MaxRequests
      BY <3>2
    <3> HIDE DEF q, n
    <3>6. r \in PeerFields /\ r.state # "new"
      BY <1>1, <3>7, <3>4 DEF PeerFields
    <3> QED BY <3>5, <3>6
  <2>2. CASE SendPart(c)
    <3>1. PICK ka \in BOOLEAN :
             peer' = [peer EXCEPT ![c].half = TRUE, ![c].ka = ka,
               ![c].inbox = Deliver(c, [kind |-> "part", id |-> peer[c].sent + 1, ka |-> ka])]
      BY <2>2 DEF SendPart
    <3>0. peer[c].sent < MaxRequests
      BY <2>2 DEF SendPart, MaySend
    <3>2. peer[c].sent + 1 \in 1..MaxRequests
      BY <1>b, <3>0
    <3>3. [kind |-> "part", id |-> peer[c].sent + 1, ka |-> ka] \in Chunk
      BY <3>2 DEF Chunk
    <3> DEFINE q == Deliver(c, [kind |-> "part", id |-> peer[c].sent + 1, ka |-> ka])
               r == [peer[c] EXCEPT !.half = TRUE, !.ka = ka, !.inbox = q]
    <3>4. q \in Seq(Chunk)
      BY <1>3, <3>3
    <3>5. peer' = [peer EXCEPT ![c] = r]
      BY <1>a, <3>1
    <3> HIDE DEF q
    <3>6. r \in PeerFields /\ r.state # "new"
      BY <1>1, <3>2, <3>4 DEF PeerFields
    <3> QED BY <3>5, <3>6
  <2>3. CASE SendRest(c)
    <3> DEFINE q == Deliver(c, [kind |-> "rest", id |-> peer[c].sent + 1, ka |-> peer[c].ka])
               n == peer[c].sent + 1
               r == [peer[c] EXCEPT !.half = FALSE, !.sent = n, !.inbox = q]
    <3>1. peer' = [peer EXCEPT ![c] = r]
      BY <1>a, <2>3 DEF SendRest
    <3>2. peer[c].sent + 1 \in 1..MaxRequests
      BY <1>1, <2>3, SMTT(30) DEF SendRest, PeerFields
    <3>3. [kind |-> "rest", id |-> peer[c].sent + 1, ka |-> peer[c].ka] \in Chunk
      BY <1>1, <3>2 DEF Chunk, PeerFields
    <3>4. q \in Seq(Chunk)
      BY <1>3, <3>3
    <3>7. n \in 0..MaxRequests
      BY <3>2
    <3> HIDE DEF q, n
    <3>6. r \in PeerFields /\ r.state # "new"
      BY <1>1, <3>7, <3>4 DEF PeerFields
    <3> QED BY <3>1, <3>6
  <2>4. CASE SendBad(c)
    <3> DEFINE q == Deliver(c, [kind |-> "bad", id |-> peer[c].sent + 1, ka |-> FALSE])
               r == [peer[c] EXCEPT !.state = "mute", !.inbox = q]
    <3>1. peer' = [peer EXCEPT ![c] = r]
      BY <1>a, <2>4 DEF SendBad
    <3>2. peer[c].sent + 1 \in 1..MaxRequests
      BY <1>1, <2>4, SMTT(30) DEF SendBad, MaySend, PeerFields
    <3>3. [kind |-> "bad", id |-> peer[c].sent + 1, ka |-> FALSE] \in Chunk
      BY <3>2 DEF Chunk
    <3>4. q \in Seq(Chunk)
      BY <1>3, <3>3
    <3> HIDE DEF q
    <3>6. r \in PeerFields /\ r.state # "new"
      BY <1>1, <3>4 DEF PeerFields
    <3> QED BY <3>1, <3>6
  <2>5. CASE Receive(c)
    <3> DEFINE t == Tail(peer[c].wire)
               g == Append(peer[c].got, Head(peer[c].wire))
               r == [peer[c] EXCEPT !.wire = t, !.got = g]
    <3>1. peer' = [peer EXCEPT ![c] = r]
      BY <1>a, <2>5 DEF Receive
    <3>2. t \in Seq(1..MaxRequests) /\ g \in Seq(1..MaxRequests)
      <4>1. /\ peer[c].wire \in Seq(1..MaxRequests) /\ peer[c].got \in Seq(1..MaxRequests)
            /\ peer[c].wire # <<>>
        BY <1>1, <2>5 DEF Receive, PeerFields
      <4> QED BY <4>1, HeadTail, AppendFacts
    <3> HIDE DEF t, g
    <3>3. r \in PeerFields /\ r.state # "new"
      BY <1>1, <3>2 DEF PeerFields
    <3> QED BY <3>1, <3>3
  <2>6. CASE Fin(c)
    <3> DEFINE r == [peer[c] EXCEPT !.state = "fin"]
    <3>1. peer' = [peer EXCEPT ![c] = r]
      BY <1>a, <2>6 DEF Fin
    <3>2. r \in PeerFields /\ r.state # "new"
      BY <1>1 DEF PeerFields
    <3> QED BY <3>1, <3>2
  <2>7. CASE Rst(c)
    <3> DEFINE r == [peer[c] EXCEPT !.state = "rst"]
    <3>1. peer' = [peer EXCEPT ![c] = r]
      BY <1>a, <2>7 DEF Rst
    <3>2. r \in PeerFields /\ r.state # "new"
      BY <1>1 DEF PeerFields
    <3> QED BY <3>1, <3>2
  <2> QED BY <2>1, <2>2, <2>3, <2>4, <2>5, <2>6, <2>7
<1> QED BY <1>a, <1>1, <1>2, <1>4 DEF PeerOnly

\* Whatever clients send, read, close or reset, the passing of time and
\* HttpService::close preserve the invariant.
LEMMA WorldStep == IInv /\ World => IInv'
<1> SUFFICES ASSUME IInv, EnvNext, UNCHANGED workerVars PROVE IInv'
  BY DEF World
<1> USE ConstantsAssumption
<1>a. peer \in [Conns -> PeerFields]
  BY DEF IInv, TypeOK
<1>1. ASSUME NEW c \in Conns, Connect(c) PROVE IInv'
  <2>1. /\ peer[c].state = "new" /\ backlog' = Append(backlog, c)
        /\ peer' = [peer EXCEPT ![c].state = "open"]
        /\ UNCHANGED <<mpc, mcur, mnew, serverOpen, u_conn, connection_mutex, closed, timeod, conn,
                       epoll, crash, wpc, batch, wconn>>
    BY <1>1 DEF Connect, mainVars, poolVars, workerVars
  <2>2. /\ peer' \in [Conns -> PeerFields] /\ peer'[c].state = "open"
        /\ \A d \in Conns : d # c => peer'[d] = peer[d]
    BY <1>a, <2>1 DEF PeerFields
  <2>3. backlog \in Seq(Conns)
    BY DEF IInv, TypeOK
  <2>4. /\ backlog' \in Seq(Conns) /\ DOMAIN backlog' = 1..(Len(backlog) + 1)
        /\ DOMAIN backlog = 1..Len(backlog) /\ Len(backlog) \in Nat
        /\ \A i \in DOMAIN backlog : backlog'[i] = backlog[i] /\ backlog[i] \in Conns
        /\ backlog'[Len(backlog) + 1] = c
        /\ \A i \in DOMAIN backlog' : i = Len(backlog) + 1 \/ i \in DOMAIN backlog
    BY <2>1, <2>3, AppendFacts
  <2>5. TypeOK'
    BY <2>1, <2>2, <2>4 DEF IInv, TypeOK
  <2>6. PlacedOnce' /\ MainInv' /\ ClosedExact'
    BY <2>1 DEF IInv, PlacedOnce, MainInv, ClosedExact, ToSet
  <2>7. FreshInv'
    <3>1. \A i \in DOMAIN backlog : backlog[i] # c
      BY <2>1 DEF IInv, FreshInv
    <3>2. \A p \in Places : u_conn[p] # c
      BY <2>1 DEF IInv, FreshInv
    <3>3. mpc \in {"replace", "emplace"} => mnew # c /\ mnew \in Conns
      BY <2>1 DEF IInv, FreshInv, MainInv
    <3>4. \A i, j \in DOMAIN backlog' : backlog'[i] = backlog'[j] => i = j
      BY <2>4, <3>1 DEF IInv, FreshInv
    <3>5. \A i \in DOMAIN backlog' :
             peer'[backlog'[i]].state # "new" /\ \A p \in Places : u_conn'[p] # backlog'[i]
      BY <2>1, <2>2, <2>4, <3>1, <3>2 DEF IInv, FreshInv
    <3>6. \A d \in Conns : peer'[d].state = "new" => \A p \in Places : u_conn'[p] # d
      BY <2>1, <2>2 DEF IInv, FreshInv
    <3>7. mpc' \in {"replace", "emplace"} =>
             /\ peer'[mnew'].state # "new"
             /\ \A i \in DOMAIN backlog' : backlog'[i] # mnew'
             /\ \A p \in Places : u_conn'[p] # mnew'
      BY <2>1, <2>2, <2>4, <3>3 DEF IInv, FreshInv
    <3> QED BY <3>4, <3>5, <3>6, <3>7 DEF FreshInv
  <2>8. WorkerInv' /\ HandlerSafe'
    BY <2>1 DEF IInv, WorkerInv, HandlerSafe, place
  <2> QED BY <2>5, <2>6, <2>7, <2>8 DEF IInv
<1>2. ASSUME NEW c \in Conns,
             SendWhole(c) \/ SendPart(c) \/ SendRest(c) \/ SendBad(c) \/ Receive(c) \/ Fin(c) \/ Rst(c)
      PROVE  IInv'
  BY <1>2, ClientTalks, PeerOnlyStep
<1>3. CASE Tick
  <2>1. /\ conn' = [c \in Conns |-> IF conn[c].valid /\ conn[c].age < MaxAge
                                    THEN [conn[c] EXCEPT !.age = @ + 1] ELSE conn[c]]
        /\ UNCHANGED <<mpc, mcur, mnew, serverOpen, u_conn, connection_mutex, closed, timeod,
                       epoll, backlog, peer, crash, wpc, batch, wconn>>
    BY <1>3 DEF Tick, mainVars, poolVars, netVars, workerVars
  <2>2. conn \in [Conns -> ConnFields]
    BY DEF IInv, TypeOK
  <2>3. ASSUME NEW r \in ConnFields, r.age < MaxAge
        PROVE  [r EXCEPT !.age = @ + 1] \in ConnFields /\ [r EXCEPT !.age = @ + 1].valid = r.valid
    <3> DEFINE n == r.age + 1
    <3>1. n \in 0..MaxAge
      BY <2>3, FreshConnType DEF ConnFields
    <3> HIDE DEF n
    <3>2. [r EXCEPT !.age = n] \in ConnFields /\ [r EXCEPT !.age = n].valid = r.valid
      BY <2>3, <3>1 DEF ConnFields
    <3> QED BY <3>2 DEF n
  <2>4. /\ conn' \in [Conns -> ConnFields]
        /\ \A c \in Conns : conn'[c].valid = conn[c].valid
    BY <2>1, <2>2, <2>3
  <2>5. TypeOK'
    BY <2>1, <2>4 DEF IInv, TypeOK
  <2>6. PlacedOnce' /\ FreshInv' /\ MainInv'
    BY <2>1 DEF IInv, PlacedOnce, FreshInv, MainInv
  <2>7. ClosedExact'
    BY <2>1, <2>4 DEF IInv, ClosedExact, ToSet, TypeOK
  <2>8. WorkerInv' /\ HandlerSafe'
    BY <2>1, <2>4 DEF IInv, WorkerInv, HandlerSafe, place
  <2> QED BY <2>5, <2>6, <2>7, <2>8 DEF IInv
<1>4. CASE Shutdown
  <2>1. /\ serverOpen' = FALSE
        /\ UNCHANGED <<mpc, mcur, mnew, u_conn, connection_mutex, closed, timeod, conn,
                       epoll, backlog, peer, crash, wpc, batch, wconn>>
    BY <1>4 DEF Shutdown, mainVars, poolVars, netVars, workerVars
  <2>2. TypeOK'
    BY <2>1 DEF IInv, TypeOK
  <2>3. PlacedOnce' /\ FreshInv' /\ MainInv' /\ ClosedExact'
    BY <2>1 DEF IInv, PlacedOnce, FreshInv, MainInv, ClosedExact, ToSet
  <2>4. WorkerInv' /\ HandlerSafe'
    BY <2>1 DEF IInv, WorkerInv, HandlerSafe, place
  <2> QED BY <2>2, <2>3, <2>4 DEF IInv
<1> QED BY <1>1, <1>2, <1>3, <1>4 DEF EnvNext, ClientNext

-----------------------------------------------------------------------------
(* The workers.                                                            *)

\* epoll_wait returns at least one event, and events of open places only.
LEMMA BatchFacts ==
  ASSUME IInv, ReadyPlaces # {}, NEW b \in Batches
  PROVE  /\ b \in Seq(Event) /\ b # <<>>
         /\ \A i \in DOMAIN b : b[i].place \in Live /\ u_conn[b[i].place] # NoConn
<1> DEFINE n == IF Cardinality(ReadyPlaces) < MaxEvents
                THEN Cardinality(ReadyPlaces) ELSE MaxEvents
<1>1. Cardinality(ReadyPlaces) \in Nat \ {0}
  <2>1. IsFiniteSet(ReadyPlaces)
    BY FS_Interval, FS_Subset, ConstantsAssumption DEF ReadyPlaces, Places
  <2> QED BY <2>1, FS_CardinalityType, FS_EmptySet
<1>2. n \in Nat \ {0}
  BY <1>1, ConstantsAssumption
<1>3. PICK f \in [1..n -> ReadyPlaces] :
         b = [i \in 1..n |-> [place |-> f[i], bits |-> ReadyBits(f[i])]]
  BY DEF Batches
<1> HIDE DEF n
<1>4. ASSUME NEW q \in ReadyPlaces
      PROVE  /\ q \in Live /\ q \in Places /\ u_conn[q] # NoConn
             /\ [place |-> q, bits |-> ReadyBits(q)] \in Event
  <2>1. q \in Places /\ ReadyBits(q) # {}
    BY DEF ReadyPlaces
  <2>2. q \in Live /\ u_conn[q] # NoConn
    BY <2>1 DEF ReadyBits, Live
  <2>3. ReadyBits(q) \in SUBSET Bits
    BY <2>1 DEF ReadyBits, SocketReady
  <2> QED BY <2>1, <2>2, <2>3 DEF Event
<1>5. \A i \in 1..n : f[i] \in ReadyPlaces /\ b[i] \in Event /\ b[i].place = f[i]
  BY <1>3, <1>4
<1>6. DOMAIN b = 1..n /\ b = [i \in 1..n |-> b[i]]
  BY <1>3
<1>7. b \in Seq(Event)
  BY <1>2, <1>5, <1>6
<1>8. b # <<>>
  BY <1>2, <1>6
<1> QED BY <1>4, <1>5, <1>6, <1>7, <1>8

\* A worker that is past the lock holds the place's connection_mutex, and no
\* other worker is past the lock of the same place.
LEMMA Handling ==
  ASSUME IInv, NEW w \in Workers, wpc[w] \in {"check", "read", "write", "arm"}
  PROVE  /\ connection_mutex[place(w)] = w /\ wconn[w] \in Conns
         /\ wpc[w] # "check" => wconn[w] = u_conn[place(w)] /\ conn[wconn[w]].valid
         /\ conn[wconn[w]] \in ConnFields /\ peer[wconn[w]] \in PeerFields
         /\ conn \in [Conns -> ConnFields] /\ peer \in [Conns -> PeerFields]
         /\ epoll \in [Conns -> Registration]
         /\ \A v \in Workers : v # w /\ wpc[v] \in {"check", "read", "write", "arm"} =>
               place(v) # place(w) /\ u_conn[place(v)] # u_conn[place(w)]
<1>1. connection_mutex[place(w)] = w /\ wconn[w] \in Conns
  BY DEF IInv, WorkerInv
<1>2. wpc[w] # "check" => wconn[w] = u_conn[place(w)] /\ conn[wconn[w]].valid
  BY DEF IInv, HandlerSafe
<1>3. ASSUME NEW v \in Workers, v # w, wpc[v] \in {"check", "read", "write", "arm"}
      PROVE  place(v) # place(w) /\ u_conn[place(v)] # u_conn[place(w)]
  <2>1. connection_mutex[place(v)] = v
    BY <1>3 DEF IInv, WorkerInv
  <2> QED BY <1>1, <1>3, <2>1, PlaceType DEF IInv, PlacedOnce
<1> QED BY <1>1, <1>2, <1>3 DEF IInv, TypeOK

\* The end of an event (lock_guard's destructor) keeps what is known of the
\* workers, if at most the connection of its place was closed.
LEMMA ReleaseStep ==
  ASSUME IInv, NEW w \in Workers, wpc[w] \in {"check", "read", "write", "arm"},
         NextEvent(w), u_conn' = u_conn,
         \A d \in Conns : d # u_conn[place(w)] => conn'[d].valid = conn[d].valid
  PROVE  /\ connection_mutex' \in [Places -> Workers \cup {NoWorker}]
         /\ wpc' \in [Workers -> WorkerPcs] /\ batch' \in [Workers -> Seq(Event)]
         /\ wconn' \in [Workers -> Conns \cup {NoConn}]
         /\ WorkerInv' /\ HandlerSafe'
<1> DEFINE t == Tail(batch[w])
<1>1. /\ place(w) \in Places /\ t \in Seq(Event) /\ batch[w] \in Seq(Event) /\ batch[w] # <<>>
  BY PlaceType
<1>2. /\ DOMAIN t = 1..(Len(batch[w]) - 1) /\ Len(batch[w]) \in Nat \ {0}
      /\ \A i \in DOMAIN t : i + 1 \in DOMAIN batch[w] /\ t[i] = batch[w][i + 1]
  BY <1>1, HeadTail
<1>3. /\ connection_mutex' = [connection_mutex EXCEPT ![place(w)] = NoWorker]
      /\ batch' = [batch EXCEPT ![w] = t]
      /\ wpc' = [wpc EXCEPT ![w] = IF Len(batch[w]) = 1 THEN "wait" ELSE "lock"]
      /\ wconn' = [wconn EXCEPT ![w] = NoConn]
  BY DEF NextEvent
<1>4. /\ connection_mutex \in [Places -> Workers \cup {NoWorker}]
      /\ wpc \in [Workers -> WorkerPcs] /\ batch \in [Workers -> Seq(Event)]
      /\ wconn \in [Workers -> Conns \cup {NoConn}]
  BY DEF IInv, TypeOK
<1>5. wpc'[w] \in {"wait", "lock"} /\ (wpc'[w] = "lock" => t # <<>>) /\ batch'[w] = t
  <2>1. Len(batch[w]) # 1 => t # <<>>
    <3> DEFINE n == Len(batch[w])
    <3>1. n \in Nat \ {0} /\ DOMAIN t = 1..(n - 1)
      BY <1>2
    <3> HIDE DEF n, t
    <3>2. n # 1 => 1 \in 1..(n - 1)
      BY <3>1
    <3>3. n # 1 => 1 \in DOMAIN t
      BY <3>1, <3>2
    <3>4. DOMAIN <<>> = {}
      OBVIOUS
    <3> QED BY <3>3, <3>4 DEF n
  <2> QED BY <1>3, <1>4, <2>1
<1> HIDE DEF t
<1>6. /\ connection_mutex' \in [Places -> Workers \cup {NoWorker}]
      /\ wpc' \in [Workers -> WorkerPcs] /\ batch' \in [Workers -> Seq(Event)]
      /\ wconn' \in [Workers -> Conns \cup {NoConn}]
  BY <1>1, <1>3, <1>4 DEF WorkerPcs
<1>7. ASSUME NEW v \in Workers, v # w
      PROVE  /\ wpc'[v] = wpc[v] /\ batch'[v] = batch[v] /\ wconn'[v] = wconn[v]
             /\ place(v)' = place(v)
             /\ wpc[v] \in {"check", "read", "write", "arm"} =>
                   connection_mutex'[place(v)] = v
  <2>1. /\ wpc'[v] = wpc[v] /\ batch'[v] = batch[v] /\ wconn'[v] = wconn[v]
    BY <1>3, <1>4, <1>7
  <2>2. wpc[v] \in {"check", "read", "write", "arm"} => connection_mutex'[place(v)] = v
    <3> SUFFICES ASSUME wpc[v] \in {"check", "read", "write", "arm"} PROVE connection_mutex'[place(v)] = v
      OBVIOUS
    <3>1. connection_mutex[place(v)] = v /\ place(v) # place(w) /\ place(v) \in Places
      BY <1>7, Handling, PlaceType
    <3> QED BY <1>3, <1>4, <3>1
  <2> QED BY <2>1, <2>2 DEF place
<1>8. WorkerInv'
  <2> SUFFICES ASSUME NEW v \in Workers
               PROVE  /\ wpc'[v] # "wait" => batch'[v] # <<>>
                      /\ \A i \in DOMAIN batch'[v] : u_conn[batch'[v][i].place] # NoConn
                      /\ wpc'[v] \in {"check", "read", "write", "arm"} =>
                            connection_mutex'[place(v)'] = v /\ wconn'[v] \in Conns
    BY DEF WorkerInv, place
  <2>1. CASE v = w
    BY <2>1, <1>2, <1>5 DEF IInv, WorkerInv
  <2>2. CASE v # w
    BY <2>2, <1>7 DEF IInv, WorkerInv
  <2> QED BY <2>1, <2>2
<1>9. HandlerSafe'
  <2> SUFFICES ASSUME NEW v \in Workers, wpc'[v] \in {"read", "write", "arm"}
               PROVE  /\ connection_mutex'[place(v)'] = v
                      /\ wconn'[v] = u_conn[place(v)']
                      /\ conn'[wconn'[v]].valid
    BY DEF HandlerSafe, place
  <2>1. v # w
    BY <1>5
  <2>2. /\ wconn[v] = u_conn[place(v)] /\ conn[wconn[v]].valid /\ wconn[v] \in Conns
        /\ u_conn[place(v)] # u_conn[place(w)]
    BY <2>1, <1>7, Handling
  <2> QED BY <2>1, <2>2, <1>7
<1> QED BY <1>6, <1>8, <1>9

\* A worker that goes on inside its handler, all connections staying open,
\* keeps what is known of the workers.
LEMMA StayStep ==
  ASSUME IInv, NEW w \in Workers, wpc[w] \in {"check", "read", "write", "arm"},
         wconn[w] = u_conn[place(w)], conn[wconn[w]].valid,
         NEW pc \in {"read", "write", "arm"}, wpc' = [wpc EXCEPT ![w] = pc],
         UNCHANGED <<u_conn, connection_mutex, batch, wconn>>,
         \A d \in Conns : conn'[d].valid = conn[d].valid
  PROVE  wpc' \in [Workers -> WorkerPcs] /\ WorkerInv' /\ HandlerSafe'
<1>1. wpc \in [Workers -> WorkerPcs]
  BY DEF IInv, TypeOK
<1>2. wpc' \in [Workers -> WorkerPcs] /\ wpc'[w] = pc /\ \A v \in Workers : v # w => wpc'[v] = wpc[v]
  BY <1>1 DEF WorkerPcs
<1>3. WorkerInv'
  BY <1>2, Handling DEF IInv, WorkerInv, place
<1>4. HandlerSafe'
  <2> SUFFICES ASSUME NEW v \in Workers, wpc'[v] \in {"read", "write", "arm"}
               PROVE  /\ connection_mutex[place(v)] = v
                      /\ wconn[v] = u_conn[place(v)]
                      /\ conn'[wconn[v]].valid
    BY DEF HandlerSafe, place
  <2>1. CASE v = w
    BY <2>1, Handling
  <2>2. CASE v # w
    BY <2>2, <1>2, Handling
  <2> QED BY <2>1, <2>2
<1> QED BY <1>2, <1>3, <1>4

\* A step that neither accepts nor places a connection keeps what is known of
\* the connections not accepted yet.
LEMMA SameStates ==
  ASSUME IInv, UNCHANGED <<mpc, mnew, u_conn, backlog>>,
         \A d \in Conns : peer'[d].state = peer[d].state
  PROVE  FreshInv'
<1>1. /\ \A i \in DOMAIN backlog : backlog[i] \in Conns
      /\ mpc \in {"replace", "emplace"} => mnew \in Conns
  BY DEF IInv, TypeOK, MainInv
<1> QED BY <1>1 DEF IInv, FreshInv

\* A step inside a handler that changes buffers, options or the socket's data
\* only (ResetActivity's rest, reads, writes, HandleRequest).
LEMMA LocalConnStep ==
  ASSUME IInv, NEW w \in Workers, wpc[w] \in {"check", "read", "write", "arm"},
         wconn[w] = u_conn[place(w)], conn[wconn[w]].valid,
         NEW pc \in {"read", "write", "arm"}, wpc' = [wpc EXCEPT ![w] = pc],
         UNCHANGED <<mpc, mcur, mnew, serverOpen, u_conn, connection_mutex, closed, timeod,
                     epoll, backlog, crash, batch, wconn>>,
         peer' \in [Conns -> PeerFields], \A d \in Conns : peer'[d].state = peer[d].state,
         conn' \in [Conns -> ConnFields], \A d \in Conns : conn'[d].valid = conn[d].valid
  PROVE  IInv'
<1>1. wpc' \in [Workers -> WorkerPcs] /\ WorkerInv' /\ HandlerSafe'
  BY StayStep
<1>2. TypeOK'
  BY <1>1 DEF IInv, TypeOK
<1>3. PlacedOnce' /\ MainInv'
  BY DEF IInv, PlacedOnce, MainInv
<1>4. FreshInv'
  BY SameStates
<1>5. ClosedExact'
  BY DEF IInv, ClosedExact, ToSet, TypeOK
<1> QED BY <1>1, <1>2, <1>3, <1>4, <1>5 DEF IInv

\* close_client at the end of a handler.
LEMMA CloseClientStep ==
  ASSUME IInv, NEW w \in Workers, wpc[w] \in {"read", "write", "arm"},
         CloseClient(place(w)), NextEvent(w),
         UNCHANGED <<mpc, mcur, mnew, serverOpen, u_conn, timeod, backlog, peer, crash>>
  PROVE  IInv'
<1> DEFINE p == place(w)
           c == u_conn[p]
<1>1. p \in Places /\ c \in Conns /\ conn[c].valid
  BY PlaceType, Handling
<1>2. CloseUpdate(c, p)
  BY <1>1 DEF CloseClient, CloseUpdate
<1>3. /\ conn' \in [Conns -> ConnFields] /\ epoll' \in [Conns -> Registration]
      /\ closed' \in Seq(Places) /\ ClosedExact'
      /\ \A d \in Conns : d # c => conn'[d].valid = conn[d].valid
  BY <1>1, <1>2, CloseFacts
<1>4. /\ connection_mutex' \in [Places -> Workers \cup {NoWorker}]
      /\ wpc' \in [Workers -> WorkerPcs] /\ batch' \in [Workers -> Seq(Event)]
      /\ wconn' \in [Workers -> Conns \cup {NoConn}]
      /\ WorkerInv' /\ HandlerSafe'
  BY <1>3, ReleaseStep
<1>5. TypeOK'
  BY <1>3, <1>4 DEF IInv, TypeOK
<1>6. PlacedOnce' /\ MainInv' /\ FreshInv'
  BY DEF IInv, PlacedOnce, MainInv, FreshInv
<1> QED BY <1>3, <1>4, <1>5, <1>6 DEF IInv

\* subscribe at the end of a handler.
LEMMA EpollModStep ==
  ASSUME IInv, NEW w \in Workers, wpc[w] \in {"read", "write", "arm"},
         NEW opt \in SUBSET Option,
         conn' = [conn EXCEPT ![wconn[w]].option = opt],
         EpollMod(wconn[w], opt), NextEvent(w),
         UNCHANGED <<mpc, mcur, mnew, serverOpen, u_conn, closed, timeod, backlog, peer>>
  PROVE  IInv'
<1> DEFINE c == wconn[w]
<1>1. /\ c \in Conns /\ conn \in [Conns -> ConnFields] /\ epoll \in [Conns -> Registration]
  BY Handling
<1>2. conn' = [conn EXCEPT ![c] = [conn[c] EXCEPT !.option = opt]]
  BY <1>1
<1>3. conn' \in [Conns -> ConnFields] /\ \A d \in Conns : conn'[d].valid = conn[d].valid
  BY <1>1, <1>2, OptionUpdate, SMTT(30)
<1>4. epoll' \in [Conns -> Registration] /\ crash' \in Crashes \cup {"none"}
  <2>1. CASE epoll[c].added
    <3> DEFINE a == opt \ {"ET_ONESHOT"}
    <3>1. epoll' = [epoll EXCEPT ![c] = [epoll[c] EXCEPT !.armed = a]] /\ crash' = crash
      BY <1>1, <2>1 DEF EpollMod
    <3>2. a \in SUBSET Bits
      BY DEF Option, Bits
    <3> HIDE DEF a
    <3>3. [epoll[c] EXCEPT !.armed = a] \in Registration
      BY <1>1, <3>2 DEF Registration
    <3> QED BY <1>1, <3>1, <3>3 DEF IInv, TypeOK
  <2>2. CASE ~epoll[c].added
    BY <1>1, <2>2 DEF EpollMod, Crashes
  <2> QED BY <2>1, <2>2
<1>5. /\ connection_mutex' \in [Places -> Workers \cup {NoWorker}]
      /\ wpc' \in [Workers -> WorkerPcs] /\ batch' \in [Workers -> Seq(Event)]
      /\ wconn' \in [Workers -> Conns \cup {NoConn}]
      /\ WorkerInv' /\ HandlerSafe'
  BY <1>3, ReleaseStep
<1>6. TypeOK'
  BY <1>3, <1>4, <1>5 DEF IInv, TypeOK
<1>7. PlacedOnce' /\ MainInv' /\ FreshInv'
  BY DEF IInv, PlacedOnce, MainInv, FreshInv
<1>8. ClosedExact'
  BY <1>3 DEF IInv, ClosedExact, ToSet, TypeOK
<1> QED BY <1>5, <1>6, <1>7, <1>8 DEF IInv

\* Every step of HttpWorker::work preserves the invariant.
LEMMA WorkerStep == ASSUME IInv, NEW w \in Workers, Worker(w) PROVE IInv'
<1> USE ConstantsAssumption
<1> DEFINE c == wconn[w]
<1>1. CASE EpollWait(w)
  <2>1. PICK b \in Batches :
           /\ batch' = [batch EXCEPT ![w] = b]
           /\ epoll' = [d \in Conns |-> IF \E i \in DOMAIN b : u_conn[b[i].place] = d
                                        THEN [epoll[d] EXCEPT !.armed = {}] ELSE epoll[d]]
    BY <1>1 DEF EpollWait
  <2>2. /\ wpc[w] = "wait" /\ wpc' = [wpc EXCEPT ![w] = "lock"] /\ ReadyPlaces # {}
        /\ UNCHANGED <<mpc, mcur, mnew, serverOpen, u_conn, connection_mutex, closed, timeod, conn,
                       backlog, peer, crash, wconn>>
    BY <1>1 DEF EpollWait, mainVars, poolVars, netVars
  <2>3. /\ b \in Seq(Event) /\ b # <<>>
        /\ \A i \in DOMAIN b : u_conn[b[i].place] # NoConn
    BY <2>1, <2>2, BatchFacts
  <2>4. /\ batch'[w] = b /\ batch' \in [Workers -> Seq(Event)]
        /\ wpc'[w] = "lock" /\ wpc' \in [Workers -> WorkerPcs]
        /\ \A v \in Workers : v # w => batch'[v] = batch[v] /\ wpc'[v] = wpc[v]
    BY <2>1, <2>2, <2>3 DEF IInv, TypeOK, WorkerPcs
  <2>5. epoll' \in [Conns -> Registration]
    <3>1. epoll \in [Conns -> Registration]
      BY DEF IInv, TypeOK
    <3>2. ASSUME NEW r \in Registration PROVE [r EXCEPT !.armed = {}] \in Registration
      BY DEF Registration
    <3> QED BY <2>1, <3>1, <3>2
  <2>6. TypeOK'
    BY <2>2, <2>4, <2>5 DEF IInv, TypeOK
  <2>7. PlacedOnce' /\ MainInv' /\ FreshInv' /\ ClosedExact'
    BY <2>2 DEF IInv, PlacedOnce, MainInv, FreshInv, ClosedExact, ToSet
  <2>8. WorkerInv'
    BY <2>2, <2>3, <2>4 DEF IInv, WorkerInv, place
  <2>9. HandlerSafe'
    BY <2>2, <2>4 DEF IInv, HandlerSafe, place
  <2> QED BY <2>6, <2>7, <2>8, <2>9 DEF IInv
<1>2. CASE LockPlace(w)
  <2> DEFINE p == place(w)
  <2>1. /\ wpc[w] = "lock" /\ connection_mutex[p] = NoWorker
        /\ connection_mutex' = [connection_mutex EXCEPT ![p] = w]
        /\ wconn' = [wconn EXCEPT ![w] = u_conn[p]]
        /\ wpc' = [wpc EXCEPT ![w] = "check"]
        /\ UNCHANGED <<mpc, mcur, mnew, serverOpen, u_conn, closed, timeod, conn, epoll,
                       backlog, peer, crash, batch>>
    BY <1>2 DEF LockPlace, mainVars, netVars
  <2>2. p \in Places /\ u_conn[p] \in Conns
    BY <2>1, PlaceType
  <2> HIDE DEF p
  <2>3. /\ connection_mutex'[p] = w /\ \A q \in Places : q # p => connection_mutex'[q] = connection_mutex[q]
        /\ connection_mutex' \in [Places -> Workers \cup {NoWorker}]
        /\ wconn'[w] = u_conn[p] /\ wconn' \in [Workers -> Conns \cup {NoConn}]
        /\ wpc'[w] = "check" /\ wpc' \in [Workers -> WorkerPcs]
        /\ \A v \in Workers : v # w => wconn'[v] = wconn[v] /\ wpc'[v] = wpc[v]
    BY <2>1, <2>2 DEF IInv, TypeOK, WorkerPcs
  <2>4. TypeOK'
    BY <2>1, <2>3 DEF IInv, TypeOK
  <2>5. PlacedOnce' /\ MainInv' /\ FreshInv' /\ ClosedExact'
    BY <2>1 DEF IInv, PlacedOnce, MainInv, FreshInv, ClosedExact, ToSet
  <2>6. ASSUME NEW v \in Workers, v # w, wpc[v] \in {"check", "read", "write", "arm"}
        PROVE  connection_mutex'[place(v)] = v /\ wconn'[v] = wconn[v]
    <3>1. connection_mutex[place(v)] = v /\ place(v) \in Places
      BY <2>6, Handling, PlaceType
    <3> QED BY <2>1, <2>3, <2>6, <3>1
  <2>7. WorkerInv'
    BY <2>1, <2>2, <2>3, <2>6 DEF IInv, WorkerInv, place, p
  <2>8. HandlerSafe'
    BY <2>1, <2>3, <2>6 DEF IInv, HandlerSafe, place
  <2> QED BY <2>4, <2>5, <2>7, <2>8 DEF IInv
<1>3. CASE StaleConn(w) \/ ReadReset(w) \/ WriteReset(w)
  <2>1. /\ crash' \in Crashes \cup {"none"}
        /\ UNCHANGED <<mpc, mcur, mnew, serverOpen, u_conn, connection_mutex, closed, timeod, conn,
                       epoll, backlog, peer, wpc, batch, wconn>>
    BY <1>3 DEF StaleConn, ReadReset, WriteReset, Crashes, mainVars, poolVars, netVars, workerVars
  <2>2. TypeOK'
    BY <2>1 DEF IInv, TypeOK
  <2>3. PlacedOnce' /\ MainInv' /\ FreshInv' /\ ClosedExact'
    BY <2>1 DEF IInv, PlacedOnce, MainInv, FreshInv, ClosedExact, ToSet
  <2>4. WorkerInv' /\ HandlerSafe'
    BY <2>1 DEF IInv, WorkerInv, HandlerSafe, place
  <2> QED BY <2>2, <2>3, <2>4 DEF IInv
<1>4. CASE SkipClosed(w)
  <2>1. /\ wpc[w] = "check" /\ NextEvent(w)
        /\ UNCHANGED <<mpc, mcur, mnew, serverOpen, u_conn, closed, timeod, conn, epoll,
                       backlog, peer, crash>>
    BY <1>4 DEF SkipClosed, mainVars, netVars
  <2>2. /\ connection_mutex' \in [Places -> Workers \cup {NoWorker}]
        /\ wpc' \in [Workers -> WorkerPcs] /\ batch' \in [Workers -> Seq(Event)]
        /\ wconn' \in [Workers -> Conns \cup {NoConn}]
        /\ WorkerInv' /\ HandlerSafe'
    BY <2>1, ReleaseStep
  <2>3. TypeOK'
    BY <2>1, <2>2 DEF IInv, TypeOK
  <2>4. PlacedOnce' /\ MainInv' /\ FreshInv' /\ ClosedExact'
    BY <2>1 DEF IInv, PlacedOnce, MainInv, FreshInv, ClosedExact, ToSet
  <2> QED BY <2>2, <2>3, <2>4 DEF IInv
<1>5. CASE ResetActivity(w)
  <2>1. /\ wpc[w] = "check" /\ c = u_conn[place(w)] /\ conn[c].valid
        /\ conn' = [conn EXCEPT ![c].age = 0]
        /\ UNCHANGED <<mpc, mcur, mnew, serverOpen, u_conn, connection_mutex, closed,
                       epoll, backlog, peer, batch, wconn>>
    BY <1>5 DEF ResetActivity, mainVars, netVars
  <2>2. PICK pc \in {"read", "write", "arm"} : wpc' = [wpc EXCEPT ![w] = pc]
    BY <1>5 DEF ResetActivity
  <2>3. conn' \in [Conns -> ConnFields] /\ \A d \in Conns : conn'[d].valid = conn[d].valid
    <3>1. conn \in [Conns -> ConnFields] /\ c \in Conns
      BY <2>1, Handling
    <3>2. [conn[c] EXCEPT !.age = 0] \in ConnFields /\ [conn[c] EXCEPT !.age = 0].valid = conn[c].valid
      <4>1. 0 \in 0..MaxAge
        BY FreshConnType
      <4> QED BY <3>1, <4>1 DEF ConnFields
    <3>3. conn' = [conn EXCEPT ![c] = [conn[c] EXCEPT !.age = 0]]
      BY <2>1, <3>1
    <3> QED BY <3>1, <3>2, <3>3
  <2>4. /\ timeod' \in Seq(Places) /\ crash' \in Crashes \cup {"none"}
        /\ timeod # <<>> => timeod' # <<>>
        /\ \A i \in DOMAIN timeod' : \E k \in DOMAIN timeod : timeod'[i] = timeod[k]
    <3>1. timeod \in Seq(Places) /\ crash \in Crashes \cup {"none"}
      BY DEF IInv, TypeOK
    <3>2. CASE place(w) \in ToSet(timeod)
      <4>1. timeod' = MoveToBack(timeod, place(w)) /\ crash' = crash
        BY <1>5, <3>2 DEF ResetActivity
      <4> QED BY <3>1, <3>2, <4>1, MoveToBackFacts
    <3>3. CASE place(w) \notin ToSet(timeod)
      BY <1>5, <3>1, <3>3 DEF ResetActivity, Crashes
    <3> QED BY <3>2, <3>3
  <2>5. wpc' \in [Workers -> WorkerPcs] /\ WorkerInv' /\ HandlerSafe'
    BY <2>1, <2>2, <2>3, StayStep
  <2>6. TypeOK'
    BY <2>1, <2>3, <2>4, <2>5 DEF IInv, TypeOK
  <2>7. MainInv'
    BY <2>1, <2>4 DEF IInv, MainInv
  <2>8. PlacedOnce' /\ FreshInv'
    BY <2>1 DEF IInv, PlacedOnce, FreshInv
  <2>9. ClosedExact'
    BY <2>1, <2>3 DEF IInv, ClosedExact, ToSet, TypeOK
  <2> QED BY <2>5, <2>6, <2>7, <2>8, <2>9 DEF IInv
<1>6. CASE ReadToBuffer(w)
  <2> DEFINE h == Head(peer[c].inbox)
             t == Tail(peer[c].inbox)
             rd == Append(conn[c].read, h)
  <2>1. /\ wpc[w] = "read" /\ peer[c].inbox # <<>>
        /\ conn' = [conn EXCEPT ![c].read = rd]
        /\ peer' = [peer EXCEPT ![c].inbox = t]
        /\ UNCHANGED <<mpc, mcur, mnew, serverOpen, u_conn, connection_mutex, closed, timeod,
                       epoll, backlog, crash, wpc, batch, wconn>>
    BY <1>6, Handling DEF ReadToBuffer, mainVars, poolVars, workerVars
  <2>2. /\ c \in Conns /\ conn \in [Conns -> ConnFields] /\ peer \in [Conns -> PeerFields]
        /\ conn[c] \in ConnFields /\ peer[c] \in PeerFields
        /\ c = u_conn[place(w)] /\ conn[c].valid
    BY <2>1, Handling
  <2>3. rd \in Seq(Chunk) /\ t \in Seq(Chunk)
    <3>1. peer[c].inbox \in Seq(Chunk) /\ conn[c].read \in Seq(Chunk)
      BY <2>2 DEF PeerFields, ConnFields
    <3>2. h \in Chunk /\ t \in Seq(Chunk)
      BY <2>1, <3>1, HeadTail
    <3> QED BY <3>1, <3>2, AppendFacts
  <2> HIDE DEF rd, t
  <2>4. conn' \in [Conns -> ConnFields] /\ \A d \in Conns : conn'[d].valid = conn[d].valid
    <3>1. [conn[c] EXCEPT !.read = rd] \in ConnFields /\ [conn[c] EXCEPT !.read = rd].valid = conn[c].valid
      BY <2>2, <2>3 DEF ConnFields
    <3>2. conn' = [conn EXCEPT ![c] = [conn[c] EXCEPT !.read = rd]]
      BY <2>1, <2>2
    <3> QED BY <2>2, <3>1, <3>2
  <2>5. peer' \in [Conns -> PeerFields] /\ \A d \in Conns : peer'[d].state = peer[d].state
    <3>1. [peer[c] EXCEPT !.inbox = t] \in PeerFields /\ [peer[c] EXCEPT !.inbox = t].state = peer[c].state
      BY <2>2, <2>3 DEF PeerFields
    <3>2. peer' = [peer EXCEPT ![c] = [peer[c] EXCEPT !.inbox = t]]
      BY <2>1, <2>2
    <3> QED BY <2>2, <3>1, <3>2
  <2>6. WorkerInv' /\ HandlerSafe'
    <3>1. wpc' = [wpc EXCEPT ![w] = "read"]
      BY <2>1 DEF IInv, TypeOK
    <3> QED BY <2>1, <2>2, <2>4, <3>1, StayStep
  <2>7. TypeOK'
    BY <2>1, <2>4, <2>5 DEF IInv, TypeOK
  <2>8. PlacedOnce' /\ MainInv'
    BY <2>1 DEF IInv, PlacedOnce, MainInv
  <2>9. FreshInv'
    BY <2>1, <2>5, SameStates
  <2>10. ClosedExact'
    BY <2>1, <2>4 DEF IInv, ClosedExact, ToSet, TypeOK
  <2> QED BY <2>6, <2>7, <2>8, <2>9, <2>10 DEF IInv
<1>7. CASE ReadEnd(w) \/ RequestIncorrect(w) \/ CloseDone(w)
  <2>1. /\ wpc[w] \in {"read", "write", "arm"} /\ CloseClient(place(w)) /\ NextEvent(w)
        /\ UNCHANGED <<mpc, mcur, mnew, serverOpen, u_conn, timeod, backlog, peer, crash>>
    BY <1>7 DEF ReadEnd, RequestIncorrect, ReadDone, CloseDone, mainVars, netVars
  <2> QED BY <2>1, CloseClientStep
<1>8. CASE RequestIncomplete(w)
  <2> DEFINE opt == conn[c].option \cup {"READ", "ET_ONESHOT"}
  <2>1. /\ wpc[w] \in {"read", "write", "arm"} /\ NextEvent(w)
        /\ conn' = [conn EXCEPT ![c].option = opt] /\ EpollMod(c, opt)
        /\ UNCHANGED <<mpc, mcur, mnew, serverOpen, u_conn, closed, timeod, backlog, peer>>
    BY <1>8 DEF RequestIncomplete, ReadDone, mainVars, netVars
  <2>2. opt \in SUBSET Option
    BY <2>1, Handling DEF ConnFields, Option
  <2> QED BY <2>1, <2>2, EpollModStep
<1>9. CASE Rearm(w)
  <2> DEFINE opt == conn[c].option \cup {"ET_ONESHOT"}
  <2>1. /\ wpc[w] \in {"read", "write", "arm"} /\ NextEvent(w)
        /\ conn' = [conn EXCEPT ![c].option = opt] /\ EpollMod(c, opt)
        /\ UNCHANGED <<mpc, mcur, mnew, serverOpen, u_conn, closed, timeod, backlog, peer>>
    BY <1>9 DEF Rearm, mainVars, netVars
  <2>2. opt \in SUBSET Option
    BY <2>1, Handling DEF ConnFields, Option
  <2> QED BY <2>1, <2>2, EpollModStep
<1>10. CASE HandleRequest(w)
  <2> DEFINE req == conn[c].read[1]
             wr  == Response(req.id)
             rd  == IF req.ka THEN <<>> ELSE conn[c].read
             opt == (IF req.ka THEN conn[c].option ELSE conn[c].option \ {"READ"}) \cup {"WRITE", "ET_ONESHOT"}
             ka  == req.ka
             r   == [conn[c] EXCEPT !.keep_alive = ka, !.write = wr, !.read = rd, !.option = opt]
  <2>1. /\ wpc[w] = "read" /\ Parse(conn[c].read) = "ok"
        /\ wpc' = [wpc EXCEPT ![w] = "arm"]
        /\ UNCHANGED <<mpc, mcur, mnew, serverOpen, u_conn, connection_mutex, closed, timeod,
                       epoll, backlog, peer, crash, batch, wconn>>
    BY <1>10 DEF HandleRequest, ReadDone, mainVars, poolVars, netVars
  <2>2. /\ c \in Conns /\ conn \in [Conns -> ConnFields] /\ conn[c] \in ConnFields
        /\ c = u_conn[place(w)] /\ conn[c].valid
    BY <2>1, Handling
  <2>3. conn' = [conn EXCEPT ![c] = r]
    BY <1>10, <2>2 DEF HandleRequest
  <2>4. req \in Chunk
    <3>1. conn[c].read \in Seq(Chunk) /\ conn[c].option \in SUBSET Option
      BY <2>2 DEF ConnFields
    <3>2. Len(conn[c].read) \in {1, 2}
      BY <2>1 DEF Parse
    <3> QED BY <3>1, <3>2
  <2>a. ka \in BOOLEAN
    BY <2>4 DEF Chunk
  <2>b. conn[c].read \in Seq(Chunk) /\ conn[c].option \in SUBSET Option
    BY <2>2 DEF ConnFields
  <2>c. rd \in Seq(Chunk)
    <3>1. <<>> \in Seq(Chunk)
      OBVIOUS
    <3> QED BY <2>b, <3>1, Zenon
  <2>d. opt \in SUBSET Option
    <3>1. CASE req.ka
      BY <2>b, <3>1 DEF Option
    <3>2. CASE ~req.ka
      BY <2>b, <3>2 DEF Option
    <3> QED BY <3>1, <3>2
  <2>5. /\ ka \in BOOLEAN /\ rd \in Seq(Chunk) /\ opt \in SUBSET Option
    BY <2>a, <2>c, <2>d
  <2>6. wr \in Seq(1..MaxRequests)
    BY <2>4 DEF Response, Chunk
  <2> HIDE DEF wr, rd, opt, ka, req
  <2>7. r \in ConnFields /\ r.valid = conn[c].valid
    BY <2>2, <2>5, <2>6 DEF ConnFields
  <2>8. conn' \in [Conns -> ConnFields] /\ \A d \in Conns : conn'[d].valid = conn[d].valid
    BY <2>2, <2>3, <2>7
  <2>9. peer' \in [Conns -> PeerFields] /\ \A d \in Conns : peer'[d].state = peer[d].state
    BY <2>1 DEF IInv, TypeOK
  <2>10. wpc[w] \in {"check", "read", "write", "arm"} /\ "arm" \in {"read", "write", "arm"}
    BY <2>1
  <2> HIDE DEF r
  <2> QED BY <2>1, <2>2, <2>8, <2>9, <2>10, LocalConnStep
<1>11. CASE WriteFromBuffer(w)
  <2> DEFINE room == IF Len(peer[c].wire) < Window THEN Window - Len(peer[c].wire) ELSE 0
             n == IF Len(conn[c].write) < room THEN Len(conn[c].write) ELSE room
             wire == peer[c].wire \o SubSeq(conn[c].write, 1, n)
             opt == (conn[c].option \ {"WRITE"}) \cup {"ET_ONESHOT"}
             rest == SubSeq(conn[c].write, n + 1, Len(conn[c].write))
  <2>1. /\ wpc[w] = "write"
        /\ peer' = [peer EXCEPT ![c].wire = @ \o SubSeq(conn[c].write, 1, n)]
        /\ UNCHANGED <<mpc, mcur, mnew, serverOpen, u_conn, connection_mutex, closed, timeod,
                       epoll, backlog, crash, batch, wconn>>
    BY <1>11 DEF WriteFromBuffer, mainVars, poolVars
  <2>2. /\ c \in Conns /\ conn \in [Conns -> ConnFields] /\ peer \in [Conns -> PeerFields]
        /\ conn[c] \in ConnFields /\ peer[c] \in PeerFields
        /\ c = u_conn[place(w)] /\ conn[c].valid
    BY <2>1, Handling
  <2>3. /\ conn[c].write \in Seq(1..MaxRequests) /\ conn[c].option \in SUBSET Option
        /\ peer[c].wire \in Seq(1..MaxRequests) /\ Len(peer[c].wire) \in Nat
        /\ Len(conn[c].write) \in Nat
    BY <2>2 DEF ConnFields, PeerFields
  <2>4. n \in 0..Len(conn[c].write)
    BY <2>3
  <2>5. opt \in SUBSET Option
    BY <2>3 DEF Option
  <2>a. peer' = [peer EXCEPT ![c] = [peer[c] EXCEPT !.wire = wire]]
    BY <2>1, <2>2
  <2>b. \/ /\ conn' = [conn EXCEPT ![c] = [conn[c] EXCEPT !.write = <<>>, !.option = opt]]
           /\ wpc' = [wpc EXCEPT ![w] = "arm"]
        \/ /\ conn' = [conn EXCEPT ![c] = [conn[c] EXCEPT !.write = rest]]
           /\ wpc' = wpc
    BY <1>11, <2>2 DEF WriteFromBuffer
  <2> HIDE DEF n
  <2>6. wire \in Seq(1..MaxRequests) /\ rest \in Seq(1..MaxRequests)
    <3>1. SubSeq(conn[c].write, 1, n) \in Seq(1..MaxRequests)
      BY <2>3, <2>4
    <3>2. rest \in Seq(1..MaxRequests)
      BY <2>3, <2>4
    <3> QED BY <2>3, <3>1, <3>2, ConcatFacts
  <2> HIDE DEF wire, rest, opt
  <2>7. peer' \in [Conns -> PeerFields] /\ \A d \in Conns : peer'[d].state = peer[d].state
    <3>1. [peer[c] EXCEPT !.wire = wire] \in PeerFields
          /\ [peer[c] EXCEPT !.wire = wire].state = peer[c].state
      BY <2>2, <2>6 DEF PeerFields
    <3> QED BY <2>2, <2>a, <3>1
  <2>8. conn' \in [Conns -> ConnFields] /\ \A d \in Conns : conn'[d].valid = conn[d].valid
    <3> DEFINE r1 == [conn[c] EXCEPT !.write = <<>>, !.option = opt]
               r2 == [conn[c] EXCEPT !.write = rest]
    <3>1. r1 \in ConnFields /\ r1.valid = conn[c].valid
      <4>1. <<>> \in Seq(1..MaxRequests)
        OBVIOUS
      <4> QED BY <2>2, <2>5, <4>1 DEF ConnFields
    <3>2. r2 \in ConnFields /\ r2.valid = conn[c].valid
      BY <2>2, <2>6 DEF ConnFields
    <3>3. conn' = [conn EXCEPT ![c] = r1] \/ conn' = [conn EXCEPT ![c] = r2]
      BY <2>b
    <3> HIDE DEF r1, r2
    <3> QED BY <2>2, <3>1, <3>2, <3>3
  <2>9. PICK pc \in {"read", "write", "arm"} : wpc' = [wpc EXCEPT ![w] = pc]
    <3>1. wpc = [wpc EXCEPT ![w] = "write"]
      BY <2>1 DEF IInv, TypeOK
    <3> QED BY <2>b, <3>1
  <2>10. wpc[w] \in {"check", "read", "write", "arm"}
    BY <2>1
  <2> QED BY <2>1, <2>2, <2>7, <2>8, <2>9, <2>10, LocalConnStep
<1>12. CASE WriteBlocked(w)
  <2>1. /\ wpc[w] = "write" /\ wpc' = [wpc EXCEPT ![w] = "arm"]
        /\ UNCHANGED <<mpc, mcur, mnew, serverOpen, u_conn, connection_mutex, closed, timeod, conn,
                       epoll, backlog, peer, crash, batch, wconn>>
    BY <1>12 DEF WriteBlocked, mainVars, poolVars, netVars
  <2>2. /\ c = u_conn[place(w)] /\ conn[c].valid /\ conn \in [Conns -> ConnFields]
    BY <2>1, Handling
  <2>3. peer' \in [Conns -> PeerFields] /\ \A d \in Conns : peer'[d].state = peer[d].state
    BY <2>1 DEF IInv, TypeOK
  <2>4. conn' \in [Conns -> ConnFields] /\ \A d \in Conns : conn'[d].valid = conn[d].valid
    BY <2>1, <2>2
  <2>5. wpc[w] \in {"check", "read", "write", "arm"} /\ "arm" \in {"read", "write", "arm"}
    BY <2>1
  <2> QED BY <2>1, <2>2, <2>3, <2>4, <2>5, LocalConnStep
<1> QED
  BY <1>1, <1>2, <1>3, <1>4, <1>5, <1>6, <1>7, <1>8, <1>9, <1>10, <1>11, <1>12
  DEF Worker, WorkerNext

-----------------------------------------------------------------------------
(* The theorems.                                                           *)

\* A step of nobody preserves the invariant.
LEMMA Stutter == IInv /\ UNCHANGED vars => IInv'
<1> SUFFICES ASSUME IInv, UNCHANGED vars PROVE IInv'
  OBVIOUS
<1>1. UNCHANGED <<mpc, mcur, mnew, serverOpen, u_conn, connection_mutex, closed, timeod, conn,
                  epoll, backlog, peer, crash, wpc, batch, wconn>>
  BY DEF vars, coreVars, mainVars, poolVars, netVars, workerVars
<1>2. TypeOK'
  BY <1>1 DEF IInv, TypeOK
<1>3. PlacedOnce' /\ MainInv' /\ FreshInv' /\ ClosedExact'
  BY <1>1 DEF IInv, PlacedOnce, MainInv, FreshInv, ClosedExact, ToSet
<1>4. WorkerInv' /\ HandlerSafe'
  BY <1>1 DEF IInv, WorkerInv, HandlerSafe, place
<1> QED BY <1>2, <1>3, <1>4 DEF IInv

\* The inductive invariant holds in every state of the server, for any number
\* of workers, connections, places and requests, and whatever the clients do.
THEOREM Invariance == Spec => []IInv
<1>1. Init => IInv
  BY InitInv
<1>2. IInv /\ [Next]_vars => IInv'
  BY MainStep, WorkerStep, WorldStep, Stutter DEF Next
<1> QED BY <1>1, <1>2, PTL DEF Spec

\* Every variable of the server keeps to its type: options, buffers and queues
\* hold what the code may put into them, and control never gets lost.
THEOREM TypeCorrect == Spec => []TypeOK
<1>1. IInv => TypeOK
  BY DEF IInv
<1> QED BY <1>1, Invariance, PTL

\* closed_ is exact: close_client of any number of workers and the time-outs of
\* the main thread never push a place twice, and never lose one.
THEOREM ClosedExactAlways == Spec => []ClosedExact
<1>1. IInv => ClosedExact
  BY DEF IInv
<1> QED BY <1>1, Invariance, PTL

\* A handler past its validity check works on an open connection that is still
\* the one of its place, under the place's mutex, until it ends.
THEOREM HandlerSafeAlways == Spec => []HandlerSafe
<1>1. IInv => HandlerSafe
  BY DEF IInv
<1> QED BY <1>1, Invariance, PTL

\* Active connections: what connections_size computes is the number of open
\* connections, so its unsigned subtraction never wraps around.
THEOREM SizeExactAlways == Spec => []SizeExact
<1>1. IInv => SizeExact
  <2> SUFFICES ASSUME IInv PROVE SizeExact
    OBVIOUS
  <2> DEFINE N == {p \in Places : u_conn[p] # NoConn}
             Q == ToSet(closed)
             n == Len(closed)
  <2>1. /\ closed \in Seq(Places) /\ n \in Nat /\ DOMAIN closed = 1..n
        /\ \A i, j \in 1..n : closed[i] = closed[j] => i = j
    BY DEF IInv, TypeOK, ClosedExact
  <2>2. Q \subseteq N /\ Live = N \ Q
    <3>1. \A p \in Places : p \in Q <=> u_conn[p] # NoConn /\ ~conn[u_conn[p]].valid
      BY DEF IInv, ClosedExact
    <3>2. Q \subseteq Places
      BY <2>1 DEF ToSet
    <3> QED BY <3>1, <3>2 DEF Live
  <2>3. closed \in Surjection(1..n, Q) /\ closed \in Injection(1..n, Q)
    BY <2>1 DEF ToSet, Surjection, Injection, IsInjective
  <2>4. IsFiniteSet(1..n) /\ Cardinality(1..n) = n
    BY <2>1, FS_Interval
  <2>5. Cardinality(Q) = n
    BY <2>3, <2>4, FS_Surjection
  <2>6. IsFiniteSet(N)
    <3>1. IsFiniteSet(Places) /\ N \in SUBSET Places
      BY FS_Interval, ConstantsAssumption DEF Places
    <3> QED BY <3>1, FS_Subset
  <2>7. Cardinality(N \ Q) = Cardinality(N) - Cardinality(N \cap Q)
    BY <2>6, FS_Difference
  <2>8. N \cap Q = Q
    BY <2>2
  <2>9. Cardinality(Live) = Cardinality(N) - n
    BY <2>2, <2>5, <2>7, <2>8
  <2> QED BY <2>9 DEF SizeExact, connections_size
<1> QED BY <1>1, Invariance, PTL


-----------------------------------------------------------------------------
(* No wake-up is lost: ArmInv, on top of IInv.                             *)

\* What is known of a place stays true if its connection, its option and its
\* registration stay, and nobody lets go of it.
LEMMA KeptArmed ==
  ASSUME NEW p \in Places, ArmedAt(p), u_conn'[p] = u_conn[p],
         conn'[u_conn[p]].option = conn[u_conn[p]].option,
         epoll'[u_conn[p]] = epoll[u_conn[p]],
         HasEvent(p) => HasEvent(p)', Arming(p) => Arming(p)',
         Registering(p) => Registering(p)', Blank(p) => Blank(p)'
  PROVE  ArmedAt(p)'
BY DEF ArmedAt

\* A place whose connection is open has one.
LEMMA LiveType ==
  ASSUME IInv, NEW p \in Live
  PROVE  p \in Places /\ u_conn[p] \in Conns /\ conn[u_conn[p]].valid
BY DEF IInv, TypeOK, Live

\* A step that changes no option and no registration, takes no event and ends
\* none, and leaves the main thread where it was or brings it nearer to epoll_.add.
LEMMA QuietStep ==
  ASSUME IInv, ArmInv, UNCHANGED <<u_conn, epoll, batch>>,
         \A d \in Conns : conn'[d].option = conn[d].option /\ conn'[d].valid = conn[d].valid,
         \A w \in Workers : /\ wpc'[w] = "wait" => wpc[w] = "wait"
                            /\ wpc[w] = "arm" => wpc'[w] = "arm",
         \A p \in Places : (Registering(p) => Registering(p)') /\ (Blank(p) => Blank(p)')
  PROVE  ArmInv'
<1>1. \A w \in Workers : wpc'[w] = "wait" => batch'[w] = <<>>
  BY DEF ArmInv
<1>2. ASSUME NEW p \in Live' PROVE ArmedAt(p)'
  <2>1. p \in Places /\ u_conn[p] # NoConn /\ conn'[u_conn[p]].valid
    BY DEF Live
  <2>2. u_conn[p] \in Conns
    BY <2>1 DEF IInv, TypeOK
  <2>3. p \in Live
    BY <2>1, <2>2 DEF Live
  <2>4. HasEvent(p) => HasEvent(p)'
    BY DEF HasEvent
  <2>5. Arming(p) => Arming(p)'
    BY DEF Arming, place
  <2> QED BY <2>1, <2>2, <2>3, <2>4, <2>5, KeptArmed DEF ArmInv
<1> QED BY <1>1, <1>2 DEF ArmInv

\* A service that has just been opened has no connection to wait for.
LEMMA InitArmed == Init => ArmInv
BY DEF Init, CoreInit, WorkersInit, ArmInv, Live

\* The main thread registers each connection it puts into a place with an event
\* to wait for, or leaves that to the worker that is about to subscribe it.
LEMMA MainArmed == ASSUME IInv, ArmInv, Main PROVE ArmInv'
<1> USE ConstantsAssumption
<1>0. MainNext /\ UNCHANGED <<wpc, batch, wconn>>
  BY DEF Main, workerVars
<1>1. CASE RunLoop \/ Accept \/ AcceptTimeout \/ AcceptThrows \/ Splice \/ DumpFront \/ PopFront
  <2>1. UNCHANGED <<u_conn, epoll, conn>>
    BY <1>1 DEF RunLoop, Accept, AcceptTimeout, AcceptThrows, Splice, DumpFront, PopFront, poolVars
  <2>2. \A p \in Places : (Registering(p) => Registering(p)') /\ (Blank(p) => Blank(p)')
    BY <1>1 DEF RunLoop, Accept, AcceptTimeout, AcceptThrows, Splice, DumpFront, PopFront,
                Registering, Blank
  <2> QED BY <1>0, <2>1, <2>2, QuietStep
<1>2. ASSUME NEW q \in Places, u_conn' = [u_conn EXCEPT ![q] = mnew],
             conn' = [conn EXCEPT ![mnew] = FreshConn], UNCHANGED epoll,
             mpc \in {"replace", "emplace"}, mpc' \in {"splice", "setopt"}, mcur' = q
      PROVE  ArmInv'
  <2>1. \A w \in Workers : wpc'[w] = "wait" => batch'[w] = <<>>
    BY <1>0 DEF ArmInv
  <2>2. ASSUME NEW p \in Live' PROVE ArmedAt(p)'
    <3>1. p \in Places
      BY DEF Live
    <3>2. CASE p = q
      BY <1>2, <3>2 DEF ArmedAt, Registering, Blank
    <3>3. CASE p # q
      <4>1. mnew \in Conns /\ u_conn[p] # mnew
        BY <1>2, <3>1 DEF IInv, MainInv, FreshInv
      <4>2. u_conn'[p] = u_conn[p]
        BY <1>2, <3>1, <3>3 DEF IInv, TypeOK
      <4>3. u_conn[p] # NoConn /\ conn'[u_conn[p]].valid
        BY <4>2 DEF Live
      <4>4. u_conn[p] \in Conns
        BY <4>3, <3>1 DEF IInv, TypeOK
      <4>5. conn'[u_conn[p]] = conn[u_conn[p]]
        BY <1>2, <4>1, <4>4 DEF IInv, TypeOK
      <4>6. p \in Live
        BY <3>1, <4>3, <4>5 DEF Live
      <4>7. ~Registering(p) /\ ~Blank(p)
        BY <1>2 DEF Registering, Blank
      <4>8. (HasEvent(p) => HasEvent(p)') /\ (Arming(p) => Arming(p)')
        BY <1>0 DEF HasEvent, Arming, place
      <4>9. ArmedAt(p)
        BY <4>6 DEF ArmInv
      <4> QED BY <1>2, <3>1, <4>2, <4>5, <4>7, <4>8, <4>9, KeptArmed
    <3> QED BY <3>2, <3>3
  <2> QED BY <2>1, <2>2 DEF ArmInv
<1>3. CASE TryReplace
  <2>1. CASE closed = <<>>
    <3>1. UNCHANGED <<u_conn, epoll, conn>> /\ mpc = "replace"
      BY <1>3, <2>1 DEF TryReplace
    <3>2. \A p \in Places : (Registering(p) => Registering(p)') /\ (Blank(p) => Blank(p)')
      BY <3>1 DEF Registering, Blank
    <3> QED BY <1>0, <3>1, <3>2, QuietStep
  <2>2. CASE closed # <<>>
    <3>1. Head(closed) \in Places
      BY <2>2, HeadTail DEF IInv, TypeOK
    <3>2. /\ u_conn' = [u_conn EXCEPT ![Head(closed)] = mnew]
          /\ conn' = [conn EXCEPT ![mnew] = FreshConn] /\ UNCHANGED epoll
          /\ mpc = "replace" /\ mpc' = "splice" /\ mcur' = Head(closed)
      BY <1>3, <2>2 DEF TryReplace
    <3> QED BY <3>1, <3>2, <1>2
  <2> QED BY <2>1, <2>2
<1>4. CASE Emplace
  BY <1>4, <1>2 DEF Emplace
<1>5. CASE SetOption
  <2> DEFINE c == u_conn[mcur]
             o == {"READ", "ET_ONESHOT"}
  <2>1. /\ mpc = "setopt" /\ mpc' = "add" /\ UNCHANGED <<mcur, u_conn, epoll>>
        /\ conn' = [conn EXCEPT ![c].option = o]
    BY <1>5 DEF SetOption, poolVars
  <2>2. c \in Conns /\ mcur \in Places /\ conn \in [Conns -> ConnFields]
    BY <2>1 DEF IInv, MainInv, TypeOK
  <2>3. /\ conn'[c].option = o /\ conn'[c].valid = conn[c].valid
        /\ \A d \in Conns : d # c => conn'[d] = conn[d]
    BY <2>1, <2>2 DEF ConnFields
  <2>4. \A w \in Workers : wpc'[w] = "wait" => batch'[w] = <<>>
    BY <1>0 DEF ArmInv
  <2>5. ASSUME NEW p \in Live' PROVE ArmedAt(p)'
    <3>1. p \in Places /\ u_conn[p] # NoConn /\ conn'[u_conn[p]].valid /\ u_conn[p] \in Conns
      BY <2>1 DEF Live, IInv, TypeOK
    <3>2. CASE p = mcur
      <4>1. Registering(p)'
        BY <2>1, <3>2 DEF Registering
      <4>2. "ET_ONESHOT" \in o /\ o # {"ET_ONESHOT"}
        BY DEF o
      <4> QED BY <2>1, <2>3, <3>2, <4>1, <4>2 DEF ArmedAt
    <3>3. CASE p # mcur
      <4>1. u_conn[p] # c
        BY <3>1, <3>3, <2>2 DEF IInv, PlacedOnce
      <4>2. p \in Live /\ conn'[u_conn[p]] = conn[u_conn[p]]
        BY <3>1, <4>1, <2>3 DEF Live
      <4>3. ~Registering(p) /\ ~Blank(p)
        BY <3>3 DEF Registering, Blank
      <4>4. (HasEvent(p) => HasEvent(p)') /\ (Arming(p) => Arming(p)')
        BY <1>0 DEF HasEvent, Arming, place
      <4>5. ArmedAt(p)
        BY <4>2 DEF ArmInv
      <4> QED BY <2>1, <3>1, <4>2, <4>3, <4>4, <4>5, KeptArmed
    <3> QED BY <3>2, <3>3
  <2> QED BY <2>4, <2>5 DEF ArmInv
<1>6. CASE EpollAdd
  <2> DEFINE c == u_conn[mcur]
             a == conn[c].option \ {"ET_ONESHOT"}
  <2>1. /\ mpc = "add" /\ mpc' = "dump" /\ UNCHANGED <<mcur, u_conn, conn>>
        /\ epoll' = IF conn[c].valid THEN [epoll EXCEPT ![c] = [added |-> TRUE, armed |-> a]]
                                     ELSE epoll
    BY <1>6 DEF EpollAdd, poolVars
  <2>2. c \in Conns /\ mcur \in Places /\ epoll \in [Conns -> Registration]
    BY <2>1 DEF IInv, MainInv, TypeOK
  <2>3. /\ conn[c].valid => epoll'[c].added /\ epoll'[c].armed = a
        /\ \A d \in Conns : d # c => epoll'[d] = epoll[d]
    BY <2>1, <2>2
  <2>4. \A w \in Workers : wpc'[w] = "wait" => batch'[w] = <<>>
    BY <1>0 DEF ArmInv
  <2>5. ASSUME NEW p \in Live' PROVE ArmedAt(p)'
    <3>1. p \in Live
      BY <2>1 DEF Live
    <3>2. p \in Places /\ u_conn[p] \in Conns /\ conn[u_conn[p]].valid /\ u_conn[p] # NoConn
      BY <3>1, LiveType
    <3>3. ArmedAt(p)
      BY <3>1 DEF ArmInv
    <3>4. (HasEvent(p) => HasEvent(p)') /\ (Arming(p) => Arming(p)')
      BY <1>0 DEF HasEvent, Arming, place
    <3>5. CASE p = mcur
      <4>1. ~Blank(p)
        BY <2>1 DEF Blank
      <4>2. "ET_ONESHOT" \in conn[c].option /\ (conn[c].option # {"ET_ONESHOT"} \/ Arming(p))
        BY <3>3, <3>5, <4>1 DEF ArmedAt
      <4>3. a # {} \/ Arming(p)
        BY <4>2
      <4>4. Arming(p) => HasEvent(p)
        <5> SUFFICES ASSUME Arming(p) PROVE HasEvent(p)
          OBVIOUS
        <5>1. PICK w \in Workers : wpc[w] = "arm" /\ place(w) = p
          BY DEF Arming
        <5>2. 1 \in DOMAIN batch[w] /\ batch[w][1].place = p
          BY <5>1, PlaceType, HeadTail DEF place
        <5> QED BY <5>2 DEF HasEvent
      <4>5. epoll'[c].added /\ (epoll'[c].armed # {} \/ HasEvent(p)')
        BY <2>3, <3>2, <3>4, <3>5, <4>3, <4>4
      <4> QED BY <2>1, <3>4, <3>5, <4>2, <4>5 DEF ArmedAt
    <3>6. CASE p # mcur
      <4>1. u_conn[p] # c
        BY <3>2, <3>6, <2>2 DEF IInv, PlacedOnce
      <4>2. ~Registering(p) /\ ~Blank(p)
        BY <3>6 DEF Registering, Blank
      <4> QED BY <2>1, <2>3, <3>2, <3>3, <3>4, <4>1, <4>2, KeptArmed
    <3> QED BY <3>5, <3>6
  <2> QED BY <2>4, <2>5 DEF ArmInv
<1>7. CASE CloseIfTimedOut
  <2> DEFINE c == u_conn[mcur]
  <2>1. mpc = "expire" /\ UNCHANGED <<mcur, u_conn>>
    BY <1>7 DEF CloseIfTimedOut
  <2>2. \A p \in Places : ~Registering(p) /\ ~Blank(p)
    BY <2>1 DEF Registering, Blank
  <2>3. CASE conn[c].valid /\ TimedOut(c)
    <3>1. c \in Conns /\ mcur \in Places /\ CloseUpdate(c, mcur)
      BY <1>7, <2>1, <2>3 DEF CloseIfTimedOut, CloseUpdate, IInv, MainInv, TypeOK
    <3>2. /\ ~conn'[c].valid /\ \A d \in Conns : d # c => conn'[d] = conn[d]
      BY <3>1, CloseFacts
    <3>3. \A d \in Conns : d # c => epoll'[d] = epoll[d]
      BY <3>1 DEF CloseUpdate, Deregistered, IInv, TypeOK
    <3>4. \A w \in Workers : wpc'[w] = "wait" => batch'[w] = <<>>
      BY <1>0 DEF ArmInv
    <3>5. ASSUME NEW p \in Live' PROVE ArmedAt(p)'
      <4>1. p \in Places /\ u_conn[p] # NoConn /\ conn'[u_conn[p]].valid /\ u_conn[p] \in Conns
        BY <2>1 DEF Live, IInv, TypeOK
      <4>2. u_conn[p] # c /\ conn'[u_conn[p]] = conn[u_conn[p]] /\ epoll'[u_conn[p]] = epoll[u_conn[p]]
        BY <4>1, <3>2, <3>3
      <4>3. p \in Live
        BY <4>1, <4>2 DEF Live
      <4>4. (HasEvent(p) => HasEvent(p)') /\ (Arming(p) => Arming(p)')
        BY <1>0 DEF HasEvent, Arming, place
      <4> QED BY <2>1, <2>2, <4>1, <4>2, <4>3, <4>4, KeptArmed DEF ArmInv
    <3> QED BY <3>4, <3>5 DEF ArmInv
  <2>4. CASE ~(conn[c].valid /\ TimedOut(c))
    <3>1. UNCHANGED <<conn, epoll>>
      BY <1>7, <2>4 DEF CloseIfTimedOut
    <3> QED BY <1>0, <2>1, <2>2, <3>1, QuietStep
  <2> QED BY <2>3, <2>4
<1> QED BY <1>0, <1>1, <1>3, <1>4, <1>5, <1>6, <1>7 DEF MainNext

\* Clients, time and close() touch no registration.
LEMMA WorldArmed == ASSUME IInv, ArmInv, World PROVE ArmInv'
<1>1. UNCHANGED <<mpc, mcur, u_conn, epoll, wpc, batch>>
  BY DEF World, EnvNext, ClientNext, Connect, SendWhole, SendPart, SendRest, SendBad, Receive, Fin,
         Rst, Tick, Shutdown, mainVars, poolVars, workerVars
<1>2. \A d \in Conns : conn'[d].option = conn[d].option /\ conn'[d].valid = conn[d].valid
  <2>1. CASE Tick
    <3>1. conn' = [c \in Conns |-> IF conn[c].valid /\ conn[c].age < MaxAge
                                   THEN [conn[c] EXCEPT !.age = @ + 1] ELSE conn[c]]
      BY <2>1 DEF Tick
    <3>2. conn \in [Conns -> ConnFields]
      BY DEF IInv, TypeOK
    <3>3. ASSUME NEW r \in ConnFields, NEW n
          PROVE  [r EXCEPT !.age = n].option = r.option /\ [r EXCEPT !.age = n].valid = r.valid
      BY DEF ConnFields
    <3> QED BY <3>1, <3>2, <3>3
  <2>2. CASE ~Tick
    <3>1. UNCHANGED conn
      BY <2>2 DEF World, EnvNext, ClientNext, Connect, SendWhole, SendPart, SendRest, SendBad,
                  Receive, Fin, Rst, Shutdown
    <3> QED BY <3>1
  <2> QED BY <2>1, <2>2
<1>3. \A p \in Places : (Registering(p) => Registering(p)') /\ (Blank(p) => Blank(p)')
  BY <1>1 DEF Registering, Blank
<1> QED BY <1>1, <1>2, <1>3, QuietStep


\* The end of an event: the other events of the batch stay, so only the place of
\* the event has to be seen to.
LEMMA ReleaseArmed ==
  ASSUME IInv, ArmInv, NEW w \in Workers, wpc[w] \in {"check", "read", "write", "arm"},
         NextEvent(w), UNCHANGED <<mpc, mcur, u_conn>>,
         \A d \in Conns : d # u_conn[place(w)] => conn'[d] = conn[d] /\ epoll'[d] = epoll[d],
         NEW l \in Places, l = place(w), l \in Live' => ArmedAt(l)'
  PROVE  ArmInv'
<1> DEFINE t == Tail(batch[w])
<1>1. /\ batch[w] \in Seq(Event) /\ batch[w] # <<>> /\ place(w) \in Places
      /\ u_conn[place(w)] \in Conns
  BY PlaceType
<1>2. /\ 1 \in DOMAIN batch[w] /\ place(w) = batch[w][1].place
      /\ Len(batch[w]) \in Nat \ {0} /\ DOMAIN t = 1..(Len(batch[w]) - 1)
      /\ DOMAIN batch[w] = 1..Len(batch[w]) /\ t \in Seq(Event)
      /\ \A i \in DOMAIN t : i + 1 \in DOMAIN batch[w] /\ t[i] = batch[w][i + 1]
  BY <1>1, HeadTail DEF place
<1>3. /\ wpc' = [wpc EXCEPT ![w] = IF Len(batch[w]) = 1 THEN "wait" ELSE "lock"]
      /\ batch' = [batch EXCEPT ![w] = t]
      /\ wpc \in [Workers -> WorkerPcs] /\ batch \in [Workers -> Seq(Event)]
  BY DEF NextEvent, IInv, TypeOK
<1>4. Len(batch[w]) = 1 => t = <<>>
  <2>1. Len(batch[w]) = 1 => DOMAIN t = 1..0 /\ Len(t) = 0
    BY <1>2
  <2> QED BY <1>2, <2>1
<1> HIDE DEF t
<1>5. batch'[w] = t /\ (wpc'[w] = "wait" => t = <<>>)
  BY <1>3, <1>4
<1>6. \A v \in Workers : v # w => wpc'[v] = wpc[v] /\ batch'[v] = batch[v]
  BY <1>3
<1>7. \A v \in Workers : wpc'[v] = "wait" => batch'[v] = <<>>
  BY <1>5, <1>6 DEF ArmInv
<1>8. ASSUME NEW p \in Live', p # l PROVE ArmedAt(p)'
  <2>1. p \in Places /\ u_conn[p] # NoConn /\ conn'[u_conn[p]].valid /\ u_conn[p] \in Conns
    BY DEF Live, IInv, TypeOK
  <2>2. u_conn[p] # u_conn[place(w)]
    BY <1>1, <1>8, <2>1 DEF IInv, PlacedOnce
  <2>3. conn'[u_conn[p]] = conn[u_conn[p]] /\ epoll'[u_conn[p]] = epoll[u_conn[p]]
    BY <2>1, <2>2
  <2>4. p \in Live
    BY <2>1, <2>3 DEF Live
  <2>5. HasEvent(p) => HasEvent(p)'
    <3> SUFFICES ASSUME HasEvent(p) PROVE HasEvent(p)'
      OBVIOUS
    <3>1. PICK v \in Workers : \E i \in DOMAIN batch[v] : batch[v][i].place = p
      BY DEF HasEvent
    <3>2. PICK i \in DOMAIN batch[v] : batch[v][i].place = p
      BY <3>1
    <3>3. CASE v # w
      BY <3>2, <3>3, <1>6 DEF HasEvent
    <3>4. CASE v = w
      <4>1. i # 1 /\ i \in 1..Len(batch[w])
        BY <3>2, <3>4, <1>2, <1>8
      <4>2. i - 1 \in DOMAIN t /\ (i - 1) + 1 = i
        BY <4>1, <1>2
      <4>3. t[i - 1].place = p
        BY <4>2, <3>2, <3>4, <1>2
      <4> QED BY <4>2, <4>3, <1>5 DEF HasEvent
    <3> QED BY <3>3, <3>4
  <2>6. Arming(p) => Arming(p)'
    BY <1>6, <1>8 DEF Arming, place
  <2>7. (Registering(p) => Registering(p)') /\ (Blank(p) => Blank(p)')
    BY DEF Registering, Blank
  <2> QED BY <2>1, <2>3, <2>4, <2>5, <2>6, <2>7, KeptArmed DEF ArmInv
<1> QED BY <1>7, <1>8 DEF ArmInv

\* subscribe at the end of a handler: the new option names an event, so that the
\* one-shot registration is armed, or the main thread is yet to register.
LEMMA ModArmed ==
  ASSUME IInv, ArmInv, NEW w \in Workers, wpc[w] \in {"read", "write", "arm"},
         NEW opt \in SUBSET Option, "ET_ONESHOT" \in opt,
         opt # {"ET_ONESHOT"} \/ Blank(place(w)),
         conn' = [conn EXCEPT ![wconn[w]].option = opt],
         EpollMod(wconn[w], opt), NextEvent(w), UNCHANGED <<mpc, mcur, u_conn>>,
         NEW p \in Places, p = place(w)
  PROVE  ArmInv'
<1> DEFINE c == wconn[w]
           a == opt \ {"ET_ONESHOT"}
<1>1. /\ c \in Conns /\ c = u_conn[p] /\ conn[c].valid
      /\ conn \in [Conns -> ConnFields] /\ epoll \in [Conns -> Registration]
  BY Handling
<1>2. conn'[c].option = opt /\ \A d \in Conns : d # c => conn'[d] = conn[d]
  BY <1>1 DEF ConnFields
<1>3. /\ epoll[c].added => epoll'[c].added /\ epoll'[c].armed = a
      /\ ~epoll[c].added => epoll' = epoll
      /\ \A d \in Conns : d # c => epoll'[d] = epoll[d]
  <2>1. CASE epoll[c].added
    <3>1. epoll' = [epoll EXCEPT ![c] = [epoll[c] EXCEPT !.armed = a]]
      BY <1>1, <2>1 DEF EpollMod
    <3>2. [epoll[c] EXCEPT !.armed = a].added = epoll[c].added
          /\ [epoll[c] EXCEPT !.armed = a].armed = a
      BY <1>1 DEF Registration
    <3> QED BY <1>1, <2>1, <3>1, <3>2
  <2>2. CASE ~epoll[c].added
    BY <1>1, <2>2 DEF EpollMod
  <2> QED BY <2>1, <2>2
<1>4. p \in Live
  BY <1>1, PlaceType DEF Live
<1>5. epoll[c].added \/ Registering(p)
  BY <1>1, <1>4 DEF ArmInv, ArmedAt
<1>6. (Registering(p) => Registering(p)') /\ (Blank(p) => Blank(p)') /\ (Blank(p) => Registering(p))
  BY DEF Registering, Blank
<1>7. a # {} \/ Blank(p)
  OBVIOUS
<1> HIDE DEF a
<1>8. u_conn'[p] = c
  BY <1>1
<1>9. ArmedAt(p)'
  <2>1. epoll'[c].added \/ Registering(p)'
    BY <1>3, <1>5, <1>6
  <2>2. epoll'[c].armed # {} \/ Registering(p)'
    BY <1>3, <1>5, <1>6, <1>7
  <2>3. opt # {"ET_ONESHOT"} \/ Blank(p)'
    BY <1>6
  <2> QED BY <1>2, <1>8, <2>1, <2>2, <2>3 DEF ArmedAt
<1> QED BY <1>1, <1>2, <1>3, <1>9, ReleaseArmed

\* A step inside a handler that leaves the registration and, unless it empties
\* the option on its way to "arm", an event to wait for.
LEMMA OptionArmed ==
  ASSUME IInv, ArmInv, NEW w \in Workers, wpc[w] \in {"read", "write"},
         UNCHANGED <<mpc, mcur, u_conn, epoll, batch>>,
         wpc' = [wpc EXCEPT ![w] = "arm"],
         NEW r \in ConnFields, conn' = [conn EXCEPT ![wconn[w]] = r],
         "ET_ONESHOT" \in r.option
  PROVE  ArmInv'
<1> DEFINE c == wconn[w]
           p == place(w)
<1>1. /\ c \in Conns /\ c = u_conn[p] /\ conn[c].valid /\ conn \in [Conns -> ConnFields]
      /\ p \in Places /\ wpc \in [Workers -> WorkerPcs]
  BY Handling, PlaceType DEF IInv, TypeOK
<1>2. /\ conn'[c] = r /\ \A d \in Conns : d # c => conn'[d] = conn[d]
      /\ wpc'[w] = "arm" /\ \A v \in Workers : v # w => wpc'[v] = wpc[v]
  BY <1>1
<1>3. \A v \in Workers : wpc'[v] = "wait" => batch'[v] = <<>>
  BY <1>2 DEF ArmInv
<1>4. ASSUME NEW q \in Live' PROVE ArmedAt(q)'
  <2>1. q \in Places /\ u_conn[q] # NoConn /\ conn'[u_conn[q]].valid /\ u_conn[q] \in Conns
    BY DEF Live, IInv, TypeOK
  <2>2. /\ HasEvent(q) => HasEvent(q)'
        /\ Registering(q) => Registering(q)'
        /\ Blank(q) => Blank(q)'
    BY DEF HasEvent, Registering, Blank
  <2>3. CASE q = p
    <3>1. ArmedAt(q)
      BY <1>1, <2>1, <2>3 DEF ArmInv, Live
    <3>2. Arming(q)'
      BY <1>2, <2>3 DEF Arming, place
    <3> QED BY <1>1, <1>2, <2>2, <2>3, <3>1, <3>2 DEF ArmedAt
  <2>4. CASE q # p
    <3>1. u_conn[q] # c
      BY <1>1, <2>1, <2>4 DEF IInv, PlacedOnce
    <3>2. conn'[u_conn[q]] = conn[u_conn[q]]
      BY <1>2, <2>1, <3>1
    <3>3. q \in Live
      BY <2>1, <3>2 DEF Live
    <3>4. Arming(q) => Arming(q)'
      BY <1>2 DEF Arming, place
    <3> QED BY <2>1, <2>2, <3>2, <3>3, <3>4, KeptArmed DEF ArmInv
  <2> QED BY <2>3, <2>4
<1> QED BY <1>3, <1>4 DEF ArmInv

\* Every step of HttpWorker::work: it takes an event of what it disarms, and ends
\* an event by a subscription or on a closed connection.
LEMMA WorkerArmed == ASSUME IInv, ArmInv, NEW w \in Workers, Worker(w) PROVE ArmInv'
<1> USE ConstantsAssumption
<1> DEFINE c == wconn[w]
<1>1. CASE EpollWait(w)
  <2>1. PICK b \in Batches :
           /\ batch' = [batch EXCEPT ![w] = b]
           /\ epoll' = [d \in Conns |-> IF \E i \in DOMAIN b : u_conn[b[i].place] = d
                                        THEN [epoll[d] EXCEPT !.armed = {}] ELSE epoll[d]]
    BY <1>1 DEF EpollWait
  <2>2. /\ wpc[w] = "wait" /\ wpc' = [wpc EXCEPT ![w] = "lock"] /\ ReadyPlaces # {}
        /\ UNCHANGED <<mpc, mcur, u_conn, conn>>
    BY <1>1 DEF EpollWait, mainVars, poolVars
  <2>3. /\ wpc'[w] = "lock" /\ batch'[w] = b /\ batch[w] = <<>>
        /\ \A v \in Workers : v # w => wpc'[v] = wpc[v] /\ batch'[v] = batch[v]
    BY <2>1, <2>2 DEF IInv, TypeOK, ArmInv
  <2>4. \A i \in DOMAIN b : b[i].place \in Live
    BY <2>2, BatchFacts
  <2>5. \A v \in Workers : wpc'[v] = "wait" => batch'[v] = <<>>
    BY <2>3 DEF ArmInv
  <2>6. ASSUME NEW p \in Live' PROVE ArmedAt(p)'
    <3>1. p \in Live
      BY <2>2 DEF Live
    <3>2. p \in Places /\ u_conn[p] \in Conns /\ u_conn[p] # NoConn /\ ArmedAt(p)
      BY <3>1, LiveType DEF ArmInv
    <3>3. HasEvent(p) => HasEvent(p)'
      <4> SUFFICES ASSUME HasEvent(p) PROVE HasEvent(p)'
        OBVIOUS
      <4>1. PICK v \in Workers : \E i \in DOMAIN batch[v] : batch[v][i].place = p
        BY DEF HasEvent
      <4>2. v # w
        BY <4>1, <2>3
      <4> QED BY <4>1, <4>2, <2>3 DEF HasEvent
    <3>4. /\ Arming(p) => Arming(p)'
          /\ Registering(p) => Registering(p)'
          /\ Blank(p) => Blank(p)'
      BY <2>2, <2>3 DEF Arming, place, Registering, Blank
    <3>5. CASE \E i \in DOMAIN b : u_conn[b[i].place] = u_conn[p]
      <4>1. PICK i \in DOMAIN b : u_conn[b[i].place] = u_conn[p]
        BY <3>5
      <4>2. b[i].place = p
        BY <4>1, <2>4, <3>2, LiveType DEF IInv, PlacedOnce
      <4>3. HasEvent(p)'
        BY <4>2, <2>3 DEF HasEvent
      <4>4. epoll'[u_conn[p]].added = epoll[u_conn[p]].added
        BY <2>1, <3>2, <3>5 DEF IInv, TypeOK, Registration
      <4> QED BY <2>2, <3>2, <3>4, <4>3, <4>4 DEF ArmedAt
    <3>6. CASE ~\E i \in DOMAIN b : u_conn[b[i].place] = u_conn[p]
      <4>1. epoll'[u_conn[p]] = epoll[u_conn[p]]
        BY <2>1, <3>2, <3>6
      <4> QED BY <2>2, <3>2, <3>3, <3>4, <4>1, KeptArmed
    <3> QED BY <3>5, <3>6
  <2> QED BY <2>5, <2>6 DEF ArmInv
<1>2. CASE \/ LockPlace(w) \/ StaleConn(w) \/ ResetActivity(w) \/ ReadToBuffer(w) \/ ReadReset(w)
           \/ WriteBlocked(w) \/ WriteReset(w)
  <2>1. UNCHANGED <<mpc, mcur, u_conn, epoll, batch>>
    BY <1>2 DEF LockPlace, StaleConn, ResetActivity, ReadToBuffer, ReadReset, WriteBlocked,
                WriteReset, mainVars, poolVars, workerVars
  <2>2. \A v \in Workers : /\ wpc'[v] = "wait" => wpc[v] = "wait"
                           /\ wpc[v] = "arm" => wpc'[v] = "arm"
    BY <1>2 DEF LockPlace, StaleConn, ResetActivity, ReadToBuffer, ReadReset, WriteBlocked,
                WriteReset, workerVars, IInv, TypeOK
  <2>3. \A d \in Conns : conn'[d].option = conn[d].option /\ conn'[d].valid = conn[d].valid
    <3>1. conn \in [Conns -> ConnFields]
      BY DEF IInv, TypeOK
    <3>2. CASE ResetActivity(w) \/ ReadToBuffer(w)
      <4>1. c \in Conns
        BY <3>2, Handling DEF ResetActivity, ReadToBuffer
      <4>2. \E r \in {[conn[c] EXCEPT !.age = 0],
                      [conn[c] EXCEPT !.read = Append(@, Head(peer[c].inbox))]} :
               conn' = [conn EXCEPT ![c] = r]
        BY <3>1, <3>2, <4>1 DEF ResetActivity, ReadToBuffer
      <4>3. ASSUME NEW n
            PROVE  /\ [conn[c] EXCEPT !.age = n].option = conn[c].option
                   /\ [conn[c] EXCEPT !.age = n].valid = conn[c].valid
                   /\ [conn[c] EXCEPT !.read = n].option = conn[c].option
                   /\ [conn[c] EXCEPT !.read = n].valid = conn[c].valid
        BY <3>1, <4>1 DEF ConnFields
      <4> QED BY <3>1, <4>1, <4>2, <4>3
    <3>3. CASE ~(ResetActivity(w) \/ ReadToBuffer(w))
      <4>1. UNCHANGED conn
        BY <1>2, <3>3 DEF LockPlace, StaleConn, ReadReset, WriteBlocked, WriteReset
      <4> QED BY <4>1
    <3> QED BY <3>2, <3>3
  <2>4. \A p \in Places : (Registering(p) => Registering(p)') /\ (Blank(p) => Blank(p)')
    BY <2>1 DEF Registering, Blank
  <2> QED BY <2>1, <2>2, <2>3, <2>4, QuietStep
<1>3. CASE SkipClosed(w)
  <2>1. /\ wpc[w] = "check" /\ NextEvent(w) /\ c = u_conn[place(w)] /\ ~conn[c].valid
        /\ UNCHANGED <<mpc, mcur, u_conn, conn, epoll>>
    BY <1>3 DEF SkipClosed, mainVars
  <2>2. PICK l \in Places : l = place(w)
    BY <2>1, PlaceType
  <2>3. l \notin Live'
    BY <2>1, <2>2 DEF Live
  <2> QED BY <2>1, <2>2, <2>3, ReleaseArmed
<1>4. CASE ReadEnd(w) \/ RequestIncorrect(w) \/ CloseDone(w)
  <2> DEFINE p == place(w)
             d == u_conn[p]
  <2>1. /\ wpc[w] \in {"read", "write", "arm"} /\ CloseClient(p) /\ NextEvent(w)
        /\ UNCHANGED <<mpc, mcur, u_conn>>
    BY <1>4 DEF ReadEnd, RequestIncorrect, ReadDone, CloseDone, mainVars
  <2>2. p \in Places /\ d \in Conns /\ conn[d].valid
    BY <2>1, PlaceType, Handling
  <2>3. CloseUpdate(d, p)
    BY <2>1, <2>2 DEF CloseClient, CloseUpdate
  <2>4. ~conn'[d].valid /\ \A e \in Conns : e # d => conn'[e] = conn[e]
    BY <2>2, <2>3, CloseFacts
  <2>5. \A e \in Conns : e # d => epoll'[e] = epoll[e]
    BY <2>3 DEF CloseUpdate, Deregistered, IInv, TypeOK
  <2>6. PICK l \in Places : l = place(w)
    BY <2>2
  <2>7. l \notin Live'
    BY <2>1, <2>4, <2>6 DEF Live
  <2> QED BY <2>1, <2>4, <2>5, <2>6, <2>7, ReleaseArmed
<1>5. CASE RequestIncomplete(w)
  <2> DEFINE opt == conn[c].option \cup {"READ", "ET_ONESHOT"}
  <2>1. /\ wpc[w] \in {"read", "write", "arm"} /\ NextEvent(w)
        /\ conn' = [conn EXCEPT ![c].option = opt] /\ EpollMod(c, opt)
        /\ UNCHANGED <<mpc, mcur, u_conn>>
    BY <1>5 DEF RequestIncomplete, ReadDone, mainVars
  <2>2. conn[c].option \in SUBSET Option /\ place(w) \in Places
    BY <2>1, Handling, PlaceType DEF ConnFields
  <2>3. opt \in SUBSET Option /\ "ET_ONESHOT" \in opt
    BY <2>2 DEF Option
  <2>4. "READ" \in opt /\ "READ" # "ET_ONESHOT"
    OBVIOUS
  <2>5. opt # {"ET_ONESHOT"}
    BY <2>4
  <2> HIDE DEF opt
  <2> QED BY <2>1, <2>2, <2>3, <2>5, ModArmed
<1>6. CASE Rearm(w)
  <2> DEFINE opt == conn[c].option \cup {"ET_ONESHOT"}
  <2>1. /\ wpc[w] = "arm" /\ NextEvent(w) /\ conn[c].option # {"ET_ONESHOT"}
        /\ conn' = [conn EXCEPT ![c].option = opt] /\ EpollMod(c, opt)
        /\ UNCHANGED <<mpc, mcur, u_conn>>
    BY <1>6 DEF Rearm, mainVars
  <2>2. c = u_conn[place(w)] /\ place(w) \in Live /\ conn[c].option \in SUBSET Option
    BY <2>1, Handling, PlaceType DEF ConnFields, Live
  <2>3. "ET_ONESHOT" \in conn[c].option \/ Blank(place(w))
    BY <2>2 DEF ArmInv, ArmedAt
  <2>4. opt \in SUBSET Option /\ "ET_ONESHOT" \in opt
    BY <2>2 DEF Option
  <2>5. opt # {"ET_ONESHOT"} \/ Blank(place(w))
    BY <2>1, <2>3
  <2> HIDE DEF opt
  <2> QED BY <2>1, <2>2, <2>4, <2>5, LiveType, ModArmed
<1>7. CASE HandleRequest(w)
  <2> DEFINE req == conn[c].read[1]
             o   == (IF req.ka THEN conn[c].option ELSE conn[c].option \ {"READ"}) \cup {"WRITE", "ET_ONESHOT"}
             r   == [conn[c] EXCEPT !.keep_alive = req.ka, !.write = Response(req.id),
                       !.read = IF req.ka THEN <<>> ELSE conn[c].read, !.option = o]
  <2>1. /\ wpc[w] = "read" /\ wpc' = [wpc EXCEPT ![w] = "arm"]
        /\ UNCHANGED <<mpc, mcur, u_conn, epoll, batch>>
    BY <1>7 DEF HandleRequest, ReadDone, mainVars, poolVars
  <2>2. c \in Conns /\ conn \in [Conns -> ConnFields] /\ conn[c] \in ConnFields
    BY <2>1, Handling
  <2>3. conn' = [conn EXCEPT ![c] = r]
    BY <1>7, <2>2 DEF HandleRequest
  <2>4. conn' \in [Conns -> ConnFields]
    BY WorkerStep DEF IInv, TypeOK
  <2>5. conn'[c] = r
    BY <2>2, <2>3
  <2>6. r \in ConnFields
    BY <2>2, <2>4, <2>5
  <2>7. "ET_ONESHOT" \in o
    OBVIOUS
  <2> HIDE DEF o
  <2>8. r.option = o
    BY <2>2 DEF ConnFields
  <2> HIDE DEF r
  <2> QED BY <2>1, <2>3, <2>6, <2>7, <2>8, OptionArmed
<1>8. CASE WriteFromBuffer(w)
  <2>1. /\ wpc[w] = "write" /\ UNCHANGED <<mpc, mcur, u_conn, epoll, batch>>
    BY <1>8 DEF WriteFromBuffer, mainVars, poolVars
  <2>2. c \in Conns /\ conn \in [Conns -> ConnFields] /\ conn[c] \in ConnFields
    BY <2>1, Handling
  <2>3. conn' \in [Conns -> ConnFields]
    BY WorkerStep DEF IInv, TypeOK
  <2> DEFINE o == (conn[c].option \ {"WRITE"}) \cup {"ET_ONESHOT"}
             r == [conn[c] EXCEPT !.write = <<>>, !.option = o]
             room == IF Len(peer[c].wire) < Window THEN Window - Len(peer[c].wire) ELSE 0
             n == IF Len(conn[c].write) < room THEN Len(conn[c].write) ELSE room
             rest == SubSeq(conn[c].write, n + 1, Len(conn[c].write))
  <2>4. \/ conn' = [conn EXCEPT ![c] = r] /\ wpc' = [wpc EXCEPT ![w] = "arm"]
        \/ conn' = [conn EXCEPT ![c] = [conn[c] EXCEPT !.write = rest]] /\ wpc' = wpc
    BY <1>8, <2>2 DEF WriteFromBuffer
  <2> HIDE DEF rest, n, room
  <2>5. CASE conn' = [conn EXCEPT ![c] = r] /\ wpc' = [wpc EXCEPT ![w] = "arm"]
    <3>1. r \in ConnFields
      BY <2>2, <2>3, <2>5
    <3>2. "ET_ONESHOT" \in o
      OBVIOUS
    <3> HIDE DEF o
    <3>3. r.option = o
      BY <2>2 DEF ConnFields
    <3> HIDE DEF r
    <3> QED BY <2>1, <2>5, <3>1, <3>2, <3>3, OptionArmed
  <2>6. ASSUME NEW s, conn' = [conn EXCEPT ![c] = [conn[c] EXCEPT !.write = s]], wpc' = wpc
        PROVE  ArmInv'
    <3>1. \A d \in Conns : conn'[d].option = conn[d].option /\ conn'[d].valid = conn[d].valid
      BY <2>2, <2>6 DEF ConnFields
    <3>2. \A p \in Places : (Registering(p) => Registering(p)') /\ (Blank(p) => Blank(p)')
      BY <2>1 DEF Registering, Blank
    <3> QED BY <2>1, <2>6, <3>1, <3>2, QuietStep
  <2> QED BY <2>4, <2>5, <2>6
<1> QED
  BY <1>1, <1>2, <1>3, <1>4, <1>5, <1>6, <1>7, <1>8 DEF Worker, WorkerNext

\* Every open connection is registered, keeps ET_ONESHOT and an event to wait for
\* in its option, and is armed, each as soon as the main thread has come to it
\* (HttpService::run) and unless a worker is to see to it (HttpWorker::work); a
\* worker in epoll_wait has no event left.
THEOREM ArmInvariance == Spec => []ArmInv
<1>1. Init => ArmInv
  BY InitArmed
<1>2. IInv /\ ArmInv /\ [Next]_vars => ArmInv'
  <2> SUFFICES ASSUME IInv, ArmInv, [Next]_vars PROVE ArmInv'
    OBVIOUS
  <2>1. CASE UNCHANGED vars
    <3>1. UNCHANGED <<mpc, mcur, u_conn, epoll, conn, wpc, batch>>
      BY <2>1 DEF vars, coreVars, mainVars, poolVars, workerVars
    <3> QED BY <3>1, QuietStep DEF Registering, Blank
  <2> QED BY <2>1, MainArmed, WorldArmed, WorkerArmed DEF Next
<1> QED BY <1>1, <1>2, Invariance, PTL DEF Spec

\* No wake-up is lost, for any number of workers, connections and places and
\* whatever the clients do: an open connection is armed in epoll, or a worker has
\* an event for it, or the main thread is about to register it.
THEOREM NoWakeupLost == Spec => []ArmedOrOwned
<1>1. ArmInv => ArmedOrOwned
  BY DEF ArmInv, ArmedAt, ArmedOrOwned
<1> QED BY <1>1, ArmInvariance, PTL

=============================================================================
