--------------------------- MODULE HttpCalmProofs ---------------------------
(***************************************************************************)
(* Proofs about HttpService when nothing times out and no client resets:   *)
(* then EPOLLONESHOT leaves at most one event per place, no event outlives *)
(* its connection, and the server does not crash; if no client pipelines   *)
(* either, every response arrives whole, once and in order.                *)
(***************************************************************************)
EXTENDS HttpServiceProofs, SequenceFacts

-----------------------------------------------------------------------------
(* timeod_ and the batches of events.                                      *)

\* The splice of a place to the end of timeod_ loses no place.
LEMMA MoveToBackKeeps ==
  ASSUME NEW S, NEW s \in Seq(S), NEW p \in ToSet(s), NEW x \in ToSet(s)
  PROVE  x \in ToSet(MoveToBack(s, p))
<1> DEFINE i == CHOOSE k \in DOMAIN s : s[k] = p
           a == SubSeq(s, 1, i - 1)
           b == SubSeq(s, i + 1, Len(s))
           r == a \o b
<1>1. i \in DOMAIN s /\ s[i] = p /\ p \in S
  <2>1. \E k \in DOMAIN s : s[k] = p
    BY DEF ToSet
  <2> QED BY <2>1
<1>2. MoveToBack(s, p) = Append(r, p)
  BY DEF MoveToBack, RemoveAt
<1> HIDE DEF i
<1>3. /\ Len(s) \in Nat /\ i \in 1..Len(s) /\ DOMAIN s = 1..Len(s)
  BY <1>1
<1>4. /\ a \in Seq(S) /\ Len(a) = i - 1 /\ \A j \in 1..(i - 1) : a[j] = s[j]
      /\ b \in Seq(S) /\ Len(b) = Len(s) - i /\ \A j \in 1..(Len(s) - i) : b[j] = s[i + j]
  <2>1. i - 1 \in 0..Len(s) /\ i \in 0..Len(s)
    BY <1>3
  <2> QED BY <2>1, SplitFacts
<1> HIDE DEF a, b
<1>5. /\ r \in Seq(S) /\ Len(r) = Len(a) + Len(b)
      /\ \A j \in 1..Len(a) : r[j] = a[j]
      /\ \A j \in (Len(a) + 1)..(Len(a) + Len(b)) : r[j] = b[j - Len(a)]
  BY <1>4, ConcatFacts, ZenonT(40)
<1> HIDE DEF r
<1>6. ToSet(Append(r, p)) = ToSet(r) \cup {p}
  BY <1>1, <1>5, AppendElements
<1>7. x = p \/ x \in ToSet(r)
  <2>1. PICK k \in DOMAIN s : s[k] = x
    BY DEF ToSet
  <2>2. CASE k < i
    <3>1. k \in 1..(i - 1) /\ k \in 1..Len(a) /\ k \in 1..Len(r)
      BY <2>2, <1>3, <1>4, <1>5
    <3>2. r[k] = x
      BY <3>1, <2>1, <1>4, <1>5
    <3>3. k \in DOMAIN r
      BY <3>1, <1>5
    <3> QED BY <3>2, <3>3 DEF ToSet
  <2>3. CASE k = i
    BY <2>1, <2>3, <1>1
  <2>4. CASE k > i
    <3>1. /\ k - 1 \in (Len(a) + 1)..(Len(a) + Len(b)) /\ k - 1 \in 1..Len(r)
          /\ (k - 1) - Len(a) = k - i /\ k - i \in 1..(Len(s) - i) /\ i + (k - i) = k
      BY <2>4, <1>3, <1>4, <1>5
    <3>2. r[k - 1] = b[k - i] /\ b[k - i] = s[k]
      BY <3>1, <1>4, <1>5
    <3>3. k - 1 \in DOMAIN r
      BY <3>1, <1>5
    <3> QED BY <3>2, <3>3, <2>1 DEF ToSet
  <2> QED BY <2>2, <2>3, <2>4, <1>3
<1> QED BY <1>2, <1>6, <1>7

\* One epoll_wait reports a place once, and only if it is armed.
LEMMA BatchDistinct ==
  ASSUME NEW b \in Batches
  PROVE  /\ \A i, j \in DOMAIN b : b[i].place = b[j].place => i = j
         /\ \A i \in DOMAIN b : b[i].place \in Live /\ epoll[u_conn[b[i].place]].armed # {}
<1> DEFINE n == IF Cardinality(ReadyPlaces) < MaxEvents
                THEN Cardinality(ReadyPlaces) ELSE MaxEvents
<1>1. PICK f \in [1..n -> ReadyPlaces] :
         /\ \A i, j \in 1..n : f[i] = f[j] => i = j
         /\ b = [i \in 1..n |-> [place |-> f[i], bits |-> ReadyBits(f[i])]]
  BY DEF Batches
<1> HIDE DEF n
<1>2. DOMAIN b = 1..n /\ \A i \in 1..n : b[i].place = f[i] /\ f[i] \in ReadyPlaces
  BY <1>1
<1>3. ASSUME NEW q \in ReadyPlaces PROVE q \in Live /\ epoll[u_conn[q]].armed # {}
  <2>1. ReadyBits(q) # {}
    BY DEF ReadyPlaces
  <2> QED BY <2>1 DEF ReadyBits
<1> QED BY <1>1, <1>2, <1>3


-----------------------------------------------------------------------------
(* Events: OneEvent and EventsFresh.                                       *)

\* A step that takes and ends no event, opens, closes and arms nothing.
LEMMA QuietEvents ==
  ASSUME IInv, OneEvent, EventsFresh, UNCHANGED <<u_conn, epoll, batch, wconn>>,
         \A d \in Conns : conn[d].valid => conn'[d].valid,
         \A w \in Workers : wpc'[w] = "check" => wpc[w] = "check",
         \A p \in Places : Registering(p)' => Registering(p)
  PROVE  OneEvent' /\ EventsFresh'
<1>1. OneEvent'
  BY DEF OneEvent
<1>2. \A p \in Places : HasEvent(p)' <=> HasEvent(p)
  BY DEF HasEvent
<1>3. \A p \in Live : p \in Live' /\ p \in Places
  BY LiveType DEF Live
<1>4. \A p \in Places : HasEvent(p)' => p \in Live' /\ ~Registering(p)'
  BY <1>2, <1>3 DEF EventsFresh
<1>5. ASSUME NEW c \in Conns, epoll'[c].armed # {}
      PROVE  \E p \in Live' : u_conn'[p] = c /\ ~HasEvent(p)' /\ ~Registering(p)'
  <2>1. PICK p \in Live : u_conn[p] = c /\ ~HasEvent(p) /\ ~Registering(p)
    BY <1>5 DEF EventsFresh
  <2> QED BY <2>1, <1>2, <1>3
<1>6. \A w \in Workers : wpc'[w] = "check" => wconn'[w] = u_conn'[place(w)']
  BY DEF EventsFresh, place
<1> QED BY <1>1, <1>4, <1>5, <1>6 DEF EventsFresh

\* A new connection goes into a place without events, which is not armed.
LEMMA PlaceEvents ==
  ASSUME IInv, OneEvent, EventsFresh, NEW q \in Places, q \notin Live,
         u_conn' = [u_conn EXCEPT ![q] = mnew], conn' = [conn EXCEPT ![mnew] = FreshConn],
         mpc \in {"replace", "emplace"}, mcur' = q, UNCHANGED <<epoll, wpc, batch, wconn>>
  PROVE  OneEvent' /\ EventsFresh'
<1>1. OneEvent'
  BY DEF OneEvent
<1>2. \A p \in Places : HasEvent(p)' <=> HasEvent(p)
  BY DEF HasEvent
<1>3. \A p \in Places : p # q => ~Registering(p)'
  BY DEF Registering
<1>4. ASSUME NEW p \in Live
      PROVE  p \in Places /\ p # q /\ u_conn'[p] = u_conn[p] /\ p \in Live'
  <2>1. p \in Places /\ u_conn[p] \in Conns /\ conn[u_conn[p]].valid /\ u_conn[p] # NoConn /\ p # q
    BY LiveType DEF Live
  <2>2. mnew \in Conns /\ u_conn[p] # mnew
    BY <2>1 DEF IInv, MainInv, FreshInv
  <2>3. u_conn'[p] = u_conn[p] /\ conn'[u_conn[p]] = conn[u_conn[p]]
    BY <2>1, <2>2 DEF IInv, TypeOK
  <2> QED BY <2>1, <2>3 DEF Live
<1>5. \A p \in Places : HasEvent(p)' => p \in Live' /\ ~Registering(p)'
  BY <1>2, <1>3, <1>4 DEF EventsFresh
<1>6. ASSUME NEW c \in Conns, epoll'[c].armed # {}
      PROVE  \E p \in Live' : u_conn'[p] = c /\ ~HasEvent(p)' /\ ~Registering(p)'
  <2>1. PICK p \in Live : u_conn[p] = c /\ ~HasEvent(p) /\ ~Registering(p)
    BY <1>6 DEF EventsFresh
  <2> QED BY <2>1, <1>2, <1>3, <1>4
<1>7. ASSUME NEW w \in Workers, wpc'[w] = "check" PROVE wconn'[w] = u_conn'[place(w)']
  <2>1. wpc[w] = "check" /\ wconn[w] = u_conn[place(w)]
    BY <1>7 DEF EventsFresh
  <2>2. place(w) \in Places /\ HasEvent(place(w))
    <3>1. place(w) \in Places /\ batch[w] \in Seq(Event) /\ batch[w] # <<>>
      BY <2>1, PlaceType
    <3>2. 1 \in DOMAIN batch[w] /\ batch[w][1].place = place(w)
      BY <3>1, HeadTail DEF place
    <3> QED BY <3>1, <3>2 DEF HasEvent
  <2>3. u_conn'[place(w)] = u_conn[place(w)]
    BY <2>2, <1>4 DEF EventsFresh
  <2> QED BY <2>1, <2>3 DEF place
<1> QED BY <1>1, <1>5, <1>6, <1>7 DEF EventsFresh

\* epoll_.add arms a connection that had no event and is registered now.
LEMMA AddEvents ==
  ASSUME IInv, OneEvent, EventsFresh, EpollAdd, UNCHANGED <<wpc, batch, wconn>>
  PROVE  OneEvent' /\ EventsFresh'
<1> DEFINE d == u_conn[mcur]
<1>1. /\ mpc = "add" /\ mpc' = "dump" /\ UNCHANGED <<mcur, u_conn, conn>>
      /\ \A c \in Conns : epoll'[c].armed # {} =>
            epoll[c].armed # {} \/ (c = d /\ conn[d].valid)
  <2>1. epoll \in [Conns -> Registration]
    BY DEF IInv, TypeOK
  <2> QED BY <2>1 DEF EpollAdd, poolVars
<1>2. OneEvent'
  BY DEF OneEvent
<1>3. \A p \in Places : (HasEvent(p)' <=> HasEvent(p)) /\ ~Registering(p)'
  BY <1>1 DEF HasEvent, Registering
<1>4. Live' = Live
  BY <1>1 DEF Live
<1>5. \A p \in Places : HasEvent(p)' => p \in Live' /\ ~Registering(p)'
  BY <1>3, <1>4 DEF EventsFresh
<1>6. ASSUME NEW c \in Conns, epoll'[c].armed # {}
      PROVE  \E p \in Live' : u_conn'[p] = c /\ ~HasEvent(p)' /\ ~Registering(p)'
  <2>1. CASE epoll[c].armed # {}
    <3>1. PICK p \in Live : u_conn[p] = c /\ ~HasEvent(p) /\ ~Registering(p)
      BY <2>1 DEF EventsFresh
    <3>2. p \in Places
      BY <3>1 DEF Live
    <3> QED BY <3>1, <3>2, <1>1, <1>3, <1>4
  <2>2. CASE c = d /\ conn[d].valid
    <3>1. mcur \in Places /\ d # NoConn
      BY <1>1 DEF IInv, TypeOK, MainInv
    <3>2. mcur \in Live /\ Registering(mcur)
      BY <3>1, <2>2, <1>1 DEF Live, Registering
    <3>3. PICK q \in Places : q = mcur
      BY <3>1
    <3>4. q \in Live' /\ ~HasEvent(q)' /\ ~Registering(q)' /\ u_conn'[q] = c
      BY <3>1, <3>2, <3>3, <2>2, <1>1, <1>3, <1>4 DEF EventsFresh
    <3> QED BY <3>4
  <2> QED BY <1>1, <1>6, <2>1, <2>2
<1>7. \A w \in Workers : wpc'[w] = "check" => wconn'[w] = u_conn'[place(w)']
  BY <1>1 DEF EventsFresh, place
<1> QED BY <1>2, <1>5, <1>6, <1>7 DEF EventsFresh

\* epoll_wait takes one event for each place it disarms.
LEMMA WaitEvents ==
  ASSUME IInv, ArmInv, OneEvent, EventsFresh, NEW w \in Workers, EpollWait(w)
  PROVE  OneEvent' /\ EventsFresh'
<1>1. PICK b \in Batches :
         /\ batch' = [batch EXCEPT ![w] = b]
         /\ epoll' = [d \in Conns |-> IF \E i \in DOMAIN b : u_conn[b[i].place] = d
                                      THEN [epoll[d] EXCEPT !.armed = {}] ELSE epoll[d]]
  BY DEF EpollWait
<1>2. /\ wpc[w] = "wait" /\ wpc' = [wpc EXCEPT ![w] = "lock"]
      /\ UNCHANGED <<mpc, mcur, u_conn, conn, wconn>>
  BY DEF EpollWait, mainVars, poolVars
<1>3. /\ wpc'[w] = "lock" /\ batch'[w] = b /\ batch[w] = <<>>
      /\ \A v \in Workers : v # w => wpc'[v] = wpc[v] /\ batch'[v] = batch[v]
  BY <1>1, <1>2 DEF IInv, TypeOK, ArmInv
<1>4. /\ \A i, j \in DOMAIN b : b[i].place = b[j].place => i = j
      /\ \A i \in DOMAIN b : b[i].place \in Live /\ epoll[u_conn[b[i].place]].armed # {}
  BY BatchDistinct
<1>5. ASSUME NEW i \in DOMAIN b
      PROVE  ~HasEvent(b[i].place) /\ ~Registering(b[i].place) /\ b[i].place \in Places
  <2>1. b[i].place \in Places /\ u_conn[b[i].place] \in Conns /\ epoll[u_conn[b[i].place]].armed # {}
    BY <1>4, LiveType
  <2>2. PICK p \in Live : /\ u_conn[p] = u_conn[b[i].place] /\ ~HasEvent(p) /\ ~Registering(p)
    BY <2>1 DEF EventsFresh
  <2>3. p = b[i].place
    BY <2>1, <2>2, ConstantsAssumption DEF IInv, PlacedOnce, Live
  <2> QED BY <2>1, <2>2, <2>3
<1>6. \A v \in Workers : v # w => \A i \in DOMAIN batch[v] : HasEvent(batch[v][i].place)
  BY DEF HasEvent
<1>7. OneEvent'
  <2> SUFFICES ASSUME NEW u \in Workers, NEW v \in Workers,
                      NEW i \in DOMAIN batch'[u], NEW j \in DOMAIN batch'[v],
                      batch'[u][i].place = batch'[v][j].place
               PROVE  u = v /\ i = j
    BY DEF OneEvent
  <2>1. CASE u = w /\ v = w
    BY <2>1, <1>3, <1>4
  <2>2. CASE u = w /\ v # w
    BY <2>2, <1>3, <1>5, <1>6
  <2>3. CASE u # w /\ v = w
    BY <2>3, <1>3, <1>5, <1>6
  <2>4. CASE u # w /\ v # w
    BY <2>4, <1>3 DEF OneEvent
  <2> QED BY <2>1, <2>2, <2>3, <2>4
<1>8. Live' = Live /\ \A p \in Places : Registering(p)' <=> Registering(p)
  BY <1>2 DEF Live, Registering
<1>9. ASSUME NEW p \in Places, HasEvent(p)'
      PROVE  HasEvent(p) \/ \E i \in DOMAIN b : b[i].place = p
  <2>1. PICK v \in Workers : \E i \in DOMAIN batch'[v] : batch'[v][i].place = p
    BY <1>9 DEF HasEvent
  <2>2. CASE v = w
    BY <2>1, <2>2, <1>3
  <2>3. CASE v # w
    BY <2>1, <2>3, <1>3 DEF HasEvent
  <2> QED BY <2>2, <2>3
<1>10. \A p \in Places : HasEvent(p)' => p \in Live' /\ ~Registering(p)'
  BY <1>4, <1>5, <1>8, <1>9 DEF EventsFresh
<1>11. ASSUME NEW c \in Conns, epoll'[c].armed # {}
       PROVE  \E p \in Live' : u_conn'[p] = c /\ ~HasEvent(p)' /\ ~Registering(p)'
  <2>1. epoll[c].armed # {} /\ ~\E i \in DOMAIN b : u_conn[b[i].place] = c
    BY <1>1, <1>11 DEF IInv, TypeOK, Registration
  <2>2. PICK p \in Live : u_conn[p] = c /\ ~HasEvent(p) /\ ~Registering(p)
    BY <2>1 DEF EventsFresh
  <2>3. p \in Places /\ ~HasEvent(p)'
    BY <2>1, <2>2, <1>9 DEF Live
  <2> QED BY <2>2, <2>3, <1>2, <1>8
<1>12. \A v \in Workers : wpc'[v] = "check" => wconn'[v] = u_conn'[place(v)']
  BY <1>2, <1>3 DEF EventsFresh, place
<1> QED BY <1>7, <1>10, <1>11, <1>12 DEF EventsFresh

\* The lock: u_conn is read under connection_mutex.
LEMMA LockEvents ==
  ASSUME IInv, OneEvent, EventsFresh, NEW w \in Workers, LockPlace(w)
  PROVE  OneEvent' /\ EventsFresh'
<1>1. /\ wpc' = [wpc EXCEPT ![w] = "check"] /\ wconn' = [wconn EXCEPT ![w] = u_conn[place(w)]]
      /\ UNCHANGED <<mpc, mcur, u_conn, conn, epoll, batch>>
  BY DEF LockPlace, mainVars
<1>2. /\ wconn'[w] = u_conn[place(w)]
      /\ \A v \in Workers : v # w => wpc'[v] = wpc[v] /\ wconn'[v] = wconn[v]
  BY <1>1 DEF IInv, TypeOK
<1>3. OneEvent'
  BY <1>1 DEF OneEvent
<1>4. Live' = Live /\ \A p \in Places : (HasEvent(p)' <=> HasEvent(p)) /\ (Registering(p)' <=> Registering(p))
  BY <1>1 DEF Live, HasEvent, Registering
<1>5. \A p \in Places : HasEvent(p)' => p \in Live' /\ ~Registering(p)'
  BY <1>4 DEF EventsFresh
<1>6. ASSUME NEW c \in Conns, epoll'[c].armed # {}
      PROVE  \E p \in Live' : u_conn'[p] = c /\ ~HasEvent(p)' /\ ~Registering(p)'
  <2>1. PICK p \in Live : u_conn[p] = c /\ ~HasEvent(p) /\ ~Registering(p)
    BY <1>1, <1>6 DEF EventsFresh
  <2> QED BY <2>1, <1>1, <1>4, LiveType
<1>7. \A v \in Workers : wpc'[v] = "check" => wconn'[v] = u_conn'[place(v)']
  BY <1>1, <1>2 DEF EventsFresh, place
<1> QED BY <1>3, <1>5, <1>6, <1>7 DEF EventsFresh

\* The end of an event: it was the only one of its place, so the place may be
\* closed or armed again.
LEMMA ReleaseEvents ==
  ASSUME IInv, OneEvent, EventsFresh, NEW w \in Workers,
         wpc[w] \in {"check", "read", "write", "arm"},
         NextEvent(w), UNCHANGED <<mpc, mcur, u_conn>>,
         NEW l \in Places, l = place(w),
         \A d \in Conns : d # u_conn[l] => conn'[d] = conn[d] /\ epoll'[d] = epoll[d],
         epoll'[u_conn[l]].armed # {} => conn'[u_conn[l]].valid
  PROVE  OneEvent' /\ EventsFresh'
<1> DEFINE t == Tail(batch[w])
<1>1. /\ batch[w] \in Seq(Event) /\ batch[w] # <<>>
      /\ u_conn[l] \in Conns /\ u_conn[l] # NoConn
  BY PlaceType
<1>2. /\ 1 \in DOMAIN batch[w] /\ l = batch[w][1].place
      /\ \A i \in DOMAIN t : i + 1 \in DOMAIN batch[w] /\ t[i] = batch[w][i + 1]
      /\ DOMAIN t = 1..(Len(batch[w]) - 1) /\ Len(batch[w]) \in Nat
  BY <1>1, HeadTail DEF place
<1>3. /\ wpc' = [wpc EXCEPT ![w] = IF Len(batch[w]) = 1 THEN "wait" ELSE "lock"]
      /\ batch' = [batch EXCEPT ![w] = t] /\ wconn' = [wconn EXCEPT ![w] = NoConn]
  BY DEF NextEvent
<1> HIDE DEF t
<1>4. /\ batch'[w] = t /\ wpc'[w] # "check"
      /\ \A v \in Workers : v # w => wpc'[v] = wpc[v] /\ batch'[v] = batch[v] /\ wconn'[v] = wconn[v]
  BY <1>3 DEF IInv, TypeOK
<1>5. ASSUME NEW v \in Workers, NEW i \in DOMAIN batch'[v]
      PROVE  \E k \in DOMAIN batch[v] : /\ batch'[v][i] = batch[v][k]
                                        /\ k = IF v = w THEN i + 1 ELSE i
                                        /\ batch[v][k].place # l
  <2> DEFINE k == IF v = w THEN i + 1 ELSE i
  <2>1. k \in DOMAIN batch[v] /\ batch'[v][i] = batch[v][k]
    BY <1>2, <1>4
  <2>2. ~(v = w /\ k = 1)
    BY <1>2, <1>4
  <2>3. batch[v][k].place # l
    BY <1>2, <2>1, <2>2 DEF OneEvent
  <2> QED BY <2>1, <2>3
<1>6. OneEvent'
  <2> SUFFICES ASSUME NEW u \in Workers, NEW v \in Workers,
                      NEW i \in DOMAIN batch'[u], NEW j \in DOMAIN batch'[v],
                      batch'[u][i].place = batch'[v][j].place
               PROVE  u = v /\ i = j
    BY DEF OneEvent
  <2>1. PICK k \in DOMAIN batch[u] : batch'[u][i] = batch[u][k] /\ k = IF u = w THEN i + 1 ELSE i
    BY <1>5
  <2>2. PICK m \in DOMAIN batch[v] : batch'[v][j] = batch[v][m] /\ m = IF v = w THEN j + 1 ELSE j
    BY <1>5
  <2>3. u = v /\ k = m
    BY <2>1, <2>2 DEF OneEvent
  <2>4. u = w => i \in Nat /\ j \in Nat
    BY <2>3, <1>2, <1>4
  <2> QED BY <2>1, <2>2, <2>3, <2>4
<1>7. \A p \in Places : HasEvent(p)' => HasEvent(p) /\ p # l
  BY <1>5 DEF HasEvent
<1>8. HasEvent(l)
  BY <1>2 DEF HasEvent
<1>9. \A p \in Places : Registering(p)' <=> Registering(p)
  BY DEF Registering
<1>10. ASSUME NEW p \in Live, p # l PROVE p \in Live' /\ p \in Places /\ u_conn[p] # u_conn[l]
  <2>1. p \in Places /\ u_conn[p] \in Conns /\ conn[u_conn[p]].valid /\ u_conn[p] # NoConn
    BY LiveType DEF Live
  <2>2. u_conn[p] # u_conn[l]
    BY <2>1, <1>10 DEF IInv, PlacedOnce
  <2> QED BY <2>1, <2>2 DEF Live
<1>11. \A p \in Places : HasEvent(p)' => p \in Live' /\ ~Registering(p)'
  BY <1>7, <1>9, <1>10 DEF EventsFresh
<1>12. ASSUME NEW c \in Conns, epoll'[c].armed # {}
       PROVE  \E p \in Live' : u_conn'[p] = c /\ ~HasEvent(p)' /\ ~Registering(p)'
  <2>1. CASE c = u_conn[l]
    <3>1. l \in Live'
      BY <1>1, <1>12, <2>1 DEF Live
    <3> QED BY <2>1, <3>1, <1>7, <1>8, <1>9 DEF EventsFresh
  <2>2. CASE c # u_conn[l]
    <3>1. PICK p \in Live : u_conn[p] = c /\ ~HasEvent(p) /\ ~Registering(p)
      BY <1>12, <2>2 DEF EventsFresh
    <3>2. p # l
      BY <3>1, <2>2
    <3> QED BY <3>1, <3>2, <1>7, <1>9, <1>10
  <2> QED BY <2>1, <2>2
<1>13. \A v \in Workers : wpc'[v] = "check" => wconn'[v] = u_conn'[place(v)']
  BY <1>4 DEF EventsFresh, place
<1> QED BY <1>6, <1>11, <1>12, <1>13 DEF EventsFresh


-----------------------------------------------------------------------------
(* The steps of the server.                                                *)

\* A service that has just been opened.
LEMMA InitCalm == Init => CalmInv
<1> SUFFICES ASSUME Init PROVE CalmInv
  OBVIOUS
<1> USE DEF Init, CoreInit, WorkersInit
<1>1. NoCrash /\ OneEvent
  BY DEF NoCrash, OneEvent
<1>2. \A p \in Places : ~HasEvent(p)
  BY DEF HasEvent
<1>3. EventsFresh
  BY <1>2 DEF EventsFresh, NotAdded
<1>4. NothingExpires
  BY DEF NothingExpires, Unborn, BlankConn
<1> QED BY <1>1, <1>3, <1>4 DEF CalmInv

\* The main thread finds every reused place in timeod_, and closes nothing.
LEMMA MainCalm == ASSUME IInv, CalmInv, Main PROVE CalmInv'
<1> USE ConstantsAssumption
<1>0. /\ MainNext /\ UNCHANGED <<wpc, batch, wconn>>
      /\ NoCrash /\ OneEvent /\ EventsFresh /\ NothingExpires
  BY DEF Main, workerVars, CalmInv
<1>1. CASE RunLoop \/ Accept \/ AcceptTimeout \/ AcceptThrows \/ DumpFront
  <2>1. UNCHANGED <<u_conn, epoll, conn, timeod, peer, crash>> /\ mpc' # "pop"
    BY <1>1 DEF RunLoop, Accept, AcceptTimeout, AcceptThrows, DumpFront, poolVars, netVars
  <2>2. \A p \in Places : Registering(p)' => Registering(p)
    BY <1>1 DEF RunLoop, Accept, AcceptTimeout, AcceptThrows, DumpFront, Registering
  <2>3. OneEvent' /\ EventsFresh'
    BY <1>0, <2>1, <2>2, QuietEvents
  <2> QED BY <1>0, <2>1, <2>3 DEF CalmInv, NoCrash, NothingExpires
<1>2. ASSUME NEW q \in Places, q \notin Live, u_conn' = [u_conn EXCEPT ![q] = mnew],
             conn' = [conn EXCEPT ![mnew] = FreshConn], mcur' = q,
             mpc \in {"replace", "emplace"}, mpc' # "pop", UNCHANGED <<epoll, peer, crash>>,
             q \in ToSet(timeod'), \A p \in ToSet(timeod) : p \in ToSet(timeod')
      PROVE  CalmInv'
  <2>1. OneEvent' /\ EventsFresh'
    BY <1>0, <1>2, PlaceEvents
  <2>2. \A c \in Conns : conn'[c].age = 0
    BY <1>0, <1>2 DEF NothingExpires, FreshConn, BlankConn, IInv, TypeOK
  <2>3. \A p \in Places : u_conn'[p] # NoConn => p \in ToSet(timeod')
    BY <1>0, <1>2 DEF NothingExpires, IInv, TypeOK
  <2>4. NothingExpires'
    BY <1>0, <1>2, <2>2, <2>3 DEF NothingExpires
  <2> QED BY <1>0, <1>2, <2>1, <2>4 DEF CalmInv, NoCrash
<1>3. CASE TryReplace
  <2>1. CASE closed = <<>>
    <3>1. UNCHANGED <<u_conn, epoll, conn, timeod, peer, crash>> /\ mpc' = "emplace"
      BY <1>3, <2>1 DEF TryReplace, netVars
    <3>2. \A p \in Places : Registering(p)' => Registering(p)
      BY <3>1 DEF Registering
    <3>3. OneEvent' /\ EventsFresh'
      BY <1>0, <3>1, <3>2, QuietEvents
    <3> QED BY <1>0, <3>1, <3>3 DEF CalmInv, NoCrash, NothingExpires
  <2>2. CASE closed # <<>>
    <3>1. /\ u_conn' = [u_conn EXCEPT ![Head(closed)] = mnew]
          /\ conn' = [conn EXCEPT ![mnew] = FreshConn] /\ UNCHANGED <<epoll, timeod, peer, crash>>
          /\ mpc = "replace" /\ mpc' = "splice" /\ mcur' = Head(closed)
      BY <1>3, <2>2 DEF TryReplace, netVars
    <3>2. Head(closed) \in Places /\ Head(closed) \in ToSet(closed)
      BY <2>2, HeadTail DEF IInv, TypeOK, ToSet
    <3>3. u_conn[Head(closed)] # NoConn /\ ~conn[u_conn[Head(closed)]].valid
      BY <3>2 DEF IInv, ClosedExact
    <3>4. Head(closed) \notin Live /\ Head(closed) \in ToSet(timeod)
      BY <1>0, <3>2, <3>3 DEF Live, NothingExpires
    <3>5. ToSet(timeod') = ToSet(timeod)
      BY <3>1
    <3>6. PICK q \in Places : q = Head(closed)
      BY <3>2
    <3> QED BY <3>1, <3>4, <3>5, <3>6, <1>2
  <2> QED BY <2>1, <2>2
<1>4. CASE Emplace
  <2>1. PICK p \in Places : /\ u_conn[p] = NoConn
                            /\ u_conn' = [u_conn EXCEPT ![p] = mnew]
                            /\ conn' = [conn EXCEPT ![mnew] = FreshConn]
                            /\ timeod' = Append(timeod, p)
                            /\ mcur' = p
    BY <1>4 DEF Emplace
  <2>2. mpc = "emplace" /\ mpc' = "setopt" /\ UNCHANGED <<epoll, peer, crash>>
    BY <1>4 DEF Emplace, netVars
  <2>3. p \notin Live
    BY <2>1 DEF Live
  <2>4. ToSet(timeod') = ToSet(timeod) \cup {p}
    BY <2>1, AppendElements DEF IInv, TypeOK
  <2> QED BY <2>1, <2>2, <2>3, <2>4, <1>2
<1>5. CASE Splice
  <2>1. /\ mpc = "splice" /\ mpc' = "setopt" /\ UNCHANGED <<mcur, u_conn, conn, epoll, peer>>
    BY <1>5 DEF Splice, netVars
  <2>2. mcur \in Places /\ u_conn[mcur] # NoConn /\ timeod \in Seq(Places)
    BY <2>1 DEF IInv, TypeOK, MainInv
  <2>3. mcur \in ToSet(timeod)
    BY <1>0, <2>2 DEF NothingExpires
  <2>4. timeod # <<>>
    BY <2>3 DEF ToSet
  <2>5. timeod' = MoveToBack(timeod, mcur) /\ crash' = crash
    BY <1>5, <2>3, <2>4 DEF Splice
  <2>6. \A p \in ToSet(timeod) : p \in ToSet(timeod')
    BY <2>2, <2>3, <2>5, MoveToBackKeeps
  <2>7. \A p \in Places : Registering(p)' => Registering(p)
    BY <2>1 DEF Registering
  <2>8. OneEvent' /\ EventsFresh'
    BY <1>0, <2>1, <2>7, QuietEvents
  <2>9. NothingExpires'
    BY <1>0, <2>1, <2>6 DEF NothingExpires
  <2> QED BY <1>0, <2>5, <2>8, <2>9 DEF CalmInv, NoCrash
<1>6. CASE SetOption
  <2>1. /\ mpc = "setopt" /\ mpc' = "add" /\ UNCHANGED <<mcur, u_conn, timeod, epoll, peer, crash>>
        /\ conn' = [conn EXCEPT ![u_conn[mcur]].option = {"READ", "ET_ONESHOT"}]
    BY <1>6 DEF SetOption, poolVars, netVars
  <2>2. u_conn[mcur] \in Conns /\ conn \in [Conns -> ConnFields]
    BY <2>1 DEF IInv, MainInv, TypeOK
  <2>3. \A d \in Conns : conn'[d].valid = conn[d].valid /\ conn'[d].age = conn[d].age
    BY <2>1, <2>2 DEF ConnFields
  <2>4. \A p \in Places : Registering(p)' => Registering(p)
    BY <2>1 DEF Registering
  <2>5. OneEvent' /\ EventsFresh'
    BY <1>0, <2>1, <2>3, <2>4, QuietEvents
  <2>6. NothingExpires'
    BY <1>0, <2>1, <2>3 DEF NothingExpires
  <2> QED BY <1>0, <2>1, <2>5, <2>6 DEF CalmInv, NoCrash
<1>7. CASE EpollAdd
  <2>1. mpc' = "dump" /\ UNCHANGED <<u_conn, conn, timeod, peer, crash>>
    BY <1>7 DEF EpollAdd, poolVars, netVars
  <2>2. OneEvent' /\ EventsFresh'
    BY <1>0, <1>7, AddEvents
  <2>3. NothingExpires'
    BY <1>0, <2>1 DEF NothingExpires
  <2> QED BY <1>0, <2>1, <2>2, <2>3 DEF CalmInv, NoCrash
<1>8. CASE CloseIfTimedOut
  <2>1. mpc = "expire" /\ u_conn[mcur] \in Conns
    BY <1>8 DEF CloseIfTimedOut, IInv, MainInv, TypeOK
  <2>2. ~TimedOut(u_conn[mcur])
    <3>1. conn[u_conn[mcur]].age = 0
      BY <1>0, <2>1 DEF NothingExpires
    <3> QED BY <3>1 DEF TimedOut
  <2>3. mpc' = "loop" /\ UNCHANGED <<mcur, u_conn, conn, epoll, timeod, peer, crash>>
    BY <1>8, <2>2 DEF CloseIfTimedOut, netVars
  <2>4. \A p \in Places : Registering(p)' => Registering(p)
    BY <2>3 DEF Registering
  <2>5. OneEvent' /\ EventsFresh'
    BY <1>0, <2>3, <2>4, QuietEvents
  <2>6. NothingExpires'
    BY <1>0, <2>3 DEF NothingExpires
  <2> QED BY <1>0, <2>3, <2>5, <2>6 DEF CalmInv, NoCrash
<1>9. CASE PopFront
  BY <1>0, <1>9 DEF PopFront, NothingExpires
<1> QED BY <1>0, <1>1, <1>3, <1>4, <1>5, <1>6, <1>7, <1>8, <1>9 DEF MainNext

\* The clients do not reset and time does not pass.
LEMMA WorldCalm == ASSUME Calm, IInv, CalmInv, World PROVE CalmInv'
<1>0. NoCrash /\ OneEvent /\ EventsFresh /\ NothingExpires /\ ~Tick /\ \A c \in Conns : ~Rst(c)
  BY DEF CalmInv, Calm, Tick, Rst
<1>1. UNCHANGED <<mpc, mcur, u_conn, conn, epoll, timeod, crash, wpc, batch, wconn>>
  BY <1>0 DEF World, EnvNext, ClientNext, Connect, SendWhole, SendPart, SendRest, SendBad, Receive, Fin,
         Shutdown, mainVars, poolVars, workerVars
<1>2. \A d \in Conns : peer'[d].state # "rst"
  <2>1. CASE Shutdown
    BY <2>1, <1>0 DEF Shutdown, netVars, NothingExpires
  <2>2. ASSUME NEW c \in Conns, ClientNext(c) PROVE \A d \in Conns : peer'[d].state # "rst"
    <3>1. peer \in [Conns -> PeerFields] /\ \A d \in Conns : peer[d].state # "rst"
      BY <1>0 DEF IInv, TypeOK, NothingExpires
    <3>2. peer[c] \in PeerFields /\ peer[c].state # "rst"
      BY <3>1
    <3>3. \A d \in Conns : d # c => peer'[d] = peer[d]
      BY <1>0, <2>2, <3>1 DEF ClientNext, Connect, SendWhole, SendPart, SendRest, SendBad, Receive, Fin
    <3>4. peer'[c].state # "rst"
      <4>1. CASE Connect(c)
        BY <4>1, <3>1, <3>2 DEF Connect, PeerFields
      <4>2. CASE SendWhole(c)
        BY <4>2, <3>1, <3>2 DEF SendWhole, PeerFields
      <4>3. CASE SendPart(c)
        BY <4>3, <3>1, <3>2 DEF SendPart, PeerFields
      <4>4. CASE SendRest(c)
        BY <4>4, <3>1, <3>2 DEF SendRest, PeerFields
      <4>5. CASE SendBad(c)
        BY <4>5, <3>1, <3>2 DEF SendBad, PeerFields
      <4>6. CASE Receive(c)
        BY <4>6, <3>1, <3>2 DEF Receive, PeerFields
      <4>7. CASE Fin(c)
        BY <4>7, <3>1, <3>2 DEF Fin, PeerFields
      <4> QED BY <1>0, <2>2, <4>1, <4>2, <4>3, <4>4, <4>5, <4>6, <4>7 DEF ClientNext
    <3> QED BY <3>1, <3>3, <3>4
  <2> QED BY <1>0, <2>1, <2>2 DEF World, EnvNext
<1>3. \A p \in Places : Registering(p)' => Registering(p)
  BY <1>1 DEF Registering
<1>4. OneEvent' /\ EventsFresh'
  BY <1>0, <1>1, <1>3, QuietEvents
<1>5. NothingExpires'
  BY <1>0, <1>1, <1>2 DEF NothingExpires
<1> QED BY <1>0, <1>1, <1>4, <1>5 DEF CalmInv, NoCrash


\* The place of the event a worker is at is open, registered and timed.
LEMMA CurrentPlace ==
  ASSUME IInv, ArmInv, CalmInv, NEW w \in Workers, wpc[w] # "wait"
  PROVE  /\ place(w) \in Live /\ place(w) \in Places /\ u_conn[place(w)] \in Conns
         /\ epoll[u_conn[place(w)]].added /\ place(w) \in ToSet(timeod)
         /\ conn[u_conn[place(w)]].valid
<1>1. /\ place(w) \in Places /\ batch[w] \in Seq(Event) /\ batch[w] # <<>>
      /\ u_conn[place(w)] \in Conns /\ u_conn[place(w)] # NoConn
  BY PlaceType
<1>2. 1 \in DOMAIN batch[w] /\ batch[w][1].place = place(w)
  BY <1>1, HeadTail DEF place
<1>3. HasEvent(place(w))
  BY <1>2 DEF HasEvent
<1>4. place(w) \in Live /\ ~Registering(place(w))
  BY <1>1, <1>3 DEF CalmInv, EventsFresh
<1>5. epoll[u_conn[place(w)]].added
  BY <1>4 DEF ArmInv, ArmedAt
<1> QED BY <1>1, <1>4, <1>5 DEF CalmInv, NothingExpires, Live

\* A step inside a handler that changes buffers and options only.
LEMMA LocalCalm ==
  ASSUME CalmInv, IInv, UNCHANGED <<mpc, mcur, u_conn, epoll, crash, batch, wconn>>,
         \A v \in Workers : wpc'[v] = "check" => wpc[v] = "check",
         \A p \in ToSet(timeod) : p \in ToSet(timeod'),
         \A d \in Conns : (conn[d].valid => conn'[d].valid) /\ conn'[d].age = 0,
         \A d \in Conns : peer'[d].state = peer[d].state
  PROVE  CalmInv'
<1>1. OneEvent' /\ EventsFresh'
  BY QuietEvents DEF CalmInv, Registering
<1>2. NothingExpires'
  BY DEF CalmInv, NothingExpires
<1> QED BY <1>1, <1>2 DEF CalmInv, NoCrash

\* The workers find the connection they locked, in timeod_ and registered.
LEMMA WorkerCalm == ASSUME IInv, ArmInv, CalmInv, NEW w \in Workers, Worker(w) PROVE CalmInv'
<1> USE ConstantsAssumption
<1> DEFINE c == wconn[w]
<1>0. /\ NoCrash /\ OneEvent /\ EventsFresh /\ NothingExpires
      /\ conn \in [Conns -> ConnFields] /\ peer \in [Conns -> PeerFields]
      /\ epoll \in [Conns -> Registration] /\ wpc \in [Workers -> WorkerPcs]
      /\ \A d \in Conns : conn[d].age = 0 /\ peer[d].state # "rst"
  BY DEF CalmInv, NothingExpires, IInv, TypeOK
<1>1. CASE EpollWait(w) \/ LockPlace(w)
  <2>1. UNCHANGED <<mpc, u_conn, timeod, conn, peer, crash>>
    BY <1>1 DEF EpollWait, LockPlace, mainVars, poolVars, netVars
  <2>2. OneEvent' /\ EventsFresh'
    BY <1>0, <1>1, WaitEvents, LockEvents
  <2>3. NothingExpires'
    BY <1>0, <2>1 DEF NothingExpires
  <2> QED BY <1>0, <2>1, <2>2, <2>3 DEF CalmInv, NoCrash
<1>2. ~StaleConn(w)
  BY <1>0 DEF StaleConn, EventsFresh
<1>3. ~ReadReset(w) /\ ~WriteReset(w)
  BY <1>0, Handling DEF ReadReset, WriteReset
<1>4. ~SkipClosed(w)
  BY CurrentPlace DEF SkipClosed
<1>5. CASE ResetActivity(w)
  <2>1. /\ wpc[w] = "check" /\ conn' = [conn EXCEPT ![c].age = 0] /\ c \in Conns
        /\ UNCHANGED <<mpc, mcur, u_conn, epoll, peer, batch, wconn>>
    BY <1>5, Handling DEF ResetActivity, mainVars, netVars
  <2>2. timeod' = MoveToBack(timeod, place(w)) /\ crash' = crash /\ place(w) \in ToSet(timeod)
    BY <1>5, <2>1, CurrentPlace DEF ResetActivity
  <2>3. \A p \in ToSet(timeod) : p \in ToSet(timeod')
    BY <2>2, MoveToBackKeeps DEF IInv, TypeOK
  <2>4. \A d \in Conns : conn'[d].valid = conn[d].valid /\ conn'[d].age = 0
    BY <1>0, <2>1 DEF ConnFields
  <2>5. \A v \in Workers : wpc'[v] = "check" => wpc[v] = "check"
    BY <1>0, <1>5 DEF ResetActivity
  <2> QED BY <2>1, <2>2, <2>3, <2>4, <2>5, LocalCalm
<1>6. CASE ReadToBuffer(w)
  <2>1. /\ wpc[w] = "read" /\ c \in Conns
        /\ conn' = [conn EXCEPT ![c].read = Append(@, Head(peer[c].inbox))]
        /\ peer' = [peer EXCEPT ![c].inbox = Tail(@)]
        /\ UNCHANGED <<mpc, mcur, u_conn, epoll, timeod, crash, wpc, batch, wconn>>
    BY <1>6, Handling DEF ReadToBuffer, mainVars, poolVars, workerVars
  <2>2. \A d \in Conns : conn'[d].valid = conn[d].valid /\ conn'[d].age = 0
    BY <1>0, <2>1 DEF ConnFields
  <2>3. \A d \in Conns : peer'[d].state = peer[d].state
    BY <1>0, <2>1 DEF PeerFields
  <2> QED BY <2>1, <2>2, <2>3, LocalCalm
<1>7. CASE HandleRequest(w)
  <2> DEFINE req == conn[c].read[1]
             wr  == Response(req.id)
             rd  == IF req.ka THEN <<>> ELSE conn[c].read
             o   == (IF req.ka THEN conn[c].option ELSE conn[c].option \ {"READ"}) \cup {"WRITE", "ET_ONESHOT"}
             r   == [conn[c] EXCEPT !.keep_alive = req.ka, !.write = wr, !.read = rd, !.option = o]
  <2>1. /\ wpc[w] = "read" /\ wpc' = [wpc EXCEPT ![w] = "arm"]
        /\ UNCHANGED <<mpc, mcur, u_conn, epoll, timeod, peer, crash, batch, wconn>>
    BY <1>7 DEF HandleRequest, ReadDone, mainVars, poolVars, netVars
  <2>2. c \in Conns /\ conn[c] \in ConnFields
    BY <2>1, Handling
  <2>3. conn' = [conn EXCEPT ![c] = r]
    BY <1>0, <1>7, <2>2 DEF HandleRequest
  <2> HIDE DEF wr, rd, o
  <2>4. r.valid = conn[c].valid /\ r.age = conn[c].age
    BY <2>2 DEF ConnFields
  <2> HIDE DEF r
  <2>5. \A d \in Conns : conn'[d].valid = conn[d].valid /\ conn'[d].age = 0
    BY <1>0, <2>2, <2>3, <2>4
  <2>6. \A v \in Workers : wpc'[v] = "check" => wpc[v] = "check"
    BY <1>0, <2>1
  <2> QED BY <2>1, <2>5, <2>6, LocalCalm
<1>8. CASE WriteFromBuffer(w)
  <2> DEFINE room == IF Len(peer[c].wire) < Window THEN Window - Len(peer[c].wire) ELSE 0
             n == IF Len(conn[c].write) < room THEN Len(conn[c].write) ELSE room
             wire == peer[c].wire \o SubSeq(conn[c].write, 1, n)
             o == (conn[c].option \ {"WRITE"}) \cup {"ET_ONESHOT"}
             rest == SubSeq(conn[c].write, n + 1, Len(conn[c].write))
             r1 == [conn[c] EXCEPT !.write = <<>>, !.option = o]
             r2 == [conn[c] EXCEPT !.write = rest]
  <2>1. /\ wpc[w] = "write"
        /\ UNCHANGED <<mpc, mcur, u_conn, epoll, timeod, crash, batch, wconn>>
    BY <1>8 DEF WriteFromBuffer, mainVars, poolVars
  <2>2. c \in Conns /\ conn[c] \in ConnFields /\ peer[c] \in PeerFields
    BY <2>1, Handling
  <2>3. peer' = [peer EXCEPT ![c] = [peer[c] EXCEPT !.wire = wire]]
    BY <1>0, <1>8, <2>2 DEF WriteFromBuffer
  <2>4. \/ conn' = [conn EXCEPT ![c] = r1] /\ wpc' = [wpc EXCEPT ![w] = "arm"]
        \/ conn' = [conn EXCEPT ![c] = r2] /\ wpc' = wpc
    BY <1>0, <1>8, <2>2 DEF WriteFromBuffer
  <2> HIDE DEF wire, o, rest
  <2>5. \A d \in Conns : peer'[d].state = peer[d].state
    BY <1>0, <2>2, <2>3 DEF PeerFields
  <2>6. /\ r1.valid = conn[c].valid /\ r1.age = conn[c].age
        /\ r2.valid = conn[c].valid /\ r2.age = conn[c].age
    BY <2>2 DEF ConnFields
  <2> HIDE DEF r1, r2
  <2>7. \A d \in Conns : conn'[d].valid = conn[d].valid /\ conn'[d].age = 0
    BY <1>0, <2>2, <2>4, <2>6
  <2>8. \A v \in Workers : wpc'[v] = "check" => wpc[v] = "check"
    BY <1>0, <2>4
  <2> QED BY <2>1, <2>5, <2>7, <2>8, LocalCalm
<1>9. CASE WriteBlocked(w)
  <2>1. /\ wpc' = [wpc EXCEPT ![w] = "arm"]
        /\ UNCHANGED <<mpc, mcur, u_conn, conn, epoll, timeod, peer, crash, batch, wconn>>
    BY <1>9 DEF WriteBlocked, mainVars, poolVars, netVars
  <2>2. \A v \in Workers : wpc'[v] = "check" => wpc[v] = "check"
    BY <1>0, <2>1
  <2> QED BY <1>0, <2>1, <2>2, LocalCalm
<1>10. CASE ReadEnd(w) \/ RequestIncorrect(w) \/ CloseDone(w)
  <2>1. /\ wpc[w] \in {"read", "write", "arm"} /\ CloseClient(place(w)) /\ NextEvent(w)
        /\ UNCHANGED <<mpc, mcur, u_conn, timeod, peer, crash>>
    BY <1>10 DEF ReadEnd, RequestIncorrect, ReadDone, CloseDone, mainVars, netVars
  <2>2. PICK l \in Places : l = place(w)
    BY <2>1, PlaceType
  <2>3. u_conn[l] \in Conns /\ conn[u_conn[l]].valid
    BY <2>1, <2>2, PlaceType, Handling
  <2>4. CloseUpdate(u_conn[l], l)
    BY <2>1, <2>2, <2>3 DEF CloseClient, CloseUpdate
  <2>5. \A d \in Conns : d # u_conn[l] => conn'[d] = conn[d] /\ epoll'[d] = epoll[d]
    BY <1>0, <2>3, <2>4, CloseFacts DEF CloseUpdate, Deregistered
  <2>6. epoll'[u_conn[l]].armed = {}
    BY <1>0, <2>3, <2>4 DEF CloseUpdate, Deregistered, NotAdded
  <2>7. OneEvent' /\ EventsFresh'
    BY <1>0, <2>1, <2>2, <2>5, <2>6, ReleaseEvents
  <2>8. \A d \in Conns : conn'[d].age = 0
    BY <1>0, <2>3, <2>4 DEF CloseUpdate, Closed, ConnFields
  <2>9. NothingExpires'
    BY <1>0, <2>1, <2>8 DEF NothingExpires
  <2> QED BY <1>0, <2>1, <2>7, <2>9 DEF CalmInv, NoCrash
<1>11. CASE RequestIncomplete(w) \/ Rearm(w)
  <2>1. PICK opt : /\ conn' = [conn EXCEPT ![c].option = opt] /\ EpollMod(c, opt)
                   /\ wpc[w] \in {"read", "write", "arm"} /\ NextEvent(w)
                   /\ UNCHANGED <<mpc, mcur, u_conn, timeod, peer>>
    BY <1>11 DEF RequestIncomplete, ReadDone, Rearm, mainVars, netVars
  <2>2. PICK l \in Places : l = place(w)
    BY <2>1, PlaceType
  <2>3. c \in Conns /\ c = u_conn[l] /\ conn[c].valid /\ epoll[c].added
    BY <2>1, <2>2, Handling, CurrentPlace
  <2>4. crash' = crash /\ epoll' = [epoll EXCEPT ![c].armed = opt \ {"ET_ONESHOT"}]
    BY <2>1, <2>3 DEF EpollMod
  <2>5. \A d \in Conns : d # c => conn'[d] = conn[d] /\ epoll'[d] = epoll[d]
    BY <1>0, <2>1, <2>3, <2>4
  <2>6. \A d \in Conns : conn'[d].valid = conn[d].valid /\ conn'[d].age = 0
    BY <1>0, <2>1, <2>3 DEF ConnFields
  <2>7. OneEvent' /\ EventsFresh'
    BY <1>0, <2>1, <2>2, <2>3, <2>5, <2>6, ReleaseEvents
  <2>8. NothingExpires'
    BY <1>0, <2>1, <2>6 DEF NothingExpires
  <2> QED BY <1>0, <2>4, <2>7, <2>8 DEF CalmInv, NoCrash
<1> QED
  BY <1>1, <1>2, <1>3, <1>4, <1>5, <1>6, <1>7, <1>8, <1>9, <1>10, <1>11 DEF Worker, WorkerNext

\* Without time-outs and resets, what the threads keep across steps - events,
\* p_conn, timeout_iter - never goes stale: no two workers have an event of one
\* place, every event is of an open registered connection, and every place in
\* use is still in timeod_.
THEOREM CalmInvariance == Calm => (Spec => []CalmInv)
<1> SUFFICES ASSUME Calm PROVE Spec => []CalmInv
  OBVIOUS
<1>1. Init => CalmInv
  BY InitCalm
<1>2. IInv /\ ArmInv /\ CalmInv /\ [Next]_vars => CalmInv'
  <2> SUFFICES ASSUME IInv, ArmInv, CalmInv, [Next]_vars PROVE CalmInv'
    OBVIOUS
  <2>1. CASE UNCHANGED vars
    <3>1. UNCHANGED <<mpc, mcur, u_conn, epoll, timeod, conn, peer, crash, wpc, batch, wconn>>
      BY <2>1 DEF vars, coreVars, mainVars, poolVars, netVars, workerVars
    <3> QED BY <3>1, LocalCalm DEF CalmInv, NothingExpires
  <2> QED BY <2>1, MainCalm, WorldCalm, WorkerCalm DEF Next
<1> QED BY <1>1, <1>2, Invariance, ArmInvariance, PTL DEF Spec

\* Without time-outs and resets, what remains of the interplay of the threads
\* never crashes the server: no iterator of timeod_ is stale when it is spliced,
\* no worker uses a connection that was replaced, none re-arms an unregistered
\* socket, for any number of workers, connections, places and requests, also
\* pipelined, cut and refused ones, and whenever clients or the operator close.
THEOREM CalmNeverCrashes == Calm => (Spec => []NoCrash)
<1> SUFFICES ASSUME Calm PROVE Spec => []NoCrash
  OBVIOUS
<1>1. Spec => []CalmInv
  BY CalmInvariance
<1>2. CalmInv => NoCrash
  BY DEF CalmInv
<1> QED BY <1>1, <1>2, PTL

-----------------------------------------------------------------------------
(* Responses: TalkInv, what is between one client and the server.          *)

\* The units of response n + 1 are those after the first n responses.
LEMMA ReplyNumber ==
  ASSUME NEW n \in Nat, NEW k \in 1..RespLen
  PROVE  ((n * RespLen + k - 1) \div RespLen) + 1 = n + 1
<1>1. RespLen \in Nat \ {0}
  BY ConstantsAssumption
<1>2. \A R \in Nat \ {0}, m \in Nat : \A j \in 0..(R - 1) : (m * R + j) \div R = m
  OBVIOUS
<1>3. k - 1 \in 0..(RespLen - 1)
  BY <1>1
<1>4. (n * RespLen + (k - 1)) \div RespLen = n
  BY <1>1, <1>2, <1>3
<1>5. n * RespLen \in Nat
  BY <1>1
<1>6. n * RespLen + k - 1 = n * RespLen + (k - 1)
  BY <1>5, <1>3
<1> QED BY <1>4, <1>6

\* The parts of one connection have their types.
LEMMA TalkTypes ==
  ASSUME NEW p \in PeerFields, NEW b \in ConnFields
  PROVE  /\ b.read \in Seq(Chunk) /\ p.inbox \in Seq(Chunk) /\ Pending(p, b) \in Seq(Chunk)
         /\ p.got \in Seq(1..MaxRequests) /\ p.wire \in Seq(1..MaxRequests)
         /\ b.write \in Seq(1..MaxRequests)
         /\ Len(p.got) \in Nat /\ Len(p.wire) \in Nat /\ Len(b.write) \in Nat
         /\ Replied(p, b) \in Nat /\ p.sent \in Nat /\ p.sent * RespLen \in Nat /\ RespLen \in Nat \ {0}
         /\ p.half \in BOOLEAN /\ p.ka \in BOOLEAN
<1>1. /\ b.read \in Seq(Chunk) /\ p.inbox \in Seq(Chunk)
      /\ p.got \in Seq(1..MaxRequests) /\ p.wire \in Seq(1..MaxRequests)
      /\ b.write \in Seq(1..MaxRequests) /\ p.half \in BOOLEAN /\ p.ka \in BOOLEAN
  BY DEF PeerFields, ConnFields
<1>2. Len(p.got) \in Nat /\ Len(p.wire) \in Nat /\ Len(b.write) \in Nat
  BY <1>1
<1>3. Replied(p, b) \in Nat
  <2>1. \A i, j, k \in Nat : i + j + k \in Nat
    OBVIOUS
  <2> QED BY <1>2, <2>1, Zenon DEF Replied
<1>4. p.sent \in Nat /\ RespLen \in Nat \ {0} /\ p.sent * RespLen \in Nat
  <2>1. p.sent \in 0..MaxRequests /\ MaxRequests \in Nat /\ RespLen \in Nat \ {0}
    BY ConstantsAssumption DEF PeerFields
  <2> QED BY <2>1
<1>5. Pending(p, b) \in Seq(Chunk)
  BY <1>1, ConcatProperties DEF Pending
<1> QED BY <1>1, <1>2, <1>3, <1>4, <1>5

\* What is not about the conversation may change.
LEMMA TalkKept ==
  ASSUME NEW p, NEW b, NEW q, NEW d, TalkInv(p, b),
         q.half = p.half, q.ka = p.ka, q.sent = p.sent, q.inbox = p.inbox,
         q.got = p.got, q.wire = p.wire, d.read = b.read, d.write = b.write,
         p.state \in {"mute", "fin", "rst"} => q.state \in {"mute", "fin", "rst"}
  PROVE  TalkInv(q, d) /\ (LastReplied(q, d) => LastReplied(p, b))
<1>1. Pending(q, d) = Pending(p, b) /\ Replied(q, d) = Replied(p, b)
  BY DEF Pending, Replied
<1>2. /\ Idle(p, b) => Idle(q, d)
      /\ Halfway(p, b) => Halfway(q, d)
      /\ Asked(p, b) => Asked(q, d)
      /\ Refused(p, b) => Refused(q, d)
      /\ LastReplied(p, b) <=> LastReplied(q, d)
  BY <1>1 DEF Idle, Halfway, Asked, Refused, LastReplied
<1> QED BY <1>2 DEF TalkInv

\* read_to_buffer moves what is pending from the socket to read_; nothing of it
\* was answered before.
LEMMA TalkRead ==
  ASSUME NEW p \in PeerFields, NEW b \in ConnFields, NEW q, NEW d, TalkInv(p, b), p.inbox # <<>>,
         q = [p EXCEPT !.inbox = Tail(@)], d = [b EXCEPT !.read = Append(@, Head(p.inbox))]
  PROVE  TalkInv(q, d) /\ ~LastReplied(q, d)
<1> DEFINE h == Head(p.inbox)
           t == Tail(p.inbox)
<1>0. /\ b.read \in Seq(Chunk) /\ p.inbox \in Seq(Chunk) /\ Pending(p, b) \in Seq(Chunk)
      /\ Replied(p, b) \in Nat /\ p.sent * RespLen \in Nat /\ RespLen \in Nat \ {0}
  BY TalkTypes
<1>2. /\ q.half = p.half /\ q.ka = p.ka /\ q.sent = p.sent /\ q.state = p.state
      /\ q.got = p.got /\ q.wire = p.wire /\ q.inbox = t
      /\ d.write = b.write /\ d.read = Append(b.read, h)
  BY DEF PeerFields, ConnFields
<1> HIDE DEF h, t
<1>3. Pending(q, d) = Pending(p, b)
  <2>1. Append(b.read, h) \o t = b.read \o p.inbox
    BY <1>0, TakeFirst DEF h, t
  <2> QED BY <1>2, <2>1 DEF Pending
<1>4. Replied(q, d) = Replied(p, b)
  BY <1>2 DEF Replied
<1>5. ~LastReplied(p, b)
  BY DEF LastReplied
<1>6. Pending(p, b) # <<>>
  BY <1>0 DEF Pending
<1>7. ~Idle(p, b)
  BY <1>6 DEF Idle
<1>8. /\ Halfway(p, b) => Halfway(q, d)
      /\ Asked(p, b) => Asked(q, d)
      /\ Refused(p, b) => Refused(q, d)
  BY <1>2, <1>3, <1>4 DEF Halfway, Asked, Refused
<1>9. TalkInv(q, d)
  BY <1>2, <1>5, <1>7, <1>8 DEF TalkInv
<1>10. ~LastReplied(q, d)
  <2>1. CASE Halfway(p, b)
    BY <2>1, <1>2 DEF Halfway, LastReplied
  <2>2. CASE Asked(p, b)
    BY <2>2, <1>0, <1>2, <1>4 DEF Asked, LastReplied
  <2>3. CASE Refused(p, b)
    BY <2>3, <1>2 DEF Refused, LastReplied
  <2> QED BY <1>5, <1>7, <2>1, <2>2, <2>3 DEF TalkInv
<1> QED BY <1>9, <1>10

\* s followed by t goes on where t is cut at another place.
LEMMA ContinuesMoved ==
  ASSUME NEW S, NEW a \in Seq(S), NEW b \in Seq(S), NEW n \in 0..Len(b),
         NEW from \in Nat, Continues(a, from), Continues(b, from + Len(a))
  PROVE  /\ a \o SubSeq(b, 1, n) \in Seq(S)
         /\ SubSeq(b, n + 1, Len(b)) \in Seq(S)
         /\ Len(a \o SubSeq(b, 1, n)) = Len(a) + n /\ Len(SubSeq(b, n + 1, Len(b))) = Len(b) - n
         /\ Continues(a \o SubSeq(b, 1, n), from)
         /\ Continues(SubSeq(b, n + 1, Len(b)), from + Len(a) + n)
<1> DEFINE f == SubSeq(b, 1, n)
           r == SubSeq(b, n + 1, Len(b))
           t == a \o f
<1>1. /\ f \in Seq(S) /\ Len(f) = n /\ \A k \in 1..n : f[k] = b[k]
      /\ r \in Seq(S) /\ Len(r) = Len(b) - n
      /\ \A k \in 1..(Len(b) - n) : r[k] = b[n + k]
  BY SplitFacts
<1>2. Len(a) \in Nat /\ Len(b) \in Nat /\ n \in Nat /\ n <= Len(b) /\ DOMAIN b = 1..Len(b) /\ DOMAIN a = 1..Len(a)
  OBVIOUS
<1> HIDE DEF f, r
<1>3. /\ t \in Seq(S) /\ Len(t) = Len(a) + Len(f)
      /\ \A j \in 1..Len(a) : t[j] = a[j]
      /\ \A j \in (Len(a) + 1)..(Len(a) + Len(f)) : t[j] = f[j - Len(a)] /\ j - Len(a) \in 1..Len(f)
  BY <1>1, ConcatFacts, ZenonT(40)
<1> HIDE DEF t
<1>4. ASSUME NEW k \in DOMAIN t PROVE t[k] = ((from + k - 1) \div RespLen) + 1
  <2>1. k \in 1..(Len(a) + n)
    BY <1>1, <1>3
  <2>2. CASE k <= Len(a)
    <3>1. k \in 1..Len(a) /\ k \in DOMAIN a
      BY <1>2, <2>1, <2>2
    <3> QED BY <3>1, <1>3 DEF Continues
  <2>3. CASE k > Len(a)
    <3>1. /\ k \in (Len(a) + 1)..(Len(a) + Len(f)) /\ k - Len(a) \in 1..n /\ k - Len(a) \in DOMAIN b
          /\ from + Len(a) + (k - Len(a)) - 1 = from + k - 1
      BY <1>1, <1>2, <2>1, <2>3, SMTT(30)
    <3>2. t[k] = b[k - Len(a)]
      BY <3>1, <1>1, <1>3
    <3>3. b[k - Len(a)] = ((from + Len(a) + (k - Len(a)) - 1) \div RespLen) + 1
      BY <3>1 DEF Continues
    <3> QED BY <3>1, <3>2, <3>3
  <2> QED BY <2>1, <2>2, <2>3, <1>2
<1>5. ASSUME NEW k \in DOMAIN r PROVE r[k] = ((from + Len(a) + n + k - 1) \div RespLen) + 1
  <2>1. /\ k \in 1..(Len(b) - n) /\ n + k \in DOMAIN b
        /\ from + Len(a) + (n + k) - 1 = from + Len(a) + n + k - 1
    <3>1. k \in 1..(Len(b) - n)
      BY <1>1
    <3>2. n + k \in 1..Len(b)
      BY <1>2, <3>1
    <3>3. \A i, j, l, m \in Nat : i + j + (l + m) - 1 = i + j + l + m - 1
      OBVIOUS
    <3> QED BY <1>2, <3>1, <3>2, <3>3
  <2>2. b[n + k] = ((from + Len(a) + (n + k) - 1) \div RespLen) + 1
    BY <2>1 DEF Continues
  <2> QED BY <2>1, <2>2, <1>1
<1>6. Continues(t, from) /\ Continues(r, from + Len(a) + n)
  BY <1>4, <1>5 DEF Continues
<1> QED BY <1>1, <1>3, <1>6 DEF t, f, r

\* A step that moves units towards the client.
LEMMA TalkMoved ==
  ASSUME NEW p \in PeerFields, NEW b \in ConnFields, NEW q \in PeerFields, NEW d \in ConnFields,
         TalkInv(p, b),
         q.half = p.half, q.ka = p.ka, q.sent = p.sent, q.inbox = p.inbox, d.read = b.read,
         q.state = p.state, Replied(q, d) = Replied(p, b),
         Len(p.got) = Replied(p, b) => Len(q.got) = Replied(p, b),
         Continues(q.got, 0), Continues(q.wire, Len(q.got)),
         Continues(d.write, Len(q.got) + Len(q.wire))
  PROVE  TalkInv(q, d) /\ (LastReplied(q, d) => LastReplied(p, b))
<1>1. Pending(q, d) = Pending(p, b)
  BY DEF Pending
<1>2. /\ Idle(p, b) => Idle(q, d)
      /\ Halfway(p, b) => Halfway(q, d)
      /\ Asked(p, b) => Asked(q, d)
      /\ Refused(p, b) => Refused(q, d)
      /\ LastReplied(p, b) <=> LastReplied(q, d)
  BY <1>1 DEF Idle, Halfway, Asked, Refused, LastReplied
<1> QED BY <1>2 DEF TalkInv

\* The client reads a unit.
LEMMA TalkReceived ==
  ASSUME NEW p \in PeerFields, NEW b \in ConnFields, NEW q \in PeerFields, TalkInv(p, b), p.wire # <<>>,
         q = [p EXCEPT !.wire = Tail(@), !.got = Append(@, Head(p.wire))]
  PROVE  TalkInv(q, b) /\ (LastReplied(q, b) => LastReplied(p, b))
<1> DEFINE g == p.got
           w == p.wire
<1>0. /\ g \in Seq(1..MaxRequests) /\ w \in Seq(1..MaxRequests) /\ Len(g) \in Nat /\ Len(w) \in Nat
      /\ Len(b.write) \in Nat
  BY TalkTypes
<1>1. /\ Continues(g, 0) /\ Continues(w, Len(g)) /\ Continues(b.write, Len(g) + Len(w))
      /\ Replied(p, b) = Len(g) + Len(w) + Len(b.write)
  BY DEF TalkInv, Replied
<1>2. /\ q.half = p.half /\ q.ka = p.ka /\ q.sent = p.sent /\ q.inbox = p.inbox /\ q.state = p.state
      /\ q.got = Append(g, Head(w)) /\ q.wire = Tail(w)
      /\ Replied(q, b) = Len(q.got) + Len(q.wire) + Len(b.write)
  BY DEF PeerFields, Replied
<1>w. w # <<>>
  OBVIOUS
<1> HIDE DEF g, w
<1>3. /\ Len(Append(g, Head(w))) = Len(g) + 1 /\ Len(Tail(w)) = Len(w) - 1 /\ Len(w) > 0
      /\ Append(g, Head(w)) = g \o SubSeq(w, 1, 1) /\ Tail(w) = SubSeq(w, 2, Len(w))
  <2>1. Append(g, Head(w)) = g \o <<Head(w)>>
    BY <1>0, <1>w, AppendIsConcat
  <2>2. SubSeq(w, 1, 1) = <<Head(w)>> /\ Tail(w) = SubSeq(w, 2, Len(w)) /\ Len(w) > 0
    BY <1>0, <1>w, FirstAndRest
  <2>3. Len(Append(g, Head(w))) = Len(g) + 1 /\ Len(Tail(w)) = Len(w) - 1
    BY <1>0, <1>w
  <2> QED BY <2>1, <2>2, <2>3
<1>4. 1 \in 0..Len(w) /\ 0 + Len(g) = Len(g) /\ 0 + Len(g) + 1 = Len(g) + 1 /\ 1 + 1 = 2 /\ 0 \in Nat
  BY <1>0, <1>3
<1>5. Continues(Append(g, Head(w)), 0) /\ Continues(Tail(w), Len(g) + 1)
  <2>1. Continues(w, 0 + Len(g))
    BY <1>1, <1>4
  <2>2. /\ Continues(g \o SubSeq(w, 1, 1), 0)
        /\ Continues(SubSeq(w, 1 + 1, Len(w)), 0 + Len(g) + 1)
    BY <1>0, <1>1, <1>4, <2>1, ContinuesMoved
  <2> QED BY <2>2, <1>3, <1>4
<1>6. (Len(g) + 1) + (Len(w) - 1) = Len(g) + Len(w)
  BY <1>0
<1>7. Replied(q, b) = Replied(p, b) /\ Len(g) # Replied(p, b)
  <2>1. Len(g) # Len(g) + Len(w) + Len(b.write)
    <3>1. \A i, j, k \in Nat : j > 0 => i # i + j + k
      OBVIOUS
    <3> QED BY <1>0, <1>3, <3>1
  <2>2. Len(q.got) + Len(q.wire) = Len(g) + Len(w)
    BY <1>2, <1>3, <1>6
  <2> QED BY <1>1, <1>2, <2>1, <2>2
<1>8. Len(p.got) # Replied(p, b)
  BY <1>7 DEF g
<1>9. Continues(q.got, 0) /\ Continues(q.wire, Len(q.got)) /\ Continues(b.write, Len(q.got) + Len(q.wire))
  BY <1>1, <1>2, <1>3, <1>5, <1>6
<1>10. Len(p.got) = Replied(p, b) => Len(q.got) = Replied(p, b)
  BY <1>8
<1>11. /\ b.read = b.read /\ q.half = p.half /\ q.ka = p.ka /\ q.sent = p.sent /\ q.inbox = p.inbox
       /\ q.state = p.state /\ Replied(q, b) = Replied(p, b)
  BY <1>2, <1>7
<1> HIDE DEF g, w
<1> QED BY ONLY p \in PeerFields, b \in ConnFields, q \in PeerFields, TalkInv(p, b), <1>9, <1>10, <1>11, TalkMoved


\* write_from_buffer moves units from write_ to the socket.
LEMMA TalkWritten ==
  ASSUME NEW p \in PeerFields, NEW b \in ConnFields, NEW q \in PeerFields, NEW d \in ConnFields,
         NEW n \in 0..Len(b.write), TalkInv(p, b),
         q = [p EXCEPT !.wire = p.wire \o SubSeq(b.write, 1, n)],
         d.read = b.read, d.write = SubSeq(b.write, n + 1, Len(b.write))
  PROVE  TalkInv(q, d) /\ (LastReplied(q, d) => LastReplied(p, b))
<1> DEFINE g == p.got
           w == p.wire
           s == b.write
<1>0. /\ w \in Seq(1..MaxRequests) /\ s \in Seq(1..MaxRequests)
      /\ Len(g) \in Nat /\ Len(w) \in Nat /\ Len(s) \in Nat
  BY TalkTypes
<1>1. /\ Continues(g, 0) /\ Continues(w, Len(g)) /\ Continues(s, Len(g) + Len(w))
      /\ Replied(p, b) = Len(g) + Len(w) + Len(s)
  BY DEF TalkInv, Replied
<1>2. /\ q.half = p.half /\ q.ka = p.ka /\ q.sent = p.sent /\ q.inbox = p.inbox /\ q.state = p.state
      /\ q.got = g /\ q.wire = w \o SubSeq(s, 1, n) /\ d.write = SubSeq(s, n + 1, Len(s))
      /\ Replied(q, d) = Len(q.got) + Len(q.wire) + Len(d.write)
  BY DEF PeerFields, Replied
<1>3. n \in 0..Len(s)
  OBVIOUS
<1> HIDE DEF w, s, g
<1>4. /\ Len(w \o SubSeq(s, 1, n)) = Len(w) + n /\ Len(SubSeq(s, n + 1, Len(s))) = Len(s) - n
      /\ Continues(w \o SubSeq(s, 1, n), Len(g))
      /\ Continues(SubSeq(s, n + 1, Len(s)), Len(g) + Len(w) + n)
  BY ONLY <1>0, <1>1, <1>3, ContinuesMoved
<1>5. Len(g) + (Len(w) + n) + (Len(s) - n) = Len(g) + Len(w) + Len(s) /\ Len(g) + (Len(w) + n) = Len(g) + Len(w) + n
  BY <1>0, <1>3
<1>6. Replied(q, d) = Replied(p, b)
  BY <1>1, <1>2, <1>4, <1>5
<1>7. Continues(q.got, 0) /\ Continues(q.wire, Len(q.got)) /\ Continues(d.write, Len(q.got) + Len(q.wire))
  BY <1>1, <1>2, <1>4, <1>5
<1>8. Len(p.got) = Replied(p, b) => Len(q.got) = Replied(p, b)
  BY <1>2 DEF g
<1>9. /\ q.half = p.half /\ q.ka = p.ka /\ q.sent = p.sent /\ q.inbox = p.inbox
      /\ q.state = p.state /\ d.read = b.read
  BY <1>2
<1> QED BY ONLY p \in PeerFields, b \in ConnFields, q \in PeerFields, d \in ConnFields,
              TalkInv(p, b), <1>6, <1>7, <1>8, <1>9, TalkMoved

\* OnRequest answers the request that is in read_, into an empty write_.
LEMMA TalkAnswered ==
  ASSUME NEW p \in PeerFields, NEW b \in ConnFields, NEW d, TalkInv(p, b), ~LastReplied(p, b),
         p.inbox = <<>>, Parse(b.read) = "ok",
         d.write = Response(b.read[1].id), d.read = IF b.read[1].ka THEN <<>> ELSE b.read
  PROVE  TalkInv(p, d) /\ (LastReplied(p, d) => ~b.read[1].ka)
<1>0. /\ b.read \in Seq(Chunk) /\ p.sent \in Nat /\ RespLen \in Nat \ {0}
      /\ Len(p.got) \in Nat /\ Len(p.wire) \in Nat /\ Len(b.write) \in Nat
      /\ p.sent * RespLen \in Nat /\ p.ka \in BOOLEAN
  BY TalkTypes
<1>1. Pending(p, b) = b.read
  BY <1>0, ConcatEmptySeq DEF Pending
<1>2. b.read # <<>>
  BY DEF Parse
<1>3. Asked(p, b)
  BY <1>1, <1>2 DEF TalkInv, Idle, Halfway, Refused
<1>4. /\ ~p.half /\ b.read[1].id = p.sent /\ b.read[1].ka = p.ka
      /\ Replied(p, b) + RespLen = p.sent * RespLen /\ Len(p.got) = Replied(p, b)
  BY <1>1, <1>3 DEF Asked
<1>5. Len(p.wire) = 0 /\ Len(b.write) = 0
  <2>1. \A i, j, k \in Nat : i = i + j + k => j = 0 /\ k = 0
    OBVIOUS
  <2> QED BY <1>0, <1>4, <2>1 DEF Replied
<1>6. d.write = [k \in 1..RespLen |-> p.sent] /\ Len(d.write) = RespLen /\ DOMAIN d.write = 1..RespLen
  <2>1. d.write = [k \in 1..RespLen |-> p.sent]
    BY <1>4 DEF Response
  <2> QED BY <1>0, <2>1
<1>7. Replied(p, d) = p.sent * RespLen
  <2>1. Len(p.got) + RespLen = p.sent * RespLen
    BY <1>4
  <2>2. Len(p.got) + 0 + RespLen = Len(p.got) + RespLen
    BY <1>0
  <2>3. Replied(p, d) = Len(p.got) + 0 + RespLen
    BY <1>5, <1>6 DEF Replied
  <2> QED BY <2>1, <2>2, <2>3
<1>8. Len(p.got) + Len(p.wire) = (p.sent - 1) * RespLen /\ p.sent - 1 \in Nat
  <2>1. p.sent # 0
    BY <1>0, <1>4
  <2>2. \A n \in Nat \ {0}, R \in Nat : (n - 1) * R + R = n * R /\ (n - 1) * R \in Int
    OBVIOUS
  <2>3. Len(p.got) + RespLen = p.sent * RespLen
    BY <1>4
  <2> QED BY <1>0, <1>5, <2>1, <2>2, <2>3, SMTT(30)
<1>9. Continues(d.write, Len(p.got) + Len(p.wire))
  <2> SUFFICES ASSUME NEW k \in 1..RespLen
               PROVE  p.sent = (((p.sent - 1) * RespLen + k - 1) \div RespLen) + 1
    BY <1>6, <1>8 DEF Continues
  <2>1. (p.sent - 1) + 1 = p.sent
    BY <1>0
  <2> QED BY <1>8, <2>1, ReplyNumber
<1>10. Continues(p.got, 0) /\ Continues(p.wire, Len(p.got))
  BY DEF TalkInv
<1>11. CASE p.ka
  <2>1. d.read = <<>>
    BY <1>4, <1>11
  <2>2. Pending(p, d) = <<>> /\ ~LastReplied(p, d)
    BY <2>1 DEF Pending, LastReplied
  <2> QED BY <2>2, <1>4, <1>7, <1>9, <1>10 DEF TalkInv, Idle
<1>12. CASE ~p.ka
  <2>1. d.read = b.read
    BY <1>4, <1>12
  <2>2. LastReplied(p, d)
    BY <2>1, <1>2, <1>4, <1>7, <1>12 DEF LastReplied
  <2> QED BY <2>2, <1>4, <1>9, <1>10, <1>12 DEF TalkInv
<1> QED BY <1>11, <1>12, <1>0

\* A client that may send, and does not pipeline, has all it has asked for.
LEMMA MaySendIdle ==
  ASSUME NEW c \in Conns, peer[c] \in PeerFields, conn[c] \in ConnFields, TalkInv(peer[c], conn[c]),
         "pipeline" \notin Env, MaySend(c)
  PROVE  /\ Idle(peer[c], conn[c]) /\ Len(peer[c].got) = peer[c].sent * RespLen
         /\ peer[c].state = "open" /\ ~peer[c].half /\ peer[c].ka /\ peer[c].sent < MaxRequests
<1> DEFINE p == peer[c]
           b == conn[c]
<1>0. RespLen \in Nat \ {0} /\ Replied(p, b) \in Nat /\ p.sent * RespLen \in Nat
  BY TalkTypes
<1>1. /\ p.state = "open" /\ ~p.half /\ p.ka /\ p.sent < MaxRequests
      /\ Len(p.got) = p.sent * RespLen
  BY DEF MaySend
<1>2. ~Halfway(p, b) /\ ~Refused(p, b) /\ ~LastReplied(p, b)
  BY <1>1 DEF Halfway, Refused, LastReplied
<1>3. ~Asked(p, b)
  <2>1. ASSUME Asked(p, b) PROVE FALSE
    <3>1. Replied(p, b) + RespLen = Replied(p, b)
      BY <1>1, <2>1 DEF Asked
    <3> QED BY <1>0, <3>1
  <2> QED BY <2>1
<1>4. Idle(p, b)
  BY <1>2, <1>3 DEF TalkInv
<1> QED BY <1>1, <1>4

\* A client sends a chunk.
LEMMA TalkSent ==
  ASSUME NEW p \in PeerFields, NEW b \in ConnFields, NEW q, NEW x \in Chunk, TalkInv(p, b),
         q.got = p.got, q.wire = p.wire, q.inbox = Append(p.inbox, x),
         \/ /\ Idle(p, b) /\ Len(p.got) = p.sent * RespLen /\ x.id = p.sent + 1
            /\ \/ x.kind = "whole" /\ ~q.half /\ q.sent = p.sent + 1 /\ q.ka = x.ka
               \/ x.kind = "part" /\ q.half /\ q.sent = p.sent /\ q.ka = x.ka
               \/ x.kind = "bad" /\ q.state = "mute" /\ q.sent = p.sent /\ q.ka
         \/ /\ p.half /\ p.state = "open" /\ x.kind = "rest" /\ x.id = p.sent + 1
            /\ ~q.half /\ q.sent = p.sent + 1 /\ q.ka = p.ka
  PROVE  TalkInv(q, b) /\ ~LastReplied(q, b)
<1> DEFINE r == Pending(p, b)
           t == Pending(q, b)
<1>0. /\ b.read \in Seq(Chunk) /\ p.inbox \in Seq(Chunk) /\ r \in Seq(Chunk)
      /\ RespLen \in Nat \ {0} /\ Replied(p, b) \in Nat /\ p.sent * RespLen \in Nat /\ p.sent \in Nat
  BY TalkTypes
<1>1. t = Append(r, x)
  <2>1. b.read \o Append(p.inbox, x) = Append(b.read \o p.inbox, x)
    <3>1. b.read \in Seq(Chunk) /\ p.inbox \in Seq(Chunk)
      BY <1>0
    <3>2. PICK u \in Seq(Chunk) : u = b.read
      BY <3>1
    <3>3. PICK v \in Seq(Chunk) : v = p.inbox
      BY <3>1
    <3>4. u \o Append(v, x) = Append(u \o v, x)
      BY ConcatAppend
    <3> QED BY <3>2, <3>3, <3>4
  <2> QED BY <2>1 DEF Pending
<1>2. ~LastReplied(q, b)
  <2>1. Append(p.inbox, x) # <<>>
    BY <1>0
  <2> QED BY <2>1 DEF LastReplied
<1>3. Replied(q, b) = Replied(p, b)
  BY DEF Replied
<1>4. /\ Continues(q.got, 0) /\ Continues(q.wire, Len(q.got))
      /\ Continues(b.write, Len(q.got) + Len(q.wire))
  BY DEF TalkInv
<1>5. (p.sent + 1) * RespLen = p.sent * RespLen + RespLen
  BY <1>0
<1> HIDE DEF r, t
<1>6. CASE Idle(p, b) /\ Len(p.got) = p.sent * RespLen
  <2>1. r = <<>> /\ Replied(p, b) = p.sent * RespLen /\ ~p.half
    BY <1>6 DEF Idle, r
  <2>2. Len(t) = 1 /\ t[1] = x
    BY <1>1, <2>1
  <2>3. CASE x.kind = "whole" /\ ~q.half /\ q.sent = p.sent + 1 /\ q.ka = x.ka /\ x.id = p.sent + 1
    <3>1. Parse(t) = "ok"
      BY <2>2, <2>3 DEF Parse
    <3>2. Asked(q, b)
      BY <1>3, <1>5, <1>6, <2>1, <2>2, <2>3, <3>1 DEF Asked, t
    <3> QED BY <3>2, <1>2, <1>4 DEF TalkInv
  <2>4. CASE x.kind = "part" /\ q.half /\ q.sent = p.sent /\ q.ka = x.ka /\ x.id = p.sent + 1
    <3>1. Parse(t) = "expecting"
      BY <2>2, <2>4 DEF Parse
    <3>2. Halfway(q, b)
      BY <1>3, <1>6, <2>1, <2>2, <2>4, <3>1 DEF Halfway, t
    <3> QED BY <3>2, <1>2, <1>4 DEF TalkInv
  <2>5. CASE x.kind = "bad" /\ q.state = "mute" /\ q.sent = p.sent /\ q.ka
    <3>1. Parse(t) = "incorrect"
      BY <2>2, <2>5 DEF Parse
    <3>2. Refused(q, b)
      BY <1>3, <2>1, <2>5, <3>1 DEF Refused, t
    <3> QED BY <3>2, <1>2, <1>4 DEF TalkInv
  <2>6. ~p.half
    BY <2>1
  <2> QED BY <2>3, <2>4, <2>5, <2>6
<1>7. CASE /\ p.half /\ p.state = "open" /\ x.kind = "rest" /\ x.id = p.sent + 1
           /\ ~q.half /\ q.sent = p.sent + 1 /\ q.ka = p.ka
  <2>1. Halfway(p, b)
    BY <1>7 DEF TalkInv, Idle, Asked, Refused, LastReplied
  <2>2. /\ Parse(r) = "expecting" /\ r[1].id = p.sent + 1 /\ r[1].ka = p.ka
        /\ Replied(p, b) = p.sent * RespLen /\ Len(p.got) = Replied(p, b)
    BY <2>1 DEF Halfway, r
  <2>3. Len(r) = 1 /\ r[1].kind = "part"
    BY <2>2 DEF Parse
  <2>4. Len(t) = 2 /\ t[1] = r[1] /\ t[2] = x
    <3>1. r \in Seq(Chunk)
      BY <1>0
    <3>2. Len(Append(r, x)) = Len(r) + 1 /\ Append(r, x)[Len(r) + 1] = x /\ Append(r, x)[1] = r[1]
      BY ONLY <3>1, x \in Chunk, <2>3, AppendFacts
    <3> QED BY <1>1, <2>3, <3>2
  <2>5. Parse(t) = "ok"
    BY <1>7, <2>3, <2>4 DEF Parse
  <2>6. Asked(q, b)
    BY <1>3, <1>5, <1>7, <2>2, <2>4, <2>5 DEF Asked, t
  <2> QED BY <2>6, <1>2, <1>4 DEF TalkInv
<1> QED BY <1>6, <1>7

-----------------------------------------------------------------------------
(* Responses: ReplyInv, on top of IInv, ArmInv and CalmInv.                *)

\* A step that takes and ends no event, and neither ends a conversation nor
\* looks for more to read in one that has ended.
LEMMA LastKept ==
  ASSUME LastInv, UNCHANGED <<u_conn, batch>>,
         \A w \in Workers : wpc[w] = "arm" => wpc'[w] = "arm",
         \A d \in Conns : LastReplied(peer'[d], conn'[d]) =>
            /\ LastReplied(peer[d], conn[d])
            /\ "READ" \in conn'[d].option => "READ" \in conn[d].option
            /\ "READ" \in epoll'[d].armed => "READ" \in epoll[d].armed
  PROVE  LastInv'
BY DEF LastInv

\* The same for the end of an event.
LEMMA LastReleased ==
  ASSUME IInv, LastInv, NEW w \in Workers, wpc[w] # "wait", NextEvent(w), u_conn' = u_conn,
         \A d \in Conns : LastReplied(peer'[d], conn'[d]) =>
            /\ LastReplied(peer[d], conn[d])
            /\ "READ" \in conn'[d].option => "READ" \in conn[d].option
            /\ "READ" \in epoll'[d].armed => "READ" \in epoll[d].armed
  PROVE  LastInv'
<1>1. /\ batch[w] \in Seq(Event) /\ batch[w] # <<>>
      /\ batch' = [batch EXCEPT ![w] = Tail(batch[w])] /\ batch \in [Workers -> Seq(Event)]
      /\ wpc \in [Workers -> WorkerPcs]
  BY PlaceType DEF NextEvent, IInv, TypeOK
<1>2. \A i \in DOMAIN Tail(batch[w]) : /\ i + 1 \in DOMAIN batch[w] /\ Tail(batch[w])[i] = batch[w][i + 1]
                                       /\ i \in Nat /\ i + 1 # 1
  <2>1. /\ DOMAIN Tail(batch[w]) = 1..(Len(batch[w]) - 1) /\ Len(batch[w]) \in Nat \ {0}
        /\ \A i \in DOMAIN Tail(batch[w]) : i + 1 \in DOMAIN batch[w] /\ Tail(batch[w])[i] = batch[w][i + 1]
    BY <1>1, HeadTail
  <2> QED BY <2>1
<1>3. batch'[w] = Tail(batch[w]) /\ \A v \in Workers : v # w => batch'[v] = batch[v] /\ wpc'[v] = wpc[v]
  BY <1>1 DEF NextEvent
<1>4. ASSUME NEW c \in Conns, LastReplied(peer'[c], conn'[c]), NEW v \in Workers, NEW i \in DOMAIN batch'[v],
             u_conn'[batch'[v][i].place] = c, "READ" \in batch'[v][i].bits
      PROVE  i = 1 /\ wpc'[v] = "arm"
  <2>1. \A j \in DOMAIN batch[v] :
           u_conn[batch[v][j].place] = c /\ "READ" \in batch[v][j].bits => j = 1 /\ wpc[v] = "arm"
    BY <1>4 DEF LastInv
  <2>2. CASE v = w
    <3>1. i \in DOMAIN Tail(batch[w]) /\ batch'[v][i] = Tail(batch[w])[i]
      BY <1>3, <1>4, <2>2
    <3>2. i + 1 \in DOMAIN batch[v] /\ batch'[v][i] = batch[v][i + 1] /\ i + 1 # 1
      BY <1>2, <2>2, <3>1
    <3> QED BY <1>4, <2>1, <3>2
  <2>3. CASE v # w
    BY <1>3, <1>4, <2>1, <2>3
  <2> QED BY <2>2, <2>3
<1> QED BY <1>4 DEF LastInv

\* A client's step: its own conversation, and the backlog.
LEMMA PeerReply ==
  ASSUME IInv, ReplyInv, NEW c \in Conns, NEW q, peer' = [peer EXCEPT ![c] = q],
         TalkInv(q, conn[c]), LastReplied(q, conn[c]) => LastReplied(peer[c], conn[c]),
         q.state = "new" => peer[c].state = "new",
         \A d \in Conns : d \in ToSet(backlog') => d \in ToSet(backlog) \/ peer[d].state = "new",
         UNCHANGED <<mpc, mcur, mnew, u_conn, conn, epoll, wpc, batch>>
  PROVE  ReplyInv'
<1>1. peer \in [Conns -> PeerFields]
  BY DEF IInv, TypeOK
<1>2. peer'[c] = q /\ \A d \in Conns : d # c => peer'[d] = peer[d]
  BY <1>1
<1>3. \A d \in Conns : TalkInv(peer'[d], conn'[d])
  BY <1>2 DEF ReplyInv
<1>4. LastInv'
  <2>1. \A d \in Conns : LastReplied(peer'[d], conn'[d]) => LastReplied(peer[d], conn[d])
    BY <1>2
  <2> QED BY <2>1, LastKept DEF ReplyInv
<1>5. UnservedInv'
  <2>1. \A d \in Conns : Unserved(d)' => Unserved(d)
    BY <1>2 DEF Unserved
  <2> QED BY <2>1 DEF ReplyInv, UnservedInv
<1> QED BY <1>3, <1>4, <1>5 DEF ReplyInv

\* A service that has just been opened owes nothing.
LEMMA InitReply == Init => ReplyInv
<1> SUFFICES ASSUME Init PROVE ReplyInv
  OBVIOUS
<1>0. /\ peer = [c \in Conns |-> [state |-> "new", sent |-> 0, half |-> FALSE, ka |-> TRUE,
                                  inbox |-> <<>>, wire |-> <<>>, got |-> <<>>]]
      /\ conn = [c \in Conns |-> Unborn] /\ mpc = "loop" /\ wpc = [w \in Workers |-> "wait"]
  BY DEF Init, CoreInit, WorkersInit
<1>1. ASSUME NEW c \in Conns
      PROVE  TalkInv(peer[c], conn[c]) /\ conn[c].read = <<>> /\ conn[c].write = <<>>
  <2>1. /\ peer[c].sent = 0 /\ ~peer[c].half /\ peer[c].inbox = <<>> /\ peer[c].wire = <<>>
        /\ peer[c].got = <<>> /\ conn[c].read = <<>> /\ conn[c].write = <<>>
    BY <1>0 DEF Unborn, BlankConn
  <2>2. Pending(peer[c], conn[c]) = <<>>
    BY <2>1 DEF Pending
  <2>3. Replied(peer[c], conn[c]) = 0
    BY <2>1 DEF Replied
  <2>4. 0 * RespLen = 0
    BY ConstantsAssumption
  <2>5. Idle(peer[c], conn[c])
    BY <2>1, <2>2, <2>3, <2>4 DEF Idle
  <2>6. \A n : Continues(<<>>, n)
    BY DEF Continues
  <2> QED BY <2>1, <2>5, <2>6 DEF TalkInv
<1>2. LastInv
  BY <1>1 DEF LastInv, LastReplied
<1>3. UnservedInv
  BY <1>0, <1>1 DEF UnservedInv
<1> QED BY <1>0, <1>1, <1>2, <1>3 DEF ReplyInv

\* The clients talk one request at a time.
LEMMA WorldReply ==
  ASSUME "pipeline" \notin Env, IInv, ReplyInv, CalmInv, Calm, World
  PROVE  ReplyInv'
<1>0. ~Tick /\ (\A c \in Conns : ~Rst(c)) /\ peer \in [Conns -> PeerFields] /\ conn \in [Conns -> ConnFields]
      /\ backlog \in Seq(Conns)
  BY DEF Calm, Tick, Rst, IInv, TypeOK
<1>1. UNCHANGED <<mpc, mcur, mnew, u_conn, conn, epoll, wpc, batch>>
  BY <1>0 DEF World, EnvNext, ClientNext, Connect, SendWhole, SendPart, SendRest, SendBad, Receive, Fin,
         Shutdown, mainVars, poolVars, workerVars
<1>2. CASE Shutdown
  <2>1. UNCHANGED <<peer, backlog>>
    BY <1>2 DEF Shutdown, netVars
  <2>2. LastInv'
    BY <1>1, <2>1, LastKept DEF ReplyInv
  <2>3. UnservedInv'
    BY <1>1, <2>1 DEF ReplyInv, UnservedInv, Unserved
  <2> QED BY <1>1, <2>1, <2>2, <2>3 DEF ReplyInv
<1>3. ASSUME NEW c \in Conns, ClientNext(c) PROVE ReplyInv'
  <2> DEFINE p == peer[c]
             b == conn[c]
  <2>0. p \in PeerFields /\ b \in ConnFields /\ TalkInv(p, b) /\ peer'[c] \in PeerFields
    <3>1. p \in PeerFields /\ b \in ConnFields /\ TalkInv(p, b)
      BY <1>0 DEF ReplyInv
    <3>2. IInv'
      BY WorldStep
    <3> QED BY <3>1, <3>2 DEF IInv, TypeOK
  <2>1. CASE Connect(c)
    <3>1. p.state = "new" /\ peer' = [peer EXCEPT ![c] = [p EXCEPT !.state = "open"]] /\ backlog' = Append(backlog, c)
      BY <1>0, <2>1 DEF Connect
    <3>q. PICK q : q = [p EXCEPT !.state = "open"]
      OBVIOUS
    <3>2. /\ q.half = p.half /\ q.ka = p.ka /\ q.sent = p.sent /\ q.inbox = p.inbox
          /\ q.got = p.got /\ q.wire = p.wire /\ q.state = "open"
      BY <2>0, <3>q DEF PeerFields
    <3>3. TalkInv(q, b) /\ (LastReplied(q, b) => LastReplied(p, b))
      BY <2>0, <3>1, <3>2, TalkKept
    <3>4. ToSet(backlog') = ToSet(backlog) \cup {c}
      BY <1>0, <3>1, AppendElements
    <3>5. peer' = [peer EXCEPT ![c] = q]
      BY <3>1, <3>q
    <3>6. \A d \in Conns : d \in ToSet(backlog') => d \in ToSet(backlog) \/ peer[d].state = "new"
      BY <3>1, <3>4
    <3> QED BY <1>1, <3>2, <3>3, <3>5, <3>6, PeerReply
  <2> HIDE DEF p, b
  <2>b. ~Connect(c) => backlog' = backlog
    BY <1>0, <1>3 DEF ClientNext, SendWhole, SendPart, SendRest, SendBad, Receive, Fin
  <2>c. ASSUME NEW q, peer' = [peer EXCEPT ![c] = q], ~Connect(c), q.state # "new",
               TalkInv(q, b), LastReplied(q, b) => LastReplied(p, b)
        PROVE  ReplyInv'
    BY <1>1, <2>b, <2>c, PeerReply DEF p, b
  <2>s. ASSUME NEW q, NEW x \in Chunk, peer' = [peer EXCEPT ![c] = q], ~Connect(c), q.state # "new",
               q.got = p.got, q.wire = p.wire, q.inbox = Append(p.inbox, x),
         \/ /\ Idle(p, b) /\ Len(p.got) = p.sent * RespLen /\ x.id = p.sent + 1
            /\ \/ x.kind = "whole" /\ ~q.half /\ q.sent = p.sent + 1 /\ q.ka = x.ka
               \/ x.kind = "part" /\ q.half /\ q.sent = p.sent /\ q.ka = x.ka
               \/ x.kind = "bad" /\ q.state = "mute" /\ q.sent = p.sent /\ q.ka
         \/ /\ p.half /\ p.state = "open" /\ x.kind = "rest" /\ x.id = p.sent + 1
            /\ ~q.half /\ q.sent = p.sent + 1 /\ q.ka = p.ka
        PROVE  ReplyInv'
    <3>1. TalkInv(q, b) /\ ~LastReplied(q, b)
      BY <2>0, <2>s, TalkSent
    <3> QED BY <2>c, <2>s, <3>1
  <2>m. MaySend(c) => /\ Idle(p, b) /\ Len(p.got) = p.sent * RespLen
                      /\ p.state = "open" /\ ~p.half /\ p.ka /\ p.sent < MaxRequests
    BY <2>0, MaySendIdle DEF p, b
  <2>i. p.sent < MaxRequests => p.sent + 1 \in 1..MaxRequests
    BY <2>0, ConstantsAssumption DEF PeerFields
  <2>n. p.state = "open" => ~Connect(c)
    BY DEF Connect, p
  <2>2. CASE SendWhole(c)
    <3>1. PICK ka \in BOOLEAN :
            peer' = [peer EXCEPT ![c].sent = @ + 1, ![c].ka = ka,
                     ![c].inbox = Deliver(c, [kind |-> "whole", id |-> peer[c].sent + 1, ka |-> ka])]
      BY <2>2 DEF SendWhole
    <3>x. PICK x : x = [kind |-> "whole", id |-> p.sent + 1, ka |-> ka]
      OBVIOUS
    <3>l. PICK l : l = Append(p.inbox, x)
      OBVIOUS
    <3>q. PICK q : q = [p EXCEPT !.sent = p.sent + 1, !.ka = ka, !.inbox = l]
      OBVIOUS
    <3>2. peer' = [peer EXCEPT ![c] = q]
      BY <1>0, <3>1, <3>x, <3>l, <3>q DEF p, Deliver
    <3>3. MaySend(c)
      BY <2>2 DEF SendWhole
    <3>4. x \in Chunk /\ x.kind = "whole" /\ x.id = p.sent + 1 /\ x.ka = ka
      BY <2>i, <2>m, <3>3, <3>x DEF Chunk
    <3>5. /\ q.got = p.got /\ q.wire = p.wire /\ q.inbox = l /\ q.half = p.half
          /\ q.sent = p.sent + 1 /\ q.ka = ka /\ q.state = p.state
      BY <2>0, <3>q DEF PeerFields
    <3> QED BY <2>m, <2>n, <2>s, <3>2, <3>3, <3>4, <3>5, <3>l
  <2>3. CASE SendPart(c)
    <3>1. PICK ka \in BOOLEAN :
            peer' = [peer EXCEPT ![c].half = TRUE, ![c].ka = ka,
                     ![c].inbox = Deliver(c, [kind |-> "part", id |-> peer[c].sent + 1, ka |-> ka])]
      BY <2>3 DEF SendPart
    <3>x. PICK x : x = [kind |-> "part", id |-> p.sent + 1, ka |-> ka]
      OBVIOUS
    <3>l. PICK l : l = Append(p.inbox, x)
      OBVIOUS
    <3>q. PICK q : q = [p EXCEPT !.half = TRUE, !.ka = ka, !.inbox = l]
      OBVIOUS
    <3>2. peer' = [peer EXCEPT ![c] = q]
      BY <1>0, <3>1, <3>x, <3>l, <3>q DEF p, Deliver
    <3>3. MaySend(c)
      BY <2>3 DEF SendPart
    <3>4. x \in Chunk /\ x.kind = "part" /\ x.id = p.sent + 1 /\ x.ka = ka
      BY <2>i, <2>m, <3>3, <3>x DEF Chunk
    <3>5. /\ q.got = p.got /\ q.wire = p.wire /\ q.inbox = l /\ q.half
          /\ q.sent = p.sent /\ q.ka = ka /\ q.state = p.state
      BY <2>0, <3>q DEF PeerFields
    <3> QED BY <2>m, <2>n, <2>s, <3>2, <3>3, <3>4, <3>5, <3>l
  <2>4. CASE SendRest(c)
    <3>x. PICK x : x = [kind |-> "rest", id |-> p.sent + 1, ka |-> p.ka]
      OBVIOUS
    <3>l. PICK l : l = Append(p.inbox, x)
      OBVIOUS
    <3>q. PICK q : q = [p EXCEPT !.half = FALSE, !.sent = p.sent + 1, !.inbox = l]
      OBVIOUS
    <3>2. peer' = [peer EXCEPT ![c] = q]
      BY <1>0, <2>4, <3>x, <3>l, <3>q DEF p, Deliver, SendRest
    <3>3. p.state = "open" /\ p.half /\ p.sent < MaxRequests
      BY <2>4 DEF SendRest, p
    <3>4. x \in Chunk /\ x.kind = "rest" /\ x.id = p.sent + 1
      BY <2>0, <2>i, <3>3, <3>x DEF Chunk, PeerFields
    <3>5. /\ q.got = p.got /\ q.wire = p.wire /\ q.inbox = l /\ ~q.half
          /\ q.sent = p.sent + 1 /\ q.ka = p.ka /\ q.state = p.state
      BY <2>0, <3>q DEF PeerFields
    <3> QED BY <2>n, <2>s, <3>2, <3>3, <3>4, <3>5, <3>l
  <2>5. CASE SendBad(c)
    <3>x. PICK x : x = [kind |-> "bad", id |-> p.sent + 1, ka |-> FALSE]
      OBVIOUS
    <3>l. PICK l : l = Append(p.inbox, x)
      OBVIOUS
    <3>q. PICK q : q = [p EXCEPT !.state = "mute", !.inbox = l]
      OBVIOUS
    <3>2. peer' = [peer EXCEPT ![c] = q]
      BY <1>0, <2>5, <3>x, <3>l, <3>q DEF p, Deliver, SendBad
    <3>3. MaySend(c)
      BY <2>5 DEF SendBad
    <3>4. x \in Chunk /\ x.kind = "bad" /\ x.id = p.sent + 1
      BY <2>i, <2>m, <3>3, <3>x DEF Chunk
    <3>5. /\ q.got = p.got /\ q.wire = p.wire /\ q.inbox = l
          /\ q.sent = p.sent /\ q.ka = p.ka /\ q.state = "mute"
      BY <2>0, <3>q DEF PeerFields
    <3> QED BY <2>m, <2>n, <2>s, <3>2, <3>3, <3>4, <3>5, <3>l
  <2>6. CASE Receive(c)
    <3>q. PICK q : q = [p EXCEPT !.wire = Tail(p.wire), !.got = Append(p.got, Head(p.wire))]
      OBVIOUS
    <3>2. peer' = [peer EXCEPT ![c] = q] /\ p.wire # <<>> /\ p.state \in {"open", "mute", "fin"}
      BY <1>0, <2>6, <3>q DEF p, Receive
    <3>3. q \in PeerFields
      BY <1>0, <2>0, <3>2 DEF p
    <3>4. TalkInv(q, b) /\ (LastReplied(q, b) => LastReplied(p, b))
      BY <2>0, <3>q, <3>2, <3>3, TalkReceived
    <3>5. q.state = p.state
      BY <2>0, <3>q DEF PeerFields
    <3>6. ~Connect(c)
      BY <3>2 DEF Connect, p
    <3> QED BY <2>c, <3>2, <3>4, <3>5, <3>6
  <2>7. CASE Fin(c)
    <3>q. PICK q : q = [p EXCEPT !.state = "fin"]
      OBVIOUS
    <3>2. peer' = [peer EXCEPT ![c] = q] /\ p.state \in {"open", "mute"}
      BY <1>0, <2>7, <3>q DEF p, Fin
    <3>3. /\ q.half = p.half /\ q.ka = p.ka /\ q.sent = p.sent /\ q.inbox = p.inbox
          /\ q.got = p.got /\ q.wire = p.wire /\ q.state = "fin"
      BY <2>0, <3>q DEF PeerFields
    <3>4. TalkInv(q, b) /\ (LastReplied(q, b) => LastReplied(p, b))
      BY <2>0, <3>3, TalkKept
    <3>6. ~Connect(c)
      BY <3>2 DEF Connect, p
    <3> QED BY <2>c, <3>2, <3>3, <3>4, <3>6
  <2> QED BY <1>0, <1>3, <2>1, <2>2, <2>3, <2>4, <2>5, <2>6, <2>7 DEF ClientNext
<1> QED BY <1>0, <1>2, <1>3 DEF World, EnvNext

\* A step of the main thread that leaves the conversations alone and brings it
\* no nearer to a connection.
LEMMA QuietReply ==
  ASSUME ReplyInv, UNCHANGED <<u_conn, conn, epoll, peer, wpc, batch>>,
         \A d \in Conns : Unserved(d)' => Unserved(d),
         mpc' \in {"splice", "setopt", "add"} =>
            mpc \in {"splice", "setopt", "add"} /\ UNCHANGED <<mcur, mnew>>
  PROVE  ReplyInv'
<1>1. LastInv'
  BY LastKept DEF ReplyInv
<1>2. UnservedInv'
  BY DEF ReplyInv, UnservedInv
<1> QED BY <1>1, <1>2 DEF ReplyInv

\* The main thread puts a connection of which nothing was read into a place.
LEMMA PlaceReply ==
  ASSUME IInv, ReplyInv, NEW q \in Places, mpc \in {"replace", "emplace"}, mpc' \in {"splice", "setopt"},
         mcur' = q, u_conn' = [u_conn EXCEPT ![q] = mnew], conn' = [conn EXCEPT ![mnew] = FreshConn],
         UNCHANGED <<mnew, epoll, peer, backlog, wpc, batch>>
  PROVE  ReplyInv'
<1>1. /\ mnew \in Conns /\ conn \in [Conns -> ConnFields] /\ u_conn \in [Places -> Conns \cup {NoConn}]
      /\ batch \in [Workers -> Seq(Event)]
  BY DEF IInv, MainInv, TypeOK
<1>2. /\ conn[mnew].read = <<>> /\ conn[mnew].write = <<>>
      /\ conn'[mnew].read = <<>> /\ conn'[mnew].write = <<>>
  BY <1>1 DEF ReplyInv, UnservedInv, Unserved, FreshConn, BlankConn
<1>3. \A d \in Conns : d # mnew => conn'[d] = conn[d]
  BY <1>1
<1>4. TalkInv(peer[mnew], conn'[mnew])
  <2>1. TalkInv(peer[mnew], conn[mnew])
    BY <1>1 DEF ReplyInv
  <2> QED BY <1>2, <2>1, TalkKept
<1>5. \A d \in Conns : TalkInv(peer'[d], conn'[d])
  BY <1>3, <1>4 DEF ReplyInv
<1>6. LastInv'
  <2> SUFFICES ASSUME NEW d \in Conns, LastReplied(peer'[d], conn'[d])
               PROVE  /\ "READ" \notin conn'[d].option /\ "READ" \notin epoll'[d].armed
                      /\ \A w \in Workers : \A i \in DOMAIN batch'[w] :
                            u_conn'[batch'[w][i].place] = d /\ "READ" \in batch'[w][i].bits
                               => i = 1 /\ wpc'[w] = "arm"
    BY DEF LastInv
  <2>1. d # mnew
    BY <1>2 DEF LastReplied
  <2>2. /\ "READ" \notin conn[d].option /\ "READ" \notin epoll[d].armed
        /\ \A w \in Workers : \A i \in DOMAIN batch[w] :
              u_conn[batch[w][i].place] = d /\ "READ" \in batch[w][i].bits => i = 1 /\ wpc[w] = "arm"
    BY <1>3, <2>1 DEF ReplyInv, LastInv
  <2>3. \A p \in Places : u_conn'[p] = d => u_conn[p] = d
    BY <1>1, <2>1
  <2>4. ASSUME NEW w \in Workers, NEW i \in DOMAIN batch[w] PROVE batch[w][i].place \in Places
    <3>1. batch[w] \in Seq(Event)
      BY <1>1
    <3>2. batch[w][i] \in Event
      BY <3>1
    <3> QED BY <3>2 DEF Event
  <2> QED BY <1>3, <2>1, <2>2, <2>3, <2>4
<1>7. UnservedInv'
  <2>1. u_conn'[mcur'] = mnew'
    BY <1>1
  <2>2. \A d \in Conns : Unserved(d)' => Unserved(d)
    BY DEF Unserved
  <2> QED BY <1>2, <1>3, <2>1, <2>2 DEF ReplyInv, UnservedInv
<1> QED BY <1>5, <1>6, <1>7 DEF ReplyInv

\* The main thread touches no conversation.
LEMMA MainReply == ASSUME IInv, ReplyInv, CalmInv, Main PROVE ReplyInv'
<1>0. /\ UNCHANGED <<wpc, batch, wconn>> /\ MainNext /\ NothingExpires
      /\ backlog \in Seq(Conns) /\ conn \in [Conns -> ConnFields] /\ epoll \in [Conns -> Registration]
  BY DEF Main, workerVars, CalmInv, IInv, TypeOK
<1>1. CASE RunLoop \/ AcceptTimeout \/ AcceptThrows \/ DumpFront \/ PopFront
  <2>1. /\ UNCHANGED <<u_conn, conn, epoll, peer, mnew, backlog>>
        /\ mpc' \notin {"replace", "emplace", "splice", "setopt", "add"}
    BY <1>1 DEF RunLoop, AcceptTimeout, AcceptThrows, DumpFront, PopFront, poolVars, netVars
  <2>2. \A d \in Conns : Unserved(d)' => Unserved(d)
    BY <2>1 DEF Unserved
  <2> QED BY <1>0, <2>1, <2>2, QuietReply
<1>2. CASE Accept
  <2>1. /\ backlog # <<>> /\ mnew' = Head(backlog) /\ backlog' = Tail(backlog) /\ mpc' = "replace"
        /\ UNCHANGED <<u_conn, conn, epoll, peer>>
    BY <1>2 DEF Accept, poolVars
  <2>2. /\ 1 \in DOMAIN backlog /\ Head(backlog) = backlog[1]
        /\ \A i \in DOMAIN Tail(backlog) : i + 1 \in DOMAIN backlog /\ Tail(backlog)[i] = backlog[i + 1]
    BY <1>0, <2>1, HeadTail
  <2>3. mnew' \in ToSet(backlog) /\ \A d \in ToSet(backlog') : d \in ToSet(backlog)
    BY <2>1, <2>2 DEF ToSet
  <2>4. \A d \in Conns : Unserved(d)' => Unserved(d)
    BY <2>1, <2>3 DEF Unserved
  <2> QED BY <1>0, <2>1, <2>4, QuietReply
<1>3. CASE TryReplace
  <2>1. CASE closed = <<>>
    <3>1. /\ UNCHANGED <<u_conn, conn, epoll, peer, mnew, backlog>> /\ mpc = "replace" /\ mpc' = "emplace"
      BY <1>3, <2>1 DEF TryReplace, netVars
    <3>2. \A d \in Conns : Unserved(d)' => Unserved(d)
      BY <3>1 DEF Unserved
    <3> QED BY <1>0, <3>1, <3>2, QuietReply
  <2>2. CASE closed # <<>>
    <3>1. PICK q : q = Head(closed)
      OBVIOUS
    <3>2. q \in Places
      BY <2>2, <3>1, HeadTail DEF IInv, TypeOK
    <3>3. /\ mpc = "replace" /\ mpc' = "splice" /\ mcur' = q
          /\ u_conn' = [u_conn EXCEPT ![q] = mnew] /\ conn' = [conn EXCEPT ![mnew] = FreshConn]
          /\ UNCHANGED <<mnew, epoll, peer, backlog>>
      BY <1>3, <2>2, <3>1 DEF TryReplace, netVars
    <3> QED BY <1>0, <3>2, <3>3, PlaceReply
  <2> QED BY <2>1, <2>2
<1>4. CASE Emplace
  <2>1. PICK q \in Places : /\ u_conn' = [u_conn EXCEPT ![q] = mnew]
                            /\ conn' = [conn EXCEPT ![mnew] = FreshConn] /\ mcur' = q
    BY <1>4 DEF Emplace
  <2>2. mpc = "emplace" /\ mpc' = "setopt" /\ UNCHANGED <<mnew, epoll, peer, backlog>>
    BY <1>4 DEF Emplace, netVars
  <2> QED BY <1>0, <2>1, <2>2, PlaceReply
<1>5. CASE Splice
  <2>1. /\ mpc = "splice" /\ mpc' = "setopt" /\ UNCHANGED <<mcur, mnew, u_conn, conn, epoll, peer, backlog>>
    BY <1>5 DEF Splice, netVars
  <2>2. \A d \in Conns : Unserved(d)' => Unserved(d)
    BY <2>1 DEF Unserved
  <2> QED BY <1>0, <2>1, <2>2, QuietReply
<1>6. CASE SetOption \/ EpollAdd
  <2> DEFINE c == u_conn[mcur]
  <2>1. /\ mpc \in {"setopt", "add"} /\ mpc' \in {"add", "dump"}
        /\ UNCHANGED <<mcur, u_conn, peer, backlog>>
        /\ mpc' = "add" => mnew' = mnew
    BY <1>6 DEF SetOption, EpollAdd, poolVars, netVars
  <2>2. c = mnew /\ c \in Conns
    BY <2>1 DEF ReplyInv, UnservedInv, IInv, MainInv
  <2>3. conn[c].read = <<>> /\ conn[c].write = <<>>
    BY <2>1, <2>2 DEF ReplyInv, UnservedInv, Unserved
  <2>4. \A d \in Conns : /\ conn'[d].read = conn[d].read /\ conn'[d].write = conn[d].write
                         /\ d # c => conn'[d] = conn[d] /\ epoll'[d] = epoll[d]
    <3>1. CASE SetOption
      <4>1. conn' = [conn EXCEPT ![c].option = {"READ", "ET_ONESHOT"}] /\ epoll' = epoll
        BY <3>1 DEF SetOption
      <4> QED BY <1>0, <2>2, <4>1 DEF ConnFields
    <3>2. CASE EpollAdd
      BY <1>0, <2>2, <3>2 DEF EpollAdd
    <3> QED BY <1>6, <3>1, <3>2
  <2> HIDE DEF c
  <2>5. ASSUME NEW d \in Conns PROVE TalkInv(peer'[d], conn'[d]) /\ (LastReplied(peer'[d], conn'[d]) => LastReplied(peer[d], conn[d]))
    <3>1. TalkInv(peer[d], conn[d]) /\ peer'[d] = peer[d]
      BY <2>1 DEF ReplyInv
    <3>2. TalkInv(peer[d], conn'[d]) /\ (LastReplied(peer[d], conn'[d]) => LastReplied(peer[d], conn[d]))
      BY <2>4, <3>1, TalkKept
    <3> QED BY <3>1, <3>2
  <2>6. ~LastReplied(peer'[c], conn'[c])
    BY <2>2, <2>3, <2>4 DEF LastReplied
  <2>7. LastInv'
    <3>1. \A d \in Conns : LastReplied(peer'[d], conn'[d]) =>
            /\ LastReplied(peer[d], conn[d])
            /\ "READ" \in conn'[d].option => "READ" \in conn[d].option
            /\ "READ" \in epoll'[d].armed => "READ" \in epoll[d].armed
      BY <2>4, <2>5, <2>6
    <3> QED BY <1>0, <2>1, <3>1, LastKept DEF ReplyInv
  <2>8. UnservedInv'
    <3>1. \A d \in Conns : Unserved(d)' => Unserved(d)
      BY <2>1 DEF Unserved
    <3>2. mpc' \in {"splice", "setopt", "add"} => u_conn'[mcur'] = mnew'
      BY <2>1, <2>2 DEF c
    <3> QED BY <2>4, <3>1, <3>2 DEF ReplyInv, UnservedInv
  <2> QED BY <1>0, <2>5, <2>7, <2>8 DEF ReplyInv
<1>7. CASE CloseIfTimedOut
  <2>1. mpc = "expire" /\ u_conn[mcur] \in Conns
    BY <1>7 DEF CloseIfTimedOut, IInv, MainInv, TypeOK
  <2>2. ~TimedOut(u_conn[mcur])
    <3>1. conn[u_conn[mcur]].age = 0
      BY <1>0, <2>1 DEF NothingExpires
    <3> QED BY <3>1, ConstantsAssumption DEF TimedOut
  <2>3. mpc' = "loop" /\ UNCHANGED <<mnew, u_conn, conn, epoll, peer, backlog>>
    BY <1>7, <2>2 DEF CloseIfTimedOut, netVars
  <2>4. \A d \in Conns : Unserved(d)' => Unserved(d)
    BY <2>3 DEF Unserved
  <2> QED BY <1>0, <2>3, <2>4, QuietReply
<1> QED BY <1>0, <1>1, <1>2, <1>3, <1>4, <1>5, <1>6, <1>7 DEF MainNext

\* A worker handles connections that the main thread is done with.
LEMMA Served ==
  ASSUME IInv, ArmInv, CalmInv, ReplyInv, NEW w \in Workers, wpc[w] # "wait"
  PROVE  ~Unserved(u_conn[place(w)])
<1> DEFINE p == place(w)
           c == u_conn[p]
<1>1. p \in Places /\ c \in Conns /\ batch[w] \in Seq(Event) /\ batch[w] # <<>>
  BY PlaceType
<1>2. HasEvent(p)
  <2>1. 1 \in DOMAIN batch[w] /\ batch[w][1].place = p
    BY <1>1, HeadTail DEF place
  <2> QED BY <2>1 DEF HasEvent
<1>3. ~Registering(p)
  BY <1>1, <1>2 DEF CalmInv, EventsFresh
<1>4. peer[c].state # "new" /\ c \notin ToSet(backlog) /\ (mpc \in {"replace", "emplace"} => c # mnew)
  BY <1>1 DEF IInv, FreshInv, ToSet
<1>5. ASSUME c = mnew, mpc \in {"splice", "setopt", "add"} PROVE FALSE
  <2>1. u_conn[mcur] = c /\ mcur \in Places /\ c # NoConn
    BY <1>1, <1>5, ConstantsAssumption DEF ReplyInv, UnservedInv, IInv, TypeOK
  <2>2. mcur = p
    BY <1>1, <2>1 DEF IInv, PlacedOnce
  <2> QED BY <1>3, <1>5, <2>2 DEF Registering
<1> QED BY <1>4, <1>5 DEF Unserved

\* A step of a worker changes one conversation.
LEMMA HandlerReply ==
  ASSUME ReplyInv, NEW c \in Conns, ~Unserved(c),
         \A d \in Conns : d # c => peer'[d] = peer[d] /\ conn'[d] = conn[d],
         TalkInv(peer'[c], conn'[c]), peer'[c].state = peer[c].state,
         UNCHANGED <<mpc, mcur, mnew, u_conn, backlog>>, LastInv',
         \A v \in Workers : wpc'[v] = "read" => "READ" \in Head(batch'[v]).bits
  PROVE  ReplyInv'
<1>1. \A d \in Conns : TalkInv(peer'[d], conn'[d])
  BY DEF ReplyInv
<1>2. \A d \in Conns : Unserved(d)' => Unserved(d) /\ d # c
  BY DEF Unserved
<1>3. UnservedInv'
  BY <1>2 DEF ReplyInv, UnservedInv
<1> QED BY <1>1, <1>3 DEF ReplyInv

\* The end of an event does not begin to read.
LEMMA ReleasedReading ==
  ASSUME IInv, ReplyInv, NEW w \in Workers, NextEvent(w)
  PROVE  \A v \in Workers : wpc'[v] = "read" => "READ" \in Head(batch'[v]).bits
<1>1. wpc \in [Workers -> WorkerPcs] /\ batch \in [Workers -> Seq(Event)]
  BY DEF IInv, TypeOK
<1>2. wpc'[w] \in {"wait", "lock"} /\ \A v \in Workers : v # w => wpc'[v] = wpc[v] /\ batch'[v] = batch[v]
  BY <1>1 DEF NextEvent
<1> QED BY <1>2 DEF ReplyInv

\* A worker that reads handles a conversation that has not ended.
LEMMA ReadingGoesOn ==
  ASSUME IInv, ReplyInv, NEW w \in Workers, wpc[w] = "read"
  PROVE  ~LastReplied(peer[wconn[w]], conn[wconn[w]])
<1> DEFINE c == wconn[w]
<1>1. c \in Conns /\ c = u_conn[place(w)]
  BY Handling
<1>2. 1 \in DOMAIN batch[w] /\ batch[w][1] = Head(batch[w])
  <2>1. batch[w] \in Seq(Event) /\ batch[w] # <<>>
    BY PlaceType
  <2> QED BY <2>1, HeadTail
<1>3. "READ" \in batch[w][1].bits /\ u_conn[batch[w][1].place] = c
  BY <1>1, <1>2 DEF ReplyInv, place
<1> QED BY <1>1, <1>2, <1>3 DEF ReplyInv, LastInv

\* epoll_wait reports what is armed.
LEMMA BatchBits ==
  ASSUME NEW b \in Batches
  PROVE  \A i \in DOMAIN b : b[i].bits \subseteq epoll[u_conn[b[i].place]].armed
<1> DEFINE n == IF Cardinality(ReadyPlaces) < MaxEvents
                THEN Cardinality(ReadyPlaces) ELSE MaxEvents
<1>1. PICK f \in [1..n -> ReadyPlaces] :
         b = [i \in 1..n |-> [place |-> f[i], bits |-> ReadyBits(f[i])]]
  BY DEF Batches
<1> HIDE DEF n
<1>2. DOMAIN b = 1..n /\ \A i \in 1..n : b[i].place = f[i] /\ b[i].bits = ReadyBits(f[i])
  BY <1>1
<1>3. ASSUME NEW q PROVE ReadyBits(q) \subseteq epoll[u_conn[q]].armed
  BY DEF ReadyBits
<1> QED BY <1>2, <1>3

\* Waiting for events and taking one.
LEMMA TakeReply ==
  ASSUME IInv, ArmInv, ReplyInv, NEW w \in Workers, EpollWait(w) \/ LockPlace(w)
  PROVE  ReplyInv'
<1>0. /\ wpc \in [Workers -> WorkerPcs] /\ batch \in [Workers -> Seq(Event)]
      /\ epoll \in [Conns -> Registration]
      /\ UNCHANGED <<mpc, mcur, mnew, u_conn, backlog, peer, conn>>
  BY DEF IInv, TypeOK, EpollWait, LockPlace, mainVars, poolVars, netVars
<1>1. \A d \in Conns : TalkInv(peer'[d], conn'[d])
  BY <1>0 DEF ReplyInv
<1>2. UnservedInv'
  BY <1>0 DEF ReplyInv, UnservedInv, Unserved
<1>3. CASE LockPlace(w)
  <2>1. /\ wpc[w] = "lock" /\ wpc' = [wpc EXCEPT ![w] = "check"] /\ UNCHANGED <<batch, epoll>>
    BY <1>3 DEF LockPlace
  <2>2. \A v \in Workers : (wpc[v] = "arm" => wpc'[v] = "arm") /\ (wpc'[v] = "read" => wpc[v] = "read")
    BY <1>0, <2>1
  <2>3. LastInv'
    BY <1>0, <2>1, <2>2, LastKept DEF ReplyInv
  <2> QED BY <1>1, <1>2, <2>1, <2>2, <2>3 DEF ReplyInv
<1>4. CASE EpollWait(w)
  <2>1. PICK b \in Batches :
          /\ batch' = [batch EXCEPT ![w] = b]
          /\ epoll' = [c \in Conns |->
                         IF \E i \in DOMAIN b : u_conn[b[i].place] = c
                         THEN [epoll[c] EXCEPT !.armed = {}] ELSE epoll[c]]
    BY <1>4 DEF EpollWait
  <2>2. wpc' = [wpc EXCEPT ![w] = "lock"] /\ wpc[w] = "wait"
    BY <1>4 DEF EpollWait
  <2>3. batch'[w] = b /\ wpc'[w] = "lock" /\ \A v \in Workers : v # w => batch'[v] = batch[v] /\ wpc'[v] = wpc[v]
    BY <1>0, <2>1, <2>2
  <2>4. \A d \in Conns : epoll'[d].armed \subseteq epoll[d].armed
    BY <1>0, <2>1 DEF Registration
  <2>5. ASSUME NEW d \in Conns, LastReplied(peer'[d], conn'[d])
        PROVE  /\ "READ" \notin conn'[d].option /\ "READ" \notin epoll'[d].armed
               /\ \A v \in Workers : \A i \in DOMAIN batch'[v] :
                     u_conn'[batch'[v][i].place] = d /\ "READ" \in batch'[v][i].bits
                        => i = 1 /\ wpc'[v] = "arm"
    <3>1. /\ "READ" \notin conn[d].option /\ "READ" \notin epoll[d].armed
          /\ \A v \in Workers : \A i \in DOMAIN batch[v] :
                u_conn[batch[v][i].place] = d /\ "READ" \in batch[v][i].bits => i = 1 /\ wpc[v] = "arm"
      BY <1>0, <2>5 DEF ReplyInv, LastInv
    <3>2. \A i \in DOMAIN b : u_conn[b[i].place] = d => "READ" \notin b[i].bits
      BY <3>1, BatchBits
    <3> QED BY <1>0, <2>3, <2>4, <3>1, <3>2
  <2>6. LastInv'
    BY <2>5 DEF LastInv
  <2>7. \A v \in Workers : wpc'[v] = "read" => "READ" \in Head(batch'[v]).bits
    BY <2>3 DEF ReplyInv
  <2> QED BY <1>1, <1>2, <2>6, <2>7 DEF ReplyInv
<1> QED BY <1>3, <1>4


\* OnRequest writes the response; a last request is not read again.
LEMMA HandleReply ==
  ASSUME IInv, ArmInv, CalmInv, ReplyInv, NEW w \in Workers, HandleRequest(w)
  PROVE  ReplyInv'
<1> DEFINE c   == wconn[w]
           req == conn[c].read[1]
           wr  == Response(req.id)
           rd  == IF req.ka THEN <<>> ELSE conn[c].read
           o   == (IF req.ka THEN conn[c].option ELSE conn[c].option \ {"READ"}) \cup {"WRITE", "ET_ONESHOT"}
           r   == [conn[c] EXCEPT !.keep_alive = req.ka, !.write = wr, !.read = rd, !.option = o]
<1>1. /\ wpc[w] = "read" /\ wpc' = [wpc EXCEPT ![w] = "arm"]
      /\ peer[c].inbox = <<>> /\ Parse(conn[c].read) = "ok"
      /\ UNCHANGED <<mpc, mcur, mnew, u_conn, epoll, peer, backlog, batch>>
  BY DEF HandleRequest, ReadDone, mainVars, poolVars, netVars
<1>2. /\ c \in Conns /\ conn[c] \in ConnFields /\ peer[c] \in PeerFields
      /\ conn \in [Conns -> ConnFields] /\ wpc \in [Workers -> WorkerPcs] /\ c = u_conn[place(w)]
      /\ batch \in [Workers -> Seq(Event)]
  BY <1>1, Handling DEF IInv, TypeOK
<1>3. conn' = [conn EXCEPT ![c] = r]
  BY <1>2 DEF HandleRequest
<1>4. ~LastReplied(peer[c], conn[c]) /\ TalkInv(peer[c], conn[c]) /\ ~Unserved(c)
  BY <1>1, <1>2, ReadingGoesOn, Served DEF ReplyInv
<1>5. "READ" \in o => req.ka
  BY <1>2
<1> HIDE DEF wr, o
<1>6. r.write = wr /\ r.read = rd /\ r.option = o
  BY <1>2 DEF ConnFields
<1> HIDE DEF r
<1>7. conn'[c] = r /\ \A d \in Conns : d # c => conn'[d] = conn[d]
  BY <1>2, <1>3
<1>8. TalkInv(peer[c], r) /\ (LastReplied(peer[c], r) => ~req.ka)
  BY <1>1, <1>2, <1>4, <1>6, TalkAnswered DEF wr
<1>9. LastInv'
  <2> SUFFICES ASSUME NEW d \in Conns, LastReplied(peer'[d], conn'[d])
               PROVE  /\ "READ" \notin conn'[d].option /\ "READ" \notin epoll'[d].armed
                      /\ \A v \in Workers : \A i \in DOMAIN batch'[v] :
                            u_conn'[batch'[v][i].place] = d /\ "READ" \in batch'[v][i].bits
                               => i = 1 /\ wpc'[v] = "arm"
    BY DEF LastInv
  <2>1. \A v \in Workers : wpc[v] = "arm" => wpc'[v] = "arm"
    BY <1>1, <1>2
  <2>2. CASE d # c
    BY <1>1, <1>7, <2>1, <2>2 DEF ReplyInv, LastInv
  <2>3. CASE d = c
    <3>1. "READ" \notin conn'[d].option
      BY <1>1, <1>5, <1>6, <1>7, <1>8, <2>3
    <3>2. /\ place(w) \in Places /\ 1 \in DOMAIN batch[w] /\ batch[w][1].place = place(w)
          /\ c # NoConn
      <4>1. batch[w] \in Seq(Event) /\ batch[w] # <<>> /\ place(w) \in Places /\ u_conn[place(w)] # NoConn
        BY <1>1, PlaceType
      <4> QED BY <1>2, <4>1, HeadTail DEF place
    <3>3. "READ" \notin epoll'[d].armed
      <4>1. HasEvent(place(w))
        BY <3>2 DEF HasEvent
      <4>2. \A p \in Places : u_conn[p] = c => p = place(w)
        BY <1>2, <3>2 DEF IInv, PlacedOnce
      <4>3. epoll[c].armed = {}
        BY <1>2, <4>1, <4>2 DEF CalmInv, EventsFresh, Live
      <4> QED BY <1>1, <2>3, <4>3
    <3>4. ASSUME NEW v \in Workers, NEW i \in DOMAIN batch[v], u_conn[batch[v][i].place] = c
          PROVE  i = 1 /\ wpc'[v] = "arm"
      <4>1. batch[v][i].place \in Places
        <5>1. batch[v] \in Seq(Event)
          BY <1>2
        <5>2. batch[v][i] \in Event
          BY <5>1
        <5> QED BY <5>2 DEF Event
      <4>2. batch[v][i].place = batch[w][1].place
        BY <1>2, <3>2, <3>4, <4>1 DEF IInv, PlacedOnce
      <4>3. v = w /\ i = 1
        BY <3>2, <4>2 DEF CalmInv, OneEvent
      <4> QED BY <1>1, <1>2, <4>3
    <3> QED BY <1>1, <2>3, <3>1, <3>3, <3>4
  <2> QED BY <2>2, <2>3
<1>10. \A v \in Workers : wpc'[v] = "read" => "READ" \in Head(batch'[v]).bits
  BY <1>1, <1>2 DEF ReplyInv
<1> QED BY <1>1, <1>2, <1>4, <1>7, <1>8, <1>9, <1>10, HandlerReply

\* A short or whole write leaves the rest of the response in write_.
LEMMA WriteReply ==
  ASSUME IInv, ArmInv, CalmInv, ReplyInv, NEW w \in Workers, Worker(w), WriteFromBuffer(w)
  PROVE  ReplyInv'
<1> USE ConstantsAssumption
<1> DEFINE c == wconn[w]
           room == IF Len(peer[c].wire) < Window THEN Window - Len(peer[c].wire) ELSE 0
           n == IF Len(conn[c].write) < room THEN Len(conn[c].write) ELSE room
           wire == peer[c].wire \o SubSeq(conn[c].write, 1, n)
           o == (conn[c].option \ {"WRITE"}) \cup {"ET_ONESHOT"}
           rest == SubSeq(conn[c].write, n + 1, Len(conn[c].write))
           q == [peer[c] EXCEPT !.wire = wire]
<1>1. /\ wpc[w] = "write"
      /\ UNCHANGED <<mpc, mcur, mnew, u_conn, epoll, backlog, batch>>
  BY DEF WriteFromBuffer, mainVars, poolVars
<1>2. /\ c \in Conns /\ conn[c] \in ConnFields /\ peer[c] \in PeerFields /\ c = u_conn[place(w)]
      /\ conn \in [Conns -> ConnFields] /\ peer \in [Conns -> PeerFields] /\ wpc \in [Workers -> WorkerPcs]
  BY <1>1, Handling DEF IInv, TypeOK
<1>3. conn' \in [Conns -> ConnFields] /\ peer' \in [Conns -> PeerFields]
  BY WorkerStep DEF IInv, TypeOK
<1>4. n \in 0..Len(conn[c].write)
  <2>1. Len(conn[c].write) \in Nat /\ Len(peer[c].wire) \in Nat
    BY <1>2, TalkTypes
  <2> QED BY <2>1, SMTT(30)
<1>5. peer' = [peer EXCEPT ![c] = q]
  BY <1>2 DEF WriteFromBuffer
<1>6. /\ \/ conn' = [conn EXCEPT ![c] = [conn[c] EXCEPT !.write = <<>>, !.option = o]]
            /\ wpc' = [wpc EXCEPT ![w] = "arm"] /\ n = Len(conn[c].write)
         \/ conn' = [conn EXCEPT ![c] = [conn[c] EXCEPT !.write = rest]] /\ wpc' = wpc
  BY <1>2 DEF WriteFromBuffer
<1>7. "READ" \in o => "READ" \in conn[c].option
  OBVIOUS
<1> HIDE DEF n, o
<1>8. n = Len(conn[c].write) => rest = <<>>
  <2>1. conn[c].write \in Seq(1..MaxRequests)
    BY <1>2, TalkTypes
  <2>2. \A s \in Seq(1..MaxRequests) : SubSeq(s, Len(s) + 1, Len(s)) = <<>>
    OBVIOUS
  <2> QED BY <2>1, <2>2
<1> HIDE DEF rest, wire
<1>9. /\ peer'[c] = q /\ q.state = peer[c].state
      /\ \A d \in Conns : d # c => peer'[d] = peer[d] /\ conn'[d] = conn[d]
  BY <1>2, <1>5, <1>6 DEF PeerFields
<1>10. /\ conn'[c].read = conn[c].read /\ conn'[c].write = rest
       /\ "READ" \in conn'[c].option => "READ" \in conn[c].option
  <2>1. /\ [conn[c] EXCEPT !.write = <<>>, !.option = o].read = conn[c].read
        /\ [conn[c] EXCEPT !.write = <<>>, !.option = o].write = <<>>
        /\ [conn[c] EXCEPT !.write = <<>>, !.option = o].option = o
        /\ [conn[c] EXCEPT !.write = rest].read = conn[c].read
        /\ [conn[c] EXCEPT !.write = rest].write = rest
        /\ [conn[c] EXCEPT !.write = rest].option = conn[c].option
    BY <1>2 DEF ConnFields
  <2>2. \/ /\ conn'[c] = [conn[c] EXCEPT !.write = <<>>, !.option = o]
           /\ rest = <<>>
        \/ conn'[c] = [conn[c] EXCEPT !.write = rest]
    BY <1>2, <1>6, <1>8
  <2> QED BY <1>7, <2>1, <2>2
<1>11. TalkInv(peer'[c], conn'[c]) /\ (LastReplied(peer'[c], conn'[c]) => LastReplied(peer[c], conn[c]))
  <2>1. /\ peer'[c] \in PeerFields /\ conn'[c] \in ConnFields /\ TalkInv(peer[c], conn[c])
        /\ peer'[c] = [peer[c] EXCEPT !.wire = peer[c].wire \o SubSeq(conn[c].write, 1, n)]
        /\ conn'[c].write = SubSeq(conn[c].write, n + 1, Len(conn[c].write))
    BY <1>2, <1>3, <1>9, <1>10 DEF ReplyInv, wire, rest
  <2> QED BY <1>2, <1>4, <1>10, <2>1, TalkWritten
<1>12. \A v \in Workers : (wpc[v] = "arm" => wpc'[v] = "arm") /\ (wpc'[v] = "read" => wpc[v] = "read")
  BY <1>1, <1>2, <1>6
<1>13. LastInv'
  <2>1. \A d \in Conns : LastReplied(peer'[d], conn'[d]) =>
            /\ LastReplied(peer[d], conn[d])
            /\ "READ" \in conn'[d].option => "READ" \in conn[d].option
            /\ "READ" \in epoll'[d].armed => "READ" \in epoll[d].armed
    BY <1>1, <1>9, <1>10, <1>11
  <2> QED BY <1>1, <1>12, <2>1, LastKept DEF ReplyInv
<1>14. ~Unserved(c)
  BY <1>1, <1>2, Served
<1>15. \A v \in Workers : wpc'[v] = "read" => "READ" \in Head(batch'[v]).bits
  BY <1>1, <1>12 DEF ReplyInv
<1> QED BY <1>1, <1>2, <1>9, <1>11, <1>13, <1>14, <1>15, HandlerReply


\* Every step of a worker keeps to the conversation.
LEMMA WorkerReply ==
  ASSUME IInv, ArmInv, CalmInv, ReplyInv, NEW w \in Workers, Worker(w) PROVE ReplyInv'
<1> DEFINE c == wconn[w]
<1>0. /\ conn \in [Conns -> ConnFields] /\ peer \in [Conns -> PeerFields]
      /\ epoll \in [Conns -> Registration] /\ wpc \in [Workers -> WorkerPcs]
      /\ \A d \in Conns : TalkInv(peer[d], conn[d]) /\ peer[d].state # "rst"
  BY DEF CalmInv, NothingExpires, IInv, TypeOK, ReplyInv
<1>1. CASE EpollWait(w) \/ LockPlace(w)
  BY <1>1, TakeReply
<1>2. ~StaleConn(w)
  BY DEF StaleConn, CalmInv, EventsFresh
<1>3. ~ReadReset(w) /\ ~WriteReset(w)
  BY <1>0, Handling DEF ReadReset, WriteReset
<1>4. ~SkipClosed(w)
  BY CurrentPlace DEF SkipClosed
<1>5. CASE ResetActivity(w)
  <2>1. /\ wpc[w] = "check" /\ conn' = [conn EXCEPT ![c].age = 0] /\ c \in Conns
        /\ wpc' = [wpc EXCEPT ![w] = IF "READ" \in Head(batch[w]).bits THEN "read" ELSE "write"]
        /\ c = u_conn[place(w)]
        /\ UNCHANGED <<mpc, mcur, mnew, u_conn, epoll, peer, backlog, batch>>
    BY <1>5, Handling DEF ResetActivity, mainVars, netVars
  <2>2. /\ conn'[c].read = conn[c].read /\ conn'[c].write = conn[c].write
        /\ conn'[c].option = conn[c].option /\ \A d \in Conns : d # c => conn'[d] = conn[d]
    BY <1>0, <2>1 DEF ConnFields
  <2>3. TalkInv(peer[c], conn'[c]) /\ (LastReplied(peer[c], conn'[c]) => LastReplied(peer[c], conn[c]))
    BY <1>0, <2>1, <2>2, TalkKept
  <2>4. \A v \in Workers : /\ wpc[v] = "arm" => wpc'[v] = "arm"
                           /\ wpc'[v] = "read" => "READ" \in Head(batch'[v]).bits
    BY <1>0, <2>1 DEF ReplyInv
  <2>5. LastInv'
    BY <2>1, <2>2, <2>3, <2>4, LastKept DEF ReplyInv
  <2>6. ~Unserved(c)
    BY <2>1, Served
  <2> QED BY <2>1, <2>2, <2>3, <2>4, <2>5, <2>6, HandlerReply
<1>6. CASE ReadToBuffer(w)
  <2> DEFINE q == [peer[c] EXCEPT !.inbox = Tail(@)]
             d == [conn[c] EXCEPT !.read = Append(@, Head(peer[c].inbox))]
  <2>1. /\ wpc[w] = "read" /\ c \in Conns /\ peer[c].inbox # <<>> /\ c = u_conn[place(w)]
        /\ conn' = [conn EXCEPT ![c].read = Append(@, Head(peer[c].inbox))]
        /\ peer' = [peer EXCEPT ![c].inbox = Tail(@)]
        /\ UNCHANGED <<mpc, mcur, mnew, u_conn, epoll, backlog, wpc, batch>>
    BY <1>6, Handling DEF ReadToBuffer, mainVars, poolVars, workerVars
  <2>2. peer'[c] = q /\ conn'[c] = d /\ \A e \in Conns : e # c => peer'[e] = peer[e] /\ conn'[e] = conn[e]
    BY <1>0, <2>1
  <2>3. TalkInv(q, d) /\ ~LastReplied(q, d)
    <3>1. peer[c] \in PeerFields /\ conn[c] \in ConnFields /\ TalkInv(peer[c], conn[c])
      BY <1>0, <2>1
    <3>2. ASSUME NEW p \in PeerFields, NEW b \in ConnFields, TalkInv(p, b), p.inbox # <<>>, NEW x, NEW y,
                 x = [p EXCEPT !.inbox = Tail(@)], y = [b EXCEPT !.read = Append(@, Head(p.inbox))]
          PROVE  TalkInv(x, y) /\ ~LastReplied(x, y)
      BY ONLY <3>2, TalkRead, SMTT(30)
    <3> QED BY <2>1, <3>1, <3>2
  <2>4. q.state = peer[c].state
    BY <1>0, <2>1 DEF PeerFields
  <2> HIDE DEF q, d
  <2>5. LastInv'
    BY <2>1, <2>2, <2>3, LastKept DEF ReplyInv
  <2>6. ~Unserved(c)
    BY <2>1, Served
  <2>7. \A v \in Workers : wpc'[v] = "read" => "READ" \in Head(batch'[v]).bits
    BY <2>1 DEF ReplyInv
  <2> QED BY <2>1, <2>2, <2>3, <2>4, <2>5, <2>6, <2>7, HandlerReply
<1>7. CASE HandleRequest(w)
  BY <1>7, HandleReply
<1>8. CASE WriteFromBuffer(w)
  BY <1>8, WriteReply
<1>9. CASE WriteBlocked(w)
  <2>1. /\ wpc' = [wpc EXCEPT ![w] = "arm"] /\ wpc[w] = "write" /\ c \in Conns /\ c = u_conn[place(w)]
        /\ UNCHANGED <<mpc, mcur, mnew, u_conn, conn, epoll, peer, backlog, batch>>
    BY <1>9, Handling DEF WriteBlocked, mainVars, poolVars, netVars
  <2>2. \A v \in Workers : (wpc[v] = "arm" => wpc'[v] = "arm") /\ (wpc'[v] = "read" => wpc[v] = "read")
    BY <1>0, <2>1
  <2>3. LastInv'
    BY <2>1, <2>2, LastKept DEF ReplyInv
  <2>4. ~Unserved(c)
    BY <2>1, Served
  <2>5. \A v \in Workers : wpc'[v] = "read" => "READ" \in Head(batch'[v]).bits
    BY <2>1, <2>2 DEF ReplyInv
  <2> QED BY <1>0, <2>1, <2>3, <2>4, <2>5, HandlerReply
<1>10. CASE ReadEnd(w) \/ RequestIncorrect(w) \/ CloseDone(w)
  <2>1. /\ wpc[w] \in {"read", "write", "arm"} /\ CloseClient(place(w)) /\ NextEvent(w)
        /\ UNCHANGED <<mpc, mcur, mnew, u_conn, peer, backlog>>
    BY <1>10 DEF ReadEnd, RequestIncorrect, ReadDone, CloseDone, mainVars, netVars
  <2>2. PICK l \in Places : l = place(w)
    BY <2>1, PlaceType
  <2>3. u_conn[l] \in Conns /\ conn[u_conn[l]].valid
    BY <2>1, <2>2, PlaceType, Handling
  <2>4. CloseUpdate(u_conn[l], l)
    BY <2>1, <2>2, <2>3 DEF CloseClient, CloseUpdate
  <2>5. \A d \in Conns : d # u_conn[l] => conn'[d] = conn[d] /\ epoll'[d] = epoll[d]
    BY <1>0, <2>3, <2>4, CloseFacts DEF CloseUpdate, Deregistered
  <2>6. /\ epoll'[u_conn[l]].armed = {} /\ conn'[u_conn[l]].option = {"ET_ONESHOT"}
        /\ conn'[u_conn[l]].read = conn[u_conn[l]].read /\ conn'[u_conn[l]].write = conn[u_conn[l]].write
    BY <1>0, <2>3, <2>4 DEF CloseUpdate, Closed, Deregistered, NotAdded, ConnFields
  <2>7. /\ TalkInv(peer[u_conn[l]], conn'[u_conn[l]])
        /\ LastReplied(peer[u_conn[l]], conn'[u_conn[l]]) => LastReplied(peer[u_conn[l]], conn[u_conn[l]])
    BY <1>0, <2>3, <2>6, TalkKept
  <2>8. LastInv'
    <3>1. \A d \in Conns : LastReplied(peer'[d], conn'[d]) =>
            /\ LastReplied(peer[d], conn[d])
            /\ "READ" \in conn'[d].option => "READ" \in conn[d].option
            /\ "READ" \in epoll'[d].armed => "READ" \in epoll[d].armed
      BY <2>1, <2>5, <2>6, <2>7
    <3> QED BY <2>1, <3>1, LastReleased DEF ReplyInv
  <2>9. ~Unserved(u_conn[l])
    BY <2>1, <2>2, Served
  <2>10. \A v \in Workers : wpc'[v] = "read" => "READ" \in Head(batch'[v]).bits
    BY <2>1, ReleasedReading
  <2> QED BY <2>1, <2>3, <2>5, <2>7, <2>8, <2>9, <2>10, HandlerReply
<1>11. CASE RequestIncomplete(w) \/ Rearm(w)
  <2>1. PICK opt : /\ conn' = [conn EXCEPT ![c].option = opt] /\ EpollMod(c, opt) /\ NextEvent(w)
                   /\ \/ wpc[w] = "read"
                      \/ wpc[w] = "arm" /\ opt = conn[c].option \cup {"ET_ONESHOT"}
                   /\ UNCHANGED <<mpc, mcur, mnew, u_conn, peer, backlog>>
    BY <1>11 DEF RequestIncomplete, ReadDone, Rearm, mainVars, netVars
  <2>2. c \in Conns /\ c = u_conn[place(w)] /\ epoll[c].added
    BY <2>1, Handling, CurrentPlace
  <2>3. epoll' = [epoll EXCEPT ![c].armed = opt \ {"ET_ONESHOT"}]
    BY <2>1, <2>2 DEF EpollMod
  <2>4. /\ conn'[c].option = opt /\ conn'[c].read = conn[c].read /\ conn'[c].write = conn[c].write
        /\ epoll'[c].armed = opt \ {"ET_ONESHOT"}
        /\ \A d \in Conns : d # c => conn'[d] = conn[d] /\ epoll'[d] = epoll[d]
    BY <1>0, <2>1, <2>2, <2>3 DEF ConnFields, Registration
  <2>5. TalkInv(peer[c], conn'[c]) /\ (LastReplied(peer[c], conn'[c]) => LastReplied(peer[c], conn[c]))
    BY <1>0, <2>2, <2>4, TalkKept
  <2>6. LastReplied(peer[c], conn[c]) => "READ" \notin opt
    <3>1. CASE wpc[w] = "read"
      BY <3>1, ReadingGoesOn
    <3>2. CASE wpc[w] = "arm" /\ opt = conn[c].option \cup {"ET_ONESHOT"}
      BY <2>2, <3>2 DEF ReplyInv, LastInv
    <3> QED BY <2>1, <3>1, <3>2
  <2>7. LastInv'
    <3>1. \A d \in Conns : LastReplied(peer'[d], conn'[d]) =>
            /\ LastReplied(peer[d], conn[d])
            /\ "READ" \in conn'[d].option => "READ" \in conn[d].option
            /\ "READ" \in epoll'[d].armed => "READ" \in epoll[d].armed
      BY <2>1, <2>4, <2>5, <2>6
    <3> QED BY <2>1, <3>1, LastReleased DEF ReplyInv
  <2>8. ~Unserved(c)
    BY <2>1, <2>2, Served
  <2>9. \A v \in Workers : wpc'[v] = "read" => "READ" \in Head(batch'[v]).bits
    BY <2>1, ReleasedReading
  <2> QED BY <2>1, <2>2, <2>4, <2>5, <2>7, <2>8, <2>9, HandlerReply
<1> QED
  BY <1>1, <1>2, <1>3, <1>4, <1>5, <1>6, <1>7, <1>8, <1>9, <1>10, <1>11 DEF Worker, WorkerNext


\* What ReplyInv says of the parts of a connection, for the whole of its stream.
LEMMA WholeStream == ASSUME IInv, ReplyInv PROVE ResponseIntegrity
<1> SUFFICES ASSUME NEW c \in Conns, NEW k \in DOMAIN Stream(c)
             PROVE  Stream(c)[k] = ((k - 1) \div RespLen) + 1
  BY DEF ResponseIntegrity
<1> DEFINE g == peer[c].got
           w == peer[c].wire
           s == conn[c].write
           t == g \o w
<1>1. /\ g \in Seq(1..MaxRequests) /\ w \in Seq(1..MaxRequests) /\ s \in Seq(1..MaxRequests)
      /\ Len(g) \in Nat /\ Len(w) \in Nat /\ Len(s) \in Nat
  <2>1. peer[c] \in PeerFields /\ conn[c] \in ConnFields
    BY DEF IInv, TypeOK
  <2> QED BY <2>1, TalkTypes
<1>2. Continues(g, 0) /\ Continues(w, Len(g)) /\ Continues(s, Len(g) + Len(w))
  BY DEF ReplyInv, TalkInv
<1>3. Stream(c) = t \o s
  BY DEF Stream
<1> HIDE DEF g, w, s
<1>4. /\ SubSeq(w, 1, Len(w)) = w /\ SubSeq(s, 1, Len(s)) = s
      /\ Len(w) \in 0..Len(w) /\ Len(s) \in 0..Len(s)
  BY <1>1
<1>5. t \in Seq(1..MaxRequests) /\ Len(t) = Len(g) + Len(w) /\ Continues(t, 0)
  <2>1. Continues(w, 0 + Len(g)) /\ 0 \in Nat
    BY <1>1, <1>2
  <2>2. /\ g \o SubSeq(w, 1, Len(w)) \in Seq(1..MaxRequests)
        /\ Len(g \o SubSeq(w, 1, Len(w))) = Len(g) + Len(w)
        /\ Continues(g \o SubSeq(w, 1, Len(w)), 0)
    <3>1. ASSUME NEW S, NEW a \in Seq(S), NEW b \in Seq(S), NEW n \in 0..Len(b),
                 Continues(a, 0), Continues(b, 0 + Len(a)), 0 \in Nat
          PROVE  /\ a \o SubSeq(b, 1, n) \in Seq(S) /\ Len(a \o SubSeq(b, 1, n)) = Len(a) + n
                 /\ Continues(a \o SubSeq(b, 1, n), 0)
      BY ONLY <3>1, ContinuesMoved
    <3> QED BY ONLY <1>1, <1>2, <1>4, <2>1, <3>1
  <2> QED BY <1>4, <2>2
<1> HIDE DEF t
<1>6. Continues(t \o s, 0)
  <2>1. Continues(s, 0 + Len(t)) /\ 0 \in Nat
    BY <1>1, <1>2, <1>5
  <2>2. Continues(t \o SubSeq(s, 1, Len(s)), 0)
    BY <1>1, <1>4, <1>5, <2>1, ContinuesMoved
  <2> QED BY <1>4, <2>2
<1>7. k \in Nat
  <2>1. t \o s \in Seq(1..MaxRequests)
    BY <1>1, <1>5, ConcatProperties
  <2> QED BY <1>3, <2>1
<1>8. Stream(c)[k] = ((0 + k - 1) \div RespLen) + 1
  BY <1>3, <1>6 DEF Continues
<1> QED BY <1>7, <1>8

\* A client that sends a request only after it has got the whole response to the
\* one before gets the responses to its requests in order, each whole and once,
\* however they are cut by short reads and writes (try_read_request,
\* try_write_responce), for any number of workers, connections, places and
\* requests, with whole, cut, refused, keep-alive and last requests, while
\* nothing times out and nobody resets.
THEOREM ResponsesIntact ==
  Calm /\ "pipeline" \notin Env => (Spec => []ResponseIntegrity)
<1> SUFFICES ASSUME Calm, "pipeline" \notin Env PROVE Spec => []ResponseIntegrity
  OBVIOUS
<1>1. Init => ReplyInv
  BY InitReply
<1>2. IInv /\ ArmInv /\ CalmInv /\ ReplyInv /\ [Next]_vars => ReplyInv'
  <2> SUFFICES ASSUME IInv, ArmInv, CalmInv, ReplyInv, [Next]_vars PROVE ReplyInv'
    OBVIOUS
  <2>1. CASE UNCHANGED vars
    <3>1. UNCHANGED <<mpc, mcur, mnew, u_conn, epoll, conn, peer, backlog, wpc, batch>>
      BY <2>1 DEF vars, coreVars, mainVars, poolVars, netVars, workerVars
    <3>2. \A d \in Conns : Unserved(d)' => Unserved(d)
      BY <3>1 DEF Unserved
    <3> QED BY <3>1, <3>2, QuietReply
  <2> QED BY <2>1, MainReply, WorldReply, WorkerReply DEF Next
<1>3. IInv /\ ReplyInv => ResponseIntegrity
  BY WholeStream
<1>4. Spec => []CalmInv
  BY CalmInvariance
<1> QED BY <1>1, <1>2, <1>3, <1>4, Invariance, ArmInvariance, PTL DEF Spec

=============================================================================
