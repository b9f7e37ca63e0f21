-------------------------- MODULE NetServiceProofs --------------------------
(***************************************************************************)
(* Proofs about NetService: the invariant IInv is inductive, and what it   *)
(* implies about events, registrations, answers and connections let go.    *)
(***************************************************************************)
EXTENDS NetService, SequenceFacts

Units == Seq(Clients \X Int)

-----------------------------------------------------------------------------
(* The units of an answer.                                                 *)

\* Units that move from the front of b to the end of a stay numbered on.
LEMMA MoveNumbered ==
  ASSUME NEW c, NEW from \in Nat, NEW a \in Units, NEW b \in Units, NEW n \in 0..Len(b)
  PROVE  /\ a \o SubSeq(b, 1, n) \in Units /\ SubSeq(b, n + 1, Len(b)) \in Units
         /\ Len(a \o SubSeq(b, 1, n)) = Len(a) + n /\ Len(SubSeq(b, n + 1, Len(b))) = Len(b) - n
         /\ Numbered(c, a, from) /\ Numbered(c, b, from + Len(a)) =>
               /\ Numbered(c, a \o SubSeq(b, 1, n), from)
               /\ Numbered(c, SubSeq(b, n + 1, Len(b)), from + (Len(a) + n))
<1> DEFINE f == SubSeq(b, 1, n)
           r == SubSeq(b, n + 1, Len(b))
           t == a \o f
<1>1. /\ f \in Units /\ Len(f) = n /\ \A k \in 1..n : f[k] = b[k]
      /\ r \in Units /\ Len(r) = Len(b) - n /\ \A k \in 1..(Len(b) - n) : r[k] = b[n + k]
  BY SplitFacts, SMTT(30) DEF Units
<1>2. Len(a) \in Nat /\ Len(b) \in Nat /\ n \in Nat /\ n <= Len(b)
  BY DEF Units
<1> HIDE DEF f, r
<1>3. /\ t \in Units /\ Len(t) = Len(a) + Len(f)
      /\ \A i \in 1..(Len(a) + Len(f)) : t[i] = IF i <= Len(a) THEN a[i] ELSE f[i - Len(a)]
  BY <1>1, ConcatProperties, Zenon DEF Units
<1> HIDE DEF t
<1>4. ASSUME Numbered(c, a, from), Numbered(c, b, from + Len(a))
      PROVE  Numbered(c, t, from) /\ Numbered(c, r, from + (Len(a) + n))
  <2>1. ASSUME NEW i \in 1..Len(t) PROVE t[i] = <<c, from + i>>
    <3>1. i \in 1..(Len(a) + n) /\ i \in 1..(Len(a) + Len(f))
      BY <1>1, <1>3
    <3>2. CASE i <= Len(a)
      <4>1. i \in 1..Len(a) /\ t[i] = a[i]
        BY <3>1, <3>2, <1>2, <1>3
      <4> QED BY <4>1, <1>4 DEF Numbered
    <3>3. CASE ~(i <= Len(a))
      <4>1. /\ i - Len(a) \in 1..n /\ i - Len(a) \in 1..Len(b)
            /\ (from + Len(a)) + (i - Len(a)) = from + i
        BY <3>1, <3>3, <1>2
      <4>2. t[i] = f[i - Len(a)]
        BY <3>1, <3>3, <1>3
      <4>3. f[i - Len(a)] = b[i - Len(a)]
        BY <4>1, <1>1
      <4>4. b[i - Len(a)] = <<c, (from + Len(a)) + (i - Len(a))>>
        BY <4>1, <1>4 DEF Numbered
      <4> QED BY <4>1, <4>2, <4>3, <4>4
    <3> QED BY <3>2, <3>3
  <2>2. ASSUME NEW i \in 1..Len(r) PROVE r[i] = <<c, (from + (Len(a) + n)) + i>>
    <3>1. /\ i \in 1..(Len(b) - n) /\ n + i \in 1..Len(b)
          /\ (from + Len(a)) + (n + i) = (from + (Len(a) + n)) + i
      BY <1>1, <1>2
    <3>2. r[i] = b[n + i]
      BY <3>1, <1>1
    <3>3. b[n + i] = <<c, (from + Len(a)) + (n + i)>>
      BY <3>1, <1>4 DEF Numbered
    <3> QED BY <3>1, <3>2, <3>3
  <2> QED BY <2>1, <2>2 DEF Numbered
<1> QED BY <1>1, <1>3, <1>4 DEF f, r, t

\* What a client has got and what is on the wire are a prefix of its answer.
LEMMA NumberedPrefix ==
  ASSUME NEW c \in Clients, NEW a \in Units, NEW b \in Units,
         Numbered(c, a, 0), Numbered(c, b, Len(a)), Len(a) + Len(b) <= RespLen
  PROVE  IsPrefix(a \o b, Answer(c))
<1> DEFINE t == a \o b
           u == Answer(c)
<1>1. Len(a) \in Nat /\ Len(b) \in Nat /\ RespLen \in Nat
  BY NetAssumption DEF Units
<1>2. /\ t \in Units /\ Len(t) = Len(a) + Len(b)
      /\ \A i \in 1..(Len(a) + Len(b)) : t[i] = IF i <= Len(a) THEN a[i] ELSE b[i - Len(a)]
  BY ConcatProperties, Zenon DEF Units
<1>3. u \in Units /\ Len(u) = RespLen /\ \A i \in 1..RespLen : u[i] = <<c, i>>
  <2>1. u \in [1..RespLen -> Clients \X Int]
    BY DEF Answer
  <2>2. u \in Units
    BY <2>1, <1>1 DEF Units
  <2>3. DOMAIN u = 1..RespLen
    BY <2>1
  <2> QED BY <1>1, <2>2, <2>3 DEF Units, Answer
<1> HIDE DEF t, u
<1>4. ASSUME NEW i \in 1..Len(t) PROVE t[i] = u[i]
  <2>1. i \in 1..(Len(a) + Len(b)) /\ i \in 1..RespLen
    BY <1>1, <1>2
  <2>2. CASE i <= Len(a)
    <3>1. i \in 1..Len(a) /\ t[i] = a[i] /\ 0 + i = i
      BY <2>1, <2>2, <1>1, <1>2
    <3>2. a[i] = <<c, 0 + i>>
      BY <3>1 DEF Numbered
    <3> QED BY <2>1, <3>1, <3>2, <1>3
  <2>3. CASE ~(i <= Len(a))
    <3>1. i - Len(a) \in 1..Len(b) /\ t[i] = b[i - Len(a)] /\ Len(a) + (i - Len(a)) = i
      BY <2>1, <2>3, <1>1, <1>2
    <3>2. b[i - Len(a)] = <<c, Len(a) + (i - Len(a))>>
      BY <3>1 DEF Numbered
    <3> QED BY <2>1, <3>1, <3>2, <1>3
  <2> QED BY <2>2, <2>3
<1>5. Len(t) \in 0..Len(t) /\ Len(t) \in 0..Len(u)
  BY <1>1, <1>2, <1>3
<1> DEFINE v == SubSeq(t, 1, Len(t))
           w == SubSeq(u, 1, Len(t))
<1>6. /\ v \in Units /\ Len(v) = Len(t) /\ \A k \in 1..Len(t) : v[k] = t[k]
      /\ w \in Units /\ Len(w) = Len(t) /\ \A k \in 1..Len(t) : w[k] = u[k]
  BY <1>2, <1>3, <1>5, SplitFacts DEF Units
<1> HIDE DEF v, w
<1>7. v = w
  <2>1. ASSUME NEW k \in 1..Len(v) PROVE v[k] = w[k]
    BY <1>4, <1>6
  <2> QED BY <1>6, <2>1, SeqEqual DEF Units
<1>8. Len(t) <= Len(u)
  BY <1>2, <1>3
<1> QED BY <1>7, <1>8 DEF IsPrefix, t, u, v, w

-----------------------------------------------------------------------------
(* Facts about the states that satisfy IInv.                               *)

LEMMA ConstantTypes ==
  /\ NoConn \in ConnType /\ NoConn.fd = CLOSED /\ NoConn.read = 0 /\ NoConn.opt = {}
  /\ CLOSED \notin Fds /\ SERVER \notin Fds /\ Fds \subseteq Nat
  /\ NumFd \in Nat /\ ReqLen \in Nat /\ RespLen \in Nat /\ BufSize \in Nat /\ Window \in Nat
  /\ NoClient \notin Clients
<1>1. /\ NumFd \in Nat /\ ReqLen \in Nat /\ RespLen \in Nat /\ BufSize \in Nat /\ Window \in Nat
      /\ NoClient \notin Clients
  BY NetAssumption
<1>2. CLOSED \notin Fds /\ SERVER \notin Fds /\ Fds \subseteq Nat
  BY <1>1 DEF Fds, CLOSED, SERVER
<1>3. 0 \in 0..ReqLen /\ <<>> \in Seq(Clients \X Int)
  BY <1>1
<1> QED BY <1>1, <1>2, <1>3 DEF NoConn, ConnType

\* An event that is not the server's: find_if finds its connection, and the
\* connection is open and registered as it is subscribed.
LEMMA FoundFacts ==
  ASSUME IInv, NEW e \in batch, e.fd # SERVER
  PROVE  /\ Matches(e) # {} /\ Found(e) = e.of /\ e.of \in Clients /\ e.fd \in Fds
         /\ Min(Matches(e)) \in DOMAIN connections /\ connections[Min(Matches(e))] = e.of
         /\ file[e.fd] = e.of /\ conn[e.of].fd = e.fd /\ reg[e.fd] = conn[e.of].opt
         /\ "RDHUP" \in conn[e.of].opt /\ e.of \in ToSet(connections)
         /\ e.of \notin ToSet(backlog) /\ peer[e.of].st # "idle"
<1>1. e.fd \in Fds /\ e.of \in Clients /\ file[e.fd] = e.of
  BY DEF IInv, TypeOK, BatchInv, EventInv, EventType
<1>2. e.of \in ToSet(connections) /\ conn[e.of].fd = e.fd
  BY <1>1, ConstantTypes, ZenonT(40) DEF IInv, FilesInv
<1>3. reg[e.fd] = conn[e.of].opt /\ "RDHUP" \in conn[e.of].opt
  BY <1>1, <1>2, ConstantTypes DEF IInv, FilesInv
<1>4. Matches(e) # {}
  BY <1>2 DEF Matches, ToSet
<1>5. Matches(e) \subseteq DOMAIN connections /\ DOMAIN connections \subseteq Nat
  BY DEF IInv, TypeOK, Matches
<1>6. Min(Matches(e)) \in Matches(e)
  BY <1>4, <1>5, MinFacts
<1>7. ASSUME NEW i \in Matches(e) PROVE i \in DOMAIN connections /\ connections[i] = e.of
  <2>1. i \in DOMAIN connections /\ conn[connections[i]].fd = e.fd
    BY DEF Matches
  <2>2. connections[i] \in Clients
    BY <2>1 DEF IInv, TypeOK
  <2>3. file[conn[connections[i]].fd] = connections[i]
    BY <2>1, <2>2, <1>1, ConstantTypes DEF IInv, FilesInv
  <2> QED BY <2>1, <2>3, <1>1
<1>8. Found(e) = e.of
  BY <1>6, <1>7 DEF Found
<1>9. e.of \notin ToSet(backlog) /\ peer[e.of].st # "idle"
  BY <1>1, <1>2 DEF IInv, ListsInv
<1> QED BY <1>1, <1>2, <1>3, <1>4, <1>6, <1>7, <1>8, <1>9

LEMMA InitInv == Init => IInv
<1> SUFFICES ASSUME Init PROVE IInv
  OBVIOUS
<1> DEFINE fresh == [st |-> "idle", sent |-> 0, got |-> <<>>, inbox |-> 0, wire |-> <<>>, end |-> "open"]
<1>1. fresh \in PeerType
  <2>1. 0 \in 0..ReqLen /\ <<>> \in Seq(Clients \X Int)
    BY ConstantTypes
  <2> QED BY <2>1 DEF PeerType
<1>2. TypeOK
  BY <1>1, ConstantTypes DEF Init, TypeOK
<1>3. ListsInv /\ FilesInv /\ BatchInv
  BY ConstantTypes DEF Init, ListsInv, FilesInv, BatchInv, ToSet
<1>4. ASSUME NEW c \in Clients PROVE PairInv(c, peer[c], conn[c])
  <2>1. peer[c] = fresh /\ conn[c] = NoConn
    BY DEF Init
  <2>2. PairInv(c, fresh, NoConn)
    BY ConstantTypes DEF PairInv
  <2> QED BY <2>1, <2>2
<1> QED BY <1>2, <1>3, <1>4 DEF IInv

-----------------------------------------------------------------------------
(* The steps of the clients.                                               *)

\* A step of client c alone: its end never opens again, and data that wait for
\* an attached server stay.
LEMMA PeerStep ==
  ASSUME IInv, NEW c \in Clients, NEW p \in PeerType,
         peer' = [peer EXCEPT ![c] = p], UNCHANGED serverVars,
         p.st # "idle", peer[c].st # "idle", p.st = "open" => peer[c].st = "open",
         peer[c].end # "open" => p.end # "open",
         Attached(c) => p.inbox >= peer[c].inbox,
         c \in ToSet(backlog) /\ p.st = "open" => p.got = <<>> /\ p.wire = <<>>,
         PairInv(c, p, conn[c])
  PROVE  IInv'
<1> USE DEF serverVars
<1>1. TypeOK'
  BY DEF IInv, TypeOK
<1>2. /\ peer'[c] = p /\ \A d \in Clients \ {c} : peer'[d] = peer[d]
  BY DEF IInv, TypeOK
<1>3. ListsInv'
  BY <1>2 DEF IInv, ListsInv, TypeOK
<1>4. FilesInv'
  BY DEF IInv, FilesInv
<1>5. ASSUME NEW e \in batch PROVE EventInv(e)'
  <2>0. EventInv(e) /\ e.fd \in Fds \cup {SERVER}
    BY DEF IInv, BatchInv, TypeOK, EventType
  <2>1. CASE e.fd = SERVER
    BY <2>0, <2>1 DEF EventInv
  <2>2. CASE e.fd # SERVER /\ e.of # c
    <3>1. peer'[e.of] = peer[e.of]
      BY <1>2, <2>0, <2>2 DEF EventInv
    <3> QED BY <2>0, <2>2, <3>1 DEF EventInv
  <2>3. CASE e.fd # SERVER /\ e.of = c
    <3>1. Attached(c)
      BY <2>0, <2>3 DEF EventInv, Attached
    <3>2. peer[c].inbox > 0 => p.inbox > 0
      BY <3>1, <1>2 DEF IInv, TypeOK, PeerType
    <3> QED BY <2>0, <2>3, <1>2, <3>2 DEF EventInv
  <2> QED BY <2>1, <2>2, <2>3
<1>6. BatchInv'
  BY <1>5 DEF IInv, BatchInv
<1>7. ASSUME NEW d \in Clients PROVE PairInv(d, peer[d], conn[d])'
  BY <1>2 DEF IInv
<1> QED BY <1>1, <1>3, <1>4, <1>6, <1>7 DEF IInv

\* A client that has just connected.
LEMMA FreshPair ==
  ASSUME NEW c, NEW p, p.st = "open", p.end = "open",
         p.sent = 0, p.inbox = 0, p.got = <<>>, p.wire = <<>>
  PROVE  PairInv(c, p, NoConn)
<1>1. Len(<<>>) = 0 /\ 0 + 0 = 0 /\ 0 <= 0 /\ 0 <= RespLen /\ 0 <= ReqLen /\ 0 <= Window /\ 1..0 = {}
  BY ConstantTypes
<1>2. Numbered(c, <<>>, 0)
  BY <1>1 DEF Numbered
<1> QED BY <1>1, <1>2, ConstantTypes DEF PairInv

\* connect: the client is at the end of backlog and nowhere else.
LEMMA ConnectKeeps ==
  ASSUME IInv, NEW c \in Clients, Connect(c)
  PROVE  IInv'
<1> USE DEF Connect
<1>1. /\ peer'[c] = [peer[c] EXCEPT !.st = "open"] /\ \A d \in Clients \ {c} : peer'[d] = peer[d]
      /\ peer' \in [Clients -> PeerType]
  <2>1. peer \in [Clients -> PeerType]
    BY DEF IInv, TypeOK
  <2>2. [peer[c] EXCEPT !.st = "open"] \in PeerType
    BY <2>1 DEF PeerType
  <2> QED BY <2>1, <2>2
<1>2. c \notin ToSet(connections) /\ c \notin ToSet(backlog) /\ PairInv(c, peer[c], conn[c])
  BY DEF IInv, ListsInv
<1>3. /\ backlog' \in Seq(Clients) /\ backlog' # <<>> /\ ToSet(backlog') = ToSet(backlog) \cup {c}
      /\ \A i, j \in DOMAIN backlog' : backlog'[i] = backlog'[j] => i = j
  <2>1. backlog \in Seq(Clients) /\ \A i, j \in DOMAIN backlog : backlog[i] = backlog[j] => i = j
    BY DEF IInv, TypeOK, ListsInv
  <2> QED BY <2>1, <1>2, AppendElements
<1>4. TypeOK'
  BY <1>1, <1>3 DEF IInv, TypeOK
<1>5. /\ peer'[c].st = "open" /\ peer'[c].got = <<>> /\ peer'[c].wire = <<>>
      /\ peer'[c].sent = 0 /\ peer'[c].inbox = 0 /\ peer'[c].end = "open" /\ conn[c] = NoConn
  BY <1>1, <1>2 DEF IInv, TypeOK, PeerType, PairInv
<1>6. ListsInv'
  <2>1. /\ \A i, j \in DOMAIN connections' : connections'[i] = connections'[j] => i = j
        /\ spc' = "down" => connections' = <<>> /\ backlog' = <<>>
    BY DEF IInv, ListsInv
  <2>2. ASSUME NEW d \in Clients, d \in ToSet(connections)'
        PROVE  d \notin ToSet(backlog)' /\ peer'[d].st # "idle"
    BY <1>1, <1>2, <1>3, <2>2 DEF IInv, ListsInv
  <2>3. ASSUME NEW d \in Clients, d \in ToSet(backlog)'
        PROVE  /\ peer'[d].st # "idle"
               /\ peer'[d].st = "open" => peer'[d].got = <<>> /\ peer'[d].wire = <<>>
    <3>1. CASE d = c
      BY <3>1, <1>5
    <3>2. CASE d # c
      BY <3>2, <1>1, <1>3, <2>3 DEF IInv, ListsInv
    <3> QED BY <3>1, <3>2
  <2> QED BY <1>3, <2>1, <2>2, <2>3 DEF ListsInv
<1>7. FilesInv'
  BY DEF IInv, FilesInv
<1>8. ASSUME NEW e \in batch PROVE EventInv(e)'
  <2>0. EventInv(e)
    BY DEF IInv, BatchInv
  <2>1. CASE e.fd = SERVER
    BY <1>3, <2>1 DEF EventInv
  <2>2. CASE e.fd # SERVER
    <3>1. e.of \in Clients \ {c}
      BY <2>2, <1>2, FoundFacts
    <3>2. peer'[e.of] = peer[e.of]
      BY <3>1, <1>1
    <3> QED BY <2>0, <2>2, <3>2 DEF EventInv
  <2> QED BY <2>1, <2>2
<1>9. BatchInv'
  BY <1>8 DEF IInv, BatchInv
<1>10. ASSUME NEW d \in Clients PROVE PairInv(d, peer[d], conn[d])'
  <2>1. CASE d = c
    <3>1. PairInv(c, peer'[c], NoConn)
      BY <1>5, FreshPair
    <3> QED BY <2>1, <1>5, <3>1
  <2>2. CASE d # c
    BY <2>2, <1>1 DEF IInv
  <2> QED BY <2>1, <2>2
<1> QED BY <1>4, <1>6, <1>7, <1>9, <1>10 DEF IInv

\* A unit is sent: what the server has and will read stays within what was sent.
LEMMA WriteKeeps ==
  ASSUME IInv, NEW c \in Clients, Write(c)
  PROVE  IInv'
<1> PICK p : p = [peer[c] EXCEPT !.sent = @ + 1, !.inbox = @ + 1]
  OBVIOUS
<1>1. peer[c] \in PeerType /\ conn[c] \in ConnType /\ PairInv(c, peer[c], conn[c])
  BY DEF IInv, TypeOK
<1>2. peer' = [peer EXCEPT ![c] = p]
  BY DEF Write, IInv, TypeOK
<1>3. /\ p.st = "open" /\ p.end = peer[c].end /\ p.got = peer[c].got /\ p.wire = peer[c].wire
      /\ p.sent = peer[c].sent + 1 /\ p.inbox = peer[c].inbox + 1 /\ peer[c].st = "open"
  BY <1>1 DEF Write, PeerType
<1>4. /\ p.sent \in 0..ReqLen /\ p.inbox \in 0..ReqLen /\ p.inbox >= peer[c].inbox
      /\ conn[c].read + p.inbox <= p.sent /\ conn[c].read + p.inbox <= ReqLen
  <2>1. /\ conn[c].read \in Nat /\ peer[c].inbox \in Nat /\ peer[c].sent \in Nat /\ ReqLen \in Nat
        /\ peer[c].sent < ReqLen /\ conn[c].read + peer[c].inbox <= peer[c].sent
    BY <1>1, ConstantTypes DEF Write, PeerType, ConnType, PairInv
  <2>2. \A r, i, s, m \in Nat : s < m /\ r + i <= s =>
           s + 1 \in 0..m /\ i + 1 \in 0..m /\ i + 1 >= i /\ r + (i + 1) <= s + 1 /\ r + (i + 1) <= m
    OBVIOUS
  <2> QED BY <2>1, <2>2, <1>3
<1>5. p \in PeerType
  BY <1>1, <1>4 DEF PeerType
<1>6. PairInv(c, p, conn[c])
  BY <1>1, <1>3, <1>4 DEF PairInv
<1>7. c \in ToSet(backlog) => p.got = <<>> /\ p.wire = <<>>
  BY <1>3 DEF IInv, ListsInv
<1> QED BY <1>2, <1>3, <1>4, <1>5, <1>6, <1>7, PeerStep DEF Write

\* The client takes n units off the wire.
LEMMA ReadKeeps ==
  ASSUME IInv, NEW c \in Clients, Read(c)
  PROVE  IInv'
<1>1. /\ peer[c] \in PeerType /\ conn[c] \in ConnType /\ PairInv(c, peer[c], conn[c])
      /\ peer[c].st = "open" /\ peer \in [Clients -> PeerType]
  BY DEF IInv, TypeOK, Read
<1>a. PICK a : a = peer[c].got
  OBVIOUS
<1>b. PICK b : b = peer[c].wire
  OBVIOUS
<1>n. PICK n \in 1..Len(b) :
           peer' = [peer EXCEPT ![c].got = @ \o SubSeq(peer[c].wire, 1, n),
                                ![c].wire = SubSeq(@, n + 1, Len(@))]
  BY <1>b DEF Read
<1>g. PICK g : g = a \o SubSeq(b, 1, n)
  OBVIOUS
<1>w. PICK w : w = SubSeq(b, n + 1, Len(b))
  OBVIOUS
<1>p. PICK p : p = [peer[c] EXCEPT !.got = g, !.wire = w]
  OBVIOUS
<1>2. peer' = [peer EXCEPT ![c] = p]
  BY <1>1, <1>a, <1>b, <1>n, <1>g, <1>w, <1>p
<1>3. /\ p.st = "open" /\ p.end = peer[c].end /\ p.got = g /\ p.wire = w
      /\ p.sent = peer[c].sent /\ p.inbox = peer[c].inbox
  BY <1>1, <1>p DEF PeerType
<1>4. a \in Units /\ b \in Units
  BY <1>1, <1>a, <1>b DEF PeerType, Units
<1>5. Len(a) \in Nat /\ Len(b) \in Nat /\ n \in 0..Len(b)
  BY <1>4 DEF Units
<1>6. Numbered(c, a, 0) /\ Numbered(c, b, Len(a)) /\ Len(a) + Len(b) <= RespLen /\ Len(b) <= Window
  BY <1>1, <1>a, <1>b DEF PairInv
<1>7. Numbered(c, b, 0 + Len(a))
  <2>1. 0 + Len(a) = Len(a)
    BY <1>5
  <2> QED BY <1>6, <2>1
<1>8. /\ g \in Units /\ w \in Units /\ Len(g) = Len(a) + n /\ Len(w) = Len(b) - n
      /\ Numbered(c, g, 0) /\ Numbered(c, w, 0 + (Len(a) + n))
  BY <1>4, <1>5, <1>6, <1>7, <1>g, <1>w, MoveNumbered, ZenonT(40)
<1>9. /\ Len(g) + Len(w) = Len(a) + Len(b) /\ Len(w) <= Window /\ Numbered(c, w, Len(g)) /\ b # <<>>
  <2>1. \A i, j \in Nat : \A k \in 1..j : (i + k) + (j - k) = i + j /\ 0 + (i + k) = i + k
    OBVIOUS
  <2>2. Len(b) - n <= Window
    BY <1>5, <1>6, ConstantTypes
  <2>3. b # <<>>
    BY <1>4, <1>5 DEF Units
  <2> QED BY <1>5, <1>8, <2>1, <2>2, <2>3
<1>10. p \in PeerType
  BY <1>1, <1>8, <1>p DEF PeerType, Units
<1>11. PairInv(c, p, conn[c])
  BY <1>1, <1>3, <1>6, <1>8, <1>9, <1>a, <1>b DEF PairInv
<1>12. c \notin ToSet(backlog)
  BY <1>1, <1>9, <1>b DEF IInv, ListsInv
<1>13. p.inbox >= peer[c].inbox
  BY <1>1, <1>3 DEF PeerType
<1> QED BY <1>1, <1>2, <1>3, <1>10, <1>11, <1>12, <1>13, PeerStep DEF Read

\* close, in Finish, Fail and Abort: the object is as good as new, its end is
\* not open any more.
LEMMA CloseClientKeeps ==
  ASSUME IInv, NEW c \in Clients, NEW st \in {"done", "failed"},
         peer[c].st = "open", CloseClient(c, st), UNCHANGED serverVars
  PROVE  IInv'
<1> PICK p : p = [st |-> st, sent |-> 0, got |-> <<>>, wire |-> <<>>,
                  inbox |-> IF Attached(c) THEN peer[c].inbox ELSE 0,
                  end |-> IF peer[c].wire = <<>> THEN "fin" ELSE "rst"]
  OBVIOUS
<1>1. peer[c] \in PeerType /\ conn[c] \in ConnType /\ PairInv(c, peer[c], conn[c])
  BY DEF IInv, TypeOK
<1>2. peer' = [peer EXCEPT ![c] = p]
  BY DEF CloseClient
<1>3. p \in PeerType
  <2>1. 0 \in 0..ReqLen /\ <<>> \in Seq(Clients \X Int)
    BY ConstantTypes
  <2> QED BY <1>1, <2>1 DEF PeerType
<1>4. PairInv(c, p, conn[c])
  <2>1. conn[c].read + p.inbox <= ReqLen /\ Len(p.wire) <= Window
    BY <1>1, ConstantTypes DEF PairInv, PeerType, ConnType
  <2> QED BY <2>1 DEF PairInv
<1>5. Attached(c) => p.inbox >= peer[c].inbox
  BY <1>1 DEF PeerType
<1> QED BY <1>2, <1>3, <1>4, <1>5, PeerStep

LEMMA ResetKeeps ==
  ASSUME IInv, NEW c \in Clients, Reset(c)
  PROVE  IInv'
<1> PICK p : p = [peer[c] EXCEPT !.wire = <<>>, !.end = "rst"]
  OBVIOUS
<1>1. peer[c] \in PeerType /\ conn[c] \in ConnType /\ PairInv(c, peer[c], conn[c])
  BY DEF IInv, TypeOK
<1>2. peer' = [peer EXCEPT ![c] = p]
  BY DEF Reset, IInv, TypeOK
<1>3. /\ p.st = peer[c].st /\ p.st \in {"done", "failed"} /\ p.end = "rst" /\ p.wire = <<>>
      /\ p.inbox = peer[c].inbox /\ p.inbox >= peer[c].inbox
  BY <1>1 DEF Reset, PeerType
<1>4. p \in PeerType
  <2>1. <<>> \in Seq(Clients \X Int)
    OBVIOUS
  <2> QED BY <1>1, <2>1 DEF PeerType
<1>5. PairInv(c, p, conn[c])
  <2>1. Len(<<>>) = 0 /\ 0 <= Window
    BY ConstantTypes
  <2> QED BY <1>1, <1>3, <2>1 DEF PairInv
<1> QED BY <1>2, <1>3, <1>4, <1>5, PeerStep DEF Reset

-----------------------------------------------------------------------------
(* The steps of the server.                                                *)

\* epoll_wait reports the state of the moment.
LEMMA EpollWaitKeeps ==
  ASSUME IInv, EpollWait
  PROVE  IInv'
<1> USE DEF EpollWait
<1>1. ASSUME NEW e \in Events
      PROVE  /\ e \in EventType /\ EventInv(e)
             /\ \A f \in Events : e.fd = f.fd => e = f
  <2>1. CASE e.fd = SERVER
    <3>1. e = [fd |-> SERVER, of |-> NoClient, bits |-> {"IN"}] /\ backlog # <<>>
      BY <2>1, ConstantTypes DEF Events
    <3> QED BY <2>1, <3>1, ConstantTypes DEF Events, EventType, EventInv
  <2>2. CASE e.fd # SERVER
    <3>1. PICK fd \in Fds : file[fd] # NoClient /\ e = [fd |-> fd, of |-> file[fd], bits |-> Reported(fd)]
      BY <2>2 DEF Events
    <3>2. /\ file[fd] \in Clients /\ conn[file[fd]].fd = fd /\ conn[file[fd]].fd # CLOSED
          /\ reg[fd] = conn[file[fd]].opt /\ "RDHUP" \in reg[fd] /\ reg[fd] \subseteq {"IN", "OUT", "RDHUP"}
      BY <3>1, ConstantTypes DEF IInv, TypeOK, FilesInv
    <3>3. Reported(fd) \subseteq {"ERR", "IN", "OUT", "RDHUP"}
      BY <3>2 DEF Reported
    <3>4. e \in EventType
      BY <3>1, <3>2, <3>3 DEF EventType
    <3>5. EventInv(e)
      <4>1. /\ "ERR" \in e.bits <=> peer[e.of].end = "rst"
            /\ "RDHUP" \in e.bits <=> peer[e.of].end # "open"
            /\ "OUT" \in e.bits => "OUT" \in reg[e.fd]
            /\ "IN" \in e.bits => peer[e.of].inbox > 0 \/ peer[e.of].end # "open"
        BY <3>1, <3>2 DEF Reported, Ready
      <4> QED BY <4>1, <3>1, <3>2, <2>2 DEF EventInv
    <3>6. ASSUME NEW f \in Events, e.fd = f.fd PROVE e = f
      BY <3>1, <3>6, <2>2 DEF Events
    <3> QED BY <3>4, <3>5, <3>6
  <2> QED BY <2>1, <2>2
<1>2. TypeOK' /\ ListsInv' /\ FilesInv' /\ \A c \in Clients : PairInv(c, peer[c], conn[c])'
  BY <1>1 DEF IInv, TypeOK, ListsInv, FilesInv
<1>3. ASSUME NEW e \in Events PROVE EventInv(e)'
  BY <1>1 DEF EventInv
<1>4. BatchInv'
  BY <1>1, <1>3 DEF BatchInv
<1> QED BY <1>2, <1>4 DEF IInv

LEMMA RestartKeeps ==
  ASSUME IInv, Restart
  PROVE  IInv'
<1> USE DEF Restart
<1>1. TypeOK' /\ ListsInv' /\ FilesInv' /\ \A c \in Clients : PairInv(c, peer[c], conn[c])'
  BY DEF IInv, TypeOK, ListsInv, FilesInv
<1>2. BatchInv'
  BY DEF IInv, BatchInv, EventInv
<1> QED BY <1>1, <1>2 DEF IInv

\* The server's side of a connection is gone.
LEMMA PairClosed ==
  ASSUME NEW c, NEW p \in PeerType, NEW b \in ConnType, PairInv(c, p, b)
  PROVE  PairInv(c, p, NoConn)
<1>1. 0 + p.inbox <= b.read + p.inbox /\ 0 + p.inbox \in Nat /\ b.read + p.inbox \in Nat /\ p.sent \in Nat
  BY DEF PeerType, ConnType
<1>2. 0 + p.inbox <= ReqLen /\ (p.st = "open" => 0 + p.inbox <= p.sent)
  <2>1. b.read + p.inbox <= ReqLen /\ (p.st = "open" => b.read + p.inbox <= p.sent)
    BY DEF PairInv
  <2>2. \A i, j, k \in Nat : i <= j /\ j <= k => i <= k
    OBVIOUS
  <2> QED BY <1>1, <2>1, <2>2, ConstantTypes
<1> QED BY <1>2, ConstantTypes DEF PairInv

\* An exception ends the service: nothing of it is left.
LEMMA ThrowKeeps ==
  ASSUME IInv, Throw
  PROVE  IInv'
<1> USE DEF Throw
<1>1. TypeOK'
  BY ConstantTypes DEF IInv, TypeOK
<1>2. ListsInv' /\ FilesInv' /\ BatchInv'
  BY ConstantTypes DEF ListsInv, FilesInv, BatchInv, ToSet
<1>3. ASSUME NEW c \in Clients PROVE PairInv(c, peer[c], conn[c])'
  <2>1. PairInv(c, peer[c], NoConn)
    BY PairClosed DEF IInv, TypeOK
  <2> QED BY <2>1
<1> QED BY <1>1, <1>2, <1>3 DEF IInv

\* An event has been handled and the others are as they were.
LEMMA HandledKeeps ==
  ASSUME IInv, NEW e \in batch, Handled(e), \A f \in batch \ {e} : EventInv(f)'
  PROVE  /\ BatchInv' /\ spc' \in {"wait", "events"} /\ batch' \subseteq EventType
         /\ spc = "events"
<1>1. batch' = batch \ {e} /\ spc' = IF batch = {e} THEN "wait" ELSE "events"
  BY DEF Handled
<1>2. spc = "events"
  BY DEF IInv, BatchInv
<1>3. (batch' # {}) <=> (spc' = "events")
  BY <1>1
<1>4. \A f, g \in batch' : f.fd = g.fd => f = g
  BY <1>1 DEF IInv, BatchInv
<1>5. \A f \in batch' : EventInv(f)'
  BY <1>1
<1>6. BatchInv'
  BY <1>3, <1>4, <1>5 DEF BatchInv
<1> QED BY <1>1, <1>2, <1>6 DEF IInv, TypeOK

\* What onNewConnection makes of the connection of a new descriptor.
LEMMA NewConnection ==
  ASSUME NEW fd \in Fds, NEW b \in OnNewConnection([NoConn EXCEPT !.fd = fd])
  PROVE  /\ b \in ConnType /\ b.read = 0 /\ b.write = <<>> /\ "OUT" \notin b.opt
         /\ \/ b.fd = fd /\ "RDHUP" \in b.opt
            \/ b.fd = CLOSED /\ b.opt = {}
<1>1. NoConn \in ConnType /\ NoConn.opt = {} /\ NoConn.read = 0 /\ NoConn.write = <<>>
  BY ConstantTypes DEF NoConn
<1>n. PICK new : new = [NoConn EXCEPT !.fd = fd]
  OBVIOUS
<1>2. new \in ConnType /\ new.fd = fd /\ new.opt = {} /\ new.read = 0 /\ new.write = <<>>
  BY <1>1, <1>n DEF ConnType
<1>3. CASE b = Subscribe(new, {"IN"})
  BY <1>2, <1>3 DEF Subscribe, ConnType
<1>4. CASE b = CloseConn(new)
  BY <1>2, <1>4 DEF CloseConn, ConnType
<1> QED BY <1>3, <1>4, <1>n DEF OnNewConnection

\* accept: the oldest client of backlog has the least free descriptor, unless
\* onNewConnection has closed it.
LEMMA AcceptKeeps ==
  ASSUME IInv, NEW e \in batch, Accept(e)
  PROVE  IInv'
<1>c. PICK c : c = Head(backlog)
  OBVIOUS
<1>d. PICK d : d = Min(FreeFds)
  OBVIOUS
<1>1. /\ e.fd = SERVER /\ FreeFds # {} /\ Handled(e) /\ peer' = peer
      /\ connections' = Append(connections, c) /\ backlog' = Tail(backlog)
  BY <1>c DEF Accept
<1>b. PICK b \in OnNewConnection([NoConn EXCEPT !.fd = d]) :
           conn' = [conn EXCEPT ![c] = b] /\ Accepted(d, b)
  BY <1>c, <1>d DEF Accept
<1>2. d \in Fds /\ file[d] = NoClient
  BY <1>1, <1>d, MinFacts, ConstantTypes DEF FreeFds
<1>3. backlog # <<>>
  BY <1>1 DEF IInv, BatchInv, EventInv
<1>4. /\ c \in Clients /\ c \in ToSet(backlog) /\ backlog' \in Seq(Clients)
      /\ \A i, j \in DOMAIN backlog' : backlog'[i] = backlog'[j] => i = j
      /\ ToSet(backlog') = ToSet(backlog) \ {c}
  <2>1. backlog \in Seq(Clients) /\ \A i, j \in DOMAIN backlog : backlog[i] = backlog[j] => i = j
    BY DEF IInv, TypeOK, ListsInv
  <2>2. /\ Head(backlog) \in Clients /\ Tail(backlog) \in Seq(Clients)
        /\ Head(backlog) \in {backlog[i] : i \in DOMAIN backlog}
        /\ \A i, j \in DOMAIN Tail(backlog) : Tail(backlog)[i] = Tail(backlog)[j] => i = j
        /\ {Tail(backlog)[i] : i \in DOMAIN Tail(backlog)} =
              {backlog[i] : i \in DOMAIN backlog} \ {Head(backlog)}
    BY <2>1, <1>3, TailFacts
  <2>3. ToSet(Tail(backlog)) = ToSet(backlog) \ {Head(backlog)} /\ Head(backlog) \in ToSet(backlog)
    BY <2>2 DEF ToSet
  <2> QED BY <2>2, <2>3, <1>1, <1>c
<1>5. c \notin ToSet(connections) /\ peer[c].st # "idle"
  BY <1>4 DEF IInv, ListsInv
<1>6. /\ connections' \in Seq(Clients) /\ ToSet(connections') = ToSet(connections) \cup {c}
      /\ \A i, j \in DOMAIN connections' : connections'[i] = connections'[j] => i = j
  <2>1. /\ connections \in Seq(Clients)
        /\ \A i, j \in DOMAIN connections : connections[i] = connections[j] => i = j
    BY DEF IInv, TypeOK, ListsInv
  <2>2. c \in Clients
    BY <1>4
  <2>3. /\ Append(connections, c) \in Seq(Clients)
        /\ ToSet(Append(connections, c)) = ToSet(connections) \cup {c}
        /\ \A i, j \in DOMAIN Append(connections, c) :
              Append(connections, c)[i] = Append(connections, c)[j] => i = j
    BY <2>1, <2>2, <1>5, AppendElements
  <2> QED BY <2>3, <1>1
<1>7. /\ b \in ConnType /\ b.read = 0 /\ b.write = <<>> /\ "OUT" \notin b.opt
      /\ \/ b.fd = d /\ "RDHUP" \in b.opt
         \/ b.fd = CLOSED /\ b.opt = {}
  BY <1>2, <1>b, NewConnection
<1>8. /\ conn' \in [Clients -> ConnType] /\ conn'[c] = b /\ \A x \in Clients \ {c} : conn'[x] = conn[x]
  BY <1>4, <1>7, <1>b DEF IInv, TypeOK
<1>9. /\ file' \in [Fds -> Clients \cup {NoClient}] /\ reg' \in [Fds -> SUBSET {"IN", "OUT", "RDHUP"}]
      /\ file'[d] = IF b.fd = CLOSED THEN NoClient ELSE c
      /\ reg'[d] = b.opt
      /\ \A f \in Fds \ {d} : file'[f] = file[f] /\ reg'[f] = reg[f]
  BY <1>2, <1>4, <1>7, <1>b, <1>c DEF IInv, TypeOK, Accepted, ConnType
<1>10. ASSUME NEW f \in batch \ {e} PROVE EventInv(f)'
  <2>1. f.fd # SERVER
    BY <1>1 DEF IInv, BatchInv
  <2>2. f.fd \in Fds \ {d} /\ EventInv(f)
    BY <2>1, <1>2, FoundFacts, ConstantTypes DEF IInv, BatchInv
  <2>3. file'[f.fd] = file[f.fd] /\ reg'[f.fd] = reg[f.fd]
    BY <2>2, <1>9
  <2> QED BY <2>1, <2>2, <2>3, <1>1 DEF EventInv
<1>11. BatchInv' /\ spc' \in {"wait", "events"} /\ batch' \subseteq EventType
  BY <1>1, <1>10, HandledKeeps
<1>12. TypeOK'
  BY <1>1, <1>4, <1>6, <1>8, <1>9, <1>11 DEF IInv, TypeOK
<1>13. ListsInv'
  <2>1. ASSUME NEW x \in Clients
        PROVE  /\ x \in ToSet(connections)' => x \notin ToSet(backlog)' /\ peer'[x].st # "idle"
               /\ x \in ToSet(backlog)' =>
                     /\ peer'[x].st # "idle"
                     /\ peer'[x].st = "open" => peer'[x].got = <<>> /\ peer'[x].wire = <<>>
    BY <1>1, <1>4, <1>5, <1>6 DEF IInv, ListsInv
  <2> QED BY <2>1, <1>4, <1>6, <1>11 DEF ListsInv
<1>14. FilesInv'
  <2>1. ASSUME NEW f \in Fds, file'[f] # NoClient
        PROVE  file'[f] \in ToSet(connections') /\ conn'[file'[f]].fd = f
    <3>1. CASE f = d
      BY <2>1, <3>1, <1>4, <1>6, <1>7, <1>8, <1>9
    <3>2. CASE f # d
      <4>1. file'[f] = file[f] /\ file[f] \in ToSet(connections) /\ conn[file[f]].fd = f
        BY <2>1, <3>2, <1>9 DEF IInv, FilesInv
      <4>2. file[f] \in Clients \ {c}
        BY <4>1, <2>1, <1>5 DEF IInv, TypeOK
      <4> QED BY <4>1, <4>2, <1>6, <1>8
    <3> QED BY <3>1, <3>2
  <2>2. ASSUME NEW x \in Clients, conn'[x].fd # CLOSED
        PROVE  /\ file'[conn'[x].fd] = x /\ reg'[conn'[x].fd] = conn'[x].opt
               /\ "RDHUP" \in conn'[x].opt
    <3>1. CASE x = c
      BY <2>2, <3>1, <1>7, <1>8, <1>9
    <3>2. CASE x # c
      <4>1. conn'[x] = conn[x] /\ conn[x].fd \in Fds /\ file[conn[x].fd] = x
        BY <2>2, <3>2, <1>8 DEF IInv, TypeOK, FilesInv, ConnType
      <4>2. conn[x].fd # d
        BY <4>1, <1>2, ConstantTypes
      <4> QED BY <4>1, <4>2, <2>2, <1>9 DEF IInv, FilesInv
    <3> QED BY <3>1, <3>2
  <2> QED BY <2>1, <2>2 DEF FilesInv
<1>15. ASSUME NEW x \in Clients PROVE PairInv(x, peer'[x], conn'[x])
  <2>1. CASE x # c
    BY <2>1, <1>1, <1>8 DEF IInv
  <2>2. CASE x = c
    <3>1. /\ PairInv(c, peer[c], NoConn)
          /\ peer[c].st = "open" => peer[c].got = <<>> /\ peer[c].wire = <<>>
      BY <1>4, PairClosed DEF IInv, TypeOK, ListsInv
    <3>2. PairInv(c, peer[c], b)
      BY <3>1, <1>5, <1>7, NetAssumption, ConstantTypes DEF PairInv
    <3> QED BY <2>2, <3>2, <1>1, <1>8
  <2> QED BY <2>1, <2>2
<1> QED BY <1>11, <1>12, <1>13, <1>14, <1>15 DEF IInv

-----------------------------------------------------------------------------
(* A client's event.                                                       *)

\* The event leaves b of its connection, and the peer's side fits b when the
\* connection is kept.
Settled(e, b) ==
    /\ Settle(e, e.of, b) /\ Handled(e) /\ backlog' = backlog
    /\ b \in ConnType /\ peer' \in [Clients -> PeerType]
    /\ \A x \in Clients \ {e.of} : peer'[x] = peer[x]
    /\ peer'[e.of].st = peer[e.of].st /\ PairInv(e.of, peer'[e.of], NoConn)
    /\ b.opt # {} /\ "RDHUP" \notin e.bits =>
          b.fd = e.fd /\ "RDHUP" \in b.opt /\ PairInv(e.of, peer'[e.of], b)
    /\ b.opt = {} /\ peer[e.of].st = "open" =>
          Len(peer[e.of].got) + Len(peer[e.of].wire) = RespLen

\* What the event does to lists, descriptors and registrations keeps IInv.
LEMMA SettledKeeps ==
  ASSUME IInv, NEW e \in batch, e.fd # SERVER, NEW b, Settled(e, b)
  PROVE  IInv'
<1>c. PICK c : c = e.of
  OBVIOUS
<1>1. /\ c \in Clients /\ e.fd \in Fds /\ file[e.fd] = c /\ conn[c].fd = e.fd
      /\ Min(Matches(e)) \in DOMAIN connections /\ connections[Min(Matches(e))] = c
      /\ c \in ToSet(connections) /\ c \notin ToSet(backlog) /\ peer[c].st # "idle"
  BY <1>c, FoundFacts
<1>2. /\ Settle(e, c, b) /\ Handled(e) /\ backlog' = backlog
      /\ b \in ConnType /\ peer' \in [Clients -> PeerType]
      /\ \A x \in Clients \ {c} : peer'[x] = peer[x]
      /\ peer'[c].st = peer[c].st /\ PairInv(c, peer'[c], NoConn)
      /\ b.opt # {} /\ "RDHUP" \notin e.bits =>
            b.fd = e.fd /\ "RDHUP" \in b.opt /\ PairInv(c, peer'[c], b)
  BY <1>c DEF Settled
<1>3. \A f \in batch \ {e} : f.fd # e.fd /\ (f.fd # SERVER => f.of \in Clients \ {c} /\ f.fd \in Fds)
  <2>1. ASSUME NEW f \in batch \ {e} PROVE f.fd # e.fd
    BY DEF IInv, BatchInv
  <2>2. ASSUME NEW f \in batch \ {e}, f.fd # SERVER PROVE f.of \in Clients \ {c} /\ f.fd \in Fds
    <3>1. f.of \in Clients /\ conn[f.of].fd = f.fd /\ f.fd \in Fds
      BY <2>2, FoundFacts
    <3> QED BY <3>1, <2>1, <1>1
  <2> QED BY <2>1, <2>2
<1>4. ASSUME \A f \in Fds \ {e.fd} : file'[f] = file[f] /\ reg'[f] = reg[f], NEW f \in batch \ {e}
      PROVE  EventInv(f)'
  <2>0. EventInv(f)
    BY DEF IInv, BatchInv
  <2>1. CASE f.fd = SERVER
    BY <2>0, <2>1, <1>2 DEF EventInv
  <2>2. CASE f.fd # SERVER
    <3>1. /\ file'[f.fd] = file[f.fd] /\ reg'[f.fd] = reg[f.fd] /\ peer'[f.of] = peer[f.of]
      BY <2>2, <1>2, <1>3, <1>4
    <3> QED BY <2>0, <2>2, <3>1 DEF EventInv
  <2> QED BY <2>1, <2>2
<1>5. ASSUME ToSet(connections') \subseteq ToSet(connections), connections' \in Seq(Clients),
             \A i, j \in DOMAIN connections' : connections'[i] = connections'[j] => i = j,
             spc' \in {"wait", "events"}
      PROVE  ListsInv'
  <2>1. ASSUME NEW x \in Clients
        PROVE  /\ x \in ToSet(connections') => x \notin ToSet(backlog') /\ peer'[x].st # "idle"
               /\ x \in ToSet(backlog') =>
                     /\ peer'[x].st # "idle"
                     /\ peer'[x].st = "open" => peer'[x].got = <<>> /\ peer'[x].wire = <<>>
    <3>1. CASE x = c
      BY <3>1, <1>1, <1>2
    <3>2. CASE x # c
      BY <3>2, <1>2, <1>5 DEF IInv, ListsInv
    <3> QED BY <3>1, <3>2
  <2> QED BY <2>1, <1>2, <1>5 DEF IInv, ListsInv
<1>6. CASE b.opt = {} \/ "RDHUP" \in e.bits
  <2>1. /\ connections' = RemoveAt(connections, Min(Matches(e)))
        /\ conn' = [conn EXCEPT ![c] = NoConn] /\ Release(e.fd)
    BY <1>2, <1>6 DEF Settle
  <2>2. /\ connections' \in Seq(Clients) /\ ToSet(connections') = ToSet(connections) \ {c}
        /\ \A i, j \in DOMAIN connections' : connections'[i] = connections'[j] => i = j
    <3>1. /\ connections \in Seq(Clients)
          /\ \A i, j \in DOMAIN connections : connections[i] = connections[j] => i = j
      BY DEF IInv, TypeOK, ListsInv
    <3>k. PICK k : k = Min(Matches(e))
      OBVIOUS
    <3>2. k \in DOMAIN connections /\ connections[k] = c
      BY <1>1, <3>k
    <3>3. /\ RemoveAt(connections, k) \in Seq(Clients)
          /\ ToSet(RemoveAt(connections, k)) = ToSet(connections) \ {connections[k]}
          /\ \A i, j \in DOMAIN RemoveAt(connections, k) :
                RemoveAt(connections, k)[i] = RemoveAt(connections, k)[j] => i = j
      BY <3>1, <3>2, RemoveElement
    <3> QED BY <3>2, <3>3, <3>k, <2>1
  <2>3. /\ conn' \in [Clients -> ConnType] /\ conn'[c] = NoConn
        /\ \A x \in Clients \ {c} : conn'[x] = conn[x]
    BY <2>1, <1>1, ConstantTypes DEF IInv, TypeOK
  <2>4. /\ file' \in [Fds -> Clients \cup {NoClient}] /\ reg' \in [Fds -> SUBSET {"IN", "OUT", "RDHUP"}]
        /\ file'[e.fd] = NoClient
        /\ \A f \in Fds \ {e.fd} : file'[f] = file[f] /\ reg'[f] = reg[f]
    BY <2>1, <1>1 DEF Release, IInv, TypeOK
  <2>5. BatchInv' /\ spc' \in {"wait", "events"} /\ batch' \subseteq EventType
    BY <1>2, <1>4, <2>4, HandledKeeps
  <2>6. TypeOK'
    BY <1>2, <2>2, <2>3, <2>4, <2>5 DEF IInv, TypeOK
  <2>7. ListsInv'
    BY <1>5, <2>2, <2>5
  <2>8. FilesInv'
    <3>1. ASSUME NEW f \in Fds, file'[f] # NoClient
          PROVE  file'[f] \in ToSet(connections') /\ conn'[file'[f]].fd = f
      <4>1. f # e.fd /\ file'[f] = file[f]
        BY <3>1, <2>4
      <4>2. file[f] \in ToSet(connections) /\ conn[file[f]].fd = f /\ file[f] \in Clients
        BY <3>1, <4>1 DEF IInv, FilesInv, TypeOK
      <4> QED BY <4>1, <4>2, <1>1, <2>2, <2>3
    <3>2. ASSUME NEW x \in Clients, conn'[x].fd # CLOSED
          PROVE  /\ file'[conn'[x].fd] = x /\ reg'[conn'[x].fd] = conn'[x].opt
                 /\ "RDHUP" \in conn'[x].opt
      <4>1. x # c /\ conn'[x] = conn[x]
        BY <3>2, <2>3, ConstantTypes
      <4>2. /\ conn[x].fd \in Fds /\ file[conn[x].fd] = x /\ reg[conn[x].fd] = conn[x].opt
            /\ "RDHUP" \in conn[x].opt
        BY <3>2, <4>1 DEF IInv, FilesInv, TypeOK, ConnType
      <4>3. conn[x].fd # e.fd
        BY <4>1, <4>2, <1>1
      <4> QED BY <4>1, <4>2, <4>3, <2>4
    <3> QED BY <3>1, <3>2 DEF FilesInv
  <2>9. ASSUME NEW x \in Clients PROVE PairInv(x, peer'[x], conn'[x])
    BY <1>2, <2>3 DEF IInv
  <2> QED BY <2>5, <2>6, <2>7, <2>8, <2>9 DEF IInv
<1>7. CASE ~(b.opt = {} \/ "RDHUP" \in e.bits)
  <2>1. /\ conn' = [conn EXCEPT ![c] = b] /\ reg' = [reg EXCEPT ![e.fd] = b.opt]
        /\ UNCHANGED <<connections, file>>
    BY <1>2, <1>7 DEF Settle
  <2>2. b.fd = e.fd /\ "RDHUP" \in b.opt /\ PairInv(c, peer'[c], b)
    BY <1>2, <1>7
  <2>3. /\ conn' \in [Clients -> ConnType] /\ conn'[c] = b
        /\ \A x \in Clients \ {c} : conn'[x] = conn[x]
    BY <2>1, <1>1, <1>2 DEF IInv, TypeOK
  <2>4. /\ reg' \in [Fds -> SUBSET {"IN", "OUT", "RDHUP"}] /\ reg'[e.fd] = b.opt
        /\ \A f \in Fds \ {e.fd} : file'[f] = file[f] /\ reg'[f] = reg[f]
    BY <2>1, <1>1, <1>2 DEF IInv, TypeOK, ConnType
  <2>5. BatchInv' /\ spc' \in {"wait", "events"} /\ batch' \subseteq EventType
    BY <1>2, <1>4, <2>4, HandledKeeps
  <2>6. TypeOK'
    BY <1>2, <2>1, <2>3, <2>4, <2>5 DEF IInv, TypeOK
  <2>7. ListsInv'
    BY <1>5, <2>1, <2>5 DEF IInv, TypeOK, ListsInv
  <2>8. FilesInv'
    <3>1. ASSUME NEW f \in Fds, file'[f] # NoClient
          PROVE  file'[f] \in ToSet(connections') /\ conn'[file'[f]].fd = f
      <4>1. file[f] \in ToSet(connections) /\ conn[file[f]].fd = f /\ file[f] \in Clients
        BY <3>1, <2>1 DEF IInv, FilesInv, TypeOK
      <4>2. conn'[file[f]].fd = f
        BY <4>1, <1>1, <2>2, <2>3
      <4> QED BY <4>1, <4>2, <2>1
    <3>2. ASSUME NEW x \in Clients, conn'[x].fd # CLOSED
          PROVE  /\ file'[conn'[x].fd] = x /\ reg'[conn'[x].fd] = conn'[x].opt
                 /\ "RDHUP" \in conn'[x].opt
      <4>1. CASE x = c
        BY <4>1, <1>1, <2>1, <2>2, <2>3, <2>4
      <4>2. CASE x # c
        <5>1. /\ conn'[x] = conn[x] /\ conn[x].fd \in Fds /\ file[conn[x].fd] = x
              /\ reg[conn[x].fd] = conn[x].opt /\ "RDHUP" \in conn[x].opt
          BY <3>2, <4>2, <2>3 DEF IInv, FilesInv, TypeOK, ConnType
        <5>2. conn[x].fd # e.fd
          BY <4>2, <5>1, <1>1
        <5> QED BY <5>1, <5>2, <2>4
      <4> QED BY <4>1, <4>2
    <3> QED BY <3>1, <3>2 DEF FilesInv
  <2>9. ASSUME NEW x \in Clients PROVE PairInv(x, peer'[x], conn'[x])
    BY <1>2, <2>2, <2>3 DEF IInv
  <2> QED BY <2>5, <2>6, <2>7, <2>8, <2>9 DEF IInv
<1> QED BY <1>6, <1>7

\* What a handler of the event may assume.
LEMMA HandlerFacts ==
  ASSUME IInv, NEW e \in batch, e.fd # SERVER
  PROVE  /\ e.of \in Clients /\ e.fd \in Fds /\ conn[e.of].fd = e.fd /\ reg[e.fd] = conn[e.of].opt
         /\ "RDHUP" \in conn[e.of].opt
         /\ peer[e.of] \in PeerType /\ conn[e.of] \in ConnType
         /\ peer \in [Clients -> PeerType] /\ conn \in [Clients -> ConnType]
         /\ PairInv(e.of, peer[e.of], conn[e.of]) /\ PairInv(e.of, peer[e.of], NoConn) /\ EventInv(e)
BY FoundFacts, PairClosed DEF IInv, TypeOK, BatchInv

LEMMA ErrorFacts ==
  ASSUME NEW c \in Clients, NEW b \in ConnType, NEW r \in OnError(c, b)
  PROVE  r \in ConnType /\ r.opt = b.opt /\ r.fd = b.fd
<1>1. CASE r = b
  BY <1>1
<1>2. CASE r = [b EXCEPT !.write = Append(@, <<c, -1>>)]
  <2>1. b.write \in Seq(Clients \X Int) /\ <<c, -1>> \in Clients \X Int
    BY DEF ConnType
  <2>2. Append(b.write, <<c, -1>>) \in Seq(Clients \X Int)
    BY <2>1, AppendProperties
  <2> QED BY <1>2, <2>2 DEF ConnType
<1> QED BY <1>1, <1>2 DEF OnError

\* EPOLLERR never comes without EPOLLRDHUP: the connection is erased.
LEMMA EventErrorSettles ==
  ASSUME IInv, NEW e \in batch, e.fd # SERVER, EventError(e, e.of)
  PROVE  \E b : Settled(e, b)
<1>1. PICK b \in OnError(e.of, conn[e.of]) : Settle(e, e.of, b)
  BY DEF EventError
<1>2. b \in ConnType /\ b.opt = conn[e.of].opt
  BY HandlerFacts, ErrorFacts
<1>3. "RDHUP" \in e.bits /\ "RDHUP" \in b.opt
  BY <1>2, HandlerFacts DEF EventError, EventInv
<1>4. Settled(e, b)
  BY <1>1, <1>2, <1>3, HandlerFacts DEF EventError, Settled
<1> QED BY <1>4

\* EPOLLRDHUP alone.
LEMMA EventCloseSettles ==
  ASSUME IInv, NEW e \in batch, e.fd # SERVER, EventClose(e, e.of)
  PROVE  \E b : Settled(e, b)
<1>1. "RDHUP" \in conn[e.of].opt
  BY HandlerFacts
<1>2. Settled(e, conn[e.of])
  BY <1>1, HandlerFacts DEF EventClose, Settled
<1> QED BY <1>2

\* The units of a whole answer.
LEMMA AnswerFacts ==
  ASSUME NEW c \in Clients
  PROVE  Answer(c) \in Units /\ Len(Answer(c)) = RespLen /\ Numbered(c, Answer(c), 0)
<1>1. Answer(c) \in [1..RespLen -> Clients \X Int] /\ RespLen \in Nat
  BY ConstantTypes DEF Answer
<1>2. Answer(c) \in Units
  BY <1>1 DEF Units
<1>3. DOMAIN Answer(c) = 1..RespLen
  BY <1>1
<1>4. Len(Answer(c)) = RespLen
  BY <1>1, <1>2, <1>3 DEF Units
<1>5. ASSUME NEW k \in 1..RespLen PROVE Answer(c)[k] = <<c, 0 + k>>
  <2>1. 0 + k = k
    BY <1>1
  <2> QED BY <2>1 DEF Answer
<1> QED BY <1>2, <1>4, <1>5 DEF Numbered

\* The connection r that onReadAvailable leaves of b.
LEMMA ReadAvailableFacts ==
  ASSUME NEW c \in Clients, NEW b \in ConnType, "RDHUP" \in b.opt, NEW r \in OnReadAvailable(c, b)
  PROVE  /\ r \in ConnType /\ r.fd = b.fd /\ r.read = b.read /\ "RDHUP" \in r.opt
         /\ b.read = ReqLen => r.write = b.write \o Answer(c)
         /\ b.read # ReqLen => r = b
<1>1. CASE b.read # ReqLen
  BY <1>1 DEF OnReadAvailable
<1>2. CASE b.read = ReqLen
  <2>1. PICK q \in {b, Unsubscribe(b, {"IN"})} :
             r = [Subscribe(q, {"OUT"}) EXCEPT !.write = @ \o Answer(c)]
    BY <1>2 DEF OnReadAvailable
  <2>2. q \in ConnType /\ q.fd = b.fd /\ q.read = b.read /\ q.write = b.write
    BY DEF Unsubscribe, ConnType
  <2>s. PICK s : s = Subscribe(q, {"OUT"})
    OBVIOUS
  <2>3. /\ s \in ConnType /\ s.fd = b.fd /\ s.read = b.read /\ s.write = b.write /\ "RDHUP" \in s.opt
    BY <2>2, <2>s DEF Subscribe, ConnType
  <2>4. b.write \o Answer(c) \in Seq(Clients \X Int)
    <3>1. b.write \in Seq(Clients \X Int) /\ Answer(c) \in Seq(Clients \X Int)
      BY AnswerFacts DEF ConnType, Units
    <3> QED BY <3>1, ConcatProperties
  <2>5. r = [s EXCEPT !.write = s.write \o Answer(c)]
    BY <2>1, <2>s
  <2>6. /\ r \in ConnType /\ r.fd = s.fd /\ r.read = s.read /\ r.opt = s.opt
        /\ r.write = s.write \o Answer(c)
    BY <2>3, <2>4, <2>5 DEF ConnType
  <2> QED BY <1>2, <2>3, <2>6
<1> QED BY <1>1, <1>2

\* n units have been read: the request is complete and the answer is in write_,
\* or there is still nothing to write.
LEMMA ReadPair ==
  ASSUME NEW c \in Clients, NEW p \in PeerType, NEW q \in PeerType, NEW b \in ConnType, NEW r \in ConnType,
         NEW n \in Nat, n # 0, n <= p.inbox, PairInv(c, p, b), b.fd # CLOSED, p.st # "idle",
         q.st = p.st, q.end = p.end, q.got = p.got, q.wire = p.wire, q.sent = p.sent,
         q.inbox = p.inbox - n,
         r.read = b.read + n,
         r.read = ReqLen => r.write = b.write \o Answer(c),
         r.read # ReqLen => r.write = b.write /\ r.opt = b.opt
  PROVE  PairInv(c, q, r)
<1>1. /\ b.read \in Nat /\ p.inbox \in Nat /\ p.sent \in Nat /\ ReqLen \in Nat
      /\ b.read + p.inbox <= ReqLen
  BY ConstantTypes DEF PeerType, ConnType, PairInv
<1>2. r.read + q.inbox = b.read + p.inbox /\ b.read # ReqLen
  <2>1. \A i, j, m \in Nat : m # 0 /\ m <= j /\ i + j <= ReqLen =>
           (i + m) + (j - m) = i + j /\ i # ReqLen
    BY <1>1
  <2> QED BY <2>1, <1>1
<1>3. CASE p.st # "open"
  BY <1>2, <1>3 DEF PairInv
<1>4. CASE p.st = "open"
  <2>1. p.got = <<>> /\ p.wire = <<>> /\ b.write = <<>> /\ "OUT" \notin b.opt
    BY <1>2, <1>4 DEF PairInv
  <2>2. CASE r.read # ReqLen
    BY <1>2, <1>4, <2>1, <2>2 DEF PairInv
  <2>3. CASE r.read = ReqLen
    <3>1. r.write = Answer(c)
      <4>1. <<>> \o Answer(c) = Answer(c)
        BY AnswerFacts, ConcatEmptySeq DEF Units
      <4> QED BY <4>1, <2>1, <2>3
    <3>2. Len(q.got) = 0 /\ Len(q.wire) = 0 /\ 0 + 0 = 0 /\ 0 + RespLen = RespLen
      BY <2>1, ConstantTypes
    <3>3. /\ Numbered(c, r.write, Len(q.got) + Len(q.wire))
          /\ Len(q.got) + Len(q.wire) + Len(r.write) = RespLen
      BY <3>1, <3>2, AnswerFacts
    <3> QED BY <1>2, <1>4, <2>3, <3>3 DEF PairInv
  <2> QED BY <2>2, <2>3
<1> QED BY <1>3, <1>4

LEMMA MinOfTwo ==
  ASSUME NEW i \in Nat, NEW j \in Nat
  PROVE  Min({i, j}) \in Nat /\ Min({i, j}) <= i /\ Min({i, j}) <= j /\ Min({i, j}) \in {i, j}
<1>1. {i, j} \in SUBSET Nat /\ {i, j} # {}
  OBVIOUS
<1>2. Min({i, j}) \in {i, j} /\ \A y \in {i, j} : Min({i, j}) <= y
  BY <1>1, MinFacts
<1> QED BY <1>2

\* EPOLLIN: data are read, or the client's end is closed and EPOLLRDHUP is set.
LEMMA EventInSettles ==
  ASSUME IInv, NEW e \in batch, e.fd # SERVER, EventIn(e, e.of)
  PROVE  Throw \/ \E b : Settled(e, b)
<1>c. PICK c : c = e.of
  OBVIOUS
<1>n. PICK n : n = Min({BufSize, peer[c].inbox})
  OBVIOUS
<1>b. PICK b : b = ReadToBuffer(conn[c], n)
  OBVIOUS
<1>1. /\ c \in Clients /\ conn[c].fd = e.fd /\ e.fd \in Fds /\ "RDHUP" \in conn[c].opt
      /\ peer[c] \in PeerType /\ conn[c] \in ConnType /\ peer \in [Clients -> PeerType]
      /\ PairInv(c, peer[c], conn[c]) /\ EventInv(e) /\ PairInv(c, peer[c], NoConn)
  BY <1>c, HandlerFacts
<1>2. /\ "IN" \in e.bits
      /\ \/ Throw
         \/ /\ \E r \in IF n = 0 THEN OnError(c, b) ELSE OnReadAvailable(c, b) : Settle(e, c, r)
            /\ peer' = [peer EXCEPT ![c].inbox = @ - n]
            /\ Handled(e) /\ UNCHANGED backlog
  BY <1>c, <1>n, <1>b DEF EventIn
<1> SUFFICES ASSUME ~Throw PROVE \E r : Settled(e, r)
  OBVIOUS
<1>r. PICK r \in IF n = 0 THEN OnError(c, b) ELSE OnReadAvailable(c, b) : Settle(e, c, r)
  BY <1>2
<1>q. PICK q : q = [peer[c] EXCEPT !.inbox = @ - n]
  OBVIOUS
<1>3. peer' = [peer EXCEPT ![c] = q] /\ Handled(e) /\ backlog' = backlog
  BY <1>1, <1>2, <1>q
<1>4. /\ n \in Nat /\ n <= peer[c].inbox /\ (n = 0 => peer[c].inbox = 0)
      /\ peer[c].inbox \in Nat /\ conn[c].read \in Nat /\ ReqLen \in Nat
      /\ conn[c].read + peer[c].inbox <= ReqLen /\ peer[c].inbox <= ReqLen
  <2>1. /\ peer[c].inbox \in Nat /\ BufSize \in Nat /\ BufSize # 0 /\ ReqLen \in Nat
        /\ conn[c].read \in Nat /\ conn[c].read + peer[c].inbox <= ReqLen /\ peer[c].inbox <= ReqLen
    BY <1>1, NetAssumption DEF PeerType, ConnType, PairInv
  <2>2. n \in Nat /\ n <= peer[c].inbox /\ n \in {BufSize, peer[c].inbox}
    BY <2>1, <1>n, MinOfTwo
  <2> QED BY <2>1, <2>2
<1>5. /\ q.st = peer[c].st /\ q.end = peer[c].end /\ q.got = peer[c].got /\ q.wire = peer[c].wire
      /\ q.sent = peer[c].sent /\ q.inbox = peer[c].inbox - n /\ q \in PeerType
  <2>1. peer[c].inbox - n \in 0..ReqLen
    BY <1>4
  <2> QED BY <1>1, <1>q, <2>1 DEF PeerType
<1>6. /\ b.fd = e.fd /\ b.opt = conn[c].opt /\ b.read = conn[c].read + n
      /\ b.write = conn[c].write /\ b \in ConnType
  <2>1. conn[c].read + n \in 0..ReqLen
    BY <1>4
  <2> QED BY <1>1, <1>b, <2>1 DEF ReadToBuffer, ConnType
<1>7. /\ peer' \in [Clients -> PeerType] /\ peer'[c] = q /\ \A x \in Clients \ {c} : peer'[x] = peer[x]
  BY <1>1, <1>3, <1>5
<1>8. PairInv(c, q, NoConn)
  <2>1. /\ q.inbox \in Nat /\ 0 + q.inbox <= ReqLen
        /\ 0 + q.inbox <= 0 + peer[c].inbox
        /\ peer[c].st = "open" => 0 + peer[c].inbox <= peer[c].sent
    <3>1. peer[c].st = "open" => 0 + peer[c].inbox <= peer[c].sent
      BY <1>1, ConstantTypes DEF PairInv
    <3>2. \A i, m \in Nat : m <= i /\ i <= ReqLen =>
             i - m \in Nat /\ 0 + (i - m) <= ReqLen /\ 0 + (i - m) <= 0 + i
      BY <1>4
    <3> QED BY <3>1, <3>2, <1>4, <1>5
  <2>2. q.st = "open" => 0 + q.inbox <= q.sent
    BY <1>1, <1>4, <1>5, <2>1 DEF PeerType
  <2>3. peer[c].st # "idle"
    BY <1>c, FoundFacts
  <2> QED BY <1>1, <1>5, <2>1, <2>2, <2>3, ConstantTypes DEF PairInv
<1>9. CASE n = 0
  <2>1. r \in ConnType /\ r.opt = conn[c].opt
    BY <1>1, <1>6, <1>9, <1>r, ErrorFacts
  <2>2. "RDHUP" \in e.bits
    BY <1>1, <1>2, <1>4, <1>9, <1>c DEF EventInv
  <2>3. Settled(e, r)
    BY <1>1, <1>3, <1>5, <1>7, <1>8, <1>c, <1>r, <2>1, <2>2 DEF Settled
  <2> QED BY <2>3
<1>10. CASE n # 0
  <2>1. /\ r \in ConnType /\ r.fd = b.fd /\ r.read = b.read /\ "RDHUP" \in r.opt
        /\ b.read = ReqLen => r.write = b.write \o Answer(c)
        /\ b.read # ReqLen => r = b
    BY <1>1, <1>6, <1>10, <1>r, ReadAvailableFacts
  <2>2. peer[c].st # "idle" /\ conn[c].fd # CLOSED
    BY <1>1, <1>c, FoundFacts, ConstantTypes
  <2>3. /\ r.read = conn[c].read + n
        /\ r.read = ReqLen => r.write = conn[c].write \o Answer(c)
        /\ r.read # ReqLen => r.write = conn[c].write /\ r.opt = conn[c].opt
    BY <2>1, <1>6
  <2>4. PairInv(c, q, r)
    BY <1>1, <1>4, <1>5, <1>10, <2>1, <2>2, <2>3, ReadPair
  <2>5. Settled(e, r)
    BY <1>1, <1>3, <1>5, <1>6, <1>7, <1>8, <1>c, <1>r, <2>1, <2>4 DEF Settled
  <2> QED BY <2>5
<1> QED BY <1>9, <1>10

\* EPOLLOUT: units of write_ go to the wire, or the answer has been written.
LEMMA EventOutSettles ==
  ASSUME IInv, NEW e \in batch, e.fd # SERVER, EventOut(e, e.of)
  PROVE  Throw \/ \E b : Settled(e, b)
<1>c. PICK c : c = e.of
  OBVIOUS
<1>n. PICK n : n = Min({Window - Len(peer[c].wire), Len(conn[c].write)})
  OBVIOUS
<1>1. /\ c \in Clients /\ conn[c].fd = e.fd /\ e.fd \in Fds /\ "RDHUP" \in conn[c].opt
      /\ peer[c] \in PeerType /\ conn[c] \in ConnType /\ peer \in [Clients -> PeerType]
      /\ PairInv(c, peer[c], conn[c]) /\ EventInv(e) /\ PairInv(c, peer[c], NoConn)
      /\ reg[e.fd] = conn[c].opt /\ peer[c].st # "idle" /\ conn[c].fd # CLOSED
  BY <1>c, HandlerFacts, FoundFacts, ConstantTypes
<1>2. "OUT" \in conn[c].opt
  BY <1>1, <1>c DEF EventOut, EventInv
<1>3. peer[c].st = "open" =>
         /\ conn[c].read = ReqLen
         /\ Numbered(c, peer[c].got, 0) /\ Numbered(c, peer[c].wire, Len(peer[c].got))
         /\ Numbered(c, conn[c].write, Len(peer[c].got) + Len(peer[c].wire))
         /\ Len(peer[c].got) + Len(peer[c].wire) + Len(conn[c].write) = RespLen
  BY <1>1, <1>2 DEF PairInv
<1>4. CASE conn[c].write = <<>>
  <2>1. PICK b \in OnWriteDone(conn[c]) : Settle(e, c, b)
    BY <1>4, <1>c DEF EventOut
  <2>2. Handled(e) /\ backlog' = backlog /\ peer' = peer
    BY <1>4, <1>c DEF EventOut
  <2>3. b \in ConnType /\ (b.opt = {} \/ b = Unsubscribe(conn[c], {"OUT"}))
    <3>1. CASE b = Unsubscribe(conn[c], {"OUT"})
      BY <3>1, <1>1 DEF Unsubscribe, ConnType
    <3>2. CASE b = CloseConn(conn[c])
      BY <3>2, <1>1 DEF CloseConn, ConnType
    <3> QED BY <3>1, <3>2 DEF OnWriteDone
  <2>4. b.opt # {} => /\ b.fd = e.fd /\ "RDHUP" \in b.opt /\ b.read = conn[c].read
                      /\ b.write = conn[c].write
    BY <2>3, <1>1 DEF Unsubscribe, ConnType
  <2>5. b.opt # {} => PairInv(c, peer[c], b)
    BY <2>4, <1>1, <1>3 DEF PairInv
  <2>6. peer[c].st = "open" => Len(peer[c].got) + Len(peer[c].wire) = RespLen
    <3>1. Len(peer[c].got) \in Nat /\ Len(peer[c].wire) \in Nat /\ Len(conn[c].write) = 0
      BY <1>1, <1>4 DEF PeerType
    <3>2. \A i, j \in Nat : i + j + 0 = RespLen => i + j = RespLen
      BY ConstantTypes
    <3> QED BY <3>1, <3>2, <1>3
  <2>7. Settled(e, b)
    BY <1>1, <1>c, <2>1, <2>2, <2>3, <2>4, <2>5, <2>6 DEF Settled
  <2> QED BY <2>7
<1>5. CASE conn[c].write # <<>>
  <2> SUFFICES ASSUME ~Throw PROVE \E b : Settled(e, b)
    OBVIOUS
  <2>a. PICK a : a = peer[c].wire
    OBVIOUS
  <2>s. PICK s : s = conn[c].write
    OBVIOUS
  <2>1. /\ Settle(e, c, WriteFromBuffer(conn[c], n))
        /\ peer' = [peer EXCEPT ![c].wire = @ \o SubSeq(conn[c].write, 1, n)]
        /\ Handled(e) /\ backlog' = backlog
    BY <1>5, <1>c, <1>n DEF EventOut
  <2>b. PICK b : b = WriteFromBuffer(conn[c], n)
    OBVIOUS
  <2>w. PICK w : w = a \o SubSeq(s, 1, n)
    OBVIOUS
  <2>t. PICK t : t = SubSeq(s, n + 1, Len(s))
    OBVIOUS
  <2>q. PICK q : q = [peer[c] EXCEPT !.wire = w]
    OBVIOUS
  <2>2. a \in Units /\ s \in Units /\ peer[c].got \in Units
    BY <1>1, <2>a, <2>s DEF PeerType, ConnType, Units
  <2>3. Len(a) \in Nat /\ Len(s) \in Nat /\ Len(peer[c].got) \in Nat
    BY <2>2 DEF Units
  <2>4. n \in 0..Len(s) /\ Len(a) + n <= Window
    <3>1. Window - Len(a) \in Nat /\ Window \in Nat
      BY <1>1, <2>3, <2>a, ConstantTypes DEF PairInv
    <3>2. n \in Nat /\ n <= Window - Len(a) /\ n <= Len(s)
      BY <3>1, <2>3, <2>a, <2>s, <1>n, MinOfTwo
    <3> QED BY <3>1, <3>2, <2>3
  <2>5. /\ w \in Units /\ t \in Units /\ Len(w) = Len(a) + n /\ Len(t) = Len(s) - n
        /\ \A from \in Nat : Numbered(c, a, from) /\ Numbered(c, s, from + Len(a)) =>
              Numbered(c, w, from) /\ Numbered(c, t, from + (Len(a) + n))
    BY <2>2, <2>4, <2>w, <2>t, MoveNumbered
  <2>6. peer' = [peer EXCEPT ![c] = q]
    BY <1>1, <2>1, <2>a, <2>s, <2>w, <2>q
  <2>7. /\ q \in PeerType /\ q.wire = w /\ q.st = peer[c].st /\ q.end = peer[c].end
        /\ q.sent = peer[c].sent /\ q.inbox = peer[c].inbox /\ q.got = peer[c].got
    BY <1>1, <2>5, <2>q DEF PeerType, Units
  <2>8. /\ b \in ConnType /\ b.write = t /\ b.fd = e.fd /\ b.opt = conn[c].opt /\ b.read = conn[c].read
    BY <1>1, <2>5, <2>b, <2>s, <2>t DEF WriteFromBuffer, ConnType, Units
  <2>9. PairInv(c, q, b)
    <3>1. CASE peer[c].st # "open"
      BY <3>1, <1>1, <2>4, <2>5, <2>7, <2>8 DEF PairInv
    <3>2. CASE peer[c].st = "open"
      <4>g. PICK g : g = Len(peer[c].got)
        OBVIOUS
      <4>1. Numbered(c, w, g) /\ Numbered(c, t, g + (Len(a) + n))
        BY <3>2, <1>3, <2>3, <2>5, <2>a, <2>s, <4>g
      <4>2. g + Len(a) + Len(s) = RespLen
        BY <3>2, <1>3, <2>a, <2>s, <4>g
      <4>3. /\ g + Len(w) + Len(t) = RespLen /\ g + Len(w) <= RespLen
        <5>1. \A i, j, k \in Nat : \A m \in 0..k : i + j + k = RespLen =>
                 i + (j + m) + (k - m) = RespLen /\ i + (j + m) <= RespLen
          BY ConstantTypes
        <5>2. g \in Nat /\ Len(a) \in Nat /\ Len(s) \in Nat /\ n \in 0..Len(s)
          BY <4>g, <2>3, <2>4
        <5>3. g + (Len(a) + n) + (Len(s) - n) = RespLen /\ g + (Len(a) + n) <= RespLen
          BY <5>1, <5>2, <4>2
        <5>4. Len(w) = Len(a) + n /\ Len(t) = Len(s) - n
          BY <2>5
        <5> QED BY <5>3, <5>4
      <4> QED BY <3>2, <1>1, <1>3, <2>4, <2>5, <2>7, <2>8, <4>g, <4>1, <4>3 DEF PairInv
    <3> QED BY <3>1, <3>2
  <2>10. PairInv(c, q, NoConn)
    BY <2>7, <2>8, <2>9, PairClosed
  <2>11. /\ peer' \in [Clients -> PeerType] /\ peer'[c] = q
         /\ \A x \in Clients \ {c} : peer'[x] = peer[x]
    BY <1>1, <2>6, <2>7
  <2>12. Settled(e, b)
    BY <1>1, <1>c, <2>1, <2>b, <2>7, <2>8, <2>9, <2>10, <2>11 DEF Settled
  <2> QED BY <2>12
<1> QED BY <1>4, <1>5

\* A client's event ends in an exception or is settled.
LEMMA ClientEventSettles ==
  ASSUME IInv, NEW e \in batch, ClientEvent(e)
  PROVE  e.fd # SERVER /\ (Throw \/ \E b : Settled(e, b))
<1>1. e.fd # SERVER
  BY DEF ClientEvent
<1>2. Found(e) = e.of
  BY <1>1, FoundFacts
<1>3. EventError(e, e.of) \/ EventIn(e, e.of) \/ EventOut(e, e.of) \/ EventClose(e, e.of)
  BY <1>2 DEF ClientEvent
<1> QED BY <1>1, <1>3, EventErrorSettles, EventInSettles, EventOutSettles, EventCloseSettles

-----------------------------------------------------------------------------
(* The theorems.                                                           *)

\* Every step of the server, of the kernel and of the clients keeps IInv.
LEMMA NextKeeps == IInv /\ [Next]_vars => IInv'
<1> SUFFICES ASSUME IInv, [Next]_vars PROVE IInv'
  OBVIOUS
<1>1. CASE UNCHANGED vars
  BY <1>1, ZenonT(40) DEF vars, serverVars, IInv, TypeOK, ListsInv, FilesInv, BatchInv, EventInv, PairInv
<1>2. CASE EpollWait
  BY <1>2, EpollWaitKeeps
<1>3. CASE Restart
  BY <1>3, RestartKeeps
<1>4. ASSUME NEW e \in batch, Accept(e) PROVE IInv'
  BY <1>4, AcceptKeeps
<1>5. ASSUME NEW e \in batch, AcceptFails(e) PROVE IInv'
  BY <1>5, ThrowKeeps DEF AcceptFails
<1>6. ASSUME NEW e \in batch, ClientEvent(e) PROVE IInv'
  <2>1. e.fd # SERVER /\ (Throw \/ \E b : Settled(e, b))
    BY <1>6, ClientEventSettles
  <2>2. CASE Throw
    BY <2>2, ThrowKeeps
  <2>3. ASSUME NEW b, Settled(e, b) PROVE IInv'
    BY <2>1, <2>3, SettledKeeps
  <2> QED BY <2>1, <2>2, <2>3
<1>7. ASSUME NEW c \in Clients, ClientWorks(c) PROVE IInv'
  <2>1. CASE Connect(c)
    BY <2>1, ConnectKeeps
  <2>2. CASE Write(c)
    BY <2>2, WriteKeeps
  <2>3. CASE Read(c)
    BY <2>3, ReadKeeps
  <2>4. CASE Finish(c)
    BY <2>4, CloseClientKeeps DEF Finish
  <2>5. CASE Fail(c)
    BY <2>5, CloseClientKeeps DEF Fail
  <2> QED BY <1>7, <2>1, <2>2, <2>3, <2>4, <2>5 DEF ClientWorks
<1>8. ASSUME NEW c \in Clients, Abort(c) PROVE IInv'
  BY <1>8, CloseClientKeeps DEF Abort
<1>9. ASSUME NEW c \in Clients, Reset(c) PROVE IInv'
  BY <1>9, ResetKeeps
<1> QED BY <1>1, <1>2, <1>3, <1>4, <1>5, <1>6, <1>7, <1>8, <1>9 DEF Next, ServerNext

\* The state of the service, of the kernel and of the clients satisfies IInv at
\* every moment, for any number of clients and descriptors and any sizes of
\* requests, answers, buffers and sockets.
THEOREM Invariance == Spec => []IInv
<1>1. Init => IInv
  BY InitInv
<1>2. IInv /\ [Next]_vars => IInv'
  BY NextKeeps
<1> QED BY <1>1, <1>2, PTL DEF Spec

\* connections_, the buffers, the kernel's tables and the clients keep their
\* types; read_ never holds more than a request.
THEOREM TypeCorrect == Spec => []TypeOK
<1>1. IInv => TypeOK
  BY DEF IInv
<1> QED BY <1>1, Invariance, PTL

\* find_if of Service::run never returns end(), and finds the connection the
\* event is about, whatever was closed, accepted and reused before it in the
\* same batch.
THEOREM EventsAlwaysFindOwner == Spec => []EventFindsOwner
<1>1. IInv => EventFindsOwner
  BY FoundFacts DEF EventFindsOwner
<1> QED BY <1>1, Invariance, PTL

\* A descriptor belongs to one connection of connections_, and epoll waits for
\* what the connection is subscribed to.
THEOREM RegistrationAlwaysExact == Spec => []RegistrationExact
<1>1. IInv => RegistrationExact
  <2> SUFFICES ASSUME IInv PROVE RegistrationExact
    OBVIOUS
  <2>1. ToSet(connections) \subseteq Clients
    BY DEF IInv, TypeOK, ToSet
  <2> QED BY <2>1 DEF IInv, FilesInv, RegistrationExact
<1> QED BY <1>1, Invariance, PTL

\* write_from_buffer and the client's reads deliver a prefix of the client's
\* own answer, whatever the sizes of the buffers and of the socket.
THEOREM AnswersAlwaysIntact == Spec => []AnswerIntegrity
<1>1. IInv => AnswerIntegrity
  <2> SUFFICES ASSUME IInv, NEW c \in Clients, peer[c].st = "open"
               PROVE  IsPrefix(peer[c].got \o peer[c].wire, Answer(c))
    BY DEF AnswerIntegrity
  <2>a. PICK a : a = peer[c].got
    OBVIOUS
  <2>b. PICK b : b = peer[c].wire
    OBVIOUS
  <2>1. peer[c] \in PeerType /\ PairInv(c, peer[c], conn[c])
    BY DEF IInv, TypeOK
  <2>2. /\ a \in Units /\ b \in Units /\ Numbered(c, a, 0) /\ Numbered(c, b, Len(a))
        /\ Len(a) + Len(b) <= RespLen
    BY <2>1, <2>a, <2>b DEF PeerType, Units, PairInv
  <2>3. IsPrefix(a \o b, Answer(c))
    BY <2>2, NumberedPrefix
  <2> QED BY <2>3, <2>a, <2>b
<1> QED BY <1>1, Invariance, PTL

\* A step that leaves every descriptor with its connection lets go of nobody
\* who was accepted.
LEMMA FilesKept ==
  ASSUME NEW c \in Clients,
         \A fd \in Fds : file[fd] = c => file'[fd] = c,
         c \in ToSet(backlog) => c \in ToSet(backlog')
  PROVE  LetGoDone(c)
BY DEF LetGoDone, Attached

\* An event takes the descriptor of its own connection at most, and then the
\* client's end is closed or the listener has hung up after its answer.
LEMMA SettledLetsGo ==
  ASSUME IInv, NEW e \in batch, e.fd # SERVER, NEW b, Settled(e, b), NEW c \in Clients
  PROVE  LetGoDone(c)
<1>1. /\ e.of \in Clients /\ file[e.fd] = e.of /\ e.fd \in Fds /\ Settle(e, e.of, b)
      /\ backlog' = backlog /\ file \in [Fds -> Clients \cup {NoClient}]
  BY FoundFacts DEF Settled, IInv, TypeOK
<1>2. \A fd \in Fds \ {e.fd} : file'[fd] = file[fd]
  BY <1>1 DEF Settle, Release
<1>3. CASE c # e.of
  BY <1>1, <1>2, <1>3, FilesKept
<1>4. CASE c = e.of /\ b.opt # {} /\ "RDHUP" \notin e.bits
  <2>1. file' = file
    BY <1>1, <1>4 DEF Settle
  <2> QED BY <1>1, <2>1, FilesKept
<1>5. CASE c = e.of /\ b.opt = {}
  BY <1>5 DEF Settled, LetGoDone
<1>6. CASE c = e.of /\ "RDHUP" \in e.bits
  <2>1. peer[c].end # "open"
    BY <1>6, HandlerFacts DEF EventInv
  <2>2. peer[c].st # "open"
    BY <2>1 DEF IInv, PairInv
  <2> QED BY <2>2 DEF LetGoDone
<1> QED BY <1>3, <1>4, <1>5, <1>6

\* Accepting gives a free descriptor to the client at the head of backlog.
LEMMA AcceptLetsGo ==
  ASSUME IInv, NEW e \in batch, Accept(e), NEW c \in Clients
  PROVE  LetGoDone(c)
<1>d. PICK d : d = Min(FreeFds)
  OBVIOUS
<1>1. d \in Fds /\ file[d] = NoClient
  BY <1>d, MinFacts, ConstantTypes DEF Accept, FreeFds
<1>2. \A fd \in Fds \ {d} : file'[fd] = file[fd]
  BY <1>1, <1>d DEF Accept, Accepted, IInv, TypeOK
<1>3. \A fd \in Fds : file[fd] = c => file'[fd] = c
  BY <1>1, <1>2, ConstantTypes
<1>4. CASE c \in ToSet(backlog)
  BY <1>4 DEF LetGoDone
<1>5. CASE c \notin ToSet(backlog)
  BY <1>3, <1>5, FilesKept
<1> QED BY <1>4, <1>5

\* Service::run closes the connection of a client that waits for its answer only
\* after the last unit of it was written, unless the listener refuses it or an
\* exception ends the service.
THEOREM NeverDropped == Spec => NotDropped
<1>1. IInv /\ [Next]_vars => [\A c \in Clients : LetGoDone(c)]_vars
  <2> SUFFICES ASSUME IInv, Next, NEW c \in Clients PROVE LetGoDone(c)
    OBVIOUS
  <2>1. CASE EpollWait \/ Restart
    BY <2>1, FilesKept DEF EpollWait, Restart
  <2>2. ASSUME NEW e \in batch, Accept(e) PROVE LetGoDone(c)
    BY <2>2, AcceptLetsGo
  <2>3. CASE Throw
    BY <2>3 DEF Throw, LetGoDone
  <2>4. ASSUME NEW e \in batch, ClientEvent(e) PROVE LetGoDone(c)
    <3>1. e.fd # SERVER /\ (Throw \/ \E b : Settled(e, b))
      BY <2>4, ClientEventSettles
    <3> QED BY <3>1, <2>3, SettledLetsGo
  <2>5. ASSUME NEW d \in Clients, Connect(d) PROVE LetGoDone(c)
    <3>1. ToSet(backlog) \subseteq ToSet(backlog')
      BY <2>5, AppendElements DEF Connect, IInv, TypeOK
    <3> QED BY <2>5, <3>1, FilesKept DEF Connect
  <2>6. CASE UNCHANGED serverVars
    BY <2>6, FilesKept DEF serverVars
  <2> QED BY <2>1, <2>2, <2>3, <2>4, <2>5, <2>6
          DEF Next, ServerNext, AcceptFails, ClientWorks, Write, Read, Finish, Fail, Abort, Reset
<1> QED BY <1>1, Invariance, PTL DEF Spec, NotDropped

=============================================================================
