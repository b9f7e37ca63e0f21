--------------------------- MODULE ProcessProofs ----------------------------
(***************************************************************************)
(* Proofs about Process: the inductive invariant IInv and what follows.    *)
(***************************************************************************)
EXTENDS Process, FiniteSetTheorems, SequenceTheorems, TLAPS

LEMMA ConstantTypes ==
  /\ Idle \in CallType /\ Idle.op = "none" /\ NoChild \in ChildType /\ NoChild.st = "none"
  /\ NoObj \in ObjType /\ ~NoObj.in /\ ~NoObj.out /\ -1 \notin Pids
  /\ NoObj.got = <<>> /\ NoObj.from = <<>>
<1>1. (CHOOSE o \in Objs : TRUE) \in Objs
  BY ProcessAssumption
<1>2. -1 \notin Pids
  BY ProcessAssumption
<1> QED BY <1>1, <1>2 DEF Idle, CallType, NoChild, ChildType, NoObj, ObjType

LEMMA InitInv == Init => IInv
<1> SUFFICES ASSUME Init PROVE IInv
  OBVIOUS
<1> USE DEF Init
<1>1. TypeOK
  BY ConstantTypes, ProcessAssumption DEF TypeOK
<1>2. DescriptorsExact
  <2>1. {o \in Objs : obj[o].in} = {} /\ {o \in Objs : obj[o].out} = {}
    BY ConstantTypes
  <2> QED BY <2>1, FS_EmptySet DEF DescriptorsExact
<1>3. ChildrenOwned /\ CallInv /\ \A p \in Pids : ChildInv(p)
  BY ConstantTypes DEF ChildrenOwned, Owned, CallInv, ChildInv
<1>4. \A o \in Objs : PipesInv(o)
  BY ConstantTypes DEF PipesInv
<1> QED BY <1>1, <1>2, <1>3, <1>4 DEF IInv

-----------------------------------------------------------------------------
(* What is left alone.                                                     *)

\* A set of objects that changes in one object only.
LEMMA CountFacts ==
  ASSUME NEW S \in SUBSET Objs, NEW T \in SUBSET Objs, NEW o \in Objs, S \ {o} = T \ {o}
  PROVE  /\ Cardinality(S) \in Nat /\ Cardinality(T) \in Nat
         /\ Cardinality(T) = Cardinality(S) - Valid(o \in S) + Valid(o \in T)
<1> DEFINE R == S \ {o}
<1>1. IsFiniteSet(R) /\ IsFiniteSet(S) /\ IsFiniteSet(T)
  BY ProcessAssumption, FS_Subset
<1>2. Cardinality(R) \in Nat /\ o \notin R
  BY <1>1, FS_CardinalityType
<1>3. Cardinality(R \cup {o}) = Cardinality(R) + 1
  BY <1>1, <1>2, FS_AddElement
<1>4. S = (IF o \in S THEN R \cup {o} ELSE R) /\ T = (IF o \in T THEN R \cup {o} ELSE R)
  OBVIOUS
<1> HIDE DEF R
<1>5. Cardinality(S) = Cardinality(R) + Valid(o \in S)
  BY <1>2, <1>3, <1>4 DEF Valid
<1>6. Cardinality(T) = Cardinality(R) + Valid(o \in T)
  BY <1>2, <1>3, <1>4 DEF Valid
<1> QED BY <1>2, <1>5, <1>6 DEF Valid

\* The descriptors of one object change, and nfds with them.
LEMMA DescriptorsChange ==
  ASSUME IInv, NEW o \in Objs, obj' \in [Objs -> ObjType],
         \A q \in Objs \ {o} : obj'[q].in = obj[q].in /\ obj'[q].out = obj[q].out,
         nfds' = nfds - Held(o) + Valid(obj'[o].in) + Valid(obj'[o].out)
  PROVE  DescriptorsExact' /\ nfds' \in Nat
<1> DEFINE I == {q \in Objs : obj[q].in}
           O == {q \in Objs : obj[q].out}
           I2 == {q \in Objs : obj'[q].in}
           O2 == {q \in Objs : obj'[q].out}
<1>1. I \ {o} = I2 \ {o} /\ O \ {o} = O2 \ {o}
  OBVIOUS
<1>2. /\ I \in SUBSET Objs /\ I2 \in SUBSET Objs /\ O \in SUBSET Objs /\ O2 \in SUBSET Objs
      /\ nfds = Cardinality(I) + Cardinality(O)
  BY DEF IInv, DescriptorsExact
<1>3. /\ o \in I <=> obj[o].in
      /\ o \in O <=> obj[o].out
      /\ o \in I2 <=> obj'[o].in
      /\ o \in O2 <=> obj'[o].out
  OBVIOUS
<1>4. Held(o) = Valid(o \in I) + Valid(o \in O) /\ nfds' = nfds - Held(o) + Valid(o \in I2) + Valid(o \in O2)
  BY <1>3 DEF Held, Valid
<1>5. DescriptorsExact' <=> nfds' = Cardinality(I2) + Cardinality(O2)
  BY DEF DescriptorsExact
<1> HIDE DEF I, O, I2, O2
<1>6. /\ Cardinality(I) \in Nat /\ Cardinality(I2) \in Nat
      /\ Cardinality(I2) = Cardinality(I) - Valid(o \in I) + Valid(o \in I2)
  BY <1>1, <1>2, CountFacts
<1>7. /\ Cardinality(O) \in Nat /\ Cardinality(O2) \in Nat
      /\ Cardinality(O2) = Cardinality(O) - Valid(o \in O) + Valid(o \in O2)
  BY <1>1, <1>2, CountFacts
<1> QED BY <1>2, <1>4, <1>5, <1>6, <1>7 DEF Valid

\* No descriptor is opened or closed.
LEMMA DescriptorsKept ==
  ASSUME IInv, nfds' = nfds, \A q \in Objs : obj'[q].in = obj[q].in /\ obj'[q].out = obj[q].out
  PROVE  DescriptorsExact'
<1>1. /\ {o \in Objs : obj'[o].in} = {o \in Objs : obj[o].in}
      /\ {o \in Objs : obj'[o].out} = {o \in Objs : obj[o].out}
  OBVIOUS
<1> QED BY <1>1 DEF IInv, DescriptorsExact

LEMMA PipesKept ==
  ASSUME IInv, NEW q \in Objs, obj'[q].got = obj[q].got, obj'[q].from = obj[q].from
  PROVE  PipesInv(q)'
BY DEF IInv, PipesInv

\* A step that leaves a child with its object, and its pipes while it runs.
LEMMA ChildKept ==
  ASSUME IInv, NEW q \in Pids,
         child'[q].st # "none" =>
            /\ child[q].st # "none" /\ child'[q].of = child[q].of
            /\ obj'[child[q].of].live /\ obj'[child[q].of].cpid = obj[child[q].of].cpid,
         child'[q].st = "run" =>
            /\ child[q].st = "run" /\ child'[q].hold = child[q].hold
            /\ obj'[child[q].of].got = obj[child[q].of].got
            /\ obj'[child[q].of].from = obj[child[q].of].from
            /\ obj'[child[q].of].to = obj[child[q].of].to
            /\ obj'[child[q].of].sent = obj[child[q].of].sent
  PROVE  Owned(q)' /\ ChildInv(q)'
<1>1. Owned(q) /\ ChildInv(q)
  BY DEF IInv, ChildrenOwned
<1>2. Owned(q)'
  BY <1>1 DEF Owned
<1>3. ChildInv(q)'
  <2>0. PICK o : o = child[q].of
    OBVIOUS
  <2>1. CASE child'[q].st # "run"
    BY <2>1 DEF ChildInv
  <2>2. CASE child'[q].st = "run"
    <3>1. /\ child'[q].of = o /\ child[q].st = "run" /\ child'[q].hold = child[q].hold
          /\ obj'[o].to = obj[o].to /\ obj'[o].sent = obj[o].sent
      BY <2>0, <2>2
    <3>2. Returned(o)' = Returned(o) /\ InHand(q)' = InHand(q)
      BY <2>0, <2>2, <3>1 DEF Returned, InHand
    <3>3. /\ child[q].hold \in {0, Returned(o) + 1}
          /\ \A k \in DOMAIN obj[o].to : obj[o].to[k] = Returned(o) + InHand(q) + k
          /\ obj[o].sent = Returned(o) + InHand(q) + Len(obj[o].to)
      BY <1>1, <2>0, <3>1 DEF ChildInv
    <3>4. /\ child'[q].hold \in {0, Returned(o)' + 1}
          /\ \A k \in DOMAIN obj'[o].to : obj'[o].to[k] = Returned(o)' + InHand(q)' + k
          /\ obj'[o].sent = Returned(o)' + InHand(q)' + Len(obj'[o].to)
      BY <3>1, <3>2, <3>3
    <3> QED BY <3>1, <3>4 DEF ChildInv
  <2> QED BY <2>1, <2>2
<1> QED BY <1>2, <1>3

\* A step that leaves the objects alone.
LEMMA ObjsKept ==
  ASSUME IInv, obj' = obj, nfds' = nfds
  PROVE  /\ DescriptorsExact' /\ \A o \in Objs : PipesInv(o)'
         /\ obj' \in [Objs -> ObjType] /\ nfds' \in 0..MaxFd
BY DescriptorsKept, PipesKept DEF IInv, TypeOK

\* A step that leaves the children alone, and what they and their objects hold.
LEMMA ChildrenKept ==
  ASSUME IInv, child' = child, obj' = obj
  PROVE  ChildrenOwned' /\ child' \in [Pids -> ChildType] /\ \A p \in Pids : ChildInv(p)'
<1>1. ASSUME NEW q \in Pids PROVE Owned(q)' /\ ChildInv(q)'
  BY ChildKept DEF IInv, ChildrenOwned, Owned
<1> QED BY <1>1 DEF ChildrenOwned, IInv, TypeOK

\* isRunning reaps at most a zombie, and where it finds no child running its
\* object has none left.
LEMMA PollFacts ==
  ASSUME IInv, NEW o \in Objs, NEW r \in Polls(o)
  PROVE  /\ r.child \in [Pids -> ChildType]
         /\ \A q \in Pids : \/ r.child[q] = child[q]
                            \/ r.child[q].st = "none" /\ child[q].st = "zombie"
         /\ ~r.running => \A q \in Pids : r.child[q].st # "none" => r.child[q].of # o
<1> DEFINE named == Named(obj[o].cpid)
           ended == {p \in named : child[p].st = "zombie"}
<1>1. child \in [Pids -> ChildType] /\ obj[o].cpid \in Pids \cup {-1} /\ ChildrenOwned
  BY DEF IInv, TypeOK, ObjType
<1>2. \A p \in named : p \in Pids /\ child[p].st # "none"
  BY <1>1, ProcessAssumption DEF Named
<1>3. \A q \in Pids : child[q].st # "none" /\ child[q].of = o => named = {q}
  <2> SUFFICES ASSUME NEW q \in Pids, child[q].st # "none", child[q].of = o PROVE named = {q}
    OBVIOUS
  <2>1. obj[o].cpid = q /\ q # -1
    BY <1>1, ConstantTypes DEF ChildrenOwned, Owned
  <2> QED BY <2>1 DEF Named
<1>4. \/ \E p \in ended : r = [running |-> FALSE, child |-> Reap(p)]
      \/ ended = {} /\ r = [running |-> named # {}, child |-> child]
  BY DEF Polls
<1> HIDE DEF named
<1>5. CASE \E p \in ended : r = [running |-> FALSE, child |-> Reap(p)]
  <2>1. PICK p \in ended : r = [running |-> FALSE, child |-> Reap(p)]
    BY <1>5
  <2>2. p \in Pids /\ p \in named /\ child[p].st = "zombie" /\ r.child = [child EXCEPT ![p] = NoChild]
    BY <1>2, <2>1 DEF Reap
  <2>3. r.child \in [Pids -> ChildType] /\ r.child[p].st = "none" /\ \A q \in Pids \ {p} : r.child[q] = child[q]
    BY <1>1, <2>2, ConstantTypes
  <2>4. ASSUME NEW q \in Pids, r.child[q].st # "none", r.child[q].of = o PROVE FALSE
    BY <1>3, <2>2, <2>3, <2>4
  <2> QED BY <2>2, <2>3, <2>4
<1>6. CASE ended = {} /\ r = [running |-> named # {}, child |-> child]
  <2>1. r.child = child /\ (r.running <=> named # {})
    BY <1>6
  <2> QED BY <1>1, <1>3, <2>1
<1> QED BY <1>4, <1>5, <1>6

\* A step that only reaps.
LEMMA PollKeeps ==
  ASSUME IInv, NEW o \in Objs, NEW r \in Polls(o), child' = r.child, UNCHANGED <<obj, nfds, call>>
  PROVE  IInv'
<1>1. ASSUME NEW q \in Pids PROVE Owned(q)' /\ ChildInv(q)'
  <2>1. child'[q] = child[q] \/ child'[q].st = "none"
    BY PollFacts
  <2> QED BY <2>1, ChildKept DEF IInv, ChildrenOwned, Owned
<1>2. child' \in [Pids -> ChildType]
  BY PollFacts
<1>3. CallInv' /\ call' \in CallType
  BY DEF IInv, CallInv, TypeOK
<1> QED BY <1>1, <1>2, <1>3, ObjsKept DEF IInv, TypeOK, ChildrenOwned

\* A step of the parent that moves no data and changes no object and no child.
LEMMA CallOnlyKeeps ==
  ASSUME IInv, UNCHANGED <<obj, nfds, child>>, call' \in CallType, CallInv'
  PROVE  IInv'
BY ObjsKept, ChildrenKept DEF IInv, TypeOK

LEMMA OpenFailsKeeps ==
  ASSUME IInv, NEW o \in Objs, IsRunning(o) \/ OpenNested(o) \/ OpenNoPipe(o)
  PROVE  IInv'
<1>1. CASE IsRunning(o)
  BY <1>1, PollKeeps DEF IsRunning
<1>2. CASE OpenNested(o)
  BY <1>2, CallOnlyKeeps DEF OpenNested, vars, IInv, TypeOK, CallInv
<1>3. CASE OpenNoPipe(o)
  BY <1>3, PollKeeps DEF OpenNoPipe
<1> QED BY <1>1, <1>2, <1>3

\* The object of an open gets new pipes, once no child of it is left.
LEMMA OpenedKeeps ==
  ASSUME IInv, NEW o \in Objs, NEW pid \in Pids \cup {-1},
         nfds + 4 <= MaxFd, call' = call, call.op = "none",
         obj' = [obj EXCEPT ![o] = Opened(pid)],
         child' \in [Pids -> ChildType],
         \A q \in Pids \ {pid} : child'[q].st # "none" =>
            /\ child'[q].st = child[q].st /\ child'[q].of = child[q].of
            /\ child'[q].hold = child[q].hold /\ child[q].of # o,
         pid # -1 => child'[pid].st = "run" /\ child'[pid].of = o /\ child'[pid].hold = 0,
         nfds' = nfds - Held(o) + 2
  PROVE  IInv'
<1>2. /\ Opened(pid) \in ObjType /\ Opened(pid).live /\ Opened(pid).cpid = pid
      /\ Opened(pid).in /\ Opened(pid).out /\ Opened(pid).sent = 0
      /\ Opened(pid).to = <<>> /\ Opened(pid).from = <<>> /\ Opened(pid).got = <<>>
  BY ConstantTypes DEF Opened, NoObj, ObjType
<1>3. obj'[o] = Opened(pid) /\ \A q \in Objs \ {o} : obj'[q] = obj[q]
  BY DEF IInv, TypeOK
<1>4. obj' \in [Objs -> ObjType]
  BY <1>2 DEF IInv, TypeOK
<1>5. nfds' = nfds - Held(o) + Valid(obj'[o].in) + Valid(obj'[o].out)
  BY <1>2, <1>3, ProcessAssumption DEF Valid, Held, IInv, TypeOK
<1>6. DescriptorsExact' /\ nfds' \in Nat
  BY <1>3, <1>4, <1>5, DescriptorsChange
<1>7. nfds' \in 0..MaxFd
  <2>1. Held(o) \in 0..2
    BY DEF Held, Valid
  <2> QED BY <1>6, <2>1, ProcessAssumption DEF IInv, TypeOK
<1>8. ASSUME NEW q \in Objs PROVE PipesInv(q)'
  <2>1. CASE q = o
    BY <2>1, <1>2, <1>3 DEF PipesInv
  <2>2. CASE q # o
    BY <2>2, <1>3, PipesKept
  <2> QED BY <2>1, <2>2
<1>9. ASSUME NEW q \in Pids PROVE Owned(q)' /\ ChildInv(q)'
  <2>1. CASE q = pid
    <3>1. child'[q].st = "run" /\ child'[q].of = o /\ child'[q].hold = 0
      BY <2>1, ConstantTypes
    <3>2. Owned(q)'
      BY <2>1, <3>1, <1>2, <1>3 DEF Owned
    <3>3. obj'[o].to = <<>> /\ obj'[o].sent = 0 /\ Len(obj'[o].got) = 0 /\ Len(obj'[o].from) = 0
      BY <1>2, <1>3
    <3>4. Returned(o)' = 0 /\ InHand(q)' = 0
      <4>1. \A i, j : i = 0 /\ j = 0 => i + j = 0
        OBVIOUS
      <4> QED BY <3>1, <3>3, <4>1 DEF Returned, InHand
    <3>5. ChildInv(q)'
      BY <3>1, <3>3, <3>4 DEF ChildInv
    <3> QED BY <3>2, <3>5
  <2>2. CASE q # pid
    <3>1. \/ child'[q].st = "none"
          \/ /\ child'[q].st = child[q].st /\ child'[q].of = child[q].of
             /\ child'[q].hold = child[q].hold /\ child[q].of # o /\ child[q].of \in Objs
      BY <2>2 DEF IInv, TypeOK, ChildType
    <3>2. CASE child'[q].st = "none"
      BY <3>2, ChildKept
    <3>3. CASE child'[q].st # "none"
      <4>1. obj'[child[q].of] = obj[child[q].of]
        BY <3>1, <3>3, <1>3
      <4>2. Owned(q)
        BY DEF IInv, ChildrenOwned
      <4> QED BY <3>1, <3>3, <4>1, <4>2, ChildKept DEF Owned
    <3> QED BY <3>2, <3>3
  <2> QED BY <2>1, <2>2
<1>10. CallInv' /\ call' \in CallType
  BY DEF IInv, CallInv, TypeOK
<1> QED BY <1>4, <1>6, <1>7, <1>8, <1>9, <1>10 DEF IInv, TypeOK, ChildrenOwned

LEMMA OpenKeeps ==
  ASSUME IInv, NEW o \in Objs, Open(o)
  PROVE  IInv'
<1>1. PICK r \in Polls(o), p \in Pids :
        /\ ~r.running
        /\ obj' = [obj EXCEPT ![o] = Opened(p)]
        /\ child' = [q \in Pids |->
              IF q = p THEN [st |-> "run", of |-> o, hold |-> 0, inh |-> Kept(o)]
                       ELSE [r.child[q] EXCEPT !.inh = @ \ {o}]]
  BY DEF Open
<1>2. r.child \in [Pids -> ChildType]
  BY PollFacts
<1>3. [st |-> "run", of |-> o, hold |-> 0, inh |-> Kept(o)] \in ChildType
  BY DEF ChildType, Kept
<1>4. ASSUME NEW q \in Pids PROVE [r.child[q] EXCEPT !.inh = @ \ {o}] \in ChildType
  BY <1>2 DEF ChildType
<1>5. child' \in [Pids -> ChildType]
  BY <1>1, <1>3, <1>4
<1>6. ASSUME NEW q \in Pids \ {p}, child'[q].st # "none"
      PROVE  /\ child'[q].st = child[q].st /\ child'[q].of = child[q].of
             /\ child'[q].hold = child[q].hold /\ child[q].of # o
  <2>1. /\ child'[q].st = r.child[q].st /\ child'[q].of = r.child[q].of
        /\ child'[q].hold = r.child[q].hold
    BY <1>1, <1>2 DEF ChildType
  <2>2. r.child[q] = child[q] /\ r.child[q].of # o
    BY <1>1, <1>6, <2>1, PollFacts
  <2> QED BY <2>1, <2>2
<1>7. child'[p].st = "run" /\ child'[p].of = o /\ child'[p].hold = 0
  BY <1>1
<1>8. nfds + 4 <= MaxFd /\ nfds' = nfds - Held(o) + 2 /\ call' = call /\ call.op = "none"
  BY DEF Open
<1> QED BY <1>1, <1>5, <1>6, <1>7, <1>8, OpenedKeeps

LEMMA OpenNoForkKeeps ==
  ASSUME IInv, NEW o \in Objs, OpenNoFork(o)
  PROVE  IInv'
<1>1. PICK r \in Polls(o) :
        ~r.running /\ child' = [q \in Pids |-> [r.child[q] EXCEPT !.inh = @ \ {o}]]
  BY DEF OpenNoFork
<1>2. r.child \in [Pids -> ChildType]
  BY PollFacts
<1>3. ASSUME NEW q \in Pids PROVE [r.child[q] EXCEPT !.inh = @ \ {o}] \in ChildType
  BY <1>2 DEF ChildType
<1>4. child' \in [Pids -> ChildType]
  BY <1>1, <1>3
<1>5. \A q \in Pids : /\ child'[q].st = r.child[q].st /\ child'[q].of = r.child[q].of
                      /\ child'[q].hold = r.child[q].hold
  BY <1>1, <1>2 DEF ChildType
<1>6. CASE obj[o].live
  <2>1. /\ obj' = [obj EXCEPT ![o] = Opened(-1)] /\ nfds + 4 <= MaxFd
        /\ nfds' = nfds - Held(o) + 2 /\ call' = call /\ call.op = "none"
    BY <1>6 DEF OpenNoFork
  <2>2. ASSUME NEW q \in Pids, child'[q].st # "none"
        PROVE  /\ child'[q].st = child[q].st /\ child'[q].of = child[q].of
               /\ child'[q].hold = child[q].hold /\ child[q].of # o
    <3>1. r.child[q] = child[q] /\ r.child[q].of # o
      BY <1>1, <1>5, <2>2, PollFacts
    <3> QED BY <1>5, <3>1
  <2>3. -1 \in Pids \cup {-1} /\ -1 \notin Pids
    BY ConstantTypes
  <2> QED BY <1>4, <2>1, <2>2, <2>3, OpenedKeeps
<1>7. CASE ~obj[o].live
  <2>1. UNCHANGED <<obj, nfds, call>>
    BY <1>7 DEF OpenNoFork
  <2>2. ASSUME NEW q \in Pids PROVE Owned(q)' /\ ChildInv(q)'
    <3>1. r.child[q] = child[q] \/ r.child[q].st = "none"
      BY PollFacts
    <3> QED BY <1>5, <2>1, <3>1, ChildKept DEF IInv, ChildrenOwned, Owned
  <2>3. CallInv' /\ call' \in CallType
    BY <2>1 DEF IInv, CallInv, TypeOK
  <2> QED BY <1>4, <2>1, <2>2, <2>3, ObjsKept DEF IInv, TypeOK, ChildrenOwned
<1> QED BY <1>6, <1>7

-----------------------------------------------------------------------------
(* write and read.                                                         *)

LEMMA WriteKeeps ==
  ASSUME IInv, NEW o \in Objs, Write(o) \/ Read(o)
  PROVE  IInv'
<1>1. MaxData[o] \in Nat /\ obj[o].sent \in Nat
  BY ProcessAssumption DEF IInv, TypeOK, ObjType
<1>2. PICK n, op : /\ n \in 1..(MaxData[o] - obj[o].sent) \cup 1..MaxData[o]
                   /\ op \in {"write", "read", "readExact"}
                   /\ call' = [op |-> op, o |-> o, left |-> n]
  BY DEF Write, Read
<1>3. call' \in CallType /\ CallInv'
  BY <1>1, <1>2 DEF CallType, CallInv
<1>4. UNCHANGED <<obj, nfds, child>>
  BY DEF Write, Read
<1> QED BY <1>3, <1>4, CallOnlyKeeps

LEMMA BrokenKeeps ==
  ASSUME IInv, NEW o \in Objs, WriteBroken(o) \/ ReadEof(o)
  PROVE  IInv'
<1>1. call' \in {Idle, [Idle EXCEPT !.op = "killed"]}
  BY DEF WriteBroken, ReadEof
<1>2. call' \in CallType /\ CallInv'
  BY <1>1, ConstantTypes DEF CallType, CallInv
<1>3. UNCHANGED <<obj, nfds, child>>
  BY DEF WriteBroken, ReadEof
<1> QED BY <1>2, <1>3, CallOnlyKeeps

\* A child p of o is the only one it has.
LEMMA OneChild ==
  ASSUME IInv, NEW p \in Pids, NEW q \in Pids, child[p].st # "none", child[q].st # "none",
         child[p].of = child[q].of
  PROVE  p = q
BY DEF IInv, ChildrenOwned, Owned

\* Numbers that count on from b go on counting.
LEMMA AppendNumbers ==
  ASSUME NEW s \in Seq(Nat), NEW b \in Nat, NEW n \in Nat, n = b + Len(s) + 1,
         \A k \in DOMAIN s : s[k] = b + k
  PROVE  /\ Append(s, n) \in Seq(Nat) /\ Len(Append(s, n)) = Len(s) + 1
         /\ \A k \in DOMAIN Append(s, n) : Append(s, n)[k] = b + k
<1> DEFINE a == Append(s, n)
<1>1. Len(s) \in Nat /\ DOMAIN s = 1..Len(s)
  OBVIOUS
<1>2. a \in Seq(Nat) /\ Len(a) = Len(s) + 1 /\ a[Len(s) + 1] = n /\ \A i \in 1..Len(s) : a[i] = s[i]
  BY AppendProperties
<1> HIDE DEF a
<1>3. DOMAIN a = 1..(Len(s) + 1)
  BY <1>2
<1>4. ASSUME NEW k \in 1..(Len(s) + 1) PROVE a[k] = b + k
  <2>1. CASE k \in 1..Len(s)
    BY <2>1, <1>1, <1>2
  <2>2. CASE k = Len(s) + 1
    BY <2>2, <1>1, <1>2
  <2> QED BY <1>1, <2>1, <2>2
<1> QED BY <1>2, <1>3, <1>4 DEF a

\* n numbers are taken from a sequence that counts on from another, to which they
\* are added.
LEMMA MoveNumbers ==
  ASSUME NEW f \in Seq(Nat), NEW g \in Seq(Nat), NEW n \in Nat \ {0}, n <= Len(f),
         \A k \in DOMAIN g : g[k] = k, \A k \in DOMAIN f : f[k] = Len(g) + k
  PROVE  LET f2 == SubSeq(f, n + 1, Len(f))
             g2 == g \o SubSeq(f, 1, n)
         IN  /\ f2 \in Seq(Nat) /\ g2 \in Seq(Nat) /\ Len(g2) + Len(f2) = Len(g) + Len(f)
             /\ \A k \in DOMAIN g2 : g2[k] = k
             /\ \A k \in DOMAIN f2 : f2[k] = Len(g2) + k
<1> DEFINE f2 == SubSeq(f, n + 1, Len(f))
           h == SubSeq(f, 1, n)
           g2 == g \o h
<1>1. Len(f) \in Nat /\ Len(g) \in Nat /\ DOMAIN f = 1..Len(f) /\ DOMAIN g = 1..Len(g)
  OBVIOUS
<1>2. f2 \in Seq(Nat) /\ Len(f2) = Len(f) - n /\ \A k \in 1..Len(f2) : f2[k] = f[n + k]
  OBVIOUS
<1>3. h \in Seq(Nat) /\ Len(h) = n /\ \A k \in 1..n : h[k] = f[k]
  OBVIOUS
<1> HIDE DEF h, f2
<1>4. /\ g2 \in Seq(Nat) /\ Len(g2) = Len(g) + Len(h)
      /\ \A k \in 1..(Len(g) + Len(h)) : g2[k] = IF k <= Len(g) THEN g[k] ELSE h[k - Len(g)]
  BY <1>3, ConcatProperties
<1> HIDE DEF g2
<1>5. DOMAIN f2 = 1..(Len(f) - n) /\ DOMAIN g2 = 1..(Len(g) + n)
  BY <1>2, <1>3, <1>4
<1>6. ASSUME NEW k \in 1..(Len(g) + n) PROVE g2[k] = k
  <2>1. CASE k <= Len(g)
    <3>1. k \in 1..Len(g) /\ k \in 1..(Len(g) + Len(h))
      BY <2>1, <1>1, <1>3
    <3>2. g2[k] = g[k] /\ g[k] = k
      BY <2>1, <3>1, <1>1, <1>4
    <3> QED BY <3>2
  <2>2. CASE k > Len(g)
    <3>1. k - Len(g) \in 1..n /\ k - Len(g) \in 1..Len(f) /\ Len(g) + (k - Len(g)) = k
      BY <2>2, <1>1
    <3>2. g2[k] = h[k - Len(g)]
      BY <2>2, <1>1, <1>3, <1>4
    <3>3. h[k - Len(g)] = f[k - Len(g)] /\ f[k - Len(g)] = Len(g) + (k - Len(g))
      BY <3>1, <1>1, <1>3
    <3> QED BY <3>1, <3>2, <3>3
  <2> QED BY <1>1, <2>1, <2>2
<1>7. ASSUME NEW k \in 1..(Len(f) - n) PROVE f2[k] = (Len(g) + n) + k
  <2>1. n + k \in 1..Len(f) /\ f2[k] = f[n + k]
    BY <1>1, <1>2
  <2>2. f[n + k] = Len(g) + (n + k)
    BY <1>1, <2>1
  <2>3. Len(g) + (n + k) = (Len(g) + n) + k
    BY <1>1
  <2> QED BY <2>1, <2>2, <2>3
<1>8. Len(g2) = Len(g) + n /\ Len(g2) + Len(f2) = Len(g) + Len(f)
  BY <1>1, <1>2, <1>3, <1>4
<1> QED BY <1>2, <1>4, <1>5, <1>6, <1>7, <1>8 DEF f2, g2, h

LEMMA WriteStepKeeps ==
  ASSUME IInv, NEW o \in Objs, call.op = "write", call.o = o, WriteStep(o)
  PROVE  IInv'
<1> DEFINE n == obj[o].sent + 1
           s == obj[o].to
<1>1. /\ obj[o] \in ObjType /\ obj \in [Objs -> ObjType] /\ s \in Seq(Nat) /\ n \in Nat
      /\ obj[o].sent \in Nat
  BY DEF IInv, TypeOK, ObjType
<1>2. /\ obj' = [obj EXCEPT ![o] = [obj[o] EXCEPT !.to = Append(s, n), !.sent = n]]
      /\ UNCHANGED <<nfds, child>>
      /\ call' = IF call.left = 1 THEN Idle ELSE [call EXCEPT !.left = @ - 1]
  BY <1>1 DEF WriteStep, ObjType
<1>3. Append(s, n) \in Seq(Nat)
  BY <1>1
<1>4. obj' \in [Objs -> ObjType]
  BY <1>1, <1>2, <1>3 DEF ObjType
<1>5. /\ \A q \in Objs \ {o} : obj'[q] = obj[q]
      /\ obj'[o].to = Append(s, n) /\ obj'[o].sent = n
      /\ obj'[o].got = obj[o].got /\ obj'[o].from = obj[o].from
      /\ obj'[o].in = obj[o].in /\ obj'[o].out = obj[o].out
      /\ obj'[o].live = obj[o].live /\ obj'[o].cpid = obj[o].cpid
  BY <1>1, <1>2 DEF ObjType
<1>6. call' \in CallType /\ CallInv'
  <2>1. call \in CallType /\ call.left \in Nat \ {0}
    BY DEF IInv, TypeOK, CallType, CallInv
  <2>2. CASE call.left = 1
    BY <1>2, <2>2, ConstantTypes DEF CallInv
  <2>3. CASE call.left # 1
    <3>1. call' = [call EXCEPT !.left = call.left - 1] /\ call.left - 1 \in Nat \ {0}
      BY <1>2, <2>1, <2>3
    <3> QED BY <2>1, <3>1 DEF CallType, CallInv
  <2> QED BY <2>2, <2>3
<1>7. DescriptorsExact'
  BY <1>2, <1>5, DescriptorsKept
<1>8. \A q \in Objs : PipesInv(q)'
  BY <1>5, PipesKept
<1>9. ASSUME NEW p \in Pids PROVE Owned(p)' /\ ChildInv(p)'
  <2>1. child[p].of \in Objs /\ child' = child
    BY <1>2 DEF IInv, TypeOK, ChildType
  <2>2. Owned(p) /\ ChildInv(p)
    BY DEF IInv, ChildrenOwned
  <2>3. CASE child[p].of # o \/ child[p].st # "run"
    BY <2>1, <2>2, <2>3, <1>5, ChildKept DEF Owned
  <2>4. CASE child[p].of = o /\ child[p].st = "run"
    <3>1. Owned(p)'
      BY <2>1, <2>2, <2>4, <1>5 DEF Owned
    <3>2. Returned(o)' = Returned(o) /\ InHand(p)' = InHand(p)
      BY <2>1, <1>5 DEF Returned, InHand
    <3>3. Returned(o) \in Nat /\ InHand(p) \in Nat
      BY <1>1 DEF Returned, InHand, ObjType
    <3>4. /\ child[p].hold \in {0, Returned(o) + 1}
          /\ \A k \in DOMAIN s : s[k] = Returned(o) + InHand(p) + k
          /\ obj[o].sent = Returned(o) + InHand(p) + Len(s)
      BY <2>2, <2>4 DEF ChildInv
    <3>5. n = Returned(o) + InHand(p) + Len(Append(s, n))
      BY <1>1, <3>3, <3>4
    <3>6. \A k \in DOMAIN Append(s, n) : Append(s, n)[k] = (Returned(o) + InHand(p)) + k
      <4> HIDE DEF s, n
      <4>1. n = (Returned(o) + InHand(p)) + Len(s) + 1
        BY <1>1, <3>3, <3>4 DEF n
      <4> QED BY <1>1, <3>3, <3>4, <4>1, AppendNumbers
    <3> HIDE DEF s, n
    <3>7. ChildInv(p)'
      BY <1>5, <2>1, <2>4, <3>2, <3>4, <3>5, <3>6 DEF ChildInv
    <3> QED BY <3>1, <3>7
  <2> QED BY <2>3, <2>4
<1> QED BY <1>2, <1>4, <1>6, <1>7, <1>8, <1>9 DEF IInv, TypeOK, ChildrenOwned

LEMMA MinOfTwo ==
  ASSUME NEW a \in Nat, NEW b \in Nat
  PROVE  Min({a, b}) \in Nat /\ Min({a, b}) <= a /\ Min({a, b}) <= b
<1>1. \E x \in {a, b} : \A y \in {a, b} : x <= y
  OBVIOUS
<1> QED BY <1>1 DEF Min

LEMMA ReadStepKeeps ==
  ASSUME IInv, NEW o \in Objs, call.op \in {"read", "readExact"}, call.o = o, ReadStep(o)
  PROVE  IInv'
<1> DEFINE f == obj[o].from
           g == obj[o].got
           n == Min({call.left, Len(f)})
           f2 == SubSeq(f, n + 1, Len(f))
           g2 == g \o SubSeq(f, 1, n)
<1>1. /\ obj[o] \in ObjType /\ obj \in [Objs -> ObjType] /\ f \in Seq(Nat) /\ g \in Seq(Nat)
      /\ call \in CallType /\ call.left \in Nat \ {0}
  BY DEF IInv, TypeOK, ObjType, CallType, CallInv
<1>2. n \in Nat \ {0} /\ n <= call.left /\ n <= Len(f)
  <2>1. n > 0
    BY DEF ReadStep
  <2>2. call.left \in Nat /\ Len(f) \in Nat
    BY <1>1
  <2>3. n \in Nat /\ n <= call.left /\ n <= Len(f)
    BY <2>2, MinOfTwo
  <2> QED BY <2>1, <2>3
<1>3. /\ obj' = [obj EXCEPT ![o] = [obj[o] EXCEPT !.from = f2, !.got = g2]]
      /\ UNCHANGED <<nfds, child>>
      /\ call' = IF call.op = "read" \/ call.left = n THEN Idle ELSE [call EXCEPT !.left = @ - n]
  BY <1>1 DEF ReadStep, ObjType
<1>4. (\A k \in DOMAIN g : g[k] = k) /\ \A k \in DOMAIN f : f[k] = Len(g) + k
  BY DEF IInv, PipesInv
<1> HIDE DEF n, f, g
<1>5. /\ f2 \in Seq(Nat) /\ g2 \in Seq(Nat) /\ Len(g2) + Len(f2) = Len(g) + Len(f)
      /\ \A k \in DOMAIN g2 : g2[k] = k
      /\ \A k \in DOMAIN f2 : f2[k] = Len(g2) + k
  BY <1>1, <1>2, <1>4, MoveNumbers, ZenonT(40)
<1> HIDE DEF f2, g2
<1>6. obj' \in [Objs -> ObjType]
  BY <1>1, <1>3, <1>5 DEF ObjType
<1>7. /\ \A q \in Objs \ {o} : obj'[q] = obj[q]
      /\ obj'[o].from = f2 /\ obj'[o].got = g2
      /\ obj'[o].to = obj[o].to /\ obj'[o].sent = obj[o].sent
      /\ obj'[o].in = obj[o].in /\ obj'[o].out = obj[o].out
      /\ obj'[o].live = obj[o].live /\ obj'[o].cpid = obj[o].cpid
  BY <1>1, <1>3 DEF ObjType
<1>8. call' \in CallType /\ CallInv'
  <2>1. CASE call.op = "read" \/ call.left = n
    BY <1>3, <2>1, ConstantTypes DEF CallInv
  <2>2. CASE ~(call.op = "read" \/ call.left = n)
    <3>1. call \in CallType /\ call.left \in Nat \ {0} /\ call' = [call EXCEPT !.left = call.left - n]
      BY <1>1, <1>3, <2>2
    <3>2. call.left - n \in Nat \ {0}
      BY <3>1, <1>2, <2>2
    <3>3. PICK m \in Nat \ {0} : m = call.left - n
      BY <3>2
    <3>4. call'.left = m /\ call' = [call EXCEPT !.left = m]
      BY <3>1, <3>3 DEF CallType
    <3>5. call' \in CallType
      BY <3>1, <3>4 DEF CallType
    <3> QED BY <3>4, <3>5 DEF CallInv
  <2> QED BY <2>1, <2>2
<1>9. DescriptorsExact'
  BY <1>3, <1>7, DescriptorsKept
<1>10. ASSUME NEW q \in Objs PROVE PipesInv(q)'
  <2>1. CASE q # o
    BY <2>1, <1>7, PipesKept
  <2>2. CASE q = o
    BY <2>2, <1>7, <1>5 DEF PipesInv
  <2> QED BY <2>1, <2>2
<1>11. ASSUME NEW p \in Pids PROVE Owned(p)' /\ ChildInv(p)'
  <2>1. child[p].of \in Objs /\ child' = child
    BY <1>3 DEF IInv, TypeOK, ChildType
  <2>2. Owned(p) /\ ChildInv(p)
    BY DEF IInv, ChildrenOwned
  <2>3. CASE child[p].of # o \/ child[p].st # "run"
    BY <2>1, <2>2, <2>3, <1>7, ChildKept DEF Owned
  <2>4. CASE child[p].of = o /\ child[p].st = "run"
    <3>1. Owned(p)'
      BY <2>1, <2>2, <2>4, <1>7 DEF Owned
    <3>2. Returned(o)' = Len(g2) + Len(f2) /\ Returned(o) = Len(g) + Len(f) /\ InHand(p)' = InHand(p)
      BY <2>1, <1>7 DEF Returned, InHand, f, g
    <3>3. Returned(o)' = Returned(o)
      BY <1>5, <3>2
    <3>4. /\ child[p].hold \in {0, Returned(o) + 1}
          /\ \A k \in DOMAIN obj[o].to : obj[o].to[k] = Returned(o) + InHand(p) + k
          /\ obj[o].sent = Returned(o) + InHand(p) + Len(obj[o].to)
      BY <2>2, <2>4 DEF ChildInv
    <3>5. ChildInv(p)'
      BY <1>7, <2>1, <2>4, <3>2, <3>3, <3>4 DEF ChildInv
    <3> QED BY <3>1, <3>5
  <2> QED BY <2>3, <2>4
<1> QED BY <1>3, <1>6, <1>8, <1>9, <1>10, <1>11 DEF IInv, TypeOK, ChildrenOwned

-----------------------------------------------------------------------------
(* closeStdin, close and the destructor.                                   *)

LEMMA CloseStdinKeeps ==
  ASSUME IInv, NEW o \in Objs, CloseStdin(o)
  PROVE  IInv'
<1>1. obj \in [Objs -> ObjType] /\ obj[o] \in ObjType /\ obj[o].in
  BY DEF CloseStdin, IInv, TypeOK
<1>2. obj' = [obj EXCEPT ![o] = [obj[o] EXCEPT !.in = FALSE]] /\ nfds' = nfds - 1 /\ UNCHANGED <<child, call>>
  BY DEF CloseStdin
<1>3. obj' \in [Objs -> ObjType]
  BY <1>1, <1>2 DEF ObjType
<1>4. /\ \A q \in Objs \ {o} : obj'[q] = obj[q]
      /\ ~obj'[o].in /\ obj'[o].out = obj[o].out
      /\ obj'[o].to = obj[o].to /\ obj'[o].sent = obj[o].sent
      /\ obj'[o].from = obj[o].from /\ obj'[o].got = obj[o].got
      /\ obj'[o].live = obj[o].live /\ obj'[o].cpid = obj[o].cpid
  BY <1>1, <1>2 DEF ObjType
<1>5. nfds \in 0..MaxFd /\ nfds' = nfds - Held(o) + Valid(obj'[o].in) + Valid(obj'[o].out)
  BY <1>1, <1>2, <1>4, ProcessAssumption DEF Held, Valid, IInv, TypeOK
<1>6. DescriptorsExact' /\ nfds' \in Nat
  BY <1>3, <1>4, <1>5, DescriptorsChange
<1>7. nfds' \in 0..MaxFd
  BY <1>2, <1>5, <1>6, ProcessAssumption
<1>8. \A q \in Objs : PipesInv(q)'
  BY <1>4, PipesKept
<1>9. ASSUME NEW p \in Pids PROVE Owned(p)' /\ ChildInv(p)'
  <2>1. child[p].of \in Objs /\ child' = child /\ Owned(p)
    BY <1>2 DEF IInv, TypeOK, ChildType, ChildrenOwned
  <2> QED BY <2>1, <1>4, ChildKept DEF Owned
<1>10. CallInv' /\ call' \in CallType
  BY <1>2 DEF CloseStdin, CallInv, IInv, TypeOK
<1> QED BY <1>2, <1>3, <1>6, <1>7, <1>8, <1>9, <1>10 DEF IInv, TypeOK, ChildrenOwned

LEMMA EndedFacts ==
  ASSUME IInv, NEW o \in Objs, NEW e, obj' = [obj EXCEPT ![o] = Ended(o, e)]
  PROVE  /\ obj' \in [Objs -> ObjType] /\ \A q \in Objs \ {o} : obj'[q] = obj[q]
         /\ ~obj'[o].in /\ ~obj'[o].out /\ obj'[o].got = <<>> /\ obj'[o].from = <<>>
         /\ e # "destroy" => obj'[o].live /\ obj'[o].cpid = obj[o].cpid
<1>1. obj \in [Objs -> ObjType] /\ obj[o] \in ObjType
  BY DEF IInv, TypeOK
<1>2. /\ Ended(o, e) \in ObjType /\ ~Ended(o, e).in /\ ~Ended(o, e).out
      /\ Ended(o, e).got = <<>> /\ Ended(o, e).from = <<>>
      /\ e # "destroy" => Ended(o, e).live /\ Ended(o, e).cpid = obj[o].cpid
  BY <1>1, ConstantTypes DEF Ended, NoObj, ObjType
<1> QED BY <1>1, <1>2

\* An object is closed: it has no pipes, and stays known to its child if it has one.
LEMMA EndedKeeps ==
  ASSUME IInv, NEW o \in Objs, obj' \in [Objs -> ObjType], \A q \in Objs \ {o} : obj'[q] = obj[q],
         ~obj'[o].in, ~obj'[o].out, obj'[o].got = <<>>, obj'[o].from = <<>>,
         nfds' = nfds - Held(o), call' \in CallType, CallInv', child' \in [Pids -> ChildType],
         \A p \in Pids : child'[p].st # "none" =>
            /\ child[p].st # "none" /\ child'[p].of = child[p].of /\ child'[p].hold = child[p].hold
            /\ child[p].of = o => obj'[o].live /\ obj'[o].cpid = obj[o].cpid /\ child'[p].st # "run"
            /\ child'[p].st = "run" => child[p].st = "run"
  PROVE  IInv'
<1>4. nfds \in 0..MaxFd /\ Held(o) \in 0..2
  BY DEF Held, Valid, IInv, TypeOK
<1>5. nfds' = nfds - Held(o) + Valid(obj'[o].in) + Valid(obj'[o].out)
  BY <1>4, ProcessAssumption DEF Valid
<1>6. DescriptorsExact' /\ nfds' \in Nat
  BY <1>5, DescriptorsChange
<1>7. nfds' \in 0..MaxFd
  BY <1>4, <1>6, ProcessAssumption
<1>8. ASSUME NEW q \in Objs PROVE PipesInv(q)'
  <2>1. CASE q = o
    BY <2>1 DEF PipesInv
  <2>2. CASE q # o
    BY <2>2, PipesKept
  <2> QED BY <2>1, <2>2
<1>9. ASSUME NEW p \in Pids PROVE Owned(p)' /\ ChildInv(p)'
  <2>1. Owned(p) /\ child[p].of \in Objs
    BY DEF IInv, TypeOK, ChildType, ChildrenOwned
  <2>2. CASE child'[p].st = "none"
    BY <2>2, ChildKept
  <2>3. CASE child'[p].st # "none" /\ child[p].of # o
    BY <2>3, <2>1, ChildKept DEF Owned
  <2>4. CASE child'[p].st # "none" /\ child[p].of = o
    BY <2>4, <2>1, ChildKept DEF Owned
  <2> QED BY <2>2, <2>3, <2>4
<1> QED BY <1>6, <1>7, <1>8, <1>9 DEF IInv, TypeOK, ChildrenOwned

\* The children kill and waitpid stand for, when they are called by o.
LEMMA NamedFacts ==
  ASSUME IInv, NEW o \in Objs
  PROVE  /\ \A p \in Named(obj[o].cpid) : p \in Pids /\ child[p].st # "none"
         /\ \A q \in Pids : child[q].st # "none" /\ child[q].of = o =>
               Named(obj[o].cpid) = {q} /\ obj[o].live
<1>1. obj[o].cpid \in Pids \cup {-1} /\ ChildrenOwned
  BY DEF IInv, TypeOK, ObjType
<1>2. \A p \in Named(obj[o].cpid) : p \in Pids /\ child[p].st # "none"
  BY <1>1 DEF Named
<1>3. ASSUME NEW q \in Pids, child[q].st # "none", child[q].of = o
      PROVE  Named(obj[o].cpid) = {q} /\ obj[o].live
  <2>1. obj[o].cpid = q /\ q # -1 /\ obj[o].live
    BY <1>1, <1>3, ConstantTypes DEF ChildrenOwned, Owned
  <2> QED BY <1>3, <2>1 DEF Named
<1> QED BY <1>2, <1>3

LEMMA CloseKillKeeps ==
  ASSUME IInv, NEW o \in Objs, CloseKill(o)
  PROVE  IInv'
<1> DEFINE named == Named(obj[o].cpid)
<1>1. PICK op \in {"close", "destroy"} :
         /\ nfds' = nfds - Held(o)
         /\ obj' = [obj EXCEPT ![o] = IF named = {} THEN Ended(o, op) ELSE Ended(o, "close")]
         /\ child' = [p \in Pids |-> IF p \in named /\ child[p].st = "run"
                                     THEN [child[p] EXCEPT !.st = "dying"] ELSE child[p]]
         /\ call' = IF named = {} THEN Idle ELSE [op |-> op, o |-> o, left |-> 0]
  BY DEF CloseKill
<1>2. child \in [Pids -> ChildType]
  BY DEF IInv, TypeOK
<1>3. /\ \A p \in named : p \in Pids /\ child[p].st # "none"
      /\ \A q \in Pids : child[q].st # "none" /\ child[q].of = o => named = {q} /\ obj[o].live
  BY NamedFacts
<1> HIDE DEF named
<1>4. obj \in [Objs -> ObjType] /\ call' \in CallType
  BY <1>1, ConstantTypes DEF CallType, IInv, TypeOK
<1>5. child' \in [Pids -> ChildType]
  BY <1>1, <1>2 DEF ChildType
<1>6. \A p \in Pids : /\ child'[p].of = child[p].of /\ child'[p].hold = child[p].hold
                      /\ child'[p].st = IF p \in named /\ child[p].st = "run" THEN "dying" ELSE child[p].st
  BY <1>1, <1>2 DEF ChildType
<1>7. PICK e : e = IF named = {} THEN op ELSE "close"
  OBVIOUS
<1>8. /\ obj' \in [Objs -> ObjType] /\ \A q \in Objs \ {o} : obj'[q] = obj[q]
      /\ ~obj'[o].in /\ ~obj'[o].out /\ obj'[o].got = <<>> /\ obj'[o].from = <<>>
      /\ e # "destroy" => obj'[o].live /\ obj'[o].cpid = obj[o].cpid
  <2>1. obj' = [obj EXCEPT ![o] = Ended(o, e)]
    BY <1>1, <1>7
  <2> QED BY <2>1, EndedFacts
<1>9. ASSUME NEW p \in Pids, child'[p].st # "none"
      PROVE  /\ child[p].st # "none" /\ child'[p].of = child[p].of /\ child'[p].hold = child[p].hold
             /\ child[p].of = o => obj'[o].live /\ obj'[o].cpid = obj[o].cpid /\ child'[p].st # "run"
             /\ child'[p].st = "run" => child[p].st = "run"
  <2>1. child[p].st # "none" /\ (child[p].of = o => named = {p} /\ obj[o].live)
    BY <1>3, <1>6, <1>9
  <2>2. child[p].of = o => e # "destroy" /\ child'[p].st # "run"
    BY <1>6, <1>7, <2>1
  <2> QED BY <1>6, <1>8, <2>1, <2>2
<1>10. CallInv'
  BY <1>1, <1>8, ConstantTypes DEF CallInv
<1> QED BY <1>1, <1>4, <1>5, <1>8, <1>9, <1>10, EndedKeeps

LEMMA CloseWaitKeeps ==
  ASSUME IInv, NEW o \in Objs, call.op \in {"close", "destroy"}, call.o = o, CloseWait(o)
  PROVE  IInv'
<1>1. PICK z \in Named(obj[o].cpid) : child[z].st = "zombie" /\ child' = Reap(z)
  BY DEF CloseWait
<1>2. PICK e : e = call.op
  OBVIOUS
<1>3. /\ z \in Pids
      /\ \A q \in Pids : child[q].st # "none" /\ child[q].of = o => q = z
  BY <1>1, NamedFacts
<1>4. child \in [Pids -> ChildType] /\ nfds \in 0..MaxFd
  BY DEF IInv, TypeOK
<1>5. child' \in [Pids -> ChildType] /\ child'[z].st = "none" /\ \A q \in Pids \ {z} : child'[q] = child[q]
  BY <1>1, <1>3, <1>4, ConstantTypes DEF Reap
<1>6. obj' = [obj EXCEPT ![o] = Ended(o, e)] /\ nfds' = nfds - Held(o)
  <2>1. ~obj[o].in /\ ~obj[o].out
    BY DEF IInv, CallInv
  <2> QED BY <1>2, <1>4, <2>1, ProcessAssumption DEF CloseWait, Held, Valid
<1>7. call' \in CallType /\ CallInv'
  BY ConstantTypes DEF CloseWait, CallInv
<1>8. ASSUME NEW p \in Pids, child'[p].st # "none"
      PROVE  /\ child[p].st # "none" /\ child'[p].of = child[p].of /\ child'[p].hold = child[p].hold
             /\ child[p].of = o => obj'[o].live /\ obj'[o].cpid = obj[o].cpid /\ child'[p].st # "run"
             /\ child'[p].st = "run" => child[p].st = "run"
  BY <1>3, <1>5, <1>8
<1>9. /\ obj' \in [Objs -> ObjType] /\ \A q \in Objs \ {o} : obj'[q] = obj[q]
      /\ ~obj'[o].in /\ ~obj'[o].out /\ obj'[o].got = <<>> /\ obj'[o].from = <<>>
  BY <1>6, EndedFacts
<1> QED BY <1>5, <1>6, <1>7, <1>8, <1>9, EndedKeeps

-----------------------------------------------------------------------------
(* The children.                                                           *)

LEMMA ExitsKeeps ==
  ASSUME IInv, NEW p \in Pids, child[p].st \in {"run", "dying"}, Exits(p), UNCHANGED <<obj, nfds, call>>
  PROVE  IInv'
<1>1. child \in [Pids -> ChildType] /\ child[p] \in ChildType
  BY DEF IInv, TypeOK
<1>2. child' = [child EXCEPT ![p] = [child[p] EXCEPT !.st = "zombie", !.hold = 0, !.inh = {}]]
  BY DEF Exits
<1>3. /\ child' \in [Pids -> ChildType] /\ child'[p].st = "zombie" /\ child'[p].of = child[p].of
      /\ \A q \in Pids \ {p} : child'[q] = child[q]
  BY <1>1, <1>2 DEF ChildType
<1>4. ASSUME NEW q \in Pids PROVE Owned(q)' /\ ChildInv(q)'
  <2>1. Owned(q)
    BY DEF IInv, ChildrenOwned
  <2>2. CASE q = p
    BY <2>1, <2>2, <1>3, ChildKept DEF Owned
  <2>3. CASE q # p
    BY <2>1, <2>3, <1>3, ChildKept DEF Owned
  <2> QED BY <2>2, <2>3
<1>5. CallInv' /\ call' \in CallType
  BY DEF IInv, CallInv, TypeOK
<1> QED BY <1>3, <1>4, <1>5, ObjsKept DEF IInv, TypeOK, ChildrenOwned

\* The head of numbers that count on from b, and what follows it.
LEMMA TailNumbers ==
  ASSUME NEW s \in Seq(Nat), s # <<>>, NEW b \in Nat, \A k \in DOMAIN s : s[k] = b + k
  PROVE  /\ Tail(s) \in Seq(Nat) /\ Head(s) = b + 1 /\ Len(Tail(s)) + 1 = Len(s)
         /\ \A k \in DOMAIN Tail(s) : Tail(s)[k] = (b + 1) + k
<1> DEFINE t == Tail(s)
<1>1. /\ Len(s) \in Nat \ {0} /\ DOMAIN s = 1..Len(s) /\ t \in Seq(Nat) /\ Len(t) = Len(s) - 1
      /\ \A i \in 1..Len(t) : t[i] = s[i + 1]
  BY HeadTailProperties
<1>2. Head(s) = s[1]
  OBVIOUS
<1> HIDE DEF t
<1>3. ASSUME NEW k \in 1..Len(t) PROVE t[k] = (b + 1) + k
  <2>1. k + 1 \in 1..Len(s) /\ t[k] = s[k + 1]
    BY <1>1
  <2>2. s[k + 1] = b + (k + 1)
    BY <1>1, <2>1
  <2> QED BY <2>1, <2>2
<1>4. s[1] = b + 1 /\ Len(t) + 1 = Len(s) /\ DOMAIN t = 1..Len(t)
  BY <1>1, SMTT(30)
<1> QED BY <1>1, <1>2, <1>3, <1>4 DEF t

LEMMA ChildReadKeeps ==
  ASSUME IInv, NEW p \in Pids, ChildRead(p), UNCHANGED <<nfds, call>>
  PROVE  IInv'
<1>0. PICK o : o = child[p].of
  OBVIOUS
<1> DEFINE s == obj[o].to
<1>1. /\ child \in [Pids -> ChildType] /\ child[p] \in ChildType /\ o \in Objs
      /\ obj \in [Objs -> ObjType] /\ obj[o] \in ObjType /\ s \in Seq(Nat)
  BY <1>0 DEF IInv, TypeOK, ChildType, ObjType
<1>2. /\ child[p].st = "run" /\ child[p].hold = 0 /\ s # <<>>
      /\ child' = [child EXCEPT ![p] = [child[p] EXCEPT !.hold = Head(s)]]
      /\ obj' = [obj EXCEPT ![o] = [obj[o] EXCEPT !.to = Tail(s)]]
  BY <1>0 DEF ChildRead
<1>3. /\ InHand(p) = 0 /\ Returned(o) \in Nat
      /\ \A k \in DOMAIN s : s[k] = Returned(o) + k
      /\ obj[o].sent = Returned(o) + Len(s) /\ Len(s) \in Nat
  <2>1. InHand(p) = 0 /\ ChildInv(p) /\ Len(obj[o].got) \in Nat /\ Len(obj[o].from) \in Nat
    BY <1>1, <1>2 DEF InHand, IInv, ObjType
  <2>2. Returned(o) \in Nat /\ Len(s) \in Nat
    <3>1. Len(s) \in Nat
      BY <1>1
    <3>2. \A i, j \in Nat : i + j \in Nat
      OBVIOUS
    <3> QED BY <2>1, <3>1, <3>2 DEF Returned
  <2>3. /\ \A k \in DOMAIN s : s[k] = Returned(o) + 0 + k
        /\ obj[o].sent = Returned(o) + 0 + Len(s)
    BY <1>0, <1>2, <2>1 DEF ChildInv
  <2> QED BY <2>1, <2>2, <2>3
<1>4. PICK h, t : h = Head(s) /\ t = Tail(s)
  OBVIOUS
<1>5. /\ t \in Seq(Nat) /\ h = Returned(o) + 1 /\ Len(t) + 1 = Len(s)
      /\ \A k \in DOMAIN t : t[k] = (Returned(o) + 1) + k
      /\ obj[o].sent = (Returned(o) + 1) + Len(t)
  <2>1. /\ t \in Seq(Nat) /\ h = Returned(o) + 1 /\ Len(t) + 1 = Len(s)
        /\ \A k \in DOMAIN t : t[k] = (Returned(o) + 1) + k
    BY <1>1, <1>2, <1>3, <1>4, TailNumbers
  <2>2. Len(t) \in Nat
    BY <2>1
  <2> HIDE DEF s
  <2>3. obj[o].sent = (Returned(o) + 1) + Len(t)
    <3>1. \A r, i, j \in Nat : i + 1 = j => r + j = (r + 1) + i
      OBVIOUS
    <3> QED BY <1>3, <2>1, <2>2, <3>1
  <2> QED BY <2>1, <2>3
<1> HIDE DEF s
<1>6. /\ child' = [child EXCEPT ![p] = [child[p] EXCEPT !.hold = h]] /\ h \in Nat \ {0}
      /\ obj' = [obj EXCEPT ![o] = [obj[o] EXCEPT !.to = t]]
  BY <1>2, <1>3, <1>4, <1>5
<1>7. /\ child' \in [Pids -> ChildType] /\ child'[p].st = "run" /\ child'[p].of = o
      /\ child'[p].hold = h /\ \A q \in Pids \ {p} : child'[q] = child[q]
  <2>1. [child[p] EXCEPT !.hold = h] \in ChildType
    BY <1>1, <1>6 DEF ChildType
  <2>2. child' \in [Pids -> ChildType] /\ child'[p] = [child[p] EXCEPT !.hold = h]
        /\ \A q \in Pids \ {p} : child'[q] = child[q]
    BY <1>1, <1>6, <2>1
  <2> QED BY <1>0, <1>1, <1>2, <2>2 DEF ChildType
<1>8. obj' \in [Objs -> ObjType]
  BY <1>1, <1>5, <1>6 DEF ObjType
<1>9. /\ \A q \in Objs \ {o} : obj'[q] = obj[q]
      /\ obj'[o].to = t /\ obj'[o].sent = obj[o].sent
      /\ obj'[o].got = obj[o].got /\ obj'[o].from = obj[o].from
      /\ obj'[o].in = obj[o].in /\ obj'[o].out = obj[o].out
      /\ obj'[o].live = obj[o].live /\ obj'[o].cpid = obj[o].cpid
  BY <1>1, <1>6 DEF ObjType
<1>10. DescriptorsExact' /\ \A q \in Objs : PipesInv(q)'
  BY <1>9, DescriptorsKept, PipesKept
<1>11. CallInv' /\ call' \in CallType
  <2>1. call \in CallType /\ call.o \in Objs
    BY DEF IInv, TypeOK, CallType
  <2> QED BY <2>1, <1>9 DEF IInv, CallInv
<1>12. ASSUME NEW q \in Pids PROVE Owned(q)' /\ ChildInv(q)'
  <2>1. Owned(q) /\ child[q].of \in Objs
    BY DEF IInv, ChildrenOwned, TypeOK, ChildType
  <2>2. CASE q = p
    <3>1. Owned(q)'
      BY <2>1, <2>2, <1>0, <1>2, <1>7, <1>9 DEF Owned
    <3>2. Returned(o)' = Returned(o) /\ InHand(q)' = 1
      BY <2>2, <1>6, <1>7, <1>9 DEF Returned, InHand
    <3>3. /\ child'[q].hold \in {0, Returned(o)' + 1}
          /\ \A k \in DOMAIN obj'[o].to : obj'[o].to[k] = Returned(o)' + InHand(q)' + k
          /\ obj'[o].sent = Returned(o)' + InHand(q)' + Len(obj'[o].to)
      <4>1. \A k \in DOMAIN obj'[o].to : obj'[o].to[k] = Returned(o)' + InHand(q)' + k
        BY <1>5, <1>9, <3>2
      <4>2. obj'[o].sent = Returned(o)' + InHand(q)' + Len(obj'[o].to)
        BY <1>5, <1>9, <3>2
      <4> QED BY <4>1, <4>2, <2>2, <1>5, <1>7, <3>2
    <3>4. ChildInv(q)'
      BY <2>2, <3>3, <1>7 DEF ChildInv
    <3> QED BY <3>1, <3>4
  <2>3. CASE q # p
    <3>1. child[q].st # "none" => child[q].of # o
      BY <2>3, <1>0, <1>2, OneChild
    <3>2. child'[q] = child[q] /\ (child[q].st # "none" => obj'[child[q].of] = obj[child[q].of])
      BY <2>1, <2>3, <3>1, <1>7, <1>9
    <3> QED BY <2>1, <3>2, ChildKept DEF Owned
  <2> QED BY <2>2, <2>3
<1> QED BY <1>7, <1>8, <1>10, <1>11, <1>12 DEF IInv, TypeOK, ChildrenOwned

LEMMA ChildEchoKeeps ==
  ASSUME IInv, NEW p \in Pids, ChildEcho(p), UNCHANGED <<nfds, call>>
  PROVE  IInv'
<1>0. PICK o : o = child[p].of
  OBVIOUS
<1>1. CASE ~obj[o].out
  BY <1>0, <1>1, ExitsKeeps DEF ChildEcho
<1>2. CASE obj[o].out
  <2> DEFINE s == obj[o].from
  <2>1. PICK h, b : h = child[p].hold /\ b = Len(obj[o].got)
    OBVIOUS
  <2>2. /\ child \in [Pids -> ChildType] /\ child[p] \in ChildType /\ o \in Objs
        /\ obj \in [Objs -> ObjType] /\ obj[o] \in ObjType /\ s \in Seq(Nat) /\ h \in Nat
        /\ obj[o].got \in Seq(Nat) /\ Len(s) \in Nat /\ b \in Nat
    <3>1. /\ child \in [Pids -> ChildType] /\ child[p] \in ChildType /\ o \in Objs
          /\ obj \in [Objs -> ObjType] /\ obj[o] \in ObjType /\ h \in Nat
      BY <1>0, <2>1 DEF IInv, TypeOK, ChildType
    <3>2. s \in Seq(Nat) /\ obj[o].got \in Seq(Nat)
      BY <3>1 DEF ObjType
    <3> QED BY <2>1, <3>1, <3>2
  <2>3. /\ child[p].st = "run" /\ h # 0
        /\ child' = [child EXCEPT ![p] = [child[p] EXCEPT !.hold = 0]]
        /\ obj' = [obj EXCEPT ![o] = [obj[o] EXCEPT !.from = Append(s, h)]]
    BY <1>0, <1>2, <2>1 DEF ChildEcho
  <2>4. /\ InHand(p) = 1 /\ Returned(o) = b + Len(s) /\ h = Returned(o) + 1
        /\ \A k \in DOMAIN obj[o].to : obj[o].to[k] = Returned(o) + 1 + k
        /\ obj[o].sent = Returned(o) + 1 + Len(obj[o].to)
        /\ \A k \in DOMAIN s : s[k] = b + k
    <3>1. InHand(p) = 1 /\ ChildInv(p) /\ Returned(o) = b + Len(s)
      BY <2>1, <2>3 DEF InHand, Returned, IInv
    <3>2. \A k \in DOMAIN s : s[k] = b + k
      BY <2>1, <2>2 DEF IInv, PipesInv
    <3> QED BY <1>0, <2>1, <2>3, <3>1, <3>2 DEF ChildInv
  <2>5. PICK a : a = Append(s, h)
    OBVIOUS
  <2> HIDE DEF s
  <2>6. h = b + Len(s) + 1
    BY <2>4
  <2>7. a \in Seq(Nat) /\ Len(a) = Len(s) + 1 /\ \A k \in DOMAIN a : a[k] = b + k
    BY <2>2, <2>4, <2>5, <2>6, AppendNumbers
  <2>8. /\ child' \in [Pids -> ChildType] /\ child'[p].st = "run" /\ child'[p].of = o
        /\ child'[p].hold = 0 /\ \A q \in Pids \ {p} : child'[q] = child[q]
    <3>1. [child[p] EXCEPT !.hold = 0] \in ChildType
      BY <2>2 DEF ChildType
    <3>2. child' \in [Pids -> ChildType] /\ child'[p] = [child[p] EXCEPT !.hold = 0]
          /\ \A q \in Pids \ {p} : child'[q] = child[q]
      BY <2>2, <2>3, <3>1
    <3> QED BY <1>0, <2>2, <2>3, <3>2 DEF ChildType
  <2>9. obj' = [obj EXCEPT ![o] = [obj[o] EXCEPT !.from = a]]
    BY <2>3, <2>5
  <2>10. obj' \in [Objs -> ObjType]
    BY <2>2, <2>7, <2>9 DEF ObjType
  <2>11. /\ \A q \in Objs \ {o} : obj'[q] = obj[q]
         /\ obj'[o].to = obj[o].to /\ obj'[o].sent = obj[o].sent
         /\ obj'[o].got = obj[o].got /\ obj'[o].from = a
         /\ obj'[o].in = obj[o].in /\ obj'[o].out = obj[o].out
         /\ obj'[o].live = obj[o].live /\ obj'[o].cpid = obj[o].cpid
    BY <2>2, <2>9 DEF ObjType
  <2>12. DescriptorsExact'
    BY <2>11, DescriptorsKept
  <2>13. ASSUME NEW q \in Objs PROVE PipesInv(q)'
    <3>1. CASE q = o
      <4>1. \A k \in DOMAIN obj[o].got : obj[o].got[k] = k
        BY <2>2 DEF IInv, PipesInv
      <4> QED BY <3>1, <4>1, <2>1, <2>7, <2>11 DEF PipesInv
    <3>2. CASE q # o
      BY <3>2, <2>11, PipesKept
    <3> QED BY <3>1, <3>2
  <2>14. CallInv' /\ call' \in CallType
    <3>1. call \in CallType /\ call.o \in Objs
      BY DEF IInv, TypeOK, CallType
    <3> QED BY <3>1, <2>11 DEF IInv, CallInv
  <2>15. ASSUME NEW q \in Pids PROVE Owned(q)' /\ ChildInv(q)'
    <3>1. Owned(q) /\ child[q].of \in Objs
      BY DEF IInv, ChildrenOwned, TypeOK, ChildType
    <3>2. CASE q = p
      <4>1. Owned(q)'
        BY <3>1, <3>2, <1>0, <2>3, <2>8, <2>11 DEF Owned
      <4>2. InHand(q)' = 0 /\ Returned(o)' = b + Len(a)
        BY <3>2, <2>1, <2>8, <2>11 DEF Returned, InHand
      <4>3. Returned(o)' + InHand(q)' = Returned(o) + 1
        BY <2>2, <2>4, <2>7, <4>2
      <4>4. ChildInv(q)'
        BY <3>2, <4>3, <2>4, <2>8, <2>11 DEF ChildInv
      <4> QED BY <4>1, <4>4
    <3>3. CASE q # p
      <4>1. child[q].st # "none" => child[q].of # o
        BY <3>3, <1>0, <2>3, OneChild
      <4>2. child'[q] = child[q] /\ (child[q].st # "none" => obj'[child[q].of] = obj[child[q].of])
        BY <3>1, <3>3, <4>1, <2>8, <2>11
      <4> QED BY <3>1, <4>2, ChildKept DEF Owned
    <3> QED BY <3>2, <3>3
  <2> QED BY <2>8, <2>10, <2>12, <2>13, <2>14, <2>15 DEF IInv, TypeOK, ChildrenOwned
<1> QED BY <1>1, <1>2

-----------------------------------------------------------------------------

\* Every step keeps the inductive invariant.
LEMMA NextKeeps == IInv /\ [Next]_vars => IInv'
<1> SUFFICES ASSUME IInv, [Next]_vars PROVE IInv'
  OBVIOUS
<1>1. CASE UNCHANGED vars
  BY <1>1, CallOnlyKeeps DEF vars, IInv, TypeOK, CallInv
<1>2. ASSUME NEW o \in Objs, Calls(o) PROVE IInv'
  BY <1>2, OpenKeeps, OpenFailsKeeps, OpenNoForkKeeps, WriteKeeps, CloseStdinKeeps, CloseKillKeeps DEF Calls
<1>3. CASE CallStep
  <2>1. PICK o \in Objs : o = call.o
    BY DEF IInv, TypeOK, CallType
  <2> QED BY <1>3, <2>1, WriteStepKeeps, BrokenKeeps, ReadStepKeeps, CloseWaitKeeps DEF CallStep
<1>4. ASSUME NEW p \in Pids, ChildWorks(p) \/ (ChildExit(p) /\ UNCHANGED <<nfds, call>>) PROVE IInv'
  <2>1. CASE ChildRead(p) \/ ChildEcho(p)
    BY <1>4, <2>1, ChildReadKeeps, ChildEchoKeeps DEF ChildWorks, ChildExit
  <2>2. CASE ChildEof(p) \/ ChildDies(p) \/ ChildExit(p)
    BY <1>4, <2>2, ExitsKeeps DEF ChildWorks, ChildEof, ChildDies, ChildExit
  <2> QED BY <1>4, <2>1, <2>2 DEF ChildWorks
<1> QED BY <1>1, <1>2, <1>3, <1>4 DEF Next

\* The inductive invariant holds for every number of objects, pids and descriptors,
\* and for pipes of any capacity.
THEOREM Invariance == Spec => []IInv
BY InitInv, NextKeeps, PTL DEF Spec

\* The fields keep their types, and the parent never has more descriptors than its
\* table has room for.
THEOREM TypeCorrect == Spec => []TypeOK
<1>1. IInv => TypeOK
  BY DEF IInv
<1> QED BY <1>1, Invariance, PTL

\* No path through open, close and the destructor leaks a descriptor or closes one
\* twice.
THEOREM DescriptorsAlwaysExact == Spec => []DescriptorsExact
<1>1. IInv => DescriptorsExact
  BY DEF IInv
<1> QED BY <1>1, Invariance, PTL

\* No object forgets a child before it has been reaped.
THEOREM ChildrenAlwaysOwned == Spec => []ChildrenOwned
<1>1. IInv => ChildrenOwned
  BY DEF IInv
<1> QED BY <1>1, Invariance, PTL

\* A child's echo is read in order, without gap or repetition, however write, read
\* and the pipes cut it up.
THEOREM EchoAlwaysInOrder == Spec => []EchoInOrder
<1>1. IInv => EchoInOrder
  <2> SUFFICES ASSUME IInv, NEW o \in Objs, NEW k \in DOMAIN (obj[o].got \o obj[o].from)
               PROVE  (obj[o].got \o obj[o].from)[k] = k
    BY DEF EchoInOrder
  <2>1. PICK g, f : g = obj[o].got /\ f = obj[o].from
    OBVIOUS
  <2>2. g \in Seq(Nat) /\ f \in Seq(Nat)
    BY <2>1 DEF IInv, TypeOK, ObjType
  <2>3. (\A i \in DOMAIN g : g[i] = i) /\ \A i \in DOMAIN f : f[i] = Len(g) + i
    BY <2>1 DEF IInv, PipesInv
  <2>4. k \in 1..(Len(g) + Len(f)) /\ (g \o f)[k] = IF k <= Len(g) THEN g[k] ELSE f[k - Len(g)]
    <3>1. /\ g \o f \in Seq(Nat) /\ Len(g \o f) = Len(g) + Len(f)
          /\ \A i \in 1..(Len(g) + Len(f)) : (g \o f)[i] = IF i <= Len(g) THEN g[i] ELSE f[i - Len(g)]
      BY <2>2, ConcatProperties
    <3>2. k \in DOMAIN (g \o f) /\ DOMAIN (g \o f) = 1..Len(g \o f)
      BY <2>1, <3>1, LenProperties
    <3> QED BY <3>1, <3>2
  <2>5. Len(g) \in Nat /\ Len(f) \in Nat /\ DOMAIN g = 1..Len(g) /\ DOMAIN f = 1..Len(f)
    BY <2>2
  <2>6. CASE k <= Len(g)
    BY <2>1, <2>3, <2>4, <2>5, <2>6
  <2>7. CASE ~(k <= Len(g))
    <3>1. k - Len(g) \in DOMAIN f /\ Len(g) + (k - Len(g)) = k
      BY <2>4, <2>5, <2>7
    <3> QED BY <2>1, <2>3, <2>4, <2>7, <3>1
  <2> QED BY <2>6, <2>7
<1> QED BY <1>1, Invariance, PTL

=============================================================================
