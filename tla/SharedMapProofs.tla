-------------------------- MODULE SharedMapProofs ---------------------------
(***************************************************************************)
(* Proofs about SharedMap: the inductive invariant IInv, and that the map  *)
(* implements AtomicMap.                                                   *)
(***************************************************************************)
EXTENDS SharedMap, SequenceFacts, FiniteSetTheorems, TLAPS

\* NoCall is not a call.
LEMMA CallFacts ==
  ASSUME NEW c \in Abstract!Calls
  PROVE  /\ c # Abstract!NoCall
         /\ c.name \in {"insert", "update", "at", "erase", "count", "size"}
         /\ c.name # "size" => c.key \in Keys
         /\ c.name \in {"insert", "update"} => c.val \in Vals
BY DEF Abstract!Calls, Abstract!NoCall

\* The length of a run.
LEMMA RunFacts ==
  ASSUME NEW n \in Nat \ {0}, NEW b \in FreeRuns(n)
  PROVE  /\ Run(b, n) \subseteq Blocks /\ Run(b, n) \cap used = {}
         /\ Cardinality(Run(b, n)) = n /\ b \in Nat \ {0}
<1>1. b \in Nat \ {0} /\ b + n - 1 <= NumBlocks /\ NumBlocks \in Nat
  BY SharedMapAssumption DEF FreeRuns, Blocks
<1>2. Cardinality(Run(b, n)) = n
  BY <1>1, FS_Interval DEF Run
<1>3. Run(b, n) \cap used = {}
  BY DEF FreeRuns
<1> QED BY <1>1, <1>2, <1>3 DEF Run, Blocks

LEMMA InitInv == Init => IInv
<1> SUFFICES ASSUME Init PROVE IInv
  OBVIOUS
<1> USE SharedMapAssumption DEF Init
<1>1. TypeOK
  BY DEF TypeOK, Abstract!NoCall, Abstract!Calls
<1>2. SemExact
  BY DEF SemExact
<1>3. ASSUME NEW p \in Procs PROVE Local(p)
  BY DEF Local, CallInv, TodoInv, FoundInv, TempsExact, FoundRunFree, ResultFree, Inside, Begun, Owners,
         Abstract!NoCall
<1>4. BlocksExact
  BY DEF BlocksExact
<1>5. NodesExact
  BY DEF NodesExact, Owners, Present
<1> QED BY <1>1, <1>2, <1>3, <1>4, <1>5 DEF IInv

-----------------------------------------------------------------------------
(* What a step of one process leaves of the others.                        *)

\* A process that is inside a method holds the semaphore.
LEMMA InsideHolds ==
  ASSUME IInv, NEW p \in Procs
  PROVE  /\ pos[p] # 0 => Inside(p)
         /\ Inside(p) <=> sem = p
         /\ Inside(p) => call[p] \in Abstract!Calls
<1>1. CallInv(p) /\ SemExact /\ TypeOK
  BY DEF IInv, Local
<1>2. call[p] \in Abstract!Calls \cup {Abstract!NoCall}
  BY <1>1 DEF TypeOK
<1> QED BY <1>1, <1>2 DEF CallInv, SemExact, Inside

\* A step of another process keeps what holds of q, if it leaves q's variables
\* and temporaries alone, and, while q holds the semaphore, the map, and marks no
\* block.
LEMMA OthersKeep ==
  ASSUME IInv, NEW q \in Procs,
         pc'[q] = pc[q], call'[q] = call[q], todo'[q] = todo[q], pos'[q] = pos[q],
         \A t \in Temporaries \cup {"result"} : held'[<<t, q>>] = held[<<t, q>>],
         sem = q => dict' = dict /\ used' \subseteq used
  PROVE  Local(q)'
<1> USE DEF Local
<1>1. Local(q)
  BY DEF IInv
<1>2. CallInv(q)' /\ TodoInv(q)' /\ ResultFree(q)'
  BY <1>1 DEF CallInv, TodoInv, ResultFree, Inside, Pending
<1>3. CASE ~Inside(q)
  <2>1. Begun(q) = {} /\ Begun(q)' = {} /\ pos[q] = 0 /\ pc[q] # "apply"
    BY <1>1, <1>3 DEF Begun, Inside, CallInv
  <2> QED BY <1>1, <1>2, <2>1 DEF TempsExact, FoundInv, FoundRunFree
<1>4. CASE Inside(q)
  <2>1. dict' = dict /\ used' \subseteq used
    BY <1>4, InsideHolds
  <2>2. \A t \in Temporaries : Need(q, t)' = Need(q, t)
    BY <2>1 DEF Need
  <2>3. Begun(q)' = Begun(q) /\ Pending(q)' = Pending(q)
    BY DEF Begun, Pending
  <2>4. FoundInv(q)' /\ TempsExact(q)'
    BY <1>1, <2>1, <2>2, <2>3 DEF FoundInv, TempsExact, Present
  <2>5. FoundRunFree(q)'
    <3> SUFFICES ASSUME pos[q] # 0 PROVE todo[q] # <<>> /\ pos[q] \in (FreeRuns(Need(q, Head(todo[q]))))'
      BY DEF FoundRunFree
    <3>1. todo[q] # <<>> /\ pos[q] \in FreeRuns(Need(q, Head(todo[q])))
      BY <1>1 DEF FoundRunFree
    <3>2. Head(todo[q]) \in Temporaries
      BY <3>1 DEF IInv, TypeOK
    <3>3. Need(q, Head(todo[q]))' = Need(q, Head(todo[q]))
      BY <2>2, <3>2
    <3> QED BY <3>1, <3>3, <2>1 DEF FreeRuns
  <2> QED BY <1>2, <2>4, <2>5
<1> QED BY <1>3, <1>4

\* A call that is over leaves nothing behind.
LEMMA LeaveLocal ==
  ASSUME IInv, NEW p \in Procs, NEW a, Leave(p, a),
         \A t \in Temporaries : held'[<<t, p>>] = {}
  PROVE  Local(p)'
BY DEF IInv, TypeOK, Leave, Local, CallInv, TodoInv, FoundInv, TempsExact, FoundRunFree,
       ResultFree, Inside, Begun, Abstract!NoCall

-----------------------------------------------------------------------------
(* Steps that leave the blocks and the map alone.                          *)

\* Neither the table nor its owners nor the map change.
LEMMA BlocksKept ==
  ASSUME IInv, UNCHANGED <<used, held, dict>>
  PROVE  BlocksExact' /\ NodesExact'
BY DEF IInv, BlocksExact, NodesExact, Present

\* Neither the map nor the runs of its nodes change.
LEMMA NodesKept ==
  ASSUME IInv, dict' = dict,
         \A k \in Keys, u \in NodeParts : held'[<<u, k>>] = held[<<u, k>>]
  PROVE  NodesExact'
<1>1. \A k \in Keys : /\ held'[<<"node", k>>] = held[<<"node", k>>]
                      /\ held'[<<"nkey", k>>] = held[<<"nkey", k>>]
                      /\ held'[<<"nval", k>>] = held[<<"nval", k>>]
  BY DEF NodeParts
<1>2. NodesExact
  BY DEF IInv
<1>3. Present' = Present
  BY DEF Present
<1> SUFFICES ASSUME NEW k \in Keys
             PROVE IF k \in Present
                   THEN /\ Cardinality(held'[<<"node", k>>]) = NodeBlocks
                        /\ Cardinality(held'[<<"nkey", k>>]) = KeyBlocks[k]
                        /\ Cardinality(held'[<<"nval", k>>]) >= ValBlocks[dict[k]]
                   ELSE \A t \in NodeParts : held'[<<t, k>>] = {}
  BY <1>3, Zenon DEF NodesExact
<1>4. IF k \in Present
      THEN /\ Cardinality(held[<<"node", k>>]) = NodeBlocks
           /\ Cardinality(held[<<"nkey", k>>]) = KeyBlocks[k]
           /\ Cardinality(held[<<"nval", k>>]) >= ValBlocks[dict[k]]
      ELSE \A t \in NodeParts : held[<<t, k>>] = {}
  BY <1>2 DEF NodesExact
<1>5. CASE k \in Present
  BY <1>1, <1>4, <1>5
<1>6. CASE k \notin Present
  BY <1>4, <1>6
<1> QED BY <1>5, <1>6

LEMMA CallKeeps ==
  ASSUME IInv, NEW p \in Procs, Call(p)
  PROVE  IInv'
<1>1. BlocksExact' /\ NodesExact'
  BY BlocksKept DEF Call
<1>2. PICK c \in Abstract!Calls : /\ call' = [call EXCEPT ![p] = c]
                                  /\ c.name = "at" => held[<<"result", p>>] = {}
  BY DEF Call
<1>3. TypeOK'
  BY <1>2 DEF Call, IInv, TypeOK
<1>4. SemExact'
  BY DEF Call, IInv, TypeOK, SemExact
<1>5. Local(p)'
  <2>1. pc[p] = "idle" /\ pc'[p] = "wait" /\ call'[p] = c /\ todo' = todo /\ pos' = pos /\ held' = held
    BY <1>2 DEF Call, IInv, TypeOK
  <2>2. call'[p] # Abstract!NoCall
    BY <2>1, CallFacts
  <2>3. Local(p)
    BY DEF IInv
  <2> QED BY <1>2, <2>1, <2>2, <2>3 DEF Local, CallInv, TodoInv, FoundInv, TempsExact, FoundRunFree,
                                        ResultFree, Inside, Begun
<1>6. ASSUME NEW q \in Procs, q # p PROVE Local(q)'
  BY <1>6, <1>2, OthersKeep DEF Call, IInv, TypeOK
<1> QED BY <1>1, <1>3, <1>4, <1>5, <1>6 DEF IInv

LEMMA EnterKeeps ==
  ASSUME IInv, NEW p \in Procs, Enter(p)
  PROVE  IInv'
<1> DEFINE c == call[p]
<1>1. BlocksExact' /\ NodesExact'
  BY BlocksKept DEF Enter
<1>2. c \in Abstract!Calls
  BY DEF Enter, IInv, TypeOK, Local, CallInv
<1>3. /\ c.name = "insert" => todo'[p] = <<"key", "val">>
      /\ c.name = "update" => todo'[p] = <<"val", "key">>
      /\ c.name = "size" => todo'[p] = <<>>
      /\ c.name \notin {"insert", "update", "size"} => todo'[p] = <<"key">>
  BY DEF Enter, IInv, TypeOK
<1>4. /\ <<"key", "val">> \in Seq(Temporaries) /\ <<"val", "key">> \in Seq(Temporaries)
      /\ <<"key">> \in Seq(Temporaries) /\ <<>> \in Seq(Temporaries)
  BY DEF Temporaries
<1>5. todo'[p] \in Seq(Temporaries)
  BY <1>3, <1>4
<1>6. todo' \in [Procs -> Seq(Temporaries)]
  BY <1>5 DEF Enter, IInv, TypeOK
<1>7. TypeOK'
  BY <1>6 DEF Enter, IInv, TypeOK
<1>8. SemExact'
  BY SharedMapAssumption DEF Enter, IInv, TypeOK, SemExact
<1>9. Local(p)'
  <2>1. /\ pc[p] = "wait" /\ pc'[p] = "convert" /\ call' = call /\ pos' = pos /\ held' = held
        /\ Local(p)
    BY DEF Enter, IInv, TypeOK
  <2>2. Pending(p)' = Converted(c) /\ \A i, j \in DOMAIN todo'[p] : todo'[p][i] = todo'[p][j] => i = j
    <3> HIDE DEF c
    <3>1. CASE c.name = "insert"
      BY <1>3, <3>1, <2>1 DEF Pending, Converted
    <3>2. CASE c.name = "update"
      BY <1>3, <3>2, <2>1 DEF Pending, Converted
    <3>3. CASE c.name = "size"
      BY <1>3, <3>3, <2>1 DEF Pending, Converted
    <3>4. CASE c.name \notin {"insert", "update", "size"}
      BY <1>3, <3>4, <2>1 DEF Pending, Converted
    <3> QED BY <3>1, <3>2, <3>3, <3>4
  <2>3. Begun(p)' = Converted(c)
    BY <2>1 DEF Begun
  <2>4. \A t \in Temporaries : held[<<t, p>>] = {}
    BY <2>1 DEF Local, TempsExact, Begun
  <2>5. CallInv(p)'
    BY <2>1, <1>2, CallFacts DEF Local, CallInv, Inside
  <2>6. FoundRunFree(p)' /\ ResultFree(p)'
    BY <2>1 DEF Local, CallInv, Inside, FoundRunFree, ResultFree
  <2> QED BY <2>1, <2>2, <2>3, <2>4, <2>5, <2>6 DEF Local, TodoInv, FoundInv, TempsExact
<1>10. ASSUME NEW q \in Procs, q # p PROVE Local(q)'
  BY <1>10, OthersKeep DEF Enter, IInv, TypeOK
<1> QED BY <1>1, <1>7, <1>8, <1>9, <1>10 DEF IInv

LEMMA ExitKeeps ==
  ASSUME IInv, NEW p \in Procs, Exit(p)
  PROVE  IInv'
<1>1. BlocksExact' /\ NodesExact'
  BY BlocksKept DEF Exit
<1>2. TypeOK' /\ SemExact'
  BY DEF Exit, IInv, TypeOK, SemExact
<1>3. Local(p)'
  <2>1. pc[p] = "idle" /\ pc'[p] = "exited" /\ UNCHANGED <<call, todo, pos, held>> /\ Local(p)
    BY DEF Exit, IInv, TypeOK
  <2> QED BY <2>1 DEF Local, CallInv, TodoInv, FoundInv, TempsExact, FoundRunFree, ResultFree,
                      Inside, Begun
<1>4. ASSUME NEW q \in Procs, q # p PROVE Local(q)'
  BY <1>4, OthersKeep DEF Exit, IInv, TypeOK
<1> QED BY <1>1, <1>2, <1>3, <1>4 DEF IInv

-----------------------------------------------------------------------------
(* Steps that allocate.                                                    *)

\* A call's temporaries have sizes.
LEMMA NeedType ==
  ASSUME IInv, NEW p \in Procs, NEW t \in Begun(p)
  PROVE  t \in Temporaries /\ Need(p, t) \in Nat
<1> DEFINE c == call[p]
<1>1. Inside(p) /\ c \in Abstract!Calls
  BY InsideHolds DEF Begun, Inside
<1>2. /\ c.name # "size" => KeyBlocks[c.key] \in Nat
      /\ c.name \in {"insert", "update"} => ValBlocks[c.val] \in Nat
      /\ NodeBlocks \in Nat
  BY <1>1, CallFacts, SharedMapAssumption
<1>3. pc[p] = "apply" /\ c.name = "at" => ValBlocks[dict[c.key]] \in Nat
  <2> SUFFICES ASSUME pc[p] = "apply", c.name = "at" PROVE ValBlocks[dict[c.key]] \in Nat
    OBVIOUS
  <2>1. c.key \in Present
    BY DEF IInv, Local, FoundInv
  <2>2. dict[c.key] \in Vals
    BY <2>1 DEF Present, IInv, TypeOK
  <2> QED BY <2>2, SharedMapAssumption
<1> HIDE DEF c
<1>4. \/ t \in Converted(c)
      \/ pc[p] = "apply" /\ t \in Applied(c)
  BY DEF Begun, c
<1>5. CASE t \in Converted(c)
  BY <1>2, <1>5 DEF Converted, Need, Temporaries, c
<1>6. CASE pc[p] = "apply" /\ t \in Applied(c)
  BY <1>2, <1>3, <1>6 DEF Applied, Need, Temporaries, c
<1> QED BY <1>4, <1>5, <1>6

\* Allocating goes on with the first of the pending temporaries.
LEMMA HeadFacts ==
  ASSUME IInv, NEW p \in Procs, Inside(p), todo[p] # <<>>
  PROVE  /\ Head(todo[p]) \in Begun(p) \cap Pending(p) /\ Head(todo[p]) \in Temporaries
         /\ Tail(todo[p]) \in Seq(Temporaries)
         /\ \A i, j \in DOMAIN Tail(todo[p]) : Tail(todo[p])[i] = Tail(todo[p])[j] => i = j
         /\ {Tail(todo[p])[i] : i \in DOMAIN Tail(todo[p])} = Pending(p) \ {Head(todo[p])}
         /\ Need(p, Head(todo[p])) \in Nat
<1>1. todo[p] \in Seq(Temporaries) /\ TodoInv(p)
  BY DEF IInv, TypeOK, Local
<1>2. Pending(p) \subseteq Begun(p)
  BY <1>1 DEF TodoInv, Begun, Inside
<1>3. \A i, j \in DOMAIN todo[p] : todo[p][i] = todo[p][j] => i = j
  BY <1>1 DEF TodoInv
<1>4. Head(todo[p]) \in Pending(p)
  BY <1>1, <1>3, TailFacts DEF Pending
<1>5. {Tail(todo[p])[i] : i \in DOMAIN Tail(todo[p])} = Pending(p) \ {Head(todo[p])}
  BY <1>1, <1>3, TailFacts DEF Pending
<1>6. /\ Head(todo[p]) \in Temporaries /\ Tail(todo[p]) \in Seq(Temporaries)
      /\ \A i, j \in DOMAIN Tail(todo[p]) : Tail(todo[p])[i] = Tail(todo[p])[j] => i = j
  BY <1>1, <1>3, TailFacts
<1> QED BY <1>2, <1>4, <1>5, <1>6, NeedType

\* The first pending temporary has been made.
LEMMA MadeLocal ==
  ASSUME IInv, NEW p \in Procs, Inside(p), todo[p] # <<>>,
         pc' = pc, call' = call, dict' = dict, pos'[p] = 0, todo'[p] = Tail(todo[p]),
         \A t \in Temporaries \ {Head(todo[p])} : held'[<<t, p>>] = held[<<t, p>>],
         held'[<<"result", p>>] = held[<<"result", p>>],
         Cardinality(held'[<<Head(todo[p]), p>>]) = Need(p, Head(todo[p]))
  PROVE  Local(p)'
<1> DEFINE h == Head(todo[p])
<1>1. /\ h \in Begun(p) \cap Pending(p) /\ h \in Temporaries
      /\ \A i, j \in DOMAIN Tail(todo[p]) : Tail(todo[p])[i] = Tail(todo[p])[j] => i = j
      /\ {Tail(todo[p])[i] : i \in DOMAIN Tail(todo[p])} = Pending(p) \ {h}
  BY HeadFacts
<1>2. Local(p)
  BY DEF IInv
<1>3. Pending(p)' = Pending(p) \ {h} /\ Begun(p)' = Begun(p)
  BY <1>1, ZenonT(40) DEF Pending, Begun
<1>4. \A t \in Temporaries : Need(p, t)' = Need(p, t)
  BY DEF Need
<1>5. CallInv(p)' /\ FoundInv(p)' /\ FoundRunFree(p)' /\ ResultFree(p)'
  BY <1>2 DEF Local, CallInv, FoundInv, FoundRunFree, ResultFree, Inside, Present
<1>6. TodoInv(p)'
  BY <1>1, <1>2, <1>3 DEF Local, TodoInv
<1>7. TempsExact(p)'
  <2> SUFFICES ASSUME NEW t \in Temporaries
               PROVE  IF t \in Begun(p)' \ Pending(p)'
                      THEN Cardinality(held'[<<t, p>>]) = Need(p, t)'
                      ELSE held'[<<t, p>>] = {}
    BY DEF TempsExact
  <2>1. CASE t = h
    BY <2>1, <1>1, <1>3, <1>4
  <2>2. CASE t # h
    BY <2>2, <1>2, <1>3, <1>4 DEF Local, TempsExact
  <2> QED BY <2>1, <2>2
<1> QED BY <1>5, <1>6, <1>7 DEF Local

LEMMA MarkKeeps ==
  ASSUME IInv, NEW p \in Procs, Mark(p)
  PROVE  IInv'
<1> DEFINE t == Head(todo[p])
           run == Run(pos[p], Need(p, t))
<1>1. Inside(p) /\ todo[p] # <<>> /\ pos[p] \in FreeRuns(Need(p, t)) /\ sem = p
  BY InsideHolds DEF Mark, IInv, Local, FoundRunFree
<1>2. t \in Begun(p) \cap Pending(p) /\ t \in Temporaries /\ Need(p, t) \in Nat
      /\ Tail(todo[p]) \in Seq(Temporaries)
  BY <1>1, HeadFacts
<1>3. held[<<t, p>>] = {} /\ <<t, p>> \in Owners
  BY <1>2 DEF IInv, Local, TempsExact, Owners
<1>4. run \subseteq Blocks /\ run \cap used = {} /\ Cardinality(run) = Need(p, t)
  <2>1. CASE Need(p, t) = 0
    <3>1. run = {}
      BY <1>1, <2>1, SharedMapAssumption DEF Run, FreeRuns, Blocks
    <3> QED BY <3>1, <2>1, FS_EmptySet
  <2>2. CASE Need(p, t) # 0
    BY <1>1, <1>2, <2>2, RunFacts
  <2> QED BY <2>1, <2>2
<1>5. used' = used \cup run /\ held' = [held EXCEPT ![<<t, p>>] = run]
  BY DEF Mark
<1> HIDE DEF run
<1>6. \A o \in Owners : held'[o] = IF o = <<t, p>> THEN run ELSE held[o]
  BY <1>5, <1>3 DEF IInv, TypeOK
<1>7. TypeOK'
  <2>1. held' \in [Owners -> SUBSET Blocks] /\ used' \subseteq Blocks
    BY <1>4, <1>5 DEF IInv, TypeOK
  <2> QED BY <2>1, <1>2, SharedMapAssumption DEF Mark, IInv, TypeOK
<1>8. SemExact'
  BY DEF Mark, IInv, SemExact
<1>9. BlocksExact'
  <2>1. \A a, b \in Owners : a # b => held'[a] \cap held'[b] = {}
    BY <1>4, <1>6 DEF IInv, BlocksExact
  <2>2. used' = UNION {held'[o] : o \in Owners}
    BY <1>3, <1>5, <1>6 DEF IInv, BlocksExact
  <2> QED BY <2>1, <2>2 DEF BlocksExact
<1>10. NodesExact'
  <2>1. \A k \in Keys, u \in NodeParts : held'[<<u, k>>] = held[<<u, k>>]
    BY <1>6, <1>2 DEF Owners, NodeParts, Temporaries
  <2>2. dict' = dict
    BY DEF Mark
  <2> QED BY <2>1, <2>2, NodesKept
<1>11. Local(p)'
  <2>1. /\ \A u \in Temporaries \ {t} : held'[<<u, p>>] = held[<<u, p>>]
        /\ held'[<<"result", p>>] = held[<<"result", p>>]
    BY <1>2, <1>6 DEF Owners, Temporaries
  <2>2. held'[<<t, p>>] = run
    BY <1>6, <1>3
  <2>3. pos'[p] = 0 /\ todo'[p] = Tail(todo[p]) /\ pc' = pc /\ call' = call /\ dict' = dict
    BY DEF Mark, IInv, TypeOK
  <2> QED BY <1>1, <1>4, <2>1, <2>2, <2>3, MadeLocal
<1>12. ASSUME NEW q \in Procs, q # p PROVE Local(q)'
  <2>1. \A u \in Temporaries \cup {"result"} : held'[<<u, q>>] = held[<<u, q>>]
    BY <1>6, <1>12 DEF Owners
  <2>2. pc'[q] = pc[q] /\ call'[q] = call[q] /\ todo'[q] = todo[q] /\ pos'[q] = pos[q] /\ sem # q
    BY <1>12, <1>1 DEF Mark, IInv, TypeOK
  <2> QED BY <2>1, <2>2, OthersKeep
<1> QED BY <1>7, <1>8, <1>9, <1>10, <1>11, <1>12 DEF IInv

-----------------------------------------------------------------------------
(* The end of a call.                                                      *)

\* When a call is over, what remains to be shown is about the blocks and the map.
LEMMA LeaveKeeps ==
  ASSUME IInv, NEW p \in Procs, NEW a, Inside(p), Leave(p, a),
         held' \in [Owners -> SUBSET Blocks], used' \subseteq Blocks,
         dict' \in [Keys -> Vals \cup {NoVal}], BlocksExact', NodesExact',
         \A q \in Procs, t \in Temporaries :
            held'[<<t, q>>] = IF q = p THEN {} ELSE held[<<t, q>>],
         \A q \in Procs \ {p} : held'[<<"result", q>>] = held[<<"result", q>>]
  PROVE  IInv'
<1>1. sem = p
  BY InsideHolds
<1>2. TypeOK'
  BY SharedMapAssumption DEF Leave, IInv, TypeOK
<1>3. SemExact'
  BY <1>1, SharedMapAssumption DEF Leave, IInv, TypeOK, SemExact
<1>4. Local(p)'
  BY LeaveLocal
<1>5. ASSUME NEW q \in Procs, q # p PROVE Local(q)'
  <2>1. \A t \in Temporaries \cup {"result"} : held'[<<t, q>>] = held[<<t, q>>]
    BY <1>5
  <2> QED BY <1>1, <1>5, <2>1, OthersKeep DEF Leave, IInv, TypeOK
<1> QED BY <1>2, <1>3, <1>4, <1>5 DEF IInv

\* Cleared takes the temporaries of p away from the owners.
LEMMA ClearedFacts ==
  ASSUME IInv, NEW p \in Procs
  PROVE  /\ Cleared(p) \in [Owners -> SUBSET Blocks]
         /\ \A o \in Owners : \/ Cleared(p)[o] = held[o]
                              \/ Cleared(p)[o] = {} /\ \E t \in Temporaries : o = <<t, p>>
         /\ \A q \in Procs, t \in Temporaries :
               /\ <<t, q>> \in Owners
               /\ Cleared(p)[<<t, q>>] = IF q = p THEN {} ELSE held[<<t, q>>]
         /\ \A k \in Keys, u \in NodeParts :
               <<u, k>> \in Owners /\ Cleared(p)[<<u, k>>] = held[<<u, k>>]
         /\ \A q \in Procs : <<"result", q>> \in Owners
               /\ Cleared(p)[<<"result", q>>] = held[<<"result", q>>]
<1>1. held \in [Owners -> SUBSET Blocks]
  BY DEF IInv, TypeOK
<1>2. \A q \in Procs, t \in Temporaries : <<t, q>> \in Owners
  BY DEF Owners
<1>3. \A k \in Keys, u \in NodeParts : <<u, k>> \in Owners /\ u \notin Temporaries
  BY DEF Owners, NodeParts, Temporaries
<1>4. \A q \in Procs : <<"result", q>> \in Owners /\ "result" \notin Temporaries
  BY DEF Owners, Temporaries
<1>5. \A o \in Owners : o = <<o[1], o[2]>>
  BY DEF Owners
<1> QED BY <1>1, <1>2, <1>3, <1>4, <1>5 DEF Cleared

\* An exception or a lookup gives all temporaries back and nothing else.
LEMMA UnwindKeeps ==
  ASSUME IInv, NEW p \in Procs, NEW a, Inside(p), Unwind(p, a)
  PROVE  IInv'
<1>1. held' = Cleared(p) /\ used' = used \ HeldBy(p) /\ dict' = dict /\ Leave(p, a)
  BY DEF Unwind
<1>2. BlocksExact /\ used \subseteq Blocks /\ dict \in [Keys -> Vals \cup {NoVal}]
  BY DEF IInv, TypeOK
<1>3. \A o \in Owners : \/ held'[o] = held[o]
                        \/ held'[o] = {} /\ \E t \in Temporaries : o = <<t, p>>
  BY <1>1, ClearedFacts
<1>4. \A t \in Temporaries : <<t, p>> \in Owners /\ held'[<<t, p>>] = {}
  BY <1>1, ClearedFacts
<1>5. BlocksExact'
  <2>1. \A c, d \in Owners : c # d => held'[c] \cap held'[d] = {}
    BY <1>2, <1>3 DEF BlocksExact
  <2>2. ASSUME NEW b \in used' PROVE \E o \in Owners : b \in held'[o]
    <3>1. PICK o \in Owners : b \in held[o]
      BY <1>1, <1>2, <2>2 DEF BlocksExact
    <3>2. \A t \in Temporaries : b \notin held[<<t, p>>]
      BY <1>1, <2>2 DEF HeldBy
    <3> QED BY <1>3, <3>1, <3>2
  <2>3. ASSUME NEW o \in Owners, NEW b \in held'[o] PROVE b \in used'
    <3>1. held'[o] = held[o] /\ b \in used
      BY <1>2, <1>3, <2>3 DEF BlocksExact
    <3>2. ASSUME NEW t \in Temporaries PROVE b \notin held[<<t, p>>]
      <4>1. o # <<t, p>>
        BY <1>4, <2>3
      <4> QED BY <4>1, <3>1, <1>2, <1>4, <2>3 DEF BlocksExact
    <3> QED BY <1>1, <3>1, <3>2 DEF HeldBy
  <2> QED BY <2>1, <2>2, <2>3 DEF BlocksExact
<1>6. NodesExact'
  BY <1>1, ClearedFacts, NodesKept
<1> QED BY <1>1, <1>2, <1>5, <1>6, ClearedFacts, LeaveKeeps

LEMMA FindKeeps ==
  ASSUME IInv, NEW p \in Procs, Find(p)
  PROVE  IInv'
<1> DEFINE n == Need(p, Head(todo[p]))
<1>1. Inside(p) /\ todo[p] # <<>> /\ pos[p] = 0 /\ sem = p
  BY InsideHolds DEF Find, Inside
<1>2. /\ Head(todo[p]) \in Begun(p) \cap Pending(p) /\ Head(todo[p]) \in Temporaries
      /\ n \in Nat /\ Tail(todo[p]) \in Seq(Temporaries)
  BY <1>1, HeadFacts
<1>3. \/ n = 0 /\ todo' = [todo EXCEPT ![p] = Tail(@)]
         /\ UNCHANGED <<sem, used, held, dict, pc, call, pos, answer>>
      \/ n > 0 /\ FreeRuns(n) # {} /\ pos' = [pos EXCEPT ![p] = Min(FreeRuns(n))]
         /\ UNCHANGED <<sem, used, held, dict, pc, call, todo, answer>>
      \/ Unwind(p, [thrown |-> "bad_alloc"])
  BY DEF Find
<1>4. held[<<Head(todo[p]), p>>] = {}
  BY <1>2 DEF IInv, Local, TempsExact
<1> HIDE DEF n
<1>5. CASE n = 0 /\ todo' = [todo EXCEPT ![p] = Tail(@)]
           /\ UNCHANGED <<sem, used, held, dict, pc, call, pos, answer>>
  <2>1. BlocksExact' /\ NodesExact'
    BY <1>5, BlocksKept
  <2>2. TypeOK' /\ SemExact'
    BY <1>2, <1>5 DEF IInv, TypeOK, SemExact
  <2>3. Cardinality(held'[<<Head(todo[p]), p>>]) = Need(p, Head(todo[p]))
    BY <1>4, <1>5, FS_EmptySet DEF n
  <2>4. todo'[p] = Tail(todo[p])
    BY <1>5 DEF IInv, TypeOK
  <2>5. Local(p)'
    BY <1>1, <1>5, <2>3, <2>4, MadeLocal
  <2>6. ASSUME NEW q \in Procs, q # p PROVE Local(q)'
    BY <2>6, <1>5, OthersKeep DEF IInv, TypeOK
  <2> QED BY <2>1, <2>2, <2>5, <2>6 DEF IInv
<1>6. CASE n > 0 /\ FreeRuns(n) # {} /\ pos' = [pos EXCEPT ![p] = Min(FreeRuns(n))]
           /\ UNCHANGED <<sem, used, held, dict, pc, call, todo, answer>>
  <2>1. BlocksExact' /\ NodesExact'
    BY <1>6, BlocksKept
  <2>2. FreeRuns(n) \subseteq Blocks /\ FreeRuns(n) \in SUBSET Nat /\ 0 \notin FreeRuns(n)
    BY SharedMapAssumption DEF FreeRuns, Blocks
  <2>3. Min(FreeRuns(n)) \in FreeRuns(n)
    BY <1>6, <2>2, MinFacts
  <2>4. Min(FreeRuns(n)) \in 0..NumBlocks
    BY <2>2, <2>3, SharedMapAssumption DEF Blocks
  <2>5. TypeOK' /\ SemExact'
    BY <1>6, <2>4 DEF IInv, TypeOK, SemExact
  <2>6. Local(p)'
    <3>1. pos'[p] = Min(FreeRuns(n)) /\ n' = n /\ todo' = todo
      BY <1>6 DEF n, Need, IInv, TypeOK
    <3>2. FoundRunFree(p)'
      <4>1. pos'[p] \in FreeRuns(n)'
        BY <1>6, <2>3, <3>1 DEF FreeRuns
      <4> QED BY <1>1, <3>1, <4>1 DEF FoundRunFree, n
    <3>3. /\ Begun(p)' = Begun(p) /\ Pending(p)' = Pending(p) /\ Inside(p)'
          /\ \A t \in Temporaries : Need(p, t)' = Need(p, t)
      BY <1>1, <1>6 DEF Begun, Pending, Inside, Need
    <3>4. TempsExact(p)'
      BY <3>3, <1>6 DEF TempsExact, IInv, Local
    <3>5. CallInv(p)' /\ FoundInv(p)' /\ TodoInv(p)' /\ ResultFree(p)'
      BY <1>1, <1>6, <3>3 DEF IInv, Local, CallInv, FoundInv, TodoInv, ResultFree, Present
    <3> QED BY <3>2, <3>4, <3>5 DEF Local
  <2>7. ASSUME NEW q \in Procs, q # p PROVE Local(q)'
    BY <2>7, <1>6, OthersKeep DEF IInv, TypeOK
  <2> QED BY <2>1, <2>5, <2>6, <2>7 DEF IInv
<1>7. CASE Unwind(p, [thrown |-> "bad_alloc"])
  BY <1>1, <1>7, UnwindKeeps
<1> QED BY <1>3, <1>5, <1>6, <1>7

LEMMA LookupKeeps ==
  ASSUME IInv, NEW p \in Procs, Lookup(p)
  PROVE  IInv'
<1> DEFINE c == call[p]
           goes == \/ c.name = "insert" /\ c.key \notin Present
                   \/ c.name \in {"update", "erase", "at"} /\ c.key \in Present
<1>1. Inside(p) /\ pc[p] = "convert" /\ todo[p] = <<>> /\ sem = p /\ c \in Abstract!Calls
  BY InsideHolds DEF Lookup, Inside
<1>2. CASE Unwind(p, Abstract!Answer(c))
  BY <1>1, <1>2, UnwindKeeps
<1>3. CASE /\ goes /\ pc' = [pc EXCEPT ![p] = "apply"]
           /\ todo' = [todo EXCEPT ![p] = IF c.name = "insert" THEN <<"newnode", "newkey">>
                                          ELSE IF c.name = "at" THEN <<"copy">> ELSE <<>>]
           /\ UNCHANGED <<sem, used, held, dict, call, pos, answer>>
  <2>1. BlocksExact' /\ NodesExact'
    BY <1>3, BlocksKept
  <2>2. /\ c.name = "insert" => todo'[p] = <<"newnode", "newkey">>
        /\ c.name = "at" => todo'[p] = <<"copy">>
        /\ c.name \notin {"insert", "at"} => todo'[p] = <<>>
    BY <1>3 DEF IInv, TypeOK
  <2>3. todo'[p] \in Seq(Temporaries)
    <3>1. /\ <<"newnode", "newkey">> \in Seq(Temporaries) /\ <<"copy">> \in Seq(Temporaries)
          /\ <<>> \in Seq(Temporaries)
      BY DEF Temporaries
    <3> QED BY <2>2, <3>1
  <2>4. todo' \in [Procs -> Seq(Temporaries)]
    BY <2>3, <1>3 DEF IInv, TypeOK
  <2>5. TypeOK' /\ SemExact'
    BY <1>1, <1>3, <2>4 DEF IInv, TypeOK, SemExact
  <2>6. Local(p)'
    <3>1. pc'[p] = "apply" /\ call' = call /\ Local(p) /\ pos'[p] = pos[p] /\ held' = held /\ dict' = dict
      BY <1>3 DEF IInv, TypeOK
    <3>2. Pending(p)' = Applied(c) /\ \A i, j \in DOMAIN todo'[p] : todo'[p][i] = todo'[p][j] => i = j
      BY <2>2 DEF Pending, Applied
    <3>3. Converted(c) \cap Applied(c) = {} /\ Converted(c) \subseteq Temporaries
      BY DEF Converted, Applied, Temporaries
    <3>4. Begun(p)' \ Pending(p)' = Converted(c) /\ Begun(p) \ Pending(p) = Converted(c)
      BY <1>1, <3>1, <3>2, <3>3 DEF Begun, Pending
    <3>5. \A t \in Temporaries : Need(p, t)' = Need(p, t)
      BY <1>3 DEF Need
    <3>6. TempsExact(p)'
      BY <3>1, <3>4, <3>5 DEF Local, TempsExact
    <3>7. FoundInv(p)'
      <4>1. c.key \in Keys
        BY <1>1, <1>3, CallFacts
      <4> QED BY <1>3, <3>1, <4>1 DEF FoundInv, Present
    <3>8. pos[p] = 0
      BY <1>1, <3>1 DEF Local, FoundRunFree
    <3>9. CallInv(p)' /\ TodoInv(p)' /\ FoundRunFree(p)' /\ ResultFree(p)'
      BY <1>1, <3>1, <3>2, <3>8 DEF Local, CallInv, TodoInv, FoundRunFree, ResultFree, Inside
    <3> QED BY <3>6, <3>7, <3>9 DEF Local
  <2>7. ASSUME NEW q \in Procs, q # p PROVE Local(q)'
    BY <2>7, <1>3, OthersKeep DEF IInv, TypeOK
  <2> QED BY <2>1, <2>5, <2>6, <2>7 DEF IInv
<1> QED BY <1>2, <1>3 DEF Lookup

-----------------------------------------------------------------------------
(* The calls take effect.                                                  *)

\* When a call takes effect it has all its temporaries.
LEMMA ApplyFacts ==
  ASSUME IInv, NEW p \in Procs, NEW name, Applying(p, name)
  PROVE  /\ Inside(p) /\ call[p] \in Abstract!Calls /\ call[p].name = name
         /\ call[p].key \in Keys
         /\ IF name = "insert" THEN call[p].key \notin Present ELSE call[p].key \in Present
         /\ \A t \in Temporaries :
               IF t \in Converted(call[p]) \cup Applied(call[p])
               THEN Cardinality(held[<<t, p>>]) = Need(p, t) ELSE held[<<t, p>>] = {}
<1>1. Inside(p) /\ pc[p] = "apply" /\ todo[p] = <<>> /\ call[p].name = name /\ Local(p)
  BY DEF Applying, Inside, IInv
<1>2. Pending(p) = {} /\ Begun(p) = Converted(call[p]) \cup Applied(call[p])
  BY <1>1 DEF Pending, Begun
<1>3. \A t \in Temporaries :
         IF t \in Converted(call[p]) \cup Applied(call[p])
         THEN Cardinality(held[<<t, p>>]) = Need(p, t) ELSE held[<<t, p>>] = {}
  BY <1>1, <1>2 DEF Local, TempsExact
<1>4. call[p] \in Abstract!Calls
  BY <1>1, InsideHolds
<1> QED BY <1>1, <1>3, <1>4 DEF Local, FoundInv, Present

\* Runs change hands: every owner in S gets the run of another one, the others
\* get none, and what nobody gets is no longer marked.
LEMMA HandOver ==
  ASSUME BlocksExact, NEW S \in SUBSET Owners, NEW from \in [S -> Owners],
         \A s, r \in S : from[s] = from[r] => s = r,
         \A o \in Owners : held'[o] = IF o \in S THEN held[from[o]] ELSE {},
         used' \subseteq used,
         \A s \in S : held[from[s]] \subseteq used',
         \A o \in Owners : (\E s \in S : from[s] = o) \/ held[o] \cap used' = {}
  PROVE  BlocksExact'
<1>1. \A a, b \in Owners : a # b => held'[a] \cap held'[b] = {}
  BY DEF BlocksExact
<1>2. ASSUME NEW b \in used' PROVE \E o \in Owners : b \in held'[o]
  <2>1. PICK o \in Owners : b \in held[o]
    BY <1>2 DEF BlocksExact
  <2>2. PICK s \in S : from[s] = o
    BY <2>1, <1>2
  <2> QED BY <2>1, <2>2
<1>3. ASSUME NEW o \in Owners, NEW b \in held'[o] PROVE b \in used'
  BY <1>3
<1> QED BY <1>1, <1>2, <1>3 DEF BlocksExact

LEMMA InsertKeeps ==
  ASSUME IInv, NEW p \in Procs, Insert(p)
  PROVE  IInv'
<1> DEFINE k == call[p].key
           v == call[p].val
           S == {o \in Owners : ~\E t \in Temporaries : o = <<t, p>>}
           from == [o \in S |-> CASE o = <<"node", k>> -> <<"newnode", p>>
                                  [] o = <<"nkey", k>> -> <<"newkey", p>>
                                  [] o = <<"nval", k>> -> <<"val", p>>
                                  [] OTHER -> o]
<1>1. /\ Applying(p, "insert") /\ used' = used \ held[<<"key", p>>]
      /\ dict' = [dict EXCEPT ![k] = v] /\ Leave(p, [flag |-> TRUE])
      /\ held' = [Cleared(p) EXCEPT ![<<"node", k>>] = held[<<"newnode", p>>],
                                    ![<<"nkey", k>>] = held[<<"newkey", p>>],
                                    ![<<"nval", k>>] = held[<<"val", p>>]]
  BY DEF Insert
<1>2. /\ Inside(p) /\ call[p] \in Abstract!Calls /\ call[p].name = "insert"
      /\ k \in Keys /\ k \notin Present /\ v \in Vals
      /\ \A t \in Temporaries :
            IF t \in Converted(call[p]) \cup Applied(call[p])
            THEN Cardinality(held[<<t, p>>]) = Need(p, t) ELSE held[<<t, p>>] = {}
  BY <1>1, ApplyFacts, CallFacts
<1>3. /\ Cardinality(held[<<"newnode", p>>]) = NodeBlocks
      /\ Cardinality(held[<<"newkey", p>>]) = KeyBlocks[k]
      /\ Cardinality(held[<<"val", p>>]) = ValBlocks[v]
      /\ held[<<"copy", p>>] = {}
  BY <1>2 DEF Converted, Applied, Temporaries, Need
<1>4. \A u \in NodeParts : held[<<u, k>>] = {}
  BY <1>2 DEF IInv, NodesExact
<1>5. /\ \A t \in Temporaries : <<t, p>> \in Owners
      /\ \A j \in Keys, u \in NodeParts : <<u, j>> \in Owners
      /\ \A q \in Procs : <<"result", q>> \in Owners
  BY DEF Owners
<1>6. /\ held'[<<"node", k>>] = held[<<"newnode", p>>]
      /\ held'[<<"nkey", k>>] = held[<<"newkey", p>>]
      /\ held'[<<"nval", k>>] = held[<<"val", p>>]
      /\ \A o \in Owners : o \notin {<<"node", k>>, <<"nkey", k>>, <<"nval", k>>}
            => held'[o] = Cleared(p)[o]
  BY <1>1, <1>2, <1>5, ClearedFacts DEF NodeParts
<1> HIDE DEF k, v
<1>7. held' \in [Owners -> SUBSET Blocks]
  BY <1>1, <1>5, ClearedFacts DEF IInv, TypeOK, Temporaries
<1>8. used' \subseteq Blocks /\ dict' \in [Keys -> Vals \cup {NoVal}]
  BY <1>1, <1>2 DEF IInv, TypeOK
<1>9. \A q \in Procs, t \in Temporaries : held'[<<t, q>>] = IF q = p THEN {} ELSE held[<<t, q>>]
  <2>1. \A q \in Procs, t \in Temporaries :
           <<t, q>> \in Owners /\ <<t, q>> \notin {<<"node", k>>, <<"nkey", k>>, <<"nval", k>>}
    BY DEF Owners, Temporaries
  <2>2. \A q \in Procs, t \in Temporaries : Cleared(p)[<<t, q>>] = IF q = p THEN {} ELSE held[<<t, q>>]
    BY ClearedFacts
  <2> QED BY <1>6, <2>1, <2>2
<1>10. BlocksExact'
  <2>1. from \in [S -> Owners]
    BY <1>5 DEF Temporaries
  <2>2. \A s, r \in S : from[s] = from[r] => s = r
    BY DEF Temporaries
  <2>3. \A o \in Owners : held'[o] = IF o \in S THEN held[from[o]] ELSE {}
    <3> SUFFICES ASSUME NEW o \in Owners PROVE held'[o] = IF o \in S THEN held[from[o]] ELSE {}
      OBVIOUS
    <3>1. CASE o \in {<<"node", k>>, <<"nkey", k>>, <<"nval", k>>}
      BY <3>1, <1>6 DEF Temporaries
    <3>2. CASE o \notin {<<"node", k>>, <<"nkey", k>>, <<"nval", k>>} /\ o \in S
      BY <3>2, <1>6, ClearedFacts
    <3>3. CASE o \notin {<<"node", k>>, <<"nkey", k>>, <<"nval", k>>} /\ o \notin S
      BY <3>3, <1>6, ClearedFacts
    <3> QED BY <3>1, <3>2, <3>3
  <2>4. \A s \in S : from[s] # <<"key", p>>
    BY DEF Temporaries
  <2>5. \A s \in S : held[from[s]] \subseteq used'
    <3>1. \A o \in Owners : o # <<"key", p>> => held[o] \subseteq used'
      BY <1>1, <1>5 DEF IInv, BlocksExact, Temporaries
    <3> QED BY <2>1, <2>4, <3>1
  <2>6. \A o \in Owners : (\E s \in S : from[s] = o) \/ held[o] \cap used' = {}
    <3> SUFFICES ASSUME NEW o \in Owners, \A s \in S : from[s] # o
                 PROVE  held[o] \cap used' = {}
      OBVIOUS
    <3>1. CASE o \in S
      <4>1. o \in {<<"node", k>>, <<"nkey", k>>, <<"nval", k>>}
        BY <3>1
      <4> QED BY <4>1, <1>4 DEF NodeParts
    <3>2. CASE o \notin S
      <4>1. PICK t \in Temporaries : o = <<t, p>>
        BY <3>2
      <4>2. /\ <<"node", k>> \in S /\ from[<<"node", k>>] = <<"newnode", p>>
            /\ <<"nkey", k>> \in S /\ from[<<"nkey", k>>] = <<"newkey", p>>
            /\ <<"nval", k>> \in S /\ from[<<"nval", k>>] = <<"val", p>>
        BY <1>2, <1>5 DEF NodeParts, Temporaries, k
      <4>3. t \in {"key", "copy"}
        BY <4>1, <4>2 DEF Temporaries
      <4> QED BY <4>1, <4>3, <1>1, <1>3
    <3> QED BY <3>1, <3>2
  <2>7. BlocksExact /\ used' \subseteq used /\ S \in SUBSET Owners
    BY <1>1 DEF IInv
  <2> HIDE DEF S, from
  <2> QED BY <2>1, <2>2, <2>3, <2>5, <2>6, <2>7, HandOver
<1>11. NodesExact'
  <2>1. \A j \in Keys : dict'[j] = IF j = k THEN v ELSE dict[j]
    BY <1>1 DEF IInv, TypeOK
  <2>3. \A j \in Keys \ {k}, u \in NodeParts : held'[<<u, j>>] = held[<<u, j>>]
    <3> SUFFICES ASSUME NEW j \in Keys \ {k}, NEW u \in NodeParts
                 PROVE  held'[<<u, j>>] = held[<<u, j>>]
      OBVIOUS
    <3>1. Cleared(p)[<<u, j>>] = held[<<u, j>>] /\ <<u, j>> \in Owners
      BY ClearedFacts
    <3>2. <<u, j>> \notin {<<"node", k>>, <<"nkey", k>>, <<"nval", k>>}
      OBVIOUS
    <3> QED BY <1>6, <3>1, <3>2
  <2>4. v # NoVal /\ NodesExact
    BY <1>2, SharedMapAssumption DEF IInv, v
  <2>5. ValBlocks[v] \in Nat
    BY <1>2, SharedMapAssumption DEF v
  <2> SUFFICES ASSUME NEW j \in Keys
               PROVE  IF dict'[j] # NoVal
                      THEN /\ Cardinality(held'[<<"node", j>>]) = NodeBlocks
                           /\ Cardinality(held'[<<"nkey", j>>]) = KeyBlocks[j]
                           /\ Cardinality(held'[<<"nval", j>>]) >= ValBlocks[dict'[j]]
                      ELSE \A t \in NodeParts : held'[<<t, j>>] = {}
    BY DEF NodesExact, Present
  <2>6. CASE j = k
    BY <2>6, <1>3, <1>6, <2>1, <2>4, <2>5
  <2>7. CASE j # k
    <3>1. dict'[j] = dict[j] /\ \A u \in NodeParts : held'[<<u, j>>] = held[<<u, j>>]
      BY <2>7, <2>1, <2>3
    <3> QED BY <3>1, <2>4 DEF NodesExact, Present, NodeParts
  <2> QED BY <2>6, <2>7
<1>12. \A q \in Procs : held'[<<"result", q>>] = held[<<"result", q>>]
  BY <1>5, <1>6, ClearedFacts
<1> QED BY <1>1, <1>2, <1>7, <1>8, <1>9, <1>10, <1>11, <1>12, LeaveKeeps

\* The runs are finite, and one of size 0 has no block.
LEMMA HeldFinite ==
  ASSUME IInv, NEW o \in Owners
  PROVE  IsFiniteSet(held[o]) /\ (Cardinality(held[o]) = 0 => held[o] = {})
<1>1. held[o] \in SUBSET (1..NumBlocks) /\ IsFiniteSet(1..NumBlocks)
  BY FS_Interval, SharedMapAssumption DEF IInv, TypeOK, Blocks
<1>2. IsFiniteSet(held[o])
  BY <1>1, FS_Subset
<1> QED BY <1>2, FS_EmptySet

\* One run changes hands: owner "to" gets the run of p's temporary t, and that of the
\* key and what "to" had are given back, the other temporaries being empty.
LEMMA GiveRun ==
  ASSUME IInv, NEW p \in Procs, NEW t \in Temporaries \ {"key"}, NEW to \in Owners,
         to[1] \notin Temporaries,
         \A u \in Temporaries \ {"key", t} : held[<<u, p>>] = {},
         \A o \in Owners : held'[o] = IF o = to THEN held[<<t, p>>] ELSE Cleared(p)[o],
         used' = used \ (held[<<"key", p>>] \cup held[to])
  PROVE  BlocksExact'
<1> DEFINE S == {o \in Owners : ~\E u \in Temporaries : o = <<u, p>>}
           from == [o \in S |-> IF o = to THEN <<t, p>> ELSE o]
<1>1. \A u \in Temporaries : <<u, p>> \in Owners
  BY DEF Owners
<1>2. to \in S
  OBVIOUS
<1>3. from \in [S -> Owners]
  BY <1>1
<1>4. \A s, r \in S : from[s] = from[r] => s = r
  OBVIOUS
<1>5. \A o \in Owners : held'[o] = IF o \in S THEN held[from[o]] ELSE {}
  <2> SUFFICES ASSUME NEW o \in Owners PROVE held'[o] = IF o \in S THEN held[from[o]] ELSE {}
    OBVIOUS
  <2>1. CASE o = to
    BY <2>1, <1>2
  <2>2. CASE o # to /\ o \in S
    BY <2>2, ClearedFacts
  <2>3. CASE o # to /\ o \notin S
    BY <2>3, ClearedFacts
  <2> QED BY <2>1, <2>2, <2>3
<1>6. BlocksExact
  BY DEF IInv
<1>7. <<"key", p>> \in Owners
  BY <1>1 DEF Temporaries
<1>8. \A s \in S : from[s] # <<"key", p>> /\ from[s] # to
  BY <1>2 DEF Temporaries
<1>9. \A s \in S : held[from[s]] \subseteq used'
  <2>1. \A o \in Owners : o # <<"key", p>> /\ o # to => held[o] \subseteq used'
    BY <1>6, <1>7 DEF BlocksExact
  <2> QED BY <1>3, <1>8, <2>1
<1>10. \A o \in Owners : (\E s \in S : from[s] = o) \/ held[o] \cap used' = {}
  <2> SUFFICES ASSUME NEW o \in Owners, \A s \in S : from[s] # o
               PROVE  held[o] \cap used' = {}
    OBVIOUS
  <2>1. CASE o \in S
    <3>1. o = to
      BY <2>1
    <3> QED BY <3>1
  <2>2. CASE o \notin S
    <3>1. PICK u \in Temporaries : o = <<u, p>>
      BY <2>2
    <3>2. u # t
      BY <1>2, <3>1
    <3>3. held[o] = {} \/ o = <<"key", p>>
      BY <3>1, <3>2
    <3> QED BY <3>3
  <2> QED BY <2>1, <2>2
<1>11. used' \subseteq used /\ S \in SUBSET Owners
  OBVIOUS
<1> HIDE DEF S, from
<1> QED BY <1>3, <1>4, <1>5, <1>6, <1>9, <1>10, <1>11, HandOver

LEMMA AtKeeps ==
  ASSUME IInv, NEW p \in Procs, At(p)
  PROVE  IInv'
<1> DEFINE to == <<"result", p>>
<1>1. /\ Applying(p, "at") /\ used' = used \ held[<<"key", p>>] /\ dict' = dict
      /\ held' = [Cleared(p) EXCEPT ![to] = held[<<"copy", p>>]]
      /\ \E a : Leave(p, a)
  BY DEF At
<1>2. /\ Inside(p) /\ call[p].name = "at"
      /\ \A t \in Temporaries :
            IF t \in Converted(call[p]) \cup Applied(call[p])
            THEN Cardinality(held[<<t, p>>]) = Need(p, t) ELSE held[<<t, p>>] = {}
  BY <1>1, ApplyFacts
<1>3. \A t \in Temporaries \ {"key", "copy"} : held[<<t, p>>] = {}
  BY <1>2 DEF Converted, Applied
<1>4. held[to] = {}
  BY <1>2 DEF IInv, Local, ResultFree
<1>5. to \in Owners /\ to[1] \notin Temporaries /\ "copy" \in Temporaries \ {"key"} /\ <<"copy", p>> \in Owners
  BY DEF Owners, Temporaries
<1>6. \A o \in Owners : held'[o] = IF o = to THEN held[<<"copy", p>>] ELSE Cleared(p)[o]
  BY <1>1, <1>5, ClearedFacts
<1>7. held' \in [Owners -> SUBSET Blocks]
  BY <1>1, <1>5, ClearedFacts DEF IInv, TypeOK
<1>8. used' = used \ (held[<<"key", p>>] \cup held[to])
  BY <1>1, <1>4
<1>9. BlocksExact'
  BY <1>3, <1>5, <1>6, <1>8, GiveRun
<1>10. NodesExact'
  <2>1. \A k \in Keys, u \in NodeParts : <<u, k>> \in Owners /\ <<u, k>> # to
    BY DEF Owners, NodeParts
  <2>2. \A k \in Keys, u \in NodeParts : Cleared(p)[<<u, k>>] = held[<<u, k>>]
    <3> SUFFICES ASSUME NEW k \in Keys, NEW u \in NodeParts PROVE Cleared(p)[<<u, k>>] = held[<<u, k>>]
      OBVIOUS
    <3> QED BY ClearedFacts
  <2>3. \A k \in Keys, u \in NodeParts : held'[<<u, k>>] = held[<<u, k>>]
    BY <1>6, <2>1, <2>2
  <2> QED BY <1>1, <2>3, NodesKept
<1>11. \A q \in Procs, t \in Temporaries : held'[<<t, q>>] = IF q = p THEN {} ELSE held[<<t, q>>]
  <2>1. \A q \in Procs, t \in Temporaries : <<t, q>> \in Owners /\ <<t, q>> # to
    BY DEF Owners, Temporaries
  <2>2. \A q \in Procs, t \in Temporaries : Cleared(p)[<<t, q>>] = IF q = p THEN {} ELSE held[<<t, q>>]
    BY ClearedFacts
  <2> QED BY <1>6, <2>1, <2>2
<1>12. \A q \in Procs \ {p} : held'[<<"result", q>>] = held[<<"result", q>>]
  <2>1. \A q \in Procs \ {p} : <<"result", q>> \in Owners /\ <<"result", q>> # to
    BY DEF Owners
  <2> QED BY <1>6, <2>1, ClearedFacts
<1>13. used' \subseteq Blocks /\ dict' \in [Keys -> Vals \cup {NoVal}]
  BY <1>1 DEF IInv, TypeOK
<1> QED BY <1>1, <1>2, <1>7, <1>9, <1>10, <1>11, <1>12, <1>13, LeaveKeeps

\* Owners lose their runs, which are no longer marked, and nothing else changes.
LEMMA GiveBack ==
  ASSUME BlocksExact, NEW S \in SUBSET Owners,
         \A o \in Owners : held'[o] = IF o \in S THEN {} ELSE held[o],
         used' \subseteq used,
         \A o \in S : held[o] \cap used' = {},
         \A o \in Owners \ S : held[o] \subseteq used'
  PROVE  BlocksExact'
<1>1. \A a, b \in Owners : a # b => held'[a] \cap held'[b] = {}
  BY DEF BlocksExact
<1>2. ASSUME NEW b \in used' PROVE \E o \in Owners : b \in held'[o]
  BY <1>2 DEF BlocksExact
<1>3. ASSUME NEW o \in Owners, NEW b \in held'[o] PROVE b \in used'
  BY <1>3
<1> QED BY <1>1, <1>2, <1>3 DEF BlocksExact

\* What an update or an erase of k leaves of the nodes.
LEMMA NodesBut ==
  ASSUME IInv, NEW k \in Keys,
         \A j \in Keys \ {k} : dict'[j] = dict[j],
         \A j \in Keys \ {k}, u \in NodeParts : held'[<<u, j>>] = held[<<u, j>>],
         IF dict'[k] # NoVal
         THEN /\ Cardinality(held'[<<"node", k>>]) = NodeBlocks
              /\ Cardinality(held'[<<"nkey", k>>]) = KeyBlocks[k]
              /\ Cardinality(held'[<<"nval", k>>]) >= ValBlocks[dict'[k]]
         ELSE \A t \in NodeParts : held'[<<t, k>>] = {}
  PROVE  NodesExact'
<1> SUFFICES ASSUME NEW j \in Keys
             PROVE  IF dict'[j] # NoVal
                    THEN /\ Cardinality(held'[<<"node", j>>]) = NodeBlocks
                         /\ Cardinality(held'[<<"nkey", j>>]) = KeyBlocks[j]
                         /\ Cardinality(held'[<<"nval", j>>]) >= ValBlocks[dict'[j]]
                    ELSE \A t \in NodeParts : held'[<<t, j>>] = {}
  BY DEF NodesExact, Present
<1>1. CASE j = k
  BY <1>1
<1>2. CASE j # k
  <2>1. dict'[j] = dict[j] /\ \A u \in NodeParts : held'[<<u, j>>] = held[<<u, j>>]
    BY <1>2
  <2> QED BY <2>1 DEF IInv, NodesExact, Present, NodeParts
<1> QED BY <1>1, <1>2

LEMMA UpdateKeeps ==
  ASSUME IInv, NEW p \in Procs, Update(p)
  PROVE  IInv'
<1> DEFINE k == call[p].key
           v == call[p].val
           to == <<"nval", k>>
           moved == ValBlocks[v] > 0
<1>1. /\ Applying(p, "update") /\ Leave(p, [flag |-> TRUE])
      /\ used' = used \ (held[<<"key", p>>] \cup IF moved THEN held[to] ELSE {})
      /\ dict' = [dict EXCEPT ![k] = v]
      /\ held' = [Cleared(p) EXCEPT ![to] = IF moved THEN held[<<"val", p>>] ELSE @]
  BY DEF Update
<1>2. /\ Inside(p) /\ call[p] \in Abstract!Calls /\ call[p].name = "update"
      /\ k \in Keys /\ k \in Present /\ v \in Vals
      /\ \A t \in Temporaries :
            IF t \in Converted(call[p]) \cup Applied(call[p])
            THEN Cardinality(held[<<t, p>>]) = Need(p, t) ELSE held[<<t, p>>] = {}
  BY <1>1, ApplyFacts, CallFacts
<1>3. /\ Cardinality(held[<<"val", p>>]) = ValBlocks[v] /\ ValBlocks[v] \in Nat
      /\ \A t \in Temporaries \ {"key", "val"} : held[<<t, p>>] = {}
  BY <1>2, SharedMapAssumption DEF Converted, Applied, Temporaries, Need
<1>4. /\ to \in Owners /\ to[1] \notin Temporaries /\ "val" \in Temporaries \ {"key"}
      /\ <<"val", p>> \in Owners /\ <<"key", p>> \in Owners /\ <<"node", k>> \in Owners /\ <<"nkey", k>> \in Owners
  BY <1>2 DEF Owners, Temporaries, NodeParts
<1> HIDE DEF k, v
<1>5. Cleared(p)[to] = held[to]
  <2>1. k \in Keys /\ "nval" \in NodeParts
    BY <1>2 DEF k, NodeParts
  <2> QED BY <2>1, ClearedFacts
<1>6. \A o \in Owners : held'[o] = IF o = to /\ moved THEN held[<<"val", p>>] ELSE Cleared(p)[o]
  BY <1>1, <1>4, ClearedFacts
<1>7. held' \in [Owners -> SUBSET Blocks]
  BY <1>1, <1>4, <1>5, ClearedFacts DEF IInv, TypeOK
<1>8. used' \subseteq Blocks /\ dict' \in [Keys -> Vals \cup {NoVal}]
  BY <1>1, <1>2 DEF IInv, TypeOK, v
<1>9. BlocksExact'
  <2>1. CASE moved
    <3>1. \A o \in Owners : held'[o] = IF o = to THEN held[<<"val", p>>] ELSE Cleared(p)[o]
      BY <2>1, <1>6
    <3>2. used' = used \ (held[<<"key", p>>] \cup held[to])
      BY <2>1, <1>1
    <3> QED BY <3>1, <3>2, <1>3, <1>4, GiveRun
  <2>2. CASE ~moved
    <3> DEFINE S == {o \in Owners : \E t \in Temporaries : o = <<t, p>>}
    <3>1. Cardinality(held[<<"val", p>>]) = 0
      BY <2>2, <1>3
    <3>2. held[<<"val", p>>] = {}
      BY <3>1, <1>4, HeldFinite
    <3>3. \A t \in Temporaries \ {"key"} : held[<<t, p>>] = {}
      BY <3>2, <1>3
    <3>4. \A o \in Owners : held'[o] = Cleared(p)[o]
      BY <2>2, <1>6
    <3>5. \A t \in Temporaries : Cleared(p)[<<t, p>>] = {}
      BY ClearedFacts
    <3>6. \A o \in Owners : \/ Cleared(p)[o] = held[o]
                            \/ Cleared(p)[o] = {} /\ \E t \in Temporaries : o = <<t, p>>
      BY ClearedFacts
    <3>7. \A o \in Owners : held'[o] = IF o \in S THEN {} ELSE held[o]
      BY <3>4, <3>5, <3>6
    <3>8. BlocksExact /\ used' = used \ held[<<"key", p>>] /\ S \in SUBSET Owners
      BY <2>2, <1>1 DEF IInv
    <3>9. \A o \in S : held[o] \cap used' = {}
      BY <3>3, <3>8
    <3>10. \A o \in Owners \ S : o # <<"key", p>>
      BY DEF Temporaries
    <3>11. \A o \in Owners \ S : held[o] \subseteq used'
      BY <3>8, <3>10, <1>4 DEF BlocksExact
    <3> HIDE DEF S
    <3> QED BY <3>7, <3>8, <3>9, <3>11, GiveBack
  <2> QED BY <2>1, <2>2
<1>10. NodesExact'
  <2>1. /\ \A j \in Keys \ {k} : dict'[j] = dict[j]
        /\ dict'[k] = v /\ k \in Keys /\ k \in Present
    BY <1>1, <1>2 DEF IInv, TypeOK, k
  <2>2. \A j \in Keys \ {k}, u \in NodeParts : held'[<<u, j>>] = held[<<u, j>>]
    <3> SUFFICES ASSUME NEW j \in Keys \ {k}, NEW u \in NodeParts
                 PROVE  held'[<<u, j>>] = held[<<u, j>>]
      OBVIOUS
    <3>1. Cleared(p)[<<u, j>>] = held[<<u, j>>] /\ <<u, j>> \in Owners
      BY ClearedFacts
    <3>2. <<u, j>> # to
      OBVIOUS
    <3> QED BY <1>6, <3>1, <3>2
  <2>3. held'[<<"node", k>>] = held[<<"node", k>>] /\ held'[<<"nkey", k>>] = held[<<"nkey", k>>]
    <3>1. Cleared(p)[<<"node", k>>] = held[<<"node", k>>] /\ Cleared(p)[<<"nkey", k>>] = held[<<"nkey", k>>]
      <4>1. "node" \in NodeParts /\ "nkey" \in NodeParts
        BY DEF NodeParts
      <4> QED BY <4>1, <2>1, ClearedFacts
    <3>2. <<"node", k>> # to /\ <<"nkey", k>> # to
      OBVIOUS
    <3> QED BY <1>4, <1>6, <3>1, <3>2
  <2>4. /\ Cardinality(held[<<"node", k>>]) = NodeBlocks
        /\ Cardinality(held[<<"nkey", k>>]) = KeyBlocks[k]
    BY <2>1 DEF IInv, NodesExact
  <2>5. Cardinality(held'[to]) >= ValBlocks[v]
    <3>1. CASE moved
      BY <3>1, <1>3, <1>4, <1>6
    <3>2. CASE ~moved
      <4>1. held'[to] = held[to]
        BY <3>2, <1>4, <1>5, <1>6
      <4>2. IsFiniteSet(held[to])
        BY <1>4, HeldFinite
      <4>3. Cardinality(held[to]) \in Nat
        BY <4>2, FS_CardinalityType
      <4> QED BY <4>1, <4>3, <3>2, <1>3
    <3> QED BY <3>1, <3>2
  <2>6. v # NoVal
    BY <1>2, SharedMapAssumption DEF v
  <2> QED BY <2>1, <2>2, <2>3, <2>4, <2>5, <2>6, NodesBut
<1>11. \A q \in Procs, t \in Temporaries : held'[<<t, q>>] = IF q = p THEN {} ELSE held[<<t, q>>]
  <2>1. \A q \in Procs, t \in Temporaries : <<t, q>> \in Owners /\ <<t, q>> # to
    BY DEF Owners, Temporaries
  <2>2. \A q \in Procs, t \in Temporaries : Cleared(p)[<<t, q>>] = IF q = p THEN {} ELSE held[<<t, q>>]
    BY ClearedFacts
  <2> QED BY <1>6, <2>1, <2>2
<1>12. \A q \in Procs : held'[<<"result", q>>] = held[<<"result", q>>]
  <2>1. \A q \in Procs : <<"result", q>> \in Owners /\ <<"result", q>> # to
    BY DEF Owners
  <2>2. \A q \in Procs : Cleared(p)[<<"result", q>>] = held[<<"result", q>>]
    BY ClearedFacts
  <2> QED BY <1>6, <2>1, <2>2
<1> QED BY <1>1, <1>2, <1>7, <1>8, <1>9, <1>10, <1>11, <1>12, LeaveKeeps

LEMMA EraseKeeps ==
  ASSUME IInv, NEW p \in Procs, Erase(p)
  PROVE  IInv'
<1> DEFINE k == call[p].key
           S == {o \in Owners : (\E t \in Temporaries : o = <<t, p>>) \/ (\E u \in NodeParts : o = <<u, k>>)}
<1>1. /\ Applying(p, "erase") /\ Leave(p, [flag |-> TRUE])
      /\ used' = used \ (held[<<"key", p>>] \cup UNION {held[<<t, k>>] : t \in NodeParts})
      /\ dict' = [dict EXCEPT ![k] = NoVal]
      /\ held' = [Cleared(p) EXCEPT ![<<"node", k>>] = {}, ![<<"nkey", k>>] = {}, ![<<"nval", k>>] = {}]
  BY DEF Erase
<1>2. /\ Inside(p) /\ call[p].name = "erase" /\ k \in Keys
      /\ \A t \in Temporaries :
            IF t \in Converted(call[p]) \cup Applied(call[p])
            THEN Cardinality(held[<<t, p>>]) = Need(p, t) ELSE held[<<t, p>>] = {}
  BY <1>1, ApplyFacts
<1>3. \A t \in Temporaries \ {"key"} : held[<<t, p>>] = {}
  BY <1>2 DEF Converted, Applied
<1>4. /\ \A u \in NodeParts : <<u, k>> \in Owners
      /\ <<"key", p>> \in Owners /\ "key" \in Temporaries
  BY <1>2 DEF Owners, Temporaries
<1> HIDE DEF k
<1>5. \A o \in Owners : held'[o] = IF o \in {<<"node", k>>, <<"nkey", k>>, <<"nval", k>>} THEN {}
                                   ELSE Cleared(p)[o]
  BY <1>1, <1>4, ClearedFacts DEF NodeParts
<1>6. held' \in [Owners -> SUBSET Blocks]
  BY <1>1, <1>4, ClearedFacts DEF NodeParts
<1>7. used' \subseteq Blocks /\ dict' \in [Keys -> Vals \cup {NoVal}]
  BY <1>1 DEF IInv, TypeOK
<1>8. BlocksExact'
  <2>1. \A t \in Temporaries : Cleared(p)[<<t, p>>] = {}
    BY ClearedFacts
  <2>2. \A o \in Owners : \/ Cleared(p)[o] = held[o]
                          \/ Cleared(p)[o] = {} /\ \E t \in Temporaries : o = <<t, p>>
    BY ClearedFacts
  <2>3. \A o \in Owners : (\E u \in NodeParts : o = <<u, k>>)
                             <=> o \in {<<"node", k>>, <<"nkey", k>>, <<"nval", k>>}
    BY DEF NodeParts
  <2>4. \A o \in Owners : held'[o] = IF o \in S THEN {} ELSE held[o]
    BY <1>5, <2>1, <2>2, <2>3
  <2>5. BlocksExact /\ used' \subseteq used /\ S \in SUBSET Owners
    BY <1>1 DEF IInv
  <2>6. \A o \in S : held[o] = {} \/ o = <<"key", p>> \/ \E u \in NodeParts : o = <<u, k>>
    BY <1>3
  <2>7. \A o \in S : held[o] \cap used' = {}
    BY <1>1, <2>6
  <2>8. ASSUME NEW o \in Owners \ S PROVE held[o] \subseteq used'
    <3>1. o # <<"key", p>> /\ \A u \in NodeParts : o # <<u, k>>
      BY <1>4
    <3>2. held[o] \subseteq used /\ held[o] \cap held[<<"key", p>>] = {}
      BY <3>1, <1>4, <2>5 DEF BlocksExact
    <3>3. \A u \in NodeParts : held[o] \cap held[<<u, k>>] = {}
      BY <3>1, <1>4, <2>5 DEF BlocksExact
    <3> QED BY <1>1, <3>2, <3>3
  <2> HIDE DEF S
  <2> QED BY <2>4, <2>5, <2>7, <2>8, GiveBack
<1>9. NodesExact'
  <2>1. (\A j \in Keys \ {k} : dict'[j] = dict[j]) /\ dict'[k] = NoVal /\ k \in Keys
    BY <1>1, <1>2 DEF IInv, TypeOK, k
  <2>2. \A j \in Keys \ {k}, u \in NodeParts : held'[<<u, j>>] = held[<<u, j>>]
    <3> SUFFICES ASSUME NEW j \in Keys \ {k}, NEW u \in NodeParts
                 PROVE  held'[<<u, j>>] = held[<<u, j>>]
      OBVIOUS
    <3>1. Cleared(p)[<<u, j>>] = held[<<u, j>>] /\ <<u, j>> \in Owners
      BY ClearedFacts
    <3>2. <<u, j>> \notin {<<"node", k>>, <<"nkey", k>>, <<"nval", k>>}
      OBVIOUS
    <3> QED BY <1>5, <3>1, <3>2
  <2>3. \A u \in NodeParts : held'[<<u, k>>] = {}
    BY <1>4, <1>5 DEF NodeParts
  <2> QED BY <2>1, <2>2, <2>3, NodesBut
<1>10. \A q \in Procs, t \in Temporaries : held'[<<t, q>>] = IF q = p THEN {} ELSE held[<<t, q>>]
  <2>1. \A q \in Procs, t \in Temporaries :
           <<t, q>> \in Owners /\ <<t, q>> \notin {<<"node", k>>, <<"nkey", k>>, <<"nval", k>>}
    BY DEF Owners, Temporaries
  <2>2. \A q \in Procs, t \in Temporaries : Cleared(p)[<<t, q>>] = IF q = p THEN {} ELSE held[<<t, q>>]
    BY ClearedFacts
  <2> QED BY <1>5, <2>1, <2>2
<1>11. \A q \in Procs : held'[<<"result", q>>] = held[<<"result", q>>]
  <2>1. \A q \in Procs : <<"result", q>> \in Owners /\ <<"result", q>> \notin {<<"node", k>>, <<"nkey", k>>, <<"nval", k>>}
    BY DEF Owners
  <2>2. \A q \in Procs : Cleared(p)[<<"result", q>>] = held[<<"result", q>>]
    BY ClearedFacts
  <2> QED BY <1>5, <2>1, <2>2
<1> QED BY <1>1, <1>2, <1>6, <1>7, <1>8, <1>9, <1>10, <1>11, LeaveKeeps

-----------------------------------------------------------------------------
(* Outside the semaphore.                                                  *)

LEMMA ReleaseKeeps ==
  ASSUME IInv, NEW p \in Procs, Release(p)
  PROVE  IInv'
<1> DEFINE o == <<"result", p>>
           b == Min(held[o])
<1>1. o \in Owners /\ held[o] \in SUBSET Nat
  BY SharedMapAssumption DEF Owners, IInv, TypeOK, Blocks
<1>2. /\ pc[p] = "idle" /\ held[o] # {} /\ used' = used \ {b}
      /\ held' = [held EXCEPT ![o] = held[o] \ {b}]
      /\ UNCHANGED <<sem, dict, pc, call, todo, pos, answer>>
  BY DEF Release
<1>3. b \in held[o]
  BY <1>1, <1>2, MinFacts
<1> HIDE DEF b
<1>4. \A a \in Owners : held'[a] = IF a = o THEN held[o] \ {b} ELSE held[a]
  BY <1>1, <1>2 DEF IInv, TypeOK
<1>5. TypeOK' /\ SemExact'
  BY <1>1, <1>2 DEF IInv, TypeOK, SemExact
<1>6. BlocksExact'
  <2>1. \A a, c \in Owners : a # c => held'[a] \cap held'[c] = {}
    BY <1>4 DEF IInv, BlocksExact
  <2>2. \A a \in Owners : a # o => b \notin held[a]
    BY <1>1, <1>3 DEF IInv, BlocksExact
  <2>3. ASSUME NEW x \in used' PROVE \E a \in Owners : x \in held'[a]
    BY <1>2, <1>4, <2>3 DEF IInv, BlocksExact
  <2>4. ASSUME NEW a \in Owners, NEW x \in held'[a] PROVE x \in used'
    BY <1>2, <1>4, <2>2, <2>4 DEF IInv, BlocksExact
  <2> QED BY <2>1, <2>3, <2>4 DEF BlocksExact
<1>7. NodesExact'
  <2>1. \A k \in Keys, u \in NodeParts : <<u, k>> \in Owners /\ <<u, k>> # o
    BY DEF Owners, NodeParts
  <2>2. \A k \in Keys, u \in NodeParts : held'[<<u, k>>] = held[<<u, k>>]
    BY <1>4, <2>1
  <2> QED BY <1>2, <2>2, NodesKept
<1>8. \A q \in Procs, t \in Temporaries : held'[<<t, q>>] = held[<<t, q>>]
  <2>1. \A q \in Procs, t \in Temporaries : <<t, q>> \in Owners /\ <<t, q>> # o
    BY DEF Owners, Temporaries
  <2> QED BY <1>4, <2>1
<1>9. Local(p)'
  <2>1. Local(p) /\ pc'[p] = "idle" /\ pc[p] = "idle" /\ call'[p] = Abstract!NoCall
        /\ call[p] = Abstract!NoCall /\ todo' = todo /\ pos' = pos
    BY <1>2 DEF IInv, Local, CallInv
  <2> QED BY <1>8, <2>1 DEF Local, CallInv, TodoInv, FoundInv, TempsExact, FoundRunFree, ResultFree,
                            Inside, Begun, Pending, Abstract!NoCall
<1>10. ASSUME NEW q \in Procs, q # p PROVE Local(q)'
  <2>1. <<"result", q>> \in Owners /\ <<"result", q>> # o
    BY <1>10 DEF Owners
  <2>2. \A t \in Temporaries \cup {"result"} : held'[<<t, q>>] = held[<<t, q>>]
    BY <1>4, <1>8, <2>1
  <2> QED BY <1>2, <2>2, OthersKeep
<1> QED BY <1>5, <1>6, <1>7, <1>9, <1>10 DEF IInv

LEMMA DestroyKeeps ==
  ASSUME IInv, Destroy
  PROVE  IInv'
<1> DEFINE S == {o \in Owners : o[1] \in NodeParts}
<1>1. /\ pc[Parent] = "idle" /\ \A q \in Procs \ {Parent} : pc[q] = "exited"
      /\ dict' = [k \in Keys |-> NoVal]
      /\ used' = used \ UNION {held[o] : o \in NodeParts \X Keys}
      /\ held' = [o \in Owners |-> IF o[1] \in NodeParts THEN {} ELSE held[o]]
      /\ pc' = [pc EXCEPT ![Parent] = "exited"]
      /\ UNCHANGED <<sem, call, todo, pos, answer>> /\ Parent \in Procs
  BY SharedMapAssumption DEF Destroy
<1>2. S = NodeParts \X Keys
  BY DEF Owners, NodeParts, Temporaries
<1>3. \A o \in Owners : held'[o] = IF o \in S THEN {} ELSE held[o]
  BY <1>1
<1>4. TypeOK' /\ SemExact'
  BY <1>1 DEF IInv, TypeOK, SemExact
<1>5. BlocksExact'
  <2>1. BlocksExact /\ used' \subseteq used /\ S \in SUBSET Owners
    BY <1>1 DEF IInv
  <2>2. \A o \in S : held[o] \cap used' = {}
    BY <1>1, <1>2
  <2>3. ASSUME NEW o \in Owners \ S PROVE held[o] \subseteq used'
    <3>1. \A r \in S : held[o] \cap held[r] = {}
      BY <2>1 DEF BlocksExact
    <3>2. held[o] \subseteq used
      BY <2>1 DEF BlocksExact
    <3> QED BY <1>1, <1>2, <3>1, <3>2
  <2> HIDE DEF S
  <2> QED BY <1>3, <2>1, <2>2, <2>3, GiveBack
<1>6. NodesExact'
  <2>1. \A k \in Keys, u \in NodeParts : held'[<<u, k>>] = {}
    BY <1>2, <1>3
  <2> QED BY <1>1, <2>1 DEF NodesExact, Present
<1>7. \A q \in Procs, t \in Temporaries \cup {"result"} : held'[<<t, q>>] = held[<<t, q>>]
  <2>1. \A q \in Procs, t \in Temporaries \cup {"result"} : <<t, q>> \in Owners /\ <<t, q>> \notin S
    BY DEF Owners, Temporaries, NodeParts
  <2> QED BY <1>3, <2>1
<1>8. Local(Parent)'
  <2>1. /\ Local(Parent) /\ pc'[Parent] = "exited" /\ pc[Parent] = "idle" /\ call' = call
        /\ todo' = todo /\ pos' = pos
    BY <1>1 DEF IInv, TypeOK
  <2>2. \A t \in Temporaries \cup {"result"} : held'[<<t, Parent>>] = held[<<t, Parent>>]
    BY <1>1, <1>7
  <2> QED BY <2>1, <2>2 DEF Local, CallInv, TodoInv, FoundInv, TempsExact, FoundRunFree, ResultFree,
                            Inside, Begun
<1>9. ASSUME NEW q \in Procs, q # Parent PROVE Local(q)'
  <2>1. pc'[q] = pc[q] /\ sem # q
    BY <1>1, <1>9 DEF IInv, TypeOK, SemExact
  <2> QED BY <1>1, <1>7, <2>1, OthersKeep
<1> QED BY <1>4, <1>5, <1>6, <1>8, <1>9 DEF IInv

-----------------------------------------------------------------------------

\* Every step keeps the inductive invariant.
LEMMA NextKeeps == IInv /\ [Next]_vars => IInv'
<1> SUFFICES ASSUME IInv, [Next]_vars PROVE IInv'
  OBVIOUS
<1>1. CASE UNCHANGED vars
  <2>1. TypeOK' /\ SemExact' /\ BlocksExact' /\ NodesExact'
    BY <1>1, BlocksKept DEF vars, IInv, TypeOK, SemExact
  <2>2. ASSUME NEW q \in Procs PROVE Local(q)'
    BY <1>1, OthersKeep DEF vars
  <2> QED BY <2>1, <2>2 DEF IInv
<1>2. ASSUME NEW p \in Procs, Call(p) \/ Step(p) \/ Release(p) \/ Exit(p) PROVE IInv'
  BY <1>2, CallKeeps, EnterKeeps, FindKeeps, MarkKeeps, LookupKeeps, InsertKeeps, UpdateKeeps,
     AtKeeps, EraseKeeps, ReleaseKeeps, ExitKeeps DEF Step
<1>3. CASE Destroy
  BY <1>3, DestroyKeeps
<1> QED BY <1>1, <1>2, <1>3 DEF Next

\* The inductive invariant holds for every number of processes, keys, values and
\* blocks.
THEOREM Invariance == Spec => []IInv
BY InitInv, NextKeeps, PTL DEF Spec

\* The variables keep their types, positions in the table among them.
THEOREM TypeCorrect == Spec => []TypeOK
<1>1. IInv => TypeOK
  BY DEF IInv
<1> QED BY <1>1, Invariance, PTL

\* The allocator hands no block out twice and loses none (ShAlloc): the table marks
\* exactly the blocks that have an owner, and no block has two.
THEOREM BlocksAlwaysExact == Spec => []BlocksExact
<1>1. IInv => BlocksExact
  BY DEF IInv
<1> QED BY <1>1, Invariance, PTL

\* A key has its node and strings exactly when it is in the map.
THEOREM NodesAlwaysExact == Spec => []NodesExact
<1>1. IInv => NodesExact
  BY DEF IInv
<1> QED BY <1>1, Invariance, PTL

\* SemLock's semaphore is taken exactly by the process inside a method.
THEOREM SemAlwaysExact == Spec => []SemExact
<1>1. IInv => SemExact
  BY DEF IInv
<1> QED BY <1>1, Invariance, PTL

-----------------------------------------------------------------------------
(* SharedMap implements AtomicMap.                                         *)

\* A call in progress that leaves with a, having changed the map to d, is a Return
\* of AtomicMap, if d and a are what the dictionary says.
LEMMA LeaveReturns ==
  ASSUME IInv, NEW p \in Procs, NEW a, Inside(p), Leave(p, a),
         a = Abstract!Answer(call[p]), dict' = Abstract!Effect(call[p])
  PROVE  Abstract!Next
<1>1. call[p] # Abstract!NoCall
  BY InsideHolds, CallFacts
<1>2. Abstract!Return(p)
  BY <1>1 DEF Leave, Abstract!Return
<1> QED BY <1>2 DEF Abstract!Next

\* A method takes effect at the step that leaves it, with what its lookup found.
LEMMA StepMaps ==
  ASSUME IInv, NEW p \in Procs, Step(p)
  PROVE  Abstract!Next \/ UNCHANGED Abstract!mapvars
<1> USE DEF Abstract!mapvars
<1> DEFINE c == call[p]
<1>1. CASE Enter(p) \/ Mark(p)
  BY <1>1 DEF Enter, Mark
<1>2. CASE Find(p)
  <2>1. Inside(p)
    BY <1>2 DEF Find, Inside
  <2>2. c # Abstract!NoCall
    BY <2>1, InsideHolds, CallFacts
  <2>3. CASE Unwind(p, [thrown |-> "bad_alloc"])
    <3>1. Abstract!BadAlloc(p)
      BY <2>2, <2>3 DEF Unwind, Leave, Abstract!BadAlloc
    <3> QED BY <3>1 DEF Abstract!Next
  <2> QED BY <1>2, <2>3 DEF Find
<1>3. CASE Lookup(p)
  <2>1. Inside(p) /\ c \in Abstract!Calls
    BY <1>3, InsideHolds DEF Lookup, Inside
  <2>2. CASE /\ \/ c.name \in {"size", "count"}
                \/ c.name = "insert" /\ c.key \in Present
                \/ c.name \in {"update", "erase", "at"} /\ c.key \notin Present
             /\ Unwind(p, Abstract!Answer(c))
    <3>1. Leave(p, Abstract!Answer(c)) /\ dict' = dict
      BY <2>2 DEF Unwind
    <3>2. Abstract!Effect(c) = dict
      <4>1. CASE c.name = "erase"
        <5>1. c.key \in Keys /\ c.key \notin Present
          BY <4>1, <2>1, <2>2, CallFacts
        <5>2. dict[c.key] = NoVal /\ dict \in [Keys -> Vals \cup {NoVal}]
          BY <5>1 DEF Present, IInv, TypeOK
        <5>3. [dict EXCEPT ![c.key] = NoVal] = dict
          BY <5>1, <5>2
        <5> QED BY <4>1, <5>3 DEF Abstract!Effect
      <4>2. CASE c.name # "erase"
        BY <4>2, <2>2 DEF Abstract!Effect, Abstract!Present, Present
      <4> QED BY <4>1, <4>2
    <3> QED BY <2>1, <3>1, <3>2, LeaveReturns
  <2>3. CASE UNCHANGED <<sem, used, held, dict, call, pos, answer>>
    BY <2>3
  <2> QED BY <1>3, <2>2, <2>3 DEF Lookup
<1>4. CASE Insert(p)
  <2>1. Inside(p) /\ c.name = "insert" /\ c.key \notin Present
    BY <1>4, ApplyFacts DEF Insert
  <2>2. Leave(p, [flag |-> TRUE]) /\ dict' = [dict EXCEPT ![c.key] = c.val]
    BY <1>4 DEF Insert
  <2>3. Abstract!Answer(c) = [flag |-> TRUE] /\ Abstract!Effect(c) = [dict EXCEPT ![c.key] = c.val]
    BY <2>1 DEF Abstract!Answer, Abstract!Effect, Abstract!Present, Present
  <2> QED BY <2>1, <2>2, <2>3, LeaveReturns
<1>5. CASE Update(p)
  <2>1. Inside(p) /\ c.name = "update" /\ c.key \in Present
    BY <1>5, ApplyFacts DEF Update
  <2>2. Leave(p, [flag |-> TRUE]) /\ dict' = [dict EXCEPT ![c.key] = c.val]
    BY <1>5 DEF Update
  <2>3. Abstract!Answer(c) = [flag |-> TRUE] /\ Abstract!Effect(c) = [dict EXCEPT ![c.key] = c.val]
    BY <2>1 DEF Abstract!Answer, Abstract!Effect, Abstract!Present, Present
  <2> QED BY <2>1, <2>2, <2>3, LeaveReturns
<1>6. CASE At(p)
  <2>1. Inside(p) /\ c.name = "at" /\ c.key \in Present
    BY <1>6, ApplyFacts DEF At
  <2>2. Leave(p, [val |-> dict[c.key]]) /\ dict' = dict
    BY <1>6 DEF At
  <2>3. Abstract!Answer(c) = [val |-> dict[c.key]] /\ Abstract!Effect(c) = dict
    BY <2>1 DEF Abstract!Answer, Abstract!Effect, Abstract!Present, Present
  <2> QED BY <2>1, <2>2, <2>3, LeaveReturns
<1>7. CASE Erase(p)
  <2>1. Inside(p) /\ c.name = "erase" /\ c.key \in Present
    BY <1>7, ApplyFacts DEF Erase
  <2>2. Leave(p, [flag |-> TRUE]) /\ dict' = [dict EXCEPT ![c.key] = NoVal]
    BY <1>7 DEF Erase
  <2>3. Abstract!Answer(c) = [flag |-> TRUE] /\ Abstract!Effect(c) = [dict EXCEPT ![c.key] = NoVal]
    BY <2>1 DEF Abstract!Answer, Abstract!Effect, Abstract!Present, Present
  <2> QED BY <2>1, <2>2, <2>3, LeaveReturns
<1> QED BY <1>1, <1>2, <1>3, <1>4, <1>5, <1>6, <1>7 DEF Step

\* The shared map is linearizable: every behaviour of the processes, the allocator and
\* the semaphore is one of the atomic dictionary of AtomicMap.
THEOREM Refinement == Spec => Linearizable
<1>1. Init => Abstract!Init
  BY DEF Init, Abstract!Init
<1>2. IInv /\ [Next]_vars => [Abstract!Next]_(Abstract!mapvars)
  <2> SUFFICES ASSUME IInv, [Next]_vars PROVE Abstract!Next \/ UNCHANGED Abstract!mapvars
    OBVIOUS
  <2>1. CASE UNCHANGED vars
    BY <2>1 DEF vars, Abstract!mapvars
  <2>2. ASSUME NEW p \in Procs, Call(p) PROVE Abstract!Next
    <3>1. call[p] = Abstract!NoCall
      BY <2>2 DEF IInv, Local, CallInv, Call
    <3>2. Abstract!Call(p)
      BY <2>2, <3>1 DEF Call, Abstract!Call
    <3> QED BY <3>2 DEF Abstract!Next
  <2>3. ASSUME NEW p \in Procs, Release(p) \/ Exit(p) PROVE UNCHANGED Abstract!mapvars
    BY <2>3 DEF Release, Exit, Abstract!mapvars
  <2>4. CASE Destroy
    BY <2>4 DEF Destroy, Abstract!Destroy, Abstract!Next
  <2> QED BY <2>1, <2>2, <2>3, <2>4, StepMaps DEF Next
<1> QED BY <1>1, <1>2, Invariance, PTL DEF Spec, Linearizable, Abstract!Spec

=============================================================================
