----------------------------- MODULE SharedMap ------------------------------
(***************************************************************************)
(* 4.shmem: shmem::SharedMap, a std::map whose nodes and strings live in   *)
(* an anonymous shared mapping, used by the processes that fork from the   *)
(* one that made it.  The mapping holds the semaphore, the table of used   *)
(* blocks and the blocks; ShAlloc hands out runs of blocks.                *)
(*                                                                         *)
(* Every allocated run has one owner: a node of the map, its key string,   *)
(* its value string, a temporary of a call in progress, or the string a    *)
(* call of at() has returned.  The methods run under the semaphore; the    *)
(* returned string is destroyed by the caller, without it.                 *)
(***************************************************************************)
EXTENDS Integers, Sequences, FiniteSets, FiniteSetsExt

CONSTANTS
    Procs,          \* the processes sharing the map
    Parent,         \* the one that made it and destroys it
    NoProc,         \* the semaphore is free
    Keys, Vals,     \* keys and values
    NoVal,          \* no value: the key is not in the map
    NumBlocks,      \* blocks_count
    NodeBlocks,     \* blocks a node of the map takes
    KeyBlocks,      \* key -> blocks its string takes, 0 if it needs no allocation
    ValBlocks       \* value -> the same

ASSUME SharedMapAssumption ==
    /\ Parent \in Procs /\ NoProc \notin Procs /\ NoVal \notin Vals
    /\ NumBlocks \in Nat /\ NodeBlocks \in Nat \ {0}
    /\ KeyBlocks \in [Keys -> Nat] /\ ValBlocks \in [Vals -> Nat]

Blocks == 1..NumBlocks

\* The parts of the map's nodes, and what a process owns: in a call the
\* temporaries "key" and "val", the new node and its key, and the copy at()
\* makes; after it the copy it was given.
NodeParts == {"node", "nkey", "nval"}
Temporaries == {"key", "val", "newnode", "newkey", "copy"}
Owners == (NodeParts \X Keys) \cup ((Temporaries \cup {"result"}) \X Procs)

VARIABLES
    sem,        \* the process inside the semaphore
    used,       \* used_blocks_table: the blocks marked USED_BLOCK
    held,       \* owner -> the blocks of its run
    dict,       \* the contents of the map
    pc,         \* process -> control
    call,       \* process -> the call it is in
    todo,       \* process -> owners the call still allocates for
    pos,        \* process -> blocks_pos between find and memset, 0 outside
    answer      \* process -> what the last call returned or threw

vars == <<sem, used, held, dict, pc, call, todo, pos, answer>>

Abstract == INSTANCE AtomicMap WITH calling <- call

Present == {k \in Keys : dict[k] # NoVal}

\* SharedMap's constructor.
Init ==
    /\ sem = NoProc /\ used = {}
    /\ held = [o \in Owners |-> {}]
    /\ dict = [k \in Keys |-> NoVal]
    /\ pc = [p \in Procs |-> "idle"]
    /\ call = [p \in Procs |-> Abstract!NoCall]
    /\ todo = [p \in Procs |-> <<>>]
    /\ pos = [p \in Procs |-> 0]
    /\ answer = [p \in Procs |-> Abstract!NoAnswer]

-----------------------------------------------------------------------------
(* The allocator.                                                          *)

\* The run of n blocks at b.
Run(b, n) == b..(b + n - 1)

\* Mutant: the search runs one block past the table.
FreeRuns_PastEnd(n) == {b \in Blocks : b + n - 2 <= NumBlocks /\ Run(b, n) \cap used = {}}

\* find_free_blocks: where n free blocks in a row begin.
FreeRuns(n) == {b \in Blocks : b + n - 1 <= NumBlocks /\ Run(b, n) \cap used = {}}

\* get_size_in_blocks of what temporary t of p's call holds.
Need(p, t) ==
    CASE t \in {"key", "newkey"} -> KeyBlocks[call[p].key]
      [] t = "val"               -> ValBlocks[call[p].val]
      [] t = "newnode"           -> NodeBlocks
      [] t = "copy"              -> ValBlocks[dict[call[p].key]]

HeldBy(p) == UNION {held[<<t, p>>] : t \in Temporaries}

-----------------------------------------------------------------------------
(* The end of a call: the runs in freed and the temporaries are            *)
(* deallocated, the semaphore is posted, the call returns or throws.       *)

\* held without p's temporaries.
Cleared(p) == [o \in Owners |-> IF o[2] = p /\ o[1] \in Temporaries THEN {} ELSE held[o]]

Leave(p, a) ==
    /\ sem' = NoProc
    /\ pc' = [pc EXCEPT ![p] = "idle"]
    /\ call' = [call EXCEPT ![p] = Abstract!NoCall]
    /\ todo' = [todo EXCEPT ![p] = <<>>]
    /\ pos' = [pos EXCEPT ![p] = 0]
    /\ answer' = [answer EXCEPT ![p] = a]

\* The map stays as it is: a lookup, a failed call, or an exception.
Unwind(p, a) ==
    /\ used' = used \ HeldBy(p)
    /\ held' = Cleared(p)
    /\ dict' = dict
    /\ Leave(p, a)

-----------------------------------------------------------------------------
(* A call, step by step.                                                   *)

\* A method is entered and waits for the semaphore.  The caller of at() is
\* done with the string of the call before.
Call(p) ==
    /\ pc[p] = "idle"
    /\ \E c \in Abstract!Calls :
          /\ c.name = "at" => held[<<"result", p>>] = {}
          /\ call' = [call EXCEPT ![p] = c]
    /\ pc' = [pc EXCEPT ![p] = "wait"]
    /\ answer' = [answer EXCEPT ![p] = Abstract!NoAnswer]
    /\ UNCHANGED <<sem, used, held, dict, todo, pos>>

\* SemLock's constructor; then the strings are converted, in C++'s order.
Enter(p) ==
    /\ pc[p] = "wait" /\ sem = NoProc
    /\ sem' = p
    /\ pc' = [pc EXCEPT ![p] = "convert"]
    /\ todo' = [todo EXCEPT ![p] =
          CASE call[p].name = "insert" -> <<"key", "val">>
            [] call[p].name = "update" -> <<"val", "key">>
            [] call[p].name = "size"   -> <<>>
            [] OTHER                   -> <<"key">>]
    /\ UNCHANGED <<used, held, dict, call, pos, answer>>

\* Mutant: bad_alloc leaves the semaphore taken.
Find_NoPost(p) ==
    /\ pc[p] \in {"convert", "apply"} /\ todo[p] # <<>> /\ pos[p] = 0
    /\ LET n == Need(p, Head(todo[p])) IN
       \/ /\ n = 0
          /\ todo' = [todo EXCEPT ![p] = Tail(@)]
          /\ UNCHANGED <<sem, used, held, dict, pc, call, pos, answer>>
       \/ /\ n > 0 /\ FreeRuns(n) # {}
          /\ pos' = [pos EXCEPT ![p] = Min(FreeRuns(n))]
          /\ UNCHANGED <<sem, used, held, dict, pc, call, todo, answer>>
       \/ /\ n > 0 /\ FreeRuns(n) = {}
          /\ pc' = [pc EXCEPT ![p] = "idle"] /\ todo' = [todo EXCEPT ![p] = <<>>]
          /\ used' = used \ HeldBy(p) /\ held' = Cleared(p)
          /\ UNCHANGED <<sem, dict, call, pos, answer>>

\* allocate, up to the search of the table: no run is long enough: bad_alloc.
\* A short string needs no allocation.
Find(p) ==
    /\ pc[p] \in {"convert", "apply"} /\ todo[p] # <<>> /\ pos[p] = 0
    /\ LET n == Need(p, Head(todo[p])) IN
       \/ /\ n = 0
          /\ todo' = [todo EXCEPT ![p] = Tail(@)]
          /\ UNCHANGED <<sem, used, held, dict, pc, call, pos, answer>>
       \/ /\ n > 0 /\ FreeRuns(n) # {}
          /\ pos' = [pos EXCEPT ![p] = Min(FreeRuns(n))]
          /\ UNCHANGED <<sem, used, held, dict, pc, call, todo, answer>>
       \/ /\ n > 0 /\ FreeRuns(n) = {}
          /\ Unwind(p, [thrown |-> "bad_alloc"])

\* allocate's memset.
Mark(p) ==
    /\ pos[p] # 0
    /\ LET t == Head(todo[p])
           run == Run(pos[p], Need(p, t))
       IN  /\ used' = used \cup run
           /\ held' = [held EXCEPT ![<<t, p>>] = run]
    /\ todo' = [todo EXCEPT ![p] = Tail(@)]
    /\ pos' = [pos EXCEPT ![p] = 0]
    /\ UNCHANGED <<sem, dict, pc, call, answer>>

\* std::map finds the key or not.  insert of a new key allocates the node and
\* copies the key, at() copies the value.
Lookup(p) ==
    /\ pc[p] = "convert" /\ todo[p] = <<>>
    /\ LET c == call[p] IN
       \/ /\ \/ c.name \in {"size", "count"}
             \/ c.name = "insert" /\ c.key \in Present
             \/ c.name \in {"update", "erase", "at"} /\ c.key \notin Present
          /\ Unwind(p, Abstract!Answer(c))
       \/ /\ \/ c.name = "insert" /\ c.key \notin Present
             \/ c.name \in {"update", "erase", "at"} /\ c.key \in Present
          /\ pc' = [pc EXCEPT ![p] = "apply"]
          /\ todo' = [todo EXCEPT ![p] = IF c.name = "insert" THEN <<"newnode", "newkey">>
                                         ELSE IF c.name = "at" THEN <<"copy">> ELSE <<>>]
          /\ UNCHANGED <<sem, used, held, dict, call, pos, answer>>

Applying(p, name) == pc[p] = "apply" /\ todo[p] = <<>> /\ call[p].name = name

\* The new node takes the temporary value over.
Insert(p) ==
    LET k == call[p].key IN
    /\ Applying(p, "insert")
    /\ dict' = [dict EXCEPT ![k] = call[p].val]
    /\ held' = [Cleared(p) EXCEPT ![<<"node", k>>] = held[<<"newnode", p>>],
                                  ![<<"nkey", k>>] = held[<<"newkey", p>>],
                                  ![<<"nval", k>>] = held[<<"val", p>>]]
    /\ used' = used \ held[<<"key", p>>]
    /\ Leave(p, [flag |-> TRUE])

\* Mutant: the run of the old value is not deallocated.
Update_Leaks(p) ==
    LET k == call[p].key
        moved == ValBlocks[call[p].val] > 0 IN
    /\ Applying(p, "update")
    /\ dict' = [dict EXCEPT ![k] = call[p].val]
    /\ held' = [Cleared(p) EXCEPT ![<<"nval", k>>] = IF moved THEN held[<<"val", p>>] ELSE @]
    /\ used' = used \ held[<<"key", p>>]
    /\ Leave(p, [flag |-> TRUE])

\* Mutant: a short value does not replace a long one.
Update_SkipsShort(p) ==
    LET k == call[p].key
        moved == ValBlocks[call[p].val] > 0 IN
    /\ Applying(p, "update")
    /\ dict' = IF moved THEN [dict EXCEPT ![k] = call[p].val] ELSE dict
    /\ held' = [Cleared(p) EXCEPT ![<<"nval", k>>] = IF moved THEN held[<<"val", p>>] ELSE @]
    /\ used' = used \ (held[<<"key", p>>] \cup IF moved THEN held[<<"nval", k>>] ELSE {})
    /\ Leave(p, [flag |-> TRUE])

\* Move assignment: a long value brings its run and takes the old one away, a
\* short one is copied into the run that is there.
Update(p) ==
    LET k == call[p].key
        new == held[<<"val", p>>]
        moved == ValBlocks[call[p].val] > 0 IN
    /\ Applying(p, "update")
    /\ dict' = [dict EXCEPT ![k] = call[p].val]
    /\ held' = [Cleared(p) EXCEPT ![<<"nval", k>>] = IF moved THEN new ELSE @]
    /\ used' = used \ (held[<<"key", p>>] \cup IF moved THEN held[<<"nval", k>>] ELSE {})
    /\ Leave(p, [flag |-> TRUE])

\* at() returns the copy.
At(p) ==
    /\ Applying(p, "at")
    /\ held' = [Cleared(p) EXCEPT ![<<"result", p>>] = held[<<"copy", p>>]]
    /\ used' = used \ held[<<"key", p>>]
    /\ dict' = dict
    /\ Leave(p, [val |-> dict[call[p].key]])

\* Mutant: the key string outlives its node.
Erase_LeavesKey(p) ==
    LET k == call[p].key IN
    /\ Applying(p, "erase")
    /\ dict' = [dict EXCEPT ![k] = NoVal]
    /\ held' = [Cleared(p) EXCEPT ![<<"node", k>>] = {}, ![<<"nval", k>>] = {}]
    /\ used' = used \ (held[<<"key", p>>] \cup held[<<"node", k>>] \cup held[<<"nval", k>>])
    /\ Leave(p, [flag |-> TRUE])

\* The node goes with its strings.
Erase(p) ==
    LET k == call[p].key IN
    /\ Applying(p, "erase")
    /\ dict' = [dict EXCEPT ![k] = NoVal]
    /\ held' = [Cleared(p) EXCEPT ![<<"node", k>>] = {}, ![<<"nkey", k>>] = {}, ![<<"nval", k>>] = {}]
    /\ used' = used \ (held[<<"key", p>>] \cup UNION {held[<<t, k>>] : t \in NodeParts})
    /\ Leave(p, [flag |-> TRUE])

\* The caller drops the string at() gave it: deallocate outside the semaphore,
\* its memset reaching one block after the other.
Release(p) ==
    LET run == held[<<"result", p>>] IN
    /\ pc[p] = "idle" /\ run # {}
    /\ used' = used \ {Min(run)}
    /\ held' = [held EXCEPT ![<<"result", p>>] = run \ {Min(run)}]
    /\ UNCHANGED <<sem, dict, pc, call, todo, pos, answer>>

\* A forked process ends.
Exit(p) ==
    /\ p # Parent /\ pc[p] = "idle" /\ held[<<"result", p>>] = {}
    /\ pc' = [pc EXCEPT ![p] = "exited"]
    /\ UNCHANGED <<sem, used, held, dict, call, todo, pos, answer>>

\* destroy, by the parent, which has waited for the others: the nodes are
\* deallocated without the semaphore.
Destroy ==
    /\ pc[Parent] = "idle" /\ held[<<"result", Parent>>] = {}
    /\ \A p \in Procs \ {Parent} : pc[p] = "exited"
    /\ dict' = [k \in Keys |-> NoVal]
    /\ used' = used \ UNION {held[o] : o \in NodeParts \X Keys}
    /\ held' = [o \in Owners |-> IF o[1] \in NodeParts THEN {} ELSE held[o]]
    /\ pc' = [pc EXCEPT ![Parent] = "exited"]
    /\ UNCHANGED <<sem, call, todo, pos, answer>>

Step(p) ==
    \/ Enter(p) \/ Find(p) \/ Mark(p) \/ Lookup(p)
    \/ Insert(p) \/ Update(p) \/ At(p) \/ Erase(p)

Next == (\E p \in Procs : Call(p) \/ Step(p) \/ Release(p) \/ Exit(p)) \/ Destroy

Spec == Init /\ [][Next]_vars

-----------------------------------------------------------------------------
(* Properties.                                                             *)

TypeOK ==
    /\ sem \in Procs \cup {NoProc}
    /\ used \subseteq Blocks
    /\ held \in [Owners -> SUBSET Blocks]
    /\ dict \in [Keys -> Vals \cup {NoVal}]
    /\ pc \in [Procs -> {"idle", "wait", "convert", "apply", "exited"}]
    /\ call \in [Procs -> Abstract!Calls \cup {Abstract!NoCall}]
    /\ todo \in [Procs -> Seq(Temporaries)]
    /\ pos \in [Procs -> 0..NumBlocks]

\* No block belongs to two owners, and the table marks exactly the blocks that
\* belong to one: nothing is handed out twice, nothing is lost, though the
\* results of at() are freed while another process allocates, and whichever
\* call runs out of memory half way.
BlocksExact ==
    /\ \A a \in Owners : held[a] # {} =>
          \A b \in Owners : a # b => held[a] \cap held[b] = {}
    /\ used = UNION {held[o] : o \in Owners}

\* A key has a node and strings of the right size exactly when it is in the map.
NodesExact ==
    \A k \in Keys :
        IF k \in Present
        THEN /\ Cardinality(held[<<"node", k>>]) = NodeBlocks
             /\ Cardinality(held[<<"nkey", k>>]) = KeyBlocks[k]
             /\ Cardinality(held[<<"nval", k>>]) >= ValBlocks[dict[k]]
        ELSE \A t \in NodeParts : held[<<t, k>>] = {}

\* Calls take effect at one instant, answer what the map says at that instant,
\* and leave it alone when they throw.
Linearizable == Abstract!Spec

\* The semaphore is taken exactly while one process is inside a method, by that
\* process: no two are, and every return and every exception posts it (SemLock).
SemExact ==
    \A p \in Procs : sem = p <=> pc[p] \in {"convert", "apply"}

-----------------------------------------------------------------------------
(* The inductive invariant.                                                *)

\* The temporaries a call makes while it converts its arguments, and after the
\* lookup.
Converted(c) ==
    CASE c.name \in {"insert", "update"} -> {"key", "val"}
      [] c.name = "size"                 -> {}
      [] OTHER                           -> {"key"}
Applied(c) ==
    CASE c.name = "insert" -> {"newnode", "newkey"}
      [] c.name = "at"     -> {"copy"}
      [] OTHER             -> {}

Inside(p) == pc[p] \in {"convert", "apply"}

\* Those p's call has begun to make, and those that are still to be made.
Begun(p) ==
    CASE pc[p] = "convert" -> Converted(call[p])
      [] pc[p] = "apply"   -> Converted(call[p]) \cup Applied(call[p])
      [] OTHER             -> {}
Pending(p) == {todo[p][i] : i \in DOMAIN todo[p]}

\* A process is in a call from Call to its return.
CallInv(p) ==
    /\ call[p] = Abstract!NoCall <=> pc[p] \in {"idle", "exited"}
    /\ ~Inside(p) => todo[p] = <<>> /\ pos[p] = 0

\* What is pending belongs to the phase the call is in, and nothing is pending
\* twice.
TodoInv(p) ==
    /\ \A i, j \in DOMAIN todo[p] : todo[p][i] = todo[p][j] => i = j
    /\ pc[p] = "convert" => Pending(p) \subseteq Converted(call[p])
    /\ pc[p] = "apply" => Pending(p) \subseteq Applied(call[p])

\* What the lookup found stays true until the call takes effect.
FoundInv(p) ==
    pc[p] = "apply" =>
        IF call[p].name = "insert" THEN call[p].key \in Keys \ Present
        ELSE call[p].name \in {"update", "erase", "at"} /\ call[p].key \in Present

\* A temporary that has been made has a run of its size, the others have none.
TempsExact(p) ==
    \A t \in Temporaries :
        IF t \in Begun(p) \ Pending(p)
        THEN Cardinality(held[<<t, p>>]) = Need(p, t)
        ELSE held[<<t, p>>] = {}

\* The caller of at() has dropped the string of the call before.
ResultFree(p) == call[p].name = "at" => held[<<"result", p>>] = {}

\* The run that was found is still free when it is marked.
FoundRunFree(p) ==
    pos[p] # 0 => todo[p] # <<>> /\ pos[p] \in FreeRuns(Need(p, Head(todo[p])))

Local(p) ==
    /\ CallInv(p) /\ TodoInv(p) /\ FoundInv(p)
    /\ TempsExact(p) /\ ResultFree(p) /\ FoundRunFree(p)

\* Inductive: blocks, nodes and the semaphore are exact, and so is what every
\* call holds and has found where it is (allocate, deallocate, SemLock).
IInv ==
    /\ TypeOK /\ SemExact /\ BlocksExact /\ NodesExact
    /\ \A p \in Procs : Local(p)

=============================================================================
