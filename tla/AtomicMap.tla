----------------------------- MODULE AtomicMap ------------------------------
(***************************************************************************)
(* What SharedMap (4.shmem) promises its callers: a dictionary shared by   *)
(* several processes.  A call takes effect at one instant between its      *)
(* start and its return, or fails for want of memory and changes nothing.  *)
(***************************************************************************)
EXTENDS FiniteSets

CONSTANTS Procs, Keys, Vals, NoVal

VARIABLES
    dict,       \* key -> value, or NoVal
    calling,    \* process -> the call it is in, or NoCall
    answer      \* process -> what its last call returned or threw; reset by a call

mapvars == <<dict, calling, answer>>

NoCall == [name |-> "none"]
NoAnswer == [none |-> TRUE]
Calls == [name : {"insert", "update"}, key : Keys, val : Vals]
         \cup [name : {"at", "erase", "count"}, key : Keys]
         \cup [name : {"size"}]

Present == {k \in Keys : dict[k] # NoVal}

\* What call c returns in the present dictionary.
Answer(c) ==
    CASE c.name = "size"   -> [num |-> Cardinality(Present)]
      [] c.name = "insert" -> [flag |-> c.key \notin Present]
      [] c.name \in {"erase", "count"} -> [flag |-> c.key \in Present]
      [] c.name = "update" -> IF c.key \in Present THEN [flag |-> TRUE] ELSE [thrown |-> "out_of_range"]
      [] c.name = "at"     -> IF c.key \in Present THEN [val |-> dict[c.key]]
                                                   ELSE [thrown |-> "out_of_range"]

\* What it leaves of the dictionary.
Effect(c) ==
    CASE c.name = "insert" /\ c.key \notin Present -> [dict EXCEPT ![c.key] = c.val]
      [] c.name = "update" /\ c.key \in Present -> [dict EXCEPT ![c.key] = c.val]
      [] c.name = "erase" -> [dict EXCEPT ![c.key] = NoVal]
      [] OTHER -> dict

Init ==
    /\ dict = [k \in Keys |-> NoVal]
    /\ calling = [p \in Procs |-> NoCall]
    /\ answer = [p \in Procs |-> NoAnswer]

Call(p) ==
    /\ calling[p] = NoCall
    /\ \E c \in Calls : calling' = [calling EXCEPT ![p] = c]
    /\ answer' = [answer EXCEPT ![p] = NoAnswer]
    /\ UNCHANGED dict

Return(p) ==
    /\ calling[p] # NoCall
    /\ dict' = Effect(calling[p])
    /\ answer' = [answer EXCEPT ![p] = Answer(calling[p])]
    /\ calling' = [calling EXCEPT ![p] = NoCall]

BadAlloc(p) ==
    /\ calling[p] # NoCall
    /\ answer' = [answer EXCEPT ![p] = [thrown |-> "bad_alloc"]]
    /\ calling' = [calling EXCEPT ![p] = NoCall]
    /\ UNCHANGED dict

\* The last process destroys the map.
Destroy == dict' = [k \in Keys |-> NoVal] /\ UNCHANGED <<calling, answer>>

Next == (\E p \in Procs : Call(p) \/ Return(p) \/ BadAlloc(p)) \/ Destroy

Spec == Init /\ [][Next]_mapvars

=============================================================================
