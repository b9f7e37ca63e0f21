------------------------------ MODULE Process ------------------------------
(***************************************************************************)
(* 1.proc: Process objects of one single-threaded parent and their         *)
(* children, connected by two pipes each.  The children are echo filters   *)
(* (as tr in the tests) that end on end of file, on SIGINT, or whenever  *)
(* they like.  A call that may block is spread over several steps.         *)
(***************************************************************************)
EXTENDS Integers, Sequences, FiniteSets, FiniteSetsExt

CONSTANTS
    Objs,       \* Process objects
    Pids,       \* process ids, reused by the kernel
    MaxFd,      \* size of the parent's descriptor table
    Cap,        \* capacity of a pipe, in units of data
    MaxData     \* bound: units written to a child of each object, and read in a call

ASSUME ProcessAssumption ==
    /\ Objs # {} /\ IsFiniteSet(Objs) /\ Pids \subseteq Nat \ {0} /\ IsFiniteSet(Pids)
    /\ MaxFd \in Nat /\ Cap \in Nat \ {0} /\ MaxData \in [Objs -> Nat]

VARIABLES
    obj,        \* the objects: live, _cpid, _write_to_child, _read_from_child, and
                \* the pipes behind them: to, from; units written and read
    nfds,       \* number of open descriptors of the parent
    child,      \* the children by pid
    call        \* the call the parent is in

vars == <<obj, nfds, child, call>>

NoObj == [live |-> FALSE, cpid |-> -1, in |-> FALSE, out |-> FALSE,
          to |-> <<>>, from |-> <<>>, sent |-> 0, got |-> <<>>]

NoChild == [st |-> "none", of |-> CHOOSE o \in Objs : TRUE, hold |-> 0, inh |-> {}]

Idle == [op |-> "none", o |-> CHOOSE o \in Objs : TRUE, left |-> 0]

Init ==
    /\ obj = [o \in Objs |-> NoObj]
    /\ nfds = 0
    /\ child = [p \in Pids |-> NoChild]
    /\ call = Idle

-----------------------------------------------------------------------------
(* The kernel.                                                             *)

Alive(p) == child[p].st \in {"run", "dying"}
Running(o) == \E p \in Pids : Alive(p) /\ child[p].of = o

\* pipe_in is made without O_CLOEXEC: children forked later keep its write end.
Inherited(o) == \E p \in Pids : Alive(p) /\ child[p].of # o /\ o \in child[p].inh
Writers(o) == obj[o].in \/ \E p \in Pids : Alive(p) /\ o \in child[p].inh

\* The children a pid argument of kill and waitpid stands for.
Named(pid) == {p \in (IF pid = -1 THEN Pids ELSE {pid}) : child[p].st # "none"}

Reap(p) == [child EXCEPT ![p] = NoChild]

\* The descriptors a Process holds; Descriptor::close and set_fd close them.
Valid(d) == IF d THEN 1 ELSE 0
Held(o) == Valid(obj[o].in) + Valid(obj[o].out)

-----------------------------------------------------------------------------
(* Process: open, isRunning.                                               *)

\* Mutant: isRunning does not look at the child.
Polls_NoGuard(o) == {[running |-> FALSE, child |-> child]}

\* isRunning: waitpid(_cpid, WNOHANG).  It reaps a child that has ended; with
\* _cpid = -1 any child of the parent.
Polls(o) ==
    LET named == Named(obj[o].cpid)
        ended == {p \in named : child[p].st = "zombie"}
    IN  IF ended # {} THEN {[running |-> FALSE, child |-> Reap(p)] : p \in ended}
                      ELSE {[running |-> named # {}, child |-> child]}

IsRunning(o) ==
    /\ call.op = "none" /\ obj[o].live
    /\ \E r \in Polls(o) : child' = r.child
    /\ UNCHANGED <<obj, nfds, call>>

\* open throws when its object's child is running.
OpenNested(o) ==
    /\ call.op = "none"
    /\ \E r \in Polls(o) : r.running
    /\ UNCHANGED vars

\* Mutant: the first pipe is not closed when the second cannot be made.
OpenNoPipe_Leaks(o) ==
    /\ call.op = "none" /\ nfds + 4 > MaxFd
    /\ \E r \in Polls(o) : ~r.running /\ child' = r.child
    /\ nfds' = IF nfds + 2 > MaxFd THEN nfds ELSE nfds + 2
    /\ UNCHANGED <<obj, call>>

\* pipe2 or pipe fails.
OpenNoPipe(o) ==
    /\ call.op = "none" /\ nfds + 4 > MaxFd
    /\ \E r \in Polls(o) : ~r.running /\ child' = r.child
    /\ UNCHANGED <<obj, nfds, call>>

\* The object with new pipes; the ends for the child are closed when open ends.
Opened(pid) == [NoObj EXCEPT !.live = TRUE, !.cpid = pid, !.in = TRUE, !.out = TRUE]

\* fork fails: _cpid is -1 and the object keeps the pipes; the constructor has
\* no object to keep.
OpenNoFork(o) ==
    /\ call.op = "none" /\ nfds + 4 <= MaxFd
    /\ \E r \in Polls(o) :
          ~r.running /\ child' = [q \in Pids |-> [r.child[q] EXCEPT !.inh = @ \ {o}]]
    /\ IF obj[o].live
       THEN /\ obj' = [obj EXCEPT ![o] = Opened(-1)]
            /\ nfds' = nfds - Held(o) + 2
       ELSE UNCHANGED <<obj, nfds>>
    /\ UNCHANGED call

\* Mutant: the child does not close _write_to_child.
Kept_Own(o) == {q \in Objs : obj[q].in} \cup {o}

\* The write ends a new child of o keeps: those of the other objects.  It closes
\* the one of its own pipe.
Kept(o) == {q \in Objs \ {o} : obj[q].in}

Open(o) ==
    /\ call.op = "none" /\ nfds + 4 <= MaxFd
    /\ \E r \in Polls(o), p \in Pids :
          /\ ~r.running /\ r.child[p].st = "none"
          /\ obj' = [obj EXCEPT ![o] = Opened(p)]
          /\ child' = [q \in Pids |->
                IF q = p THEN [st |-> "run", of |-> o, hold |-> 0, inh |-> Kept(o)]
                         ELSE [r.child[q] EXCEPT !.inh = @ \ {o}]]
    /\ nfds' = nfds - Held(o) + 2
    /\ UNCHANGED call

-----------------------------------------------------------------------------
(* Process: write, read, closeStdin, close.                                *)

Write(o) ==
    /\ call.op = "none" /\ obj[o].in
    /\ \E n \in 1..(MaxData[o] - obj[o].sent) : call' = [op |-> "write", o |-> o, left |-> n]
    /\ UNCHANGED <<obj, nfds, child>>

\* Mutant: the loop of writeExact misses its end.
WriteStep_Endless(o) ==
    /\ Running(o) /\ Len(obj[o].to) < Cap
    /\ obj' = [obj EXCEPT ![o].to = Append(@, obj[o].sent + 1), ![o].sent = @ + 1]
    /\ call' = [call EXCEPT !.left = @ - 1]
    /\ UNCHANGED <<nfds, child>>

\* Mutant: the loop of writeExact goes round once more.
WriteStep_Extra(o) ==
    /\ Running(o) /\ Len(obj[o].to) < Cap
    /\ obj' = [obj EXCEPT ![o].to = Append(@, obj[o].sent + 1), ![o].sent = @ + 1]
    /\ call' = IF call.left = 0 THEN Idle ELSE [call EXCEPT !.left = @ - 1]
    /\ UNCHANGED <<nfds, child>>

\* Mutant: the loop of writeExact starts again from the beginning of the data.
WriteStep_Restarts(o) ==
    /\ Running(o) /\ Len(obj[o].to) < Cap
    /\ obj' = [obj EXCEPT ![o].to = Append(@, 1), ![o].sent = @ + 1]
    /\ call' = IF call.left = 1 THEN Idle ELSE [call EXCEPT !.left = @ - 1]
    /\ UNCHANGED <<nfds, child>>

\* A unit of write or writeExact: it blocks while the pipe is full.
WriteStep(o) ==
    /\ Running(o) /\ Len(obj[o].to) < Cap
    /\ obj' = [obj EXCEPT ![o].to = Append(@, obj[o].sent + 1), ![o].sent = @ + 1]
    /\ call' = IF call.left = 1 THEN Idle ELSE [call EXCEPT !.left = @ - 1]
    /\ UNCHANGED <<nfds, child>>

\* Nobody reads: SIGPIPE ends the parent, or, ignored, write throws.
WriteBroken(o) ==
    /\ ~Running(o)
    /\ call' \in {Idle, [Idle EXCEPT !.op = "killed"]}
    /\ UNCHANGED <<obj, nfds, child>>

Read(o) ==
    /\ call.op = "none" /\ obj[o].out
    /\ \E n \in 1..MaxData[o], op \in {"read", "readExact"} :
          call' = [op |-> op, o |-> o, left |-> n]
    /\ UNCHANGED <<obj, nfds, child>>

\* ::read takes what there is, up to the length asked for.
ReadStep(o) ==
    LET n == Min({call.left, Len(obj[o].from)}) IN
    /\ n > 0
    /\ obj' = [obj EXCEPT ![o].from = SubSeq(@, n + 1, Len(@)),
                          ![o].got = @ \o SubSeq(obj[o].from, 1, n)]
    /\ call' = IF call.op = "read" \/ call.left = n THEN Idle ELSE [call EXCEPT !.left = @ - n]
    /\ UNCHANGED <<nfds, child>>

\* End of file: read returns 0, readExact throws.
ReadEof(o) ==
    /\ obj[o].from = <<>> /\ ~Running(o)
    /\ call' = Idle
    /\ UNCHANGED <<obj, nfds, child>>

CloseStdin(o) ==
    /\ call.op = "none" /\ obj[o].in
    /\ obj' = [obj EXCEPT ![o].in = FALSE]
    /\ nfds' = nfds - 1
    /\ UNCHANGED <<child, call>>

\* What is left when close or the destructor is over.
Ended(o, op) == IF op = "destroy" THEN NoObj ELSE [NoObj EXCEPT !.live = TRUE, !.cpid = obj[o].cpid]

\* close, and the destructor, which calls it: the descriptors, then SIGINT.
\* kill throws when the pid names no process.
CloseKill(o) ==
    /\ call.op = "none" /\ obj[o].live
    /\ \E op \in {"close", "destroy"} :
          LET named == Named(obj[o].cpid) IN
          /\ nfds' = nfds - Held(o)
          /\ obj' = [obj EXCEPT ![o] =
                       IF named = {} THEN Ended(o, op) ELSE Ended(o, "close")]
          /\ child' = [p \in Pids |->
                         IF p \in named /\ child[p].st = "run"
                         THEN [child[p] EXCEPT !.st = "dying"] ELSE child[p]]
          /\ call' = IF named = {} THEN Idle ELSE [op |-> op, o |-> o, left |-> 0]

\* Mutant: close waits for the child to exit by itself.
CloseWait_Polite(o) ==
    /\ Named(obj[o].cpid) = {}
    /\ obj' = [obj EXCEPT ![o] = Ended(o, call.op)]
    /\ call' = Idle
    /\ UNCHANGED <<nfds, child>>

\* The blocking waitpid of close.
CloseWait(o) ==
    /\ \E p \in Named(obj[o].cpid) : child[p].st = "zombie" /\ child' = Reap(p)
    /\ obj' = [obj EXCEPT ![o] = Ended(o, call.op)]
    /\ call' = Idle
    /\ UNCHANGED nfds

-----------------------------------------------------------------------------
(* The children.                                                           *)

Exits(p) == child' = [child EXCEPT ![p] = [@ EXCEPT !.st = "zombie", !.hold = 0, !.inh = {}]]

ChildRead(p) ==
    LET o == child[p].of IN
    /\ child[p].st = "run" /\ child[p].hold = 0 /\ obj[o].to # <<>>
    /\ child' = [child EXCEPT ![p].hold = Head(obj[o].to)]
    /\ obj' = [obj EXCEPT ![o].to = Tail(@)]

ChildEcho(p) ==
    LET o == child[p].of IN
    /\ child[p].st = "run" /\ child[p].hold # 0
    /\ IF ~obj[o].out
       THEN Exits(p) /\ UNCHANGED obj
       ELSE /\ Len(obj[o].from) < Cap
            /\ obj' = [obj EXCEPT ![o].from = Append(@, child[p].hold)]
            /\ child' = [child EXCEPT ![p].hold = 0]

ChildEof(p) ==
    /\ child[p].st = "run" /\ child[p].hold = 0
    /\ obj[child[p].of].to = <<>> /\ ~Writers(child[p].of)
    /\ Exits(p) /\ UNCHANGED obj

ChildDies(p) == child[p].st = "dying" /\ Exits(p) /\ UNCHANGED obj

\* The child ends by itself, or execv has failed.
ChildExit(p) == child[p].st = "run" /\ Exits(p) /\ UNCHANGED obj

ChildWorks(p) ==
    (ChildRead(p) \/ ChildEcho(p) \/ ChildEof(p) \/ ChildDies(p)) /\ UNCHANGED <<nfds, call>>

-----------------------------------------------------------------------------

\* The step of the call the parent is in.
CallStep ==
    LET o == call.o IN
    \/ call.op = "write" /\ (WriteStep(o) \/ WriteBroken(o))
    \/ call.op \in {"read", "readExact"} /\ (ReadStep(o) \/ ReadEof(o))
    \/ call.op \in {"close", "destroy"} /\ CloseWait(o)

Calls(o) ==
    \/ Open(o) \/ OpenNested(o) \/ OpenNoPipe(o) \/ OpenNoFork(o) \/ IsRunning(o)
    \/ Write(o) \/ Read(o) \/ CloseStdin(o) \/ CloseKill(o)

Next ==
    \/ \E o \in Objs : Calls(o)
    \/ CallStep
    \/ \E p \in Pids : ChildWorks(p)
    \/ \E p \in Pids : ChildExit(p) /\ UNCHANGED <<nfds, call>>

\* The parent goes on with a call it is in, and every child runs; neither owes
\* the other a next call or an exit.
Spec ==
    /\ Init /\ [][Next]_vars
    /\ WF_vars(CallStep) /\ \A p \in Pids : WF_vars(ChildWorks(p))

-----------------------------------------------------------------------------
(* Properties.                                                             *)

ObjType == [live : BOOLEAN, cpid : Pids \cup {-1}, in : BOOLEAN, out : BOOLEAN,
            to : Seq(Nat), from : Seq(Nat), sent : Nat, got : Seq(Nat)]
ChildType == [st : {"none", "run", "dying", "zombie"}, of : Objs, hold : Nat, inh : SUBSET Objs]
CallType == [op : {"none", "write", "read", "readExact", "close", "destroy", "killed"},
             o : Objs, left : Nat]

TypeOK ==
    /\ obj \in [Objs -> ObjType]
    /\ nfds \in 0..MaxFd
    /\ child \in [Pids -> ChildType]
    /\ call \in CallType

\* On every path through open, close and the destructor, also those that throw,
\* the descriptors open in the parent are the ones the objects hold: none is
\* leaked and none is closed twice (Descriptor, Process::open).
DescriptorsExact ==
    nfds = Cardinality({o \in Objs : obj[o].in}) + Cardinality({o \in Objs : obj[o].out})

Owned(p) == child[p].st # "none" => obj[child[p].of].live /\ obj[child[p].of].cpid = p

\* A child that has not been reaped is known to the object that opened it: no
\* open, close or destructor of any object forgets a running child or leaves a
\* zombie behind (_cpid, isRunning, waitpid).
ChildrenOwned == \A p \in Pids : Owned(p)

\* What the parent reads from a child is what it has written to this child
\* since it was opened, in order, without gap or repetition.
EchoInOrder ==
    \A o \in Objs : LET s == obj[o].got \o obj[o].from IN
        \A k \in DOMAIN s : s[k] = k

\* close and the destructor return, whatever has become of the child.
CloseReturns == call.op \in {"close", "destroy"} ~> call.op = "none"

InFlight(o) ==
    Len(obj[o].to) + Len(obj[o].from)
    + (IF \E p \in Pids : Alive(p) /\ child[p].of = o /\ child[p].hold # 0 THEN 1 ELSE 0)

\* A write returns if both pipes and the child together have room for what is
\* not read yet; beyond that parent and child wait for each other.
WriteReturns ==
    \A o \in Objs :
        (call.op = "write" /\ call.o = o /\ InFlight(o) + call.left <= 2 * Cap + 1)
            ~> call.op # "write"

\* After closeStdin the child meets the end of its input and ends, unless
\* another running child has inherited the write end.
EofReached ==
    \A o \in Objs :
        (obj[o].live /\ ~obj[o].in /\ InFlight(o) <= Cap)
            ~> (~Running(o) \/ Inherited(o))

-----------------------------------------------------------------------------
(* The inductive invariant.                                                *)

\* A call that moves data has some left to move; one that waits for the child
\* has closed the pipes.
CallInv ==
    /\ call.op \in {"write", "read", "readExact"} => call.left > 0
    /\ call.op \in {"close", "destroy"} => ~obj[call.o].in /\ ~obj[call.o].out

\* What has come back through the pipes of o, and what its child holds.
Returned(o) == Len(obj[o].got) + Len(obj[o].from)
InHand(p) == IF child[p].hold = 0 THEN 0 ELSE 1

\* The units that have been read, and those that can be, are numbered from 1.
PipesInv(o) ==
    /\ \A k \in DOMAIN obj[o].got : obj[o].got[k] = k
    /\ \A k \in DOMAIN obj[o].from : obj[o].from[k] = Len(obj[o].got) + k

\* Those a running child has yet to echo go on from there.
ChildInv(p) ==
    LET o == child[p].of IN
    child[p].st = "run" =>
        /\ child[p].hold \in {0, Returned(o) + 1}
        /\ \A k \in DOMAIN obj[o].to : obj[o].to[k] = Returned(o) + InHand(p) + k
        /\ obj[o].sent = Returned(o) + InHand(p) + Len(obj[o].to)

\* Inductive: descriptors and children are accounted for in the middle of every
\* call, and the units of an object are in order over the pipes and its child
\* (open, write, read, close).
IInv ==
    /\ TypeOK /\ DescriptorsExact /\ ChildrenOwned /\ CallInv
    /\ \A o \in Objs : PipesInv(o)
    /\ \A p \in Pids : ChildInv(p)

=============================================================================
