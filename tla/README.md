# Verification of the network libraries of sphere_advcpp_autumn_2020

The repository is a set of libraries built on each other: `1.proc` (child
processes), `2.log` (logging), `3.tcp` (sockets), `4.shmem` (a dictionary shared
between forked processes), `5.net` (epoll, a callback service), `6.http` (a
multi-threaded HTTP server) and `7.cor` (the same server with coroutines). This
directory holds TLA+ models of the parts where several threads or processes
share state, and of the parser the servers use, the TLC runs that check them on
small instances, and TLAPS proofs for every instance about the two HTTP servers,
`net::Service`, the shared map and `Process`.

## Inventory

| Part | State | Operations | What is hard | What makes it correct |
|---|---|---|---|---|
| `http::HttpService` (6.http) | `connections_` (places), `closed_`, `timeod_`, `closing_mutex_`, `timeout_mutex_`, the listening socket | `run`, `emplace_connection`, `try_replace_closed_with_new_conn`, `dump_timed_out_connections`, `close_if_timed_out`, `close` | closes and reuses places the workers are working on | a place is free exactly once; idle connections are closed; the main thread does not get stuck |
| `http::HttpWorker` (6.http) | the current batch of epoll events, `p_conn` | `work` and what it calls | one-shot re-arming, partial reads and writes, late events, resets | a handler's connection stays open and in its place; no wake-up is lost; every request is answered once, whole, in order |
| `http::HttpConnection`, `ITimed` | buffers, `epoll_option_`, `keep_alive_`, time of last activity | `write`, `subscribe`, `unsubscribe`, `close` | the response overwrites `write_` | see above |
| `Request` / `Responce` (6.http) | none | `parse`, `str` | input that ends anywhere | a request cut short is awaited, a whole one is read as it was written |
| `net::EPoll`, `BufferedConnection`, `OPTION` (5.net) | the kernel's registrations | `add`, `mod`, `wait`, `read_to_buffer`, `write_from_buffer` | one-shot, MOD of an unregistered descriptor | part of the servers above |
| `net::Service` (5.net) | `connections_`, the registrations | `run` with its callbacks | callbacks that close, descriptors reused while events of the same batch are pending, exceptions that leave `run` | an event finds its own connection; a subscription reaches the kernel; a client is answered or learns that it will not be |
| coroutines (7.cor) | `main_ordinator` (routines, finished), a thread's `ordinator`, a routine's context and `uc_link` | `create`, `resume`, `yield`, `entry` | a routine moves between threads | one client per routine; a routine returns to the thread that resumed it; routines are recycled |
| `CoroutineService`, `CoroutineWorker` (7.cor) | as 6.http, and `_p_rout` | as 6.http, and `serve_client` | suspended in the middle of a handler | a suspended routine is armed for what it waits for |
| `shmem::SharedMap`, `ShAlloc`, `Semaphore` (4.shmem) | the table of blocks, the map, the semaphore | `insert`, `update`, `at`, `erase`, `count`, `size`, `destroy`; `allocate`, `deallocate` | results of `at` freed outside the lock; `bad_alloc` half way | calls are atomic; blocks are neither shared nor lost; the semaphore is posted |
| `3.tcp` | descriptors | `connect`, `listen`, `accept`, `read`, `write` and their exact forms | timeouts, resets, ownership of descriptors | a descriptor has one owner; data arrive whole and in order |
| `1.proc::Process` | pid, two pipes | `open`, `write`, `read`, their exact forms, `closeStdin`, `close`, `isRunning` | pipe and fork that fail, `_cpid` = -1, reused pids, full pipes, the death of the child | no descriptor leaks, no child is forgotten, calls return |
| `2.log` | level, stream | `debug`..`error`, `set_level` | level read outside the mutex | |
| `0.Interview` | none | a text filter | | |

The HTTP servers consist of a main thread, worker threads, the kernel (epoll and
the sockets) and the clients. The main thread accepts a connection, puts it into
a place (a node of `connections_`, a reused one if `closed_` has one), registers
it and closes the places at the front of `timeod_` that timed out. Workers wait
on the one epoll instance; each event names a place, is handled under the
place's `connection_mutex`, and ends by re-arming the registration or closing
the connection and pushing the place to `closed_`.

`net::Service` is the single-threaded ancestor of both: one loop over epoll that
accepts, reads, writes and calls a listener back. `Process` and `SharedMap` stand
for themselves; no other library uses them.

## Modules

| Module | Models |
|---|---|
| `HttpCore` | the state main thread and workers share, the main thread (`HttpService::run`), the clients, time, `close()` |
| `HttpWorkers` | what the workers of both servers share: what epoll reports, taking an event, closing, reading, parsing; properties of both servers |
| `HttpService` | `HttpWorker::work`; the 6.http server, its properties and its inductive invariants |
| `PlacePool` | abstract specification: what the places promise |
| `CorService` | coroutines and `CoroutineWorker`; the 7.cor server, its properties and the inductive invariant of its routines |
| `Message` | the parser and writer of HTTP messages: `Request` and `Responce` |
| `NetService` | 5.net: `Service::run`, its listener, epoll, and clients that use `tcp::Connection` |
| `Process` | 1.proc: `Process` objects of one parent, pipes, children |
| `SharedMap` | 4.shmem: the map, its allocator and its semaphore |
| `AtomicMap` | abstract specification: a dictionary with atomic calls |
| `HttpServiceProofs` | proofs of `HttpService`'s invariants |
| `HttpCalmProofs` | proofs about `HttpService` where nothing times out and no client resets: it does not crash, and its responses arrive intact |
| `CorServiceProofs` | proofs of `CorService`'s invariants |
| `PlacePoolProofs` | proof that `HttpService` implements `PlacePool` |
| `NetServiceProofs` | proofs of `NetService`'s invariants and of `NotDropped` |
| `SharedMapProofs` | proofs of `SharedMap`'s invariants, and that it implements `AtomicMap` |
| `ProcessProofs` | proofs of `Process`'s invariants |
| `SequenceFacts` | lemmas about least elements and sequences that these proofs share |
| `MessageSamples` | requests and responses to parse, texts to refuse, places to cut a request |
| `MCHttpService` | instance for TLC; writes the chunks of `HttpService` out as texts of `Message` |
| `MCMessage` | a request that arrives symbol by symbol |
| `MCCorService` | instance for TLC; `LateEventSpec`, which takes some orders of `CorService`'s steps only, to reach a deep behaviour |
| `MCCorLoad` | instance for TLC: `CorService` under one of three loads at a time |
| `MCProcess`, `MCSharedMap` | instances for TLC (symmetry, bounds, the sizes of keys and values) |

### How the HTTP models correspond to the code

`mpc` is where the main thread is: `loop` (the while test), `accept`, `replace`
(in `try_replace_closed_with_new_conn`), `splice` (the part under
`timeout_mutex_`), `emplace`, `setopt`, `add`, `dump` (looking at the front of
`timeod_`), `expire` (in `close_if_timed_out`), `pop`, and the ends `join` and
`threw`. `wpc[w]` is where worker `w` is: `wait`, `lock`, `check` (`p_conn` is
read), `read`, `write`, `arm` (the end of the handler). The steps are cut where
another thread can get in between: at every lock, system call and unprotected
shared access. `timeout_mutex_` is held for one step each time and needs no
variable; `closing_mutex_` is held by the main thread across `splice` only.

A connection object and its socket are one element of `Conns`. The kernel's side
is `epoll[c]` (registered or not, the bits armed; a reported event disarms) and
`peer[c]` (the receive buffer as chunks, the send buffer as units of responses).
A request is a chunk or two; `Parse` gives the verdict of `Request::parse` on a
buffer of chunks. A part is a prefix cut at the end of a line or in the body, for
which the parser really throws `ExpectingData` (`ParseFaithful` checks it against
`Message`; what happens at other cuts is the subject of `RequestCut`). Two
requests in one buffer are `IncorrectData`, as in the code (a body without
length, or of the wrong length).
A response is `RespLen` units marked with the request's number; a socket
takes `Window` units, so that short writes and EAGAIN happen.

Undefined behaviour ends a behaviour with the value of `crash`: splicing an
iterator of an erased list node, using a replaced connection object, running on
another thread's context. An exception that leaves a thread function is
`crash = "terminate"`; a client's reset does that (`ReadReset`, `WriteReset`: `read`
and `write` throw and no worker catches), so that it ends the whole server. The
runs `Timeout` and `CorLoad` have such clients. The main thread catches
`TimeOutError` and `EPollError` only, so that any other failure of `accept4` leaves
`run` (`AcceptThrows`, the value `threw` of `mpc`): EBADF after `close()`, or, with
"accept" in `Env`, an error at any time, such as no descriptors left. The workers go
on then, and nobody accepts or closes idle connections any more.

The coroutine server keeps for every routine where it goes on (`at`), the thread
whose `ordinator` `entry()` refers to (`starter`), the context stored by the last
`makecontext` (`link`) and by the last `resume` (`resumer`). On x86-64 glibc
`makecontext` saves `uc_link` on the routine's stack, so a routine whose
`entry()` returns continues at `link`. `CoroutineService` inherits `HttpService`
as a protected base, so its `close()` cannot be called and `Shutdown` is not one
of its steps. A routine also remembers the connection it was made to serve
(`client`, what `serve_client` finds in the place it captured). A worker resumes the
routine in `_p_rout` of the connection that is in its event's place, open or not;
if that routine has been recycled in the meantime it is another client's, and would
go on without the mutex of that client's place and perhaps on the stack of a thread
that is running it: undefined, `crash = "foreign_routine"` (`ResumeForeign`), where a
behaviour ends.

### How the parser corresponds to the code

A text is a sequence of symbols, and names are abridged to two or three of them,
so that a text can still be cut inside any token. Each function of `message.cpp`
is an operator that gives its verdict and what is left of the `string_view`:
"ok", "expecting" and "incorrect" for the two exceptions, "undefined" where
`remove_prefix` takes more than there is and the text is read on (`Wild` is the view
whose size has wrapped around; a body in it is longer than any announced one).
The order of the tests is the code's, and so is `find_if`, which stops at the
first element of which the token is a prefix.

### How `net::Service` corresponds to the code

Epoll is level-triggered here: `Reported` computes what is ready when
`epoll_wait` is called, and the events of one batch are handled one per step, in
any order, while clients go on. A callback is the set of what it may leave of its
connection (subscriptions, the answer in `write_`, closed): the listeners of the
calculator and of the echo server are among them, and so are one that refuses and
one that hangs up. `EventError`, `EventIn`, `EventOut` and `EventClose` follow the
chain of `else if` in `run`, and `Settle` is its end: `erase`, or `mod`. The code
looks at `p_conn` after `erase` has destroyed it. `_fd` is -1 there, since `close()`
has set it before, and the memory of the freed node is not written in between, so
that nothing is done in either case.

`Throw` is an exception that leaves `run`: the `Service` and every descriptor it
owns go, and `Restart` is the loop in the calculator's `main` that makes a new one.
A client is a `tcp::Connection`: it connects (again, if refused), writes a request
unit by unit, reads until it has the answer, and closes; with unread data in its
socket the kernel sends a reset.

### How `Process` corresponds to the code

The parent has one thread, which is in at most one call (`call`). Calls that cannot
block are one step; `write`, `read` and `close` start with one step and go on with
the others while children run in between. `isRunning` is `waitpid` with `WNOHANG`,
reaps, and, with `_cpid` = -1 after a failed fork, means any child; so does the `kill`
in `close`. `pipe_in` is made without `O_CLOEXEC`, so a child keeps the write ends
of the objects opened before it (`inh`). Pids are used again as soon as they are
reaped. The children are external: filters that echo what they read, end at end
of file or on SIGINT, and may exit at any time (`execv` that fails is one case).

### How the shared map corresponds to the code

The blocks are 1..`NumBlocks`, `used` is `used_blocks_table`, and `held` says
which owner (a node, its key, its value, a temporary of a running call, the
result of an `at`) has which run. `allocate` is two steps, the search and the
`memset`, because the result of `at` is deallocated by its owner without the
semaphore; that deallocation goes block by block. A short string needs no block.

## Runs

| Run | Shows |
|---|---|
| `Serve` | two clients, two workers; split and refused requests, clients that close, partial writes: `TypeOK`, `ArmedOrOwned` (no wake-up lost), `NoCrash`, and `CalmInv`, which makes it inductive |
| `Answers` | one client, three workers: a keep-alive connection with up to three requests, split and refused ones, responses larger than the socket's buffer, a client that closes, `close()`: `ResponseIntegrity` (each response whole, once, in order), `ParseFaithful` (the parser gives for every buffer the verdict, headers and body the server model takes it to give), `Answered` (a complete request is answered unless its client has closed or the server is), `FinClosed` (a client that closes is closed), `MainProgress` (the main thread comes back) |
| `Timeout` | time-outs, resets, an `accept` that fails and reuse of places against two workers: `IInv` (of which `ClosedExact` is a part), `HandlerSafe`, `SizeExact`, `ArmInv` (which implies `ArmedOrOwned`), and `PoolSpec` (refinement of `PlacePool`) |
| `CorLoad` | 7.cor under one of three loads. Two workers, one place, two keep-alive requests, responses of two units: clients that close while the double re-arming has left events behind, short writes another worker goes on with, routines that serve the next client. Or one worker, two places, and time-outs with split and refused requests, or resets: `TypeOK`, `ClosedExact`, `ResponseIntegrity`, `SuspendedArmed` |
| `Sharing` | 4.shmem, memory that runs out: `TypeOK`, `BlocksExact`, `NodesExact`, `SemExact` (the semaphore is down exactly while a process is inside a method) and `Linearizable` (refinement of `AtomicMap`) |
| `Net` | 5.net, two clients that give up, reset, are refused or hung up, `accept` that fails, a service made anew: `TypeOK`, `IInv`, `EventFindsOwner` (an event finds the connection it is about although descriptors are closed and reused within a batch), `RegistrationExact` (the kernel waits for what a connection is subscribed to), `AnswerIntegrity`, `NotDropped` (a connected client is let go only with its whole answer, refused, or by an exception), `ClientsEnd`, `ClosedLeaves` |
| `Proc` | 1.proc, two objects, pids that are used again, room for six descriptors: `TypeOK`, `IInv`, `DescriptorsExact` (the descriptors in use are those of the objects), `ChildrenOwned` (no child is forgotten, also after a failed fork), `EchoInOrder`, `CloseReturns`, `WriteReturns` (a write returns if pipes and child have room for the data), `EofReached` (after `closeStdin` the child ends, unless another child has inherited the write end) |

Runs whose property the code does not satisfy:

| Run | What TLC finds |
|---|---|
| `PlaceReuse` | after a time-out the reused place's `timeout_iter` is dangling (`httpservice.cpp:134`), or a worker uses the replaced connection |
| `IdleBehindClosed` | a place closed by a worker at the front of `timeod_` keeps the idle connections behind it open |
| `CorContext` | `serve_client` arms the connection twice; a second worker resumes the returned routine and leaves through the starter's context |
| `CorLateEvent` | three workers: two keep-alive responses, each re-armed twice, leave an event of one connection with each of them; the first closes the connection, the second finishes its routine, which is recycled for the other client, and the third resumes it there (`corworker.cpp:47`): `RoutineExclusive` is violated |
| `RequestCut` | a request that ends after one letter of a header's name is refused, after two it is taken for complete; `parsertest.cpp:173` expects it to be awaited, and passes because nothing fails when nothing is thrown |

`CHECK_DEADLOCK FALSE` is given where the system may stop: after a crash, after
`close()` (the main thread waits for workers that never end), when the clients
have nothing more to send or have ended, when the processes sharing a map have
exited, when a parent and its child wait for each other on full pipes, and when a
request has arrived completely.

### Bounds

Two connections, two places and two workers let two workers compete for one
place, a worker compete with the main thread, and a place be reused. `Answers`
has one client and three workers, so that one worker reads, one writes and one
holds the next event of the same connection. Responses of two units with a
window of one reach the partial write and the write that blocks. `ConnTimeo` of
0 or 1 tick against `KaTimeo` distinguish the two limits; ages stop at `MaxAge`,
beyond which they make no difference. `MaxEvents` 2 lets one worker hold events
of two places. `MaxRoutines` caps the routines made; late events multiply them,
and where the pool is full `Create` is disabled, which is sound for the safety
properties those runs check.

`CorLoad` has its loads one at a time (`MCCorLoad`): the variable `load` is chosen at
the start and holds the workers that are started and the behaviours of `Env` that
occur. Two workers get whole requests, two of one client and one of the other, one
place and one event at a time (`OnePlace`), so that a connection's responses are
written by several workers, events of the old and of the new connection meet in the
reused place, and a routine finishes without leaving through a foreign context and is
recycled. One worker gets time-outs with split and refused requests, or resets, with
two places and two events at a time, but no second request (`OneRequest`), so that a
connection may time out while the worker still has its event. Three routines are
enough. Larger mixtures of these loads, up to 3,785,793 states, were checked once and
are too slow to repeat.

`CorLateEvent` is too deep (71 steps) for a breadth-first run of all orders.
`LateEventSpec` (in `MCCorService`) is `CorService`'s `Init` and `Next` with conjuncts
that drop steps: the main thread goes first, clients connect before they send, send
one after the other, and a worker enters a place only when no other is past its lock.
What it reaches `Spec` reaches as well; with it nothing is said to hold.

In `Sharing` five blocks hold one long key with a long value and not two, so that
`bad_alloc` occurs at every allocation of a call.

`Net` has two clients and two descriptors, so that one batch can hold the end of
one connection, the accept that gets its descriptor, and the events of the other;
requests and answers of three units against a buffer and a window of two make
every read and write partial once. In `Proc` six descriptors let two objects
be open and a further `open` fail at its second pipe; pipes of one unit fill
at once, and four units for one object exceed the `2 * Cap + 1` that the pipes and
the child hold by one, which is where `WriteReturns` stops being true. The samples
of `RequestCut` and `ParseFaithful` have up to two headers before the length and a
body of up to two symbols, with every combination of them.

A client sends its next request only after it has the previous response unless
`Env` has "pipeline". No run has it: with it a response overwrites what is left of
the previous one in `write_`, and HTTP pipelining is nowhere promised by the
code or its documentation.

### Fairness

`HttpService`'s `FairSpec` has weak fairness of the main thread, of each worker, of
each client's reading and of the clock: the operating system runs every runnable
thread, and `std::mutex` promises nothing more, so no strong fairness is assumed.
Clients owe the server no request and no close; `Answered` assumes that they read.

`NetService`'s `Spec` has weak fairness of the server's one thread, which includes
that a service that threw is made anew, and of each client's own steps; giving up
is never owed. `Process`'s `Spec` has weak fairness of the call the parent is in and
of each child's work; the parent owes no next call and a child no exit, so that
`CloseReturns` rests on SIGINT and `EofReached` on the end of the input.

`CorService` and `SharedMap` are checked for safety only.

## Proofs

`HttpServiceProofs` proves, from `ConstantsAssumption` alone (so for any sets of
workers and connections and any number of places, requests and units):

* `Invariance`: `Spec => []IInv`;
* `TypeCorrect`, `ClosedExactAlways`, `HandlerSafeAlways`: its corollaries for
  `TypeOK`, `ClosedExact` and `HandlerSafe`;
* `SizeExactAlways`: `SizeExact`, since a `closed_` without repetitions has as many
  entries as closed places, which are the nodes that are not `Live`;
* `ArmInvariance`: `ArmInv`, on top of `IInv`, and from it `NoWakeupLost`:
  `ArmedOrOwned`.

`PlacePoolProofs` proves `Refinement`: `Spec => PoolSpec`. Each step is sorted by
what it does to the places and to the connections that wait for one: a close of
an open connection is `Vacate`, handing out a place is `Occupy`, anything else
stutters. The guards of the abstract steps come from `IInv`: a reused place is
closed (`ClosedExact`), a connection being placed is in no place (`FreshInv`), a
handler that closes still has an open connection (`HandlerSafe`).

`ClosedExact` and `HandlerSafe` are not inductive. That `closed_` gets a place once
needs that whoever closes it knows its connection is open. A worker knows it
from its validity check, if nobody has closed the connection since:
`HandlerSafe`. That holds because the time-out waits for the place's mutex, which
the worker holds (`WorkerInv`), and because the main thread replaces only
connections of places in `closed_`, which are closed (`ClosedExact`). The rest
says that a connection is in one place only (`PlacedOnce`), that a new one is in
none (`FreshInv`), and that the places which threads and `timeod_` refer to exist
(`MainInv`). The proof takes the main thread, the world and the workers in turn,
one step per action; a worker's steps are reduced to five lemmas by what they
change (only buffers, a close, a re-arming, the end of an event).

The proof covers behaviours with crashes: `IInv` does not say that the undefined
behaviours do not happen (they do, see `PlaceReuse`), but that they are the only
way in which the places get out of order.

`ArmedOrOwned` is not inductive either: `EPoll::add` and `mod` must arm something.
`ArmInv` says of every open connection that it is registered as soon as the main
thread has come to `epoll_.add`; that `ET_ONESHOT` stays in its `option` once
`setopt` was there; that the option names an event besides, unless a worker is at
the end of an event of this place and about to subscribe or close (`Arming`); and
that it is armed, or some worker has an event of it, or it is being registered.
A late event of the previous connection of a reused place may take the new one
before it is registered; the proof shows that this ends in a crash or a close,
never in an open connection that nobody waits for.

`HttpCalmProofs` proves `CalmInvariance`: `Calm => (Spec => []CalmInv)`, and from it
`CalmNeverCrashes`: `Calm => (Spec => []NoCrash)`, for any constants
whose `Env` has neither "time" nor "rst", which are those of `Serve` among others. The hypothesis is needed: `PlaceReuse` shows a crash with time-outs, and an
error of a reset connection ends a worker. `CalmInv` says what keeps each remembered
reference good: a place has one event at most among all batches (EPOLLONESHOT,
`OneEvent`), events are of open and registered places, what is armed has no event,
the `p_conn` read under the mutex is still the place's (`EventsFresh`), and every
place stays in `timeod_`, so that its `timeout_iter` is good (`NothingExpires`).
`ArmInv` is used too: only what is registered is modified.

The same module proves `ResponsesIntact`: `Calm /\ "pipeline" \notin Env =>
(Spec => []ResponseIntegrity)`, for responses of any length and sockets that take
any number of units at a time. `ResponseIntegrity` looks at what a client has got.
To know what it will get, `ReplyInv` follows the units of the responses over the
client, the wire and `write_`, where they are numbered on without a gap
(`Continues`), and says in which of five phases a connection is, by the requests that
are on the wire or in `read_`: none and all answered (`Idle`), the first part of one
(`Halfway`), a whole one, which waits with an empty `write_` (`Asked`), one that is
refused (`Refused`), or the last one of a connection without keep-alive, which is
answered and which the code leaves in `read_` (`LastReplied`). In the last phase the
request would be answered again if anybody handled a READ event: `LastInv` says that
nobody is armed for one, and that an event that has it is past reading.
`UnservedInv` says that the buffers of a new connection are empty until it is
registered. Both hypotheses are used. A client that pipelines has its response
overwritten in `write_`; and with time-outs a late READ event of a place's previous
connection, taken for the new one, makes a worker handle the `read_` of `LastReplied`
a second time: with time-outs `ResponseIntegrity` is violated, see below. TLC checked `ReplyInv` on the constants of `Answers` (17,754 states) and
of `Serve` (888,778 states); it is not part of those runs.

### The coroutine server

`CorServiceProofs` proves, from `CorService`'s assumptions on its constants alone,
`CorInvariance` (`CorInv`), `CorTypeCorrect` (`TypeOK`) and `CorClosedExact`
(`ClosedExact`). `CorService` has the main thread, the clients and the locks of
`HttpService`, so the proof instantiates `HttpServiceProofs` with a mapped `wpc`
(`LockPc`): a worker of 7.cor that has its place's mutex is taken for one of 6.http
that is about to look at its connection. That is all 6.http's `IInv` needs to know
of it, and no more is true: `CoroutineWorker::work` resumes the routine of a closed
or replaced connection as well. The steps of the main thread and of the world are then
6.http's, with their proofs; a worker's steps keep `IInv` because they change the
places only in `close_client`, which tests that the connection is open.

`RoutineInvariance` (`RoutineInv`) is proved for any number of workers, and so are the
results drawn from it: `SuspendedAlwaysArmed` (`SuspendedArmed`), `RoutinesExclusive`
and `ForeignOnlyLate`. The parts of `RoutineInv` are: a worker has at most one event of
a place (`BatchInv`); the connection a worker is serving has been in that worker's
place only, and no other worker serves it (`HoldInv`); routines are handed out in
order and queued once when they finish (`QueueInv`); the routine of an open connection
was made for it and has not returned (`OwnInv`), and so is the one a worker inside
`serve_client` runs (`ServeInv`); only a connection that was put into a place and is
past `epoll_.add` is registered (`RegisteredInv`). A routine has one `client`, so that
the last three keep apart what `RoutineExclusive` keeps apart.

`RoutineExclusive` itself is false with three workers: run `CorLateEvent`. The
connection is closed by the first of its late events, its routine is finished by the
second and handed to another client by `create`, and the third resumes it there
through the `_p_rout` of the closed connection. `RoutinesExclusive` therefore says
`Spec => [](crash # "foreign_routine" => RoutineExclusive)`: this step is the only way
in which a routine is ever shared, and the model ends with it. `ForeignOnlyLate` says
which workers can take it: one whose event is of a connection that is in its place and
closed. `HttpWorker::work` tests the socket before it handles an event, and with the
same test in `CoroutineWorker::work` this step would not exist. TLC found no such
step with two workers, two places and two requests of each of two clients that neither
close nor time out (2,882,032 states).

TLC checked `RoutineInv` on several instances with one, two and three workers; of it,
`SuspendedArmed` is part of a run.

### net::Service

`NetServiceProofs` proves, from `NetAssumption` (any set of clients, any number of
descriptors, any sizes of requests, answers, buffer and socket, any `Env`):
`Invariance` (`IInv`), and from it `TypeCorrect`, `EventsAlwaysFindOwner`,
`RegistrationAlwaysExact`, `AnswersAlwaysIntact` and the action property
`NeverDropped` (`NotDropped`).

`EventFindsOwner` speaks of events that were collected before other events of the
same batch closed and accepted connections. What makes it inductive is that `file`
and the `_fd` of the connections are inverse to each other (`FilesInv`), that one
batch has one event per descriptor and that each still describes its connection
(`BatchInv`): EPOLLERR comes with EPOLLRDHUP, EPOLLRDHUP means that the client has
closed, EPOLLIN without it that there are data. So `onError`'s text never reaches a
client, and a client that is still connected is hung up only in `onWriteDone`.
`PairInv` relates the two sides of a connection: the units of the answer are
numbered on over what the client has got, the wire and `write_`, and together
they are the whole answer once the request is complete; before that there is
nothing to write. All four handlers are reduced to `Settled`: an event changes its
own connection and its own descriptor only.

### The shared map

`SharedMapProofs` proves, from `SharedMap`'s assumptions (any numbers of processes,
keys, values and blocks, any sizes of strings): `Invariance`, `TypeCorrect`,
`BlocksAlwaysExact`, `NodesAlwaysExact`, `SemAlwaysExact`, and `Refinement`
(`Spec => Linearizable`).

`BlocksExact` needs to know, in the middle of a call, what the call holds and what
it will still take. The parts of `IInv` are: the semaphore is down exactly while
one process is inside (`SemExact`), so that only one call allocates at a time; the
temporaries of a call are exactly those of the place it is at (`TempsExact`); the run
of blocks that the search found stays free until `memset` marks it (`FoundRunFree`),
because the only step of another process that changes the table then is the
deallocation of a result of `at`, which only frees; and a process that calls `at`
has no earlier result left (`ResultFree`). The refinement maps `dict` and what each
process is about to return to `AtomicMap`'s variables; the step in which a call
takes effect is `AtomicMap`'s, every other one stutters. `IInv` of `SharedMap` was
checked by TLC on the constants of `Sharing` (1,068,892 states) and is not part of
that run.

### Process

`ProcessProofs` proves, from `ProcessAssumption` (any finite sets of objects and pids,
any limit of descriptors and capacity of pipes): `Invariance`, `TypeCorrect`,
`DescriptorsAlwaysExact`, `ChildrenAlwaysOwned` and `EchoAlwaysInOrder`.

`ChildrenOwned` and `DescriptorsExact` need what is true in the middle of `open`,
`close` and the destructor (`CallInv`); `EchoInOrder` needs that the units are
numbered on from what `read` has returned over the pipe from the child, the
child's hands and the pipe to it (`PipesInv`, `ChildInv`), as long as the child is
the object's own, which is `ChildrenOwned`.

### Only model-checked

* Liveness under fairness, which the prover does not do: `Answered`, `FinClosed`,
  `MainProgress`, `ClientsEnd`, `ClosedLeaves`, `CloseReturns`, `WriteReturns`,
  `EofReached`;
* the parser (`ParseFaithful`, `RequestCut`), whose loops are recursive operators;
* `ResponseIntegrity` of the 7.cor server (in `CorLoad`).

### Known failures without a run of their own

Two more failures came up and are easy to reproduce with these modules:

* With time-outs a client of 6.http may get its response twice. A worker that has a READ
  event of a place's old connection takes it for the new one and answers its request;
  without keep-alive `read_` is kept (`httpworker.cpp:63`), and the READ event of the new
  connection, already in another worker's batch, answers the same request again. TLC
  violates `ResponseIntegrity` in 38 states with the constants of `Serve`, `ConnTimeo` 0,
  `KaTimeo` 1 and `Env` {"time"}.
* The time-out of a connection does not free the routine that serves it, as
  `7.cor/README.md` asks: `close_if_timed_out` closes the socket, a closed socket has no
  events, and only an event would resume the routine (`coroutine.cpp:133`), so that
  it is never put on the queue of finished ones. In the model it stays suspended
  (`routine[r].at` = "reading") for ever when half a request times out and no worker has
  an event of it left; TLC confirmed it under weak fairness of all threads.

## Not modelled, and the plan

Left out for good:

* `2.log`: formatting and output. Its one hazard, `_level` read outside the mutex,
  decides only whether a line is printed;
* `0.Interview`: a single pass of string processing over one file, without a second
  actor;
* status codes (a table of numbers and names), the text of addresses, socket
  options, the wording of exceptions;
* `net::Service::open`, `close` and `setListener`, `EPoll::del` and the blocking
  `accept`, which no program calls between two steps of a loop;
* a process that dies inside a method of `SharedMap`: the semaphore stays taken and
  the others wait for ever; the code has no recovery to check;
* the test framework and the test programs, except for what their listeners and
  clients do.

What could come next:

1. `CorService`: the end of `entry()` as two steps (queue, then return), with two
   places, since one place's mutex keeps other workers out in between.
2. A proof of `ResponseIntegrity` of the 7.cor server. Events of one connection
   overlap after the double re-arming, and the phases of `ReplyInv` would have to
   include where the routine is.
