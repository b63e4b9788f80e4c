# A verification of ducq

ducq is a small message-queue framework in C: clients publish messages on
routes, and subscribe to routes that may hold the wildcard `*`; one
single-threaded server, built on `select()`, serves them all.  This directory
holds TLA+ specifications of its core, the TLC configurations that check them
on small instances, and proofs, checked by TLAPS, of what matters most for
instances of any size.  Paths below are relative to the repository.

## The system

| part | state | operations | talks to |
|---|---|---|---|
| connection table (`src/ducq_reactor.c:14-34, 170-313`) | 25 slots: fd, type, `ducq_i` pointer, route | add_server, add_client, subscribe, loop (with deletion), delete, iterate | everything else in the server |
| select loop (`ducq_reactor.c:319-393`) | fd set, count of ready descriptors | ducq_loop, round_table | kernel, table, dispatcher, the program's accept callback |
| last messages (`ducq_reactor.c:36-39, 136-162`) | 25 pairs of route and message | get, set | pub, sub |
| log (`ducq_reactor.c:411-506`, `src/ducq_log.c`) | allow_log_route, logger | log: writes, and sends to the subscribers of the log route | table: **deletes** those whose send fails |
| route matching (`src/ducq.c:282-311`) | none | ducq_route_cmp | pub |
| commands (`src/commands/`) | none of their own | pub, publish, sub, subscribe, unsub, lsconn, list_subscriptions, PING, PONG, epoch, time | table, last messages, log, their client |
| dispatcher (`src/ducq_dispatcher.c`) | commands, Lua state, 10 watched folders | load, dispatch, accept_notify, lscmd | commands, Lua, inotify, table |
| client library (`src/ducq.c`) | none | emit, receive, listen, pub, parsers | transport |
| TCP (`src/ducq_tcp.c`, `src/inet_socket.c`) | fd | recv, send, timeout, parts | kernel |
| WebSocket, HTTP (`src/ducq_ws.c`, `inet_ws.c`, `ducq_http.c`, `inet_http.c`) | fd, header buffer, closing state | handshake, recv, send, close | kernel |
| Lua binding (`src/ducq_lua.c`), C++ wrapper (`src/ducq.hpp`) | Lua stack | glue | all of the above |
| base64, SHA-1 | none | pure, third-party | WebSocket handshake |

What is hard here is not parallelism, the server has one thread, but what one
handler does behind the back of the code that called it.

* Any log line may delete clients (the ones that subscribed the log route and
  hung up), and nearly every command logs: before it answers, after it, or in
  the middle of a publication.  The client being served may be one of them.
* A round of visits uses an fd set and a count that `select()` gave before the
  round; handlers release and accept in between, so slots, descriptors and
  addresses of `ducq_i` objects are recycled within the round.
* Peers act at any time between two visits: they send, hang up, connect again.
* The tables are fixed arrays that fill up, and both scans of the last messages
  depend on there being no hole.
* Sends block, reads block, reads time out, and a frame may arrive in pieces
  (client library and transports).

What makes each part correct:

* table: the table and the heap agree, a client is closed and freed exactly
  once, a subscription lands in its own slot;
* loop: every ready client is visited in the round, the server waits for nobody
  but a client in the middle of a frame, and while nobody stays there for ever
  every request and every hang-up is seen in the end;
* last messages: a subscriber gets what was published last, the routes
  remembered are never forgotten;
* matching: a subscriber gets nothing it did not subscribe;
* commands: a publication reaches exactly the subscribers that are there, once;
* dispatcher: the command named runs, the scripts loaded are those on disk, and
  the Lua stack does not grow (it does, see below);
* client library: an answer is taken for the request it answers (it is not
  always, see below), and client and server do not block each other;
* transports: frames arrive whole and in order or the connection ends.

## The modules

| module | what it is |
|---|---|
| `Routing` | the routes, as opaque values |
| `RouteCmp` | `ducq_route_cmp`, one step per iteration, and what a wildcard route means (`Glob`) |
| `LastMsgs` | the table of last messages and its two scans |
| `LastMsgsSpec` | any sequence of publications into it, with a history to compare it with |
| `Connections` | the connection table as a value, and the functions that change it |
| `Reactor` | EXTENDS `Connections` and `LastMsgs`: the server's variables, `select()`, the scan, the log, listeners and the inotify server |
| `Commands` | EXTENDS `Reactor`: one action per command, and what round_table does when a read fails |
| `Server` | EXTENDS `Commands`: the peers, the next-state relation, fairness, the properties |
| `PubSub` | the abstract service: who is connected, who subscribed what, what is remembered, what each step sends |
| `Dispatcher` | loading of objects and scripts, folders and inotify events, lookup, the Lua stack |
| `TcpStream` | messages over a byte stream: `ducq_tcp_send`, `ducq_tcp_recv`, `readn`, `writen` |
| `WsHeader` | the frame header of a WebSocket as bytes, and the functions that read and write it in place |
| `WsConnection` | EXTENDS `WsHeader`: one connection of the server from the HTTP request to the end |
| `Session` | clients that use the library and the server, over connections of bounded size |
| `MCRouteCmp`, `MCLastMsgs`, `MCServer`, `MCDispatcher`, `MCTcpStream`, `MCWsConnection`, `MCSession` | values of the constants for TLC |
| `RouteCmpProofs`, `LastMsgsProofs`, `ServerProofs`, `DispatcherProofs`, `TcpStreamProofs`, `WsConnectionProofs`, `SessionProofs` | theorems and proofs about the module each is named after |
| `LeastNumber` | a lemma the proofs share |

### How the server's state and actions correspond to the code

`conns` is `reactor->connections`, `last_msgs` is `reactor->last_msgs`,
`readfds` and `nready` are those of `ducq_loop` and `round_table_ctx`, `pos` is
the loop variable of `connection_loop_template` (0 while the server is in
`select()`).  `obj` is the heap: the peer an allocated `ducq_i` speaks to.
`backlog` (a queue for the listener of each slot), `unread`, `partial`, `eof`
and `notified` are what the kernel holds.  `out` is what the last step sent.
`stale` and `closed` are histories.

A released slot keeps its pointer and its route, as in C, and only its `fd`
becomes -1.  An address may be given out again as soon as it is freed; the
kernel gives the lowest descriptor that is free.  Server and inotify slots hold
a callback where clients hold a pointer (a union); a function is never at the
address of a heap object, so `ducq_reactor_subscribe` never finds it, and it is
modelled as `NULL`.

One visit of `round_table` is one step, with the whole command it runs: the
server is one thread and nothing else touches its memory.  What the command
meets is chosen in the step: which log subscribers that have hung up fail to
take a line, and whether a send to a peer that has hung up succeeds (the first
send after a FIN usually does).  Sends to peers that have not hung up succeed.
A request is a count in `unread`, and what it asks is chosen when it is read:
every command with every argument, a frame of the transport's protocol
(`Ignore`), or a frame that is refused (`Disconnect`).

A frame may arrive in parts.  `partial[p]` says that the last thing `p` has sent
is a frame it has not finished (`BeginFrame`, `FinishFrame`).  One byte of it is
enough for `select()` (`Readable`), and the visit then waits: `ducq_tcp_recv`
reads the length digit by digit and the payload with `readn()`
(`ducq_tcp.c:34-50`, `inet_socket.c:18-40`), and an accepted connection has no
timeout.  The handler is one step that is taken once the whole frame or the end
of the stream is there; until then the visit is not enabled and the server
stands at that slot (`Blocked`), while the peers go on.  No client is obliged to
finish what it began.

The accept callback is not in the repository: the one a program writes accepts
a connection, makes a `ducq_i`, adds it, and closes it again when the table is
full (`Accept`, `Reject`).  It is mapped to the code that calls it and to
`ducq_reactor_add_client`.

### The transports and the client library

`TcpStream` has one receiver and one sender.  `tosend` is what `writen()` has
left of a frame, `wire` what the kernel holds; every `read()` and `write()`
takes any number of bytes, one step each.  `ptr`, `len`, `need` and `buf` are
where `ducq_tcp_recv` stands: the digits of the header it has read, what `atoi()`
makes of them, the payload still to read and the payload read.  A call ends in
`Return`, which forgets what it has read of an unfinished frame, as the code
does.  `errno` belongs to the process: it is kept from call to call, and a
call for another connection may leave its own timeout in it, or anything else,
between two calls of this one (`FailsElsewhere`).  `due` is a history, the messages sent
that are not empty.  A message has less than 1000 bytes, which is more than
`DUCQ_MSGSZ` (256): what `ducq_tcp_send` writes never makes `atoi()` overflow.
Payload read as a header after a torn frame could; there `len` is the number the
digits write, and no property speaks of it (a hazard without one,
`ducq_tcp.c:47`).

`WsHeader` writes headers as bytes, because the point is what is left in the
buffer when the next header is written over it; payloads are their lengths, up
to the four bytes of a length that fits an `int` (`Lengths`).  The room of the
receiver is 125 bytes at least (`WsAssumption`): no control frame is then too
long to be read.
`WsConnection` follows `_recv` of `ducq_http` until the upgrade (`ws = "none"`)
and of `ducq_ws` after it, with what `round_table` does of its result: a NACK,
then `_close`.  A frame is read in one step when it is whole; one that is cut
leaves any part of its header in the buffer.  `_close` is one step up to the
wait (`Close`), then one step a read (`DrainRead`, `DrainEnds`): the five reads
are those of `max_read-- < 0` from 3.  The browser is external: any frames, whole
or not, masked, and none after its CLOSE.

`Session` takes frames for whole and connections for queues of `Cap` frames; a
send into a full one blocks, the server's also.  Its clients call `ducq_pub`, or
`ducq_emit` and `ducq_listen`; `buf` is the command left in the buffer of the
call, which decides between the first timeout (a PING) and the second.  A read
times out only while nothing has come.  `answer` is the reply in the hands of the
server and `msgs` the clients it has still to send a publication to, so that
the server may block at each of them.  `conns` are the clients with a slot and
`route` the routes of their slots: empty until a client subscribes.  `Receivers`
asks what `_publish` asks, whether the route of the slot matches, and not
whether anybody subscribed; a publication on the empty route therefore goes to
every client that has not, its publisher included.  `toAll` is a history that
says that such a publication was made.  A callback may end `ducq_listen` after
every frame, and after the PING of a timeout, which `ducq_receive` reports like
one (`AfterWrite`).  The server's handlers are those of `Commands`, reduced to
whom they answer and in which order; what `Server` does with a log is left out.
It stands beside `Server`, which has every command and sends that do not block.

### The dispatcher

`objects`, `room` and `cmds` are the two passes of
`ducq_dispatcher_load_commands_path` and the memory between them.  `files` is
what is on disk, in versions; `queue` is the kernel's inotify queue, with its
merging of an event with the last and its overflow; `extensions`, `scan` and
`events` are where `ducq_dispatcher_add` and `accept_notify` stand, one script
a step, with other processes writing in between.  A script defines one command,
with an `exec` or without, overwrites the global table, or fails; a script that
is read while it is written may do any of it.  `stat()` or `opendir()` of an
added folder may fail, which keeps its slot and its watch and loads nothing
(`OpenDir`).  `Runs` and `ducq_dispatch` are `_find_command` and what runs.

`stack` is the Lua stack, value by value, and it has limited room.  Lua promises
`LUA_MINSTACK` (20) free slots to C code that asks for none, nothing in the code
calls `lua_checkstack`, and what a push beyond them does is undefined.  Every
operation that pushes therefore has two outcomes: what it needs at most `Fits`,
and it does what the code says, or it `Overruns` and the model ends in
`pc = "undefined"`.  `LoadPushes`, `LookupPushes` and `ListingPushes` are the
greatest heights each operation reaches.  `lookups` is a history, the requests
that have pushed anything.

Where the process ends, the models end: `pc = "crashed"` in `Dispatcher` (a file
without a dot among the shared objects) and `~alive` in `WsConnection` (a key of
the wrong length).  What happens after that is not asked.

### Left out of the server

The text of frames and log lines; the copies of log lines that do arrive;
routes longer than `DUCQ_MAX_ROUTE_LEN`; sends that block (those of `Server`
return at once, see `Session`); the receive timeout of HTTP and WebSocket
clients, which ends their wait inside a frame (`WsConnection`, `RecvCut`), and
the wait of their `_close`: the peers of `Server` are TCP clients, which have
neither; `ducq_reactor_free`; a failed
`malloc`; a dispatcher without Lua (it would leave its slot free); commands written in Lua, which may do anything to
the reactor; whatever C makes of freed memory: a command that goes on with a
released client reads what was there before, and its send fails.

## The runs

| run | configuration | shows |
|---|---|---|
| `route_cmp` | `MCRouteCmp.cfg` | all patterns up to length 4 against all texts up to length 3 over `a`, `b`, `*`: `TypeOK` (pointers inside the strings), `MatchesAreGlobMatches`, `ExactWhenUnambiguous`, `Returns` |
| `last_msgs` | `MCLastMsgs.cfg` | 5 routes (one empty), 2 messages, 3 channels: `OneSlotPerRoute`, `UsedSlotsFirst`, `LastIsLastPublished`, `NeverForgotten` |
| `last_msgs_full` | `MCLastMsgsFull.cfg` | **violated**: `LastPublishedIsAvailable`, the promise of sub's documentation, in a full table |
| `server_log` | `MCServerLog.cfg` | log route on; 4 slots (inotify, listener, 2 clients), 2 peers, 2 addresses, routes `""`, `*` and the log route: the safety of table, loop and commands, `WaitsInsideAFrameOrOnReused` for what it waits for, and `KeepsPromise` |
| `server_full` | `MCServerFull.cfg` | 4 slots (inotify, two listeners, one client): one client fits and the other is rejected, on either listener; 3 routes for 2 channels; up to 2 requests waiting, and a part of another: `KeepsPromise` |
| `server_live` | `MCServerLive.cfg` | log route off, fair: `WaitsOnlyInsideAFrame`, and, provided that frames are finished, `RequestsAreRead` and `HangUpsAreNoticed` |
| `server_unsub` | `MCServerUnsub.cfg` | **violated**: `UnsubIsAnswered`, a client that removes itself is not answered |
| `tcp_stream` | `MCTcpStream.cfg` | two messages out of five (empty, one byte, one that looks like a frame, one of two digits that just fits, one too long by one), one timeout: `FramesInOrder`, `WaitsOnlyForTheSender`, `EndIsRealOrEmptyFrame`, `CutFrameIsNoTimeout`, `FramesArrive` |
| `ws` | `MCWsConnection.cfg` | two frames of the browser, one of the server's own, besides PONGs, NACKs and CLOSEs; all requests: `FramesSayWhatIsMeant`, `MessagesInOrder`, `ClosedOnceAndLast`, `StatusTellsWhoBegan`, `ClosesEnd` |
| `ws_terminator` | `MCWsTerminator.cfg` | **violated**: `TerminatorInBuffer`, the comment on the length test of `ducq_ws.c:136` |
| `session` | `MCSession.cfg` | two clients, the empty route and another, four requests each and five in all, one timeout each, one frame in each direction: `EveryTimeoutSetsTwoBack`, `MutualWaitTakesMessages`, `ReadersFreeTheServer` |
| `dispatcher` | `MCDispatcher.cfg` | two folders, three scripts (two of one name, two for one command), one object of the name of a script's command, a queue of two events, a Lua stack with room for nine values, three changes or requests: `FreshOrPending`, `RunsWhatWasAsked`, `OnlyLuaLookupsLeak` |

**Bounds.**  `NSlots` stands for `DUCQ_MAX_CONNECTIONS` (25), `MaxChannels` for
`DUCQ_MAX_CHANNELS` (25), `MaxPending` bounds the requests of one peer that
nobody has read.  Two client slots and two addresses are enough for a client to
be deleted by another's command, for an address and a descriptor to move from
one slot to another, and for a free slot to lie before a used one; one client
slot and two peers are enough for a full table, and two listeners for two queues
of connections to be served in one round; two channels and three routes
for a table that is full with one route left out (three and five in `last_msgs`).  Nothing in the code compares
three clients with each other.  Symmetry is over peers and addresses, in runs
without liveness only.  `RouteCmp` deadlocks on purpose: the function returns.

`MaxSent` and `MaxTimeouts` in `TcpStream`: two messages show a frame that
follows one given up, empty or read in pieces.  `MaxFrames` and `MaxSends` in
`WsConnection`: two frames of the peer and what the server sends between them
write every kind of header over every other; `Size` is 130, so that lengths of
2, 126, 131 and 65536 fall on all sides of the 7 and 16 bits and of the buffer.
`MaxRequests` in `Session`: four are needed to fill both directions of a
connection and both ends' hands, and `MaxTotal`, five, leaves one for the other
client, to subscribe or to publish on a route it shares.  `MaxSteps` in `Dispatcher`: three
changes of files are enough to overflow the queue, to merge events, and to
change a script before, during and after a scan.  `LUA_MINSTACK` is 9 there
and not 20, so that three requests of three values can fill it; the theorems
hold for every value.  These four systems may stop
(the process dies, the stream ends, the bounds are reached), and their
configurations do not look for deadlocks; `Session` has `MutualWait` instead.

**Matching inside the server** is an operator constant, `Matches`; `MCServer`
gives it the value `RouteCmp` computes on the routes used there.

**Fairness.**  Weak fairness of the server's own steps: adding the listeners,
returning from `select()` when something is ready, visiting the next slot.
`ducq_loop` never leaves its loop, and a
`select()` interrupted by a signal is called again; with a signal at every call
it would still return, since nothing forces signals to come (WF of
`SelectReturns`, which stays enabled).  A visit returns once it has read its
frame: apart from that read it is straight-line code, since sends return at once
here.  A visit that waits inside a frame is not enabled, and weak fairness says
nothing of it.  Peers and signals have no fairness; a peer that stays inside a
frame for ever is a behaviour of `FairSpec`, in which nobody else is served any
more.  This is why `RequestsAreRead` and `HangUpsAreNoticed` have the premise
`FramesAreFinished`, which the code does not enforce and a timeout on accepted
connections would; without the premise TLC refutes both.
The loops of `readn` and `writen` go on until they are done (`TcpStream`: WF of
writing and of reading); nothing has to be sent.  In `WsConnection` the reactor
reads what `select()` reports and `_close` returns, by its timeout at the
latest (WF of `_recv` and `_close`); the peer may stay silent for ever.  In
`Session` the server serves each client that has written, and a call of the
library that can write or read does (WF of `Serve(c)`, `ducq_send(c)`,
`ducq_receive(c)`, and of the server's sends); no client has to make a call.
Liveness is claimed with the log route off only: with it on, the server may
also wait for a client that has sent nothing at all (`server_log`).

### What the runs taught

* `WaitsOnlyInsideAFrame`: a single client that sends `1`, or half a frame, and
  nothing more holds the whole server, for ever if it likes.  Without the log
  route this is the only way to make it wait in a read or an accept.
* `WaitsInsideAFrameOrOnReused`: with the log route on there is one more.  The log
  deletes a client that `select()` reported, a connection accepted in the same
  round takes its descriptor, and `FD_ISSET` takes it for ready although it may
  not have sent a byte.
* `EveryReadySlotIsVisited` holds: the early `break` of the countdown never
  leaves out a client that is still there.
* `OwnSlotFirst` holds, although free slots keep pointers: a new client takes
  the first free slot, so no free slot lies before it when it is added.
* `ClientOutlivesItsCommand` is the exact condition under which a command uses
  its released client: the client has hung up, or it asked for its own removal.
* `ExactWhenUnambiguous`: the comparison of routes does not backtrack, and
  `a*b` misses `abb`; `prefix*` is always exact.

* `TerminatorInBuffer` is violated: `ducq_ws.c:136` is two bytes too generous,
  and a message of `DUCQ_MSGSZ + 1` bytes is read, and terminated, past the
  reactor's buffer.
* `EveryTimeoutSetsTwoBack`: `ducq_receive` answers a timeout with a PING and
  returns `DUCQ_PROTOCOL`, which `ducq_pub` takes for its acknowledgement.  The
  late ACK and the PONG stay in the stream, so every later `ducq_pub` takes an
  answer that is two requests old, two more for each timeout: a NACK is blamed
  on another publication.  This is exact for a client that is sent no messages:
  one that has not subscribed, while nobody publishes on the empty route.
* `MutualWaitTakesMessages`: the server and a client can block each other for
  good, but only if the client is sent messages on the connection it publishes
  on; it then takes each for an acknowledgement, and runs ahead of the server.  It
  need not subscribe for that: the empty route is the route of every client that
  has not, so a lone client that publishes on it wedges the server all by
  itself: with one frame of room each way, with its fifth publication, or with its
  second after one timeout.
* `EndIsRealOrEmptyFrame`: an empty message is read as the end of the
  connection, and the reactor closes it.  `CutFrameIsNoTimeout`: after one
  timeout, of this connection or of another in the same process, a connection
  that dies inside a frame may be reported as a timeout.
* `OnlyLuaLookupsLeak`: each request that is looked up in Lua leaves one to three
  values on its stack (the table, the entry, a `nil`), `lscmd` up to four, and
  nothing ever removes them; no one calls `lua_checkstack`.
  `RunsWhatWasAsked` says what that means: every lookup starts from the top, so
  what lies below never leads it astray, but there is room for 20 values and no
  more.  A request that is not native may be undefined once `Crowded` holds, from
  the fifth such request on at the earliest; with unknown names alone, which
  leave two values each, it is about ten.  Native commands never touch the stack.
* `FreshOrPending`: the watch is set before the scan, so no change is missed
  between them.  Three things are: what an overflow of the queue drops, since
  descriptor -1 is taken for a free slot and nothing is scanned again, the
  scripts behind one that fails the scan, and all of a folder that `opendir()`
  could not open.

### The abstract service

`PubSub` knows no slot, descriptor, pointer or round.  `Server` implements it
(`KeepsPromise`): connected clients are those of live slots, a client's route
is that of its slot, the memory is the table of last messages restricted to its
used slots.  An acknowledged publication reaches in one step, once, every client
whose subscription matches and that has not hung up, its publisher included;
nobody else; and only clients that hung up are dropped on the way.  Allocation,
the fd set and the countdown are stuttering steps.

## The proofs

The theorems are of the form `Spec => []Inv`, `Spec => [][A]_vars` or, for the
refinement, `Spec => KeepsPromise`.  They hold for every value of the constants,
and rest on the named assumptions the modules declare:

| assumption | what it says |
|---|---|
| `RoutingAssumption`, `RoutesAreStrings` | the empty route is a route; routes are strings of characters |
| `ConnectionsAssumption`, `ReactorAssumption` | at least one slot, `NULL` is no address, the log route is a route |
| `LastMsgsAssumption` | what a free slot holds, and what a full table answers, is no message |
| `DispatcherAssumption` | a script is a folder and a name, -1 is no folder, finitely many shared objects, at least one slot and one event; the room of the Lua stack is a natural number |
| `TcpAssumption` | a message has less than 1000 bytes, the receiver room for one |
| `WsAssumption` | lengths fit an `int`, the receiver has room for 125 bytes |
| `SessionAssumption` | at least one client, room for one frame in a connection; the bounds are natural numbers |

`WaitsForAFrame` has the hypothesis `~AllowLogRoute` besides: without it the
property is false, because of the descriptors that are reused.  Every invariant, every action property and the refinement the passing
runs check is stated by a theorem.

**`ServerProofs`** is in three parts.

* The table: `TypeCorrect`, `TableIsSound` (`TableMatchesHeap`),
  `SubscriptionsLand` (`OwnSlotFirst`), `CommandsOutlived`
  (`ClientOutlivesItsCommand`).  The inductive invariant `IInv` is `TypeOK` with
  `TableInv`.  `OwnSlotFirst` alone is not inductive: a new client must not get
  an address that a connected one has, which is `TableMatchesHeap`, and no
  server's slot may hold it, `ServersHoldNoDucq`; the distinct peers of
  `TableMatchesHeap` need backlogs in which nobody waits twice or is accepted
  already, `WaitingAreNew`.  The key lemmas are `DropKeepsTable` (releasing any
  set of clients, in a table whose routes may just have changed: what every
  handler ends with) and `AddClientKeepsTable`; `ServedKeepsInv` reduces each
  command to what it sends and whom it deletes.
* The round: `NobodyIsLeftOut` (`EveryReadySlotIsVisited`),
  `WaitsForAFrameOrReused` (`WaitsInsideAFrameOrOnReused`), `WaitsForAFrame`
  (`WaitsOnlyInsideAFrame`).  `RoundInv`
  says that there is a set of descriptors, as many as `nready`, with those of all
  reported slots ahead in it (`Countdown`); that a slot ahead has something to
  read, be it a part of a frame, or has the number of a descriptor closed in this
  round
  (`NothingToWaitFor`, `ClosedInRound`); and that servers have the first slots
  and are never closed (`ServersFirst`).  The last is what keeps the countdown
  right: accepting comes before any client is visited, so a client accepted
  under a closed number takes the place that the closed one still had in the
  count.  Without the log
  route a visit to a server closes nothing, and nothing is accepted any more
  once something is closed (`OnlyClientsClose`).
* The promise: `ServerKeepsItsPromise` (`KeepsPromise`).  `MemoryInv` makes the
  table of last messages a function of its used slots, so that `SetLastMsg` is
  `PubSub`'s memory (`SetLastMsgMemory`, `Remembers`, `LastIsRemembered`);
  `DropLeaves` shows that releasing a set of slots is those clients' leaving,
  and no other's, by `TableMatchesHeap`; `OwnSlotFirst` shows that `subscribe`
  changes the route of the client that asked (`SubscriptionLands`).  Then one
  lemma a command (`PubPromised`, `SubPromised`, `UnsubPromised`, ...), one for
  accepting, and the steps of the kernel and of the loop are `PubSub`'s `Tick`,
  `HangUp` or stutters.

**The other components.**

* `LastMsgsProofs`: `TypeCorrect`, `RoutesAreUnique`, `TableIsCompact`,
  `LastIsCorrect`, `NothingIsForgotten`.  The invariant says that each used slot
  has what was published last on its route, and that a published route without
  a slot means a full table.
* `RouteCmpProofs`: `TypeCorrect`, `Soundness` (`MatchesAreGlobMatches`),
  `Completeness` (`ExactWhenUnambiguous`).  For soundness the invariant carries a
  cut of the two prefixes scanned so far, and each step extends it by one piece
  (`Extend`).  Completeness goes the other way: when the wildcards are
  unambiguous, every cut of the whole strings cuts where the pointers have gone
  (`OnlyChoice`), so an answer false refutes them all.
* `DispatcherProofs`: `NoChangeIsMissed` (`FreshOrPending`), `TheRightCommandRuns`
  (`RunsWhatWasAsked`), `OnlyLookupsLeak` (`OnlyLuaLookupsLeak`), `TypeCorrect`.
  The first needs that every watch has a slot with its own path, that an event
  is of a watched folder or says that the queue has overflowed, and that nothing
  is left of a scan or of a handler that has ended: so the handler drops the
  rest of its events only after an overflow.  The next two rest on what a lookup
  finds and leaves on any stack (`Lookup`, `CommandIsPopped`), and the second on
  `StackInv` besides: four values for each lookup so far bound the stack, six are
  the most the next operation pushes (`LookupPushesSix`), so one that overruns
  means that the stack was crowded (`OverrunStep`).  The types need
  that the second pass finds no more objects than the first made room for
  (`RoomSuffices`), and that the one event beyond the size of the queue is the
  one that says so (`QueueBounded`).
* `TcpStreamProofs`: `TypeCorrect`, `WholeMessagesInOrder` (`FramesInOrder`),
  `OnlyTheSenderIsAwaited` (`WaitsOnlyForTheSender`), `TheEndIsReal`
  (`EndIsRealOrEmptyFrame`), `NoTimeoutWithoutOne` (`CutFrameIsNoTimeout`).  The
  invariant supposes the stream of all bytes ever sent, where each frame begins
  in it (`Layout`) and how far it has been read; the wire and what is being
  written are its next bytes (`Kernel`), and, until a frame is given up, the
  receiver has read whole frames and of the next what `ptr`, `len` and `buf` say
  (`Position`).  `HeaderFacts` shows that `atoi()`, digit by digit, undoes what
  `snprintf` wrote.
* `WsConnectionProofs`: `TypeCorrect`, `FramesAreRight` (`FramesSayWhatIsMeant`),
  `MessagesArriveInOrder` (`MessagesInOrder`), `ClosesProperly`
  (`ClosedOnceAndLast`), `TheStatusTells` (`StatusTellsWhoBegan`).  First what
  the functions of `inet_ws.c` do to a header, byte by byte (`PutBytes` and the
  lemmas after it): `Outgoing` overwrites every bit that is read back, whatever
  was there.  Then an invariant by phases: before the upgrade nothing is said;
  while it lasts, what is in the stream completes what has been received to what
  was sent (`Order`), and nothing but messages and PONGs follow the 101.
* `SessionProofs`: `TypeCorrect`, `NoPublisherWedgesTheServer`
  (`MutualWaitTakesMessages`), `TimeoutsAddUp` (`EveryTimeoutSetsTwoBack`).
  As long as nobody has published on a route that the empty one matches, whatever
  is under way to the server and in its hands is meant for subscribers only
  (`Apart`).  The requests of a client that only publishes, with their answers,
  are then numbered without a gap through both directions and the server's hand (`Chain`), and two
  of them are left over for each timeout (`LastRead`).  A read times out only
  while nothing has come: what is left over then fits in one direction and the
  server's hand, which bounds the timeouts (`Counted`), and is less than two
  full directions with both ends writing.
* `LeastNumber`: a non-empty set of naturals has a least element, from the
  library's well-foundedness of `<`.  It stands in for induction where a scan
  finds "the first slot that ...".

Checked by TLC only: liveness (`Returns`, `RequestsAreRead`,
`HangUpsAreNoticed`, `FramesArrive`, `ClosesEnd`, `ReadersFreeTheServer`), since
the prover does neither liveness under fairness nor `ENABLED`.  The properties
that are violated have TLC's counterexamples.

## Not modelled

* The parsers of the client library, listings, log lines, addresses and the dump
  functions: text in, text out.  Two hazards of theirs are listed without a
  property (`list_subscriptions.c:22`, `ducq_reactor.c:499`).
* The client side of WebSocket and HTTP: `_conn` is not implemented, and nothing
  makes a client of either kind work; `ws_make_connection_key` has no caller.
* Connecting and listening: single system calls with no state of the program's.
* `recv_raw`, and PARTS, END and NACK as answers: each is read where an ACK is
  and ends or continues the call as an ACK does, a NACK with another result.
* An extension that is a single file, `ducq_dispatcher_free`, and what a script
  does through the Lua binding, which may be anything.
* base64 and SHA-1, the C++ wrapper, the interface table.

## The plan

Done: the server, its tables and its service; the transports, the client library
and the dispatcher; a theorem for every safety property and for the refinement.
Next, in this order:

1. Theorems about `PubSub` (a client stays subscribed until it unsubscribes, is
   expelled or hangs up; a remembered route is never forgotten), which the
   refinement carries over to `Server`.
2. `Session` as a refinement of a call that gets its own answer, which holds
   while nothing times out, nobody subscribes and the empty route is not used.
3. The buffers of listings and log lines (`list_subscriptions.c:22`,
   `ducq_reactor.c:499`) as arithmetic on lengths.
