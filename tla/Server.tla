------------------------------- MODULE Server -------------------------------
(***************************************************************************)
(* The whole server and its peers: the loop of Reactor, the commands of    *)
(* Commands and what the peers and the kernel do meanwhile.                *)
(***************************************************************************)
EXTENDS Commands

-----------------------------------------------------------------------------
\* The peers.  One that is not connected may connect; a connected one, accepted
\* or not, may send a request, at once or in parts, or hang up, and connect
\* again once it is gone.
Connect(p) ==
  /\ pos # Setup
  /\ p \notin Accepted \cup Backlog
  /\ \E k \in Servers : backlog' = [backlog EXCEPT ![k] = Append(@, p)]
  /\ Quiet
  /\ UNCHANGED <<unread, partial, eof, notified, server>>

MaySend(p) == /\ p \in Accepted \cup Backlog
              /\ ~eof[p] /\ ~partial[p]
              /\ unread[p] < MaxPending

\* A whole request, or a part of one that recv already refuses.
SendRequest(p) ==
  /\ MaySend(p)
  /\ unread' = [unread EXCEPT ![p] = @ + 1]
  /\ Quiet
  /\ UNCHANGED <<backlog, partial, eof, notified, server>>

\* Some bytes of a frame, not all of it, and nothing recv could refuse yet:
\* digits of its length, or the length and a part of the payload.
BeginFrame(p) ==
  /\ MaySend(p)
  /\ partial' = [partial EXCEPT ![p] = TRUE]
  /\ Quiet
  /\ UNCHANGED <<backlog, unread, eof, notified, server>>

FinishFrame(p) ==
  /\ partial[p]
  /\ partial' = [partial EXCEPT ![p] = FALSE]
  /\ unread' = [unread EXCEPT ![p] = @ + 1]
  /\ Quiet
  /\ UNCHANGED <<backlog, eof, notified, server>>

\* Inside a frame too: what recv then finds is an end of the stream like
\* another (DUCQ_ECONNCLOSED or DUCQ_EREAD, both delete the client).
HangUp(p) ==
  /\ p \in Accepted \cup Backlog
  /\ ~eof[p]
  /\ eof' = [eof EXCEPT ![p] = TRUE]
  /\ partial' = [partial EXCEPT ![p] = FALSE]
  /\ Quiet
  /\ UNCHANGED <<backlog, unread, notified, server>>

\* a script is dropped into a watched folder
DropScript ==
  /\ pos # Setup
  /\ notified' = TRUE
  /\ Quiet
  /\ UNCHANGED <<backlog, unread, partial, eof, server>>

Environment ==
  \/ \E p \in Peers : \/ Connect(p)
                     \/ SendRequest(p)
                     \/ BeginFrame(p)
                     \/ FinishFrame(p)
                     \/ HangUp(p)
  \/ DropScript

ducq_loop ==
  \/ AddListener
  \/ EnterLoop
  \/ SelectReturns
  \/ SelectFails
  \/ \E k \in Slots : round_table(k)
  \/ RoundEnds

Next == Environment \/ ducq_loop

Spec == Init /\ [][Next]_vars

\* The server never stays where it could go on: select() is called again after
\* a signal, and a visit returns once it has read its frame.  A visit that
\* waits inside a frame is not enabled, so nothing is assumed of it here; and
\* nothing obliges a peer, to go on with a frame least of all.
Fairness ==
  /\ WF_vars(AddListener \/ EnterLoop)
  /\ WF_vars(SelectReturns)
  /\ WF_vars((\E k \in Slots : round_table(k)) \/ RoundEnds)

FairSpec == Spec /\ Fairness

-----------------------------------------------------------------------------
Frames ==
  {Ack, Nack, <<"ACK_">>, <<"PONG">>, <<"TIME">>, <<"COMMANDS">>}
    \cup {Msg(r, m) : r \in Routes, m \in Msgs}
    \cup {<<"LIST", L>> : L \in SUBSET (Peers \X Routes)}

TypeOK ==
  /\ conns \in Tables
  /\ obj \in [Ducqs -> Peers \cup {NoPeer}]
  /\ pos \in Setup..(NSlots + 1)
  /\ readfds \in SUBSET Nat
  /\ nready \in Nat
  /\ backlog \in [Slots -> Seq(Peers)]
  /\ unread \in [Peers -> Nat]
  /\ partial \in [Peers -> BOOLEAN]
  /\ eof \in [Peers -> BOOLEAN]
  /\ notified \in BOOLEAN
  /\ LastMsgsTypeOK
  /\ out \in [Peers -> Seq(Frames)]
  /\ stale \in BOOLEAN
  /\ closed \in SUBSET Nat

\* The first slot that holds the pointer of a connected client is that client's
\* own: a free slot keeps the pointer of the client it had, malloc may give the
\* same address to the next one, and ducq_reactor_subscribe, which compares
\* pointers and not descriptors (ducq_reactor.c:229-239), would then subscribe
\* the free slot.
OwnSlotFirst ==
  \A k \in LiveClients(conns) : HoldsFirst(conns, k, conns[k].ducq)

\* The table and the heap agree: every connected client's ducq_i is allocated,
\* no two clients share one, nor a descriptor, nor a peer, and every allocated
\* one is in the table: nothing is leaked or released twice, whichever of the
\* log, a failed send and a disconnection deletes it first
\* (ducq_reactor.c:103-117, 218-219).
TableMatchesHeap ==
  /\ \A k \in LiveClients(conns) : conns[k].ducq \in Ducqs /\ PeerAt(k) # NoPeer
  /\ \A j, k \in LiveClients(conns) : j # k => PeerAt(j) # PeerAt(k)
  /\ \A j, k \in Slots :
       j # k /\ Live(conns, j) /\ Live(conns, k) => conns[j].fd # conns[k].fd
  /\ \A a \in Ducqs :
       obj[a] # NoPeer => \E k \in LiveClients(conns) : conns[k].ducq = a

\* A round leaves out no client that select() reported and that is still there,
\* although ducq_reactor.c:333 counts the visits down and stops at zero while
\* handlers delete slots that were counted and accept new clients.
EveryReadySlotIsVisited ==
  [][\A k \in Slots : IsNext(k) /\ pos' = AtSelect =>
       \A j \in (k + 1)..NSlots : ~(Live(conns', j) /\ conns'[j].fd \in readfds)]_vars

\* The server is waiting in a read or an accept at slot k, deaf to all others
\* (the inotify descriptor does not block).
Blocked(k) ==
  IsNext(k) /\ CASE conns[k].type = "notify"   -> FALSE
                 [] conns[k].type = "listener" -> backlog[k] = <<>>
                 [] conns[k].type = "client"   -> unread[PeerAt(k)] = 0 /\ ~eof[PeerAt(k)]

\* Whatever is accepted and deleted between select() and a visit, the server
\* reads only where there was something to read (ducq_reactor.c:330, 343): it
\* waits for a client that is in the middle of a frame and for no other, since
\* one byte satisfies select() and readn() has no timeout (ducq_tcp.c:34-50).
WaitsOnlyInsideAFrame ==
  \A k \in Slots : Blocked(k) => conns[k].type = "client" /\ partial[PeerAt(k)]

\* With the log route there is one more case: the log has deleted a client
\* select() reported, and the descriptor went to a client accepted in the same
\* round, which FD_ISSET takes for ready (ducq_reactor.c:330) though it may
\* not have sent a byte.
WaitsInsideAFrameOrOnReused ==
  \A k \in Slots :
    Blocked(k) => /\ conns[k].type = "client"
                  /\ partial[PeerAt(k)] \/ conns[k].fd \in closed

\* A command uses its client after releasing it only when that client had hung
\* up or asked to be removed itself (pub.c:61-62, unsub.c:46-47).
ClientOutlivesItsCommand ==
  [][stale' => \E k \in Slots : Client(k) /\ (eof[PeerAt(k)] \/ unsub(k, PeerAt(k)))]_vars

\* The tests of unsub (tests_cmd_unsubscribe.c) have the sender acknowledged
\* when the client it names has been removed; unsub.c:46-47 cannot do so when
\* the sender names itself.
UnsubIsAnswered ==
  [][\A k \in Slots, id \in Peers :
       unsub(k, id) /\ ~eof[PeerAt(k)] => out'[PeerAt(k)] = <<Ack>>]_vars

-----------------------------------------------------------------------------
\* The server implements PubSub: the subscription of a peer is the route of its
\* slot, the memory is the table of last messages.
SlotOf(p)  == CHOOSE k \in LiveClients(conns) : PeerAt(k) = p
RouteOf(p) == IF p \in Accepted THEN conns[SlotOf(p)].route ELSE EmptyRoute

Promise == INSTANCE PubSub WITH
  connected <- Accepted,
  broken    <- {p \in Accepted : eof[p]},
  route     <- [p \in Peers |-> RouteOf(p)],
  memory    <- [r \in Remembered |->
                  last_msgs[CHOOSE c \in Channels : last_msgs[c].route = r].msg]

\* A publication reaches exactly the connected, matching clients, a subscriber
\* gets the last message, the clients that go are the ones that had to go:
\* every step of the loop and of the commands is one of PubSub's
\* (pub.c, sub.c, unsub.c, lsconn.c, ducq_reactor.c:210-272, 326-363, 463-506).
KeepsPromise == Promise!Spec

-----------------------------------------------------------------------------
\* Liveness, when the log route is off.  A single peer silent inside a frame
\* holds the whole server, so these promises have a condition that the code
\* does not enforce: nobody stays inside a frame for ever.
FramesAreFinished == \A p \in Peers : []<>~partial[p]

\* A client whose requests wait is served, however busy the others are: each
\* round visits every ready slot (ducq_reactor.c:364-393).
RequestsAreRead ==
  FramesAreFinished =>
    \A p \in Peers : unread[p] = MaxPending ~> unread[p] < MaxPending

\* A client that hangs up is found out and its slot is freed for another
\* (ducq_reactor.c:350-358).
HangUpsAreNoticed == FramesAreFinished => \A p \in Peers : eof[p] ~> ~eof[p]
=============================================================================
