------------------------------ MODULE Reactor ------------------------------
(***************************************************************************)
(* The server: the single-threaded select() loop of ducq_reactor.c, the    *)
(* commands it dispatches (src/src/commands/), the kernel's side of its    *)
(* sockets and the peers at their other ends.                              *)
(*                                                                         *)
(* The server runs one handler at a time, so a visit of round_table to one *)
(* ready slot, with the whole command it dispatches, is one step.  Between *)
(* two visits the peers may do anything: the visits of a round use the fd  *)
(* set of a select() that returned before.                                 *)
(*                                                                         *)
(* A request is chosen when it is read.  It may come in parts: select() is *)
(* satisfied with the first byte, and the read then waits for the rest     *)
(* without a timeout.  A send to a peer that has hung up may still succeed *)
(* or may fail; one to any other peer succeeds at once (the sends that     *)
(* wait for a peer to read are Session's subject).  The frames a handler   *)
(* sends are in out until the next step, but for the copies of the log     *)
(* sent to the subscribers of the log route: only their failures, which    *)
(* delete the subscriber, are modelled.                                    *)
(***************************************************************************)
EXTENDS Connections, LastMsgs, Sequences, FiniteSets

CONSTANTS Peers,          \* the clients' ends of the connections
          NoPeer,         \* no peer: the address holds no ducq_i
          LogRoute,       \* DUCQ_LOG_ROUTE
          AllowLogRoute,  \* reactor->allow_log_route
          Matches(_, _),  \* ducq_route_cmp(subscription, publication)
          NListeners,     \* the listening sockets the program adds
          MaxPending      \* bound: requests a peer has sent, wholly or in
                          \* part, and nobody read

ASSUME ReactorAssumption ==
  /\ NoPeer \notin Peers
  /\ LogRoute \in Routes
  /\ AllowLogRoute \in BOOLEAN
  /\ NListeners \in Nat
  /\ MaxPending \in Nat

VARIABLES
  conns,     \* reactor->connections
  obj,       \* the heap: the peer the ducq_i at an address speaks to
  pos,       \* where the server is: Setup, AtSelect, or the next slot to visit
  readfds,   \* ctx->fds, what select() reported
  nready,    \* ctx->nready
  backlog,   \* kernel: for each listener, the connections not yet accepted
  unread,    \* kernel: the whole requests of each peer not yet read
  partial,   \* kernel: after them, a frame of which the peer has sent a part
  eof,       \* kernel: the peer has hung up
  notified,  \* kernel: an inotify event is pending
  out,       \* the frames the last step sent to each peer
  stale,     \* the last handler used its client after releasing it
  closed     \* history: the descriptors closed since select() returned

server == <<conns, obj, pos, readfds, nready, last_msgs, closed>>
kernel == <<backlog, unread, partial, eof, notified>>
vars   == <<server, kernel, out, stale>>

Setup    == -1
AtSelect == 0

\* The peer at slot k
PeerAt(k) == obj[conns[k].ducq]
Accepted  == {PeerAt(k) : k \in LiveClients(conns)}
Backlog   == {p \in Peers : \E k \in Slots : \E n \in 1..Len(backlog[k]) : backlog[k][n] = p}

Silent  == [p \in Peers |-> <<>>]
Quiet   == out' = Silent /\ stale' = FALSE
To(p, f) == [Silent EXCEPT ![p] = <<f>>]

Ack       == <<"ACK">>
Nack      == <<"NACK">>
Msg(r, m) == <<"MSG", r, m>>

\* what ducq_get_last_msg returns, as a frame: the publication itself
LastFrame(r) ==
  LET m == GetLastMsg(r)
  IN  IF m = NoMsg THEN Ack ELSE IF m = FullMsg THEN <<"ACK_">> ELSE Msg(r, m)

-----------------------------------------------------------------------------
\* ducq_reactor_new: the dispatcher's inotify server takes the first slot.
Init ==
  /\ conns = AddServer(EmptyTable, 1, 0, "notify")
  /\ obj = [a \in Ducqs |-> NoPeer]
  /\ pos = Setup
  /\ readfds = {}
  /\ nready = 0
  /\ backlog = [k \in Slots |-> <<>>]
  /\ unread = [p \in Peers |-> 0]
  /\ partial = [p \in Peers |-> FALSE]
  /\ eof = [p \in Peers |-> FALSE]
  /\ notified = FALSE
  /\ LastMsgsInit
  /\ out = Silent
  /\ stale = FALSE
  /\ closed = {}

\* the kernel gives the lowest descriptor that is not open
FreshFd(f) == /\ f \in 0..NSlots
              /\ f \notin OpenFds(conns)
              /\ \A g \in 0..(f - 1) : g \in OpenFds(conns)

Servers == {k \in Slots : Live(conns, k) /\ conns[k].type = "listener"}

AddListener ==
  /\ pos = Setup
  /\ Cardinality(Servers) < NListeners
  /\ \E k \in Slots, f \in 0..NSlots :
        /\ FirstFree(conns, k)
        /\ FreshFd(f)
        /\ conns' = AddServer(conns, k, f, "listener")
  /\ Quiet
  /\ UNCHANGED <<obj, pos, readfds, nready, last_msgs, closed, kernel>>

EnterLoop ==
  /\ pos = Setup
  /\ Cardinality(Servers) = NListeners
  /\ pos' = AtSelect
  /\ Quiet
  /\ UNCHANGED <<conns, obj, readfds, nready, last_msgs, closed, kernel>>

-----------------------------------------------------------------------------
\* What select() reports of a socket: a single byte is enough, and so is the
\* end of the stream.
Readable(k) ==
  CASE conns[k].type = "notify"   -> notified
    [] conns[k].type = "listener" -> backlog[k] # <<>>
    [] conns[k].type = "client"   -> \/ unread[PeerAt(k)] > 0
                                 \/ partial[PeerAt(k)]
                                 \/ eof[PeerAt(k)]

\* Mutant: every watched descriptor is taken for ready.
WatchedFds == OpenFds(conns)

ReadyFds == {conns[k].fd : k \in {j \in Slots : Live(conns, j) /\ Readable(j)}}

SelectReturns ==
  /\ pos = AtSelect
  /\ ReadyFds # {}
  /\ readfds' = ReadyFds
  /\ nready' = Cardinality(ReadyFds)
  /\ pos' = 1
  /\ closed' = {}
  /\ Quiet
  /\ UNCHANGED <<conns, obj, last_msgs, kernel>>

\* The slots a call of ducq_reactor_log deletes, when those in S are released
\* and the table is t: subscribers of the log route whose send fails.
LogLosses(t, S) ==
  IF AllowLogRoute
  THEN SUBSET {k \in LiveClients(t) \ S : t[k].route = LogRoute /\ eof[PeerAt(k)]}
  ELSE {{}}

ClosedAfter(fds) == IF pos' = AtSelect THEN {} ELSE closed \cup fds

\* Mutant: the ducq_i of a released slot is not freed.
DropLeaks(t, gone) ==
  /\ conns' = Release(t, gone)
  /\ obj' = obj
  /\ eof' = [p \in Peers |-> eof[p] /\ p \notin {PeerAt(k) : k \in gone}]
  /\ partial' = [p \in Peers |-> partial[p] /\ p \notin {PeerAt(k) : k \in gone}]
  /\ closed' = ClosedAfter({t[k].fd : k \in gone})

\* The slots in gone are released: their sockets close, their ducq_i are freed.
Drop(t, gone) ==
  /\ conns' = Release(t, gone)
  /\ obj' = [a \in Ducqs |-> IF a \in {t[k].ducq : k \in gone} THEN NoPeer ELSE obj[a]]
  /\ eof' = [p \in Peers |-> eof[p] /\ p \notin {PeerAt(k) : k \in gone}]
  /\ partial' = [p \in Peers |-> partial[p] /\ p \notin {PeerAt(k) : k \in gone}]
  /\ closed' = ClosedAfter({t[k].fd : k \in gone})

\* Mutant: the reader of a closed stream counts as having read a frame.
UnreadAfterRead(gone, reader) ==
  [p \in Peers |-> IF p = reader THEN unread[p] - 1 ELSE unread[p]]

UnreadAfter(gone, reader) ==
  [p \in Peers |-> IF p \in {PeerAt(k) : k \in gone} THEN 0
                   ELSE IF p = reader THEN unread[p] - 1 ELSE unread[p]]

\* A signal interrupts select(): it is logged and the loop starts again.
SelectFails ==
  /\ pos = AtSelect
  /\ UNCHANGED <<pos, readfds, nready, backlog, notified, last_msgs>>
  /\ \E gone \in LogLosses(conns, {}) :
        /\ Drop(conns, gone)
        /\ unread' = UnreadAfter(gone, NoPeer)
  /\ Quiet

-----------------------------------------------------------------------------
\* The scan of connection_loop_template: FD_ISSET on the slots from pos on.
Visitable(k) == Live(conns, k) /\ conns[k].fd \in readfds

IsNext(k) == /\ pos > AtSelect
             /\ k \in pos..NSlots
             /\ Visitable(k)
             /\ \A j \in pos..(k - 1) : ~Visitable(j)

\* What a round leaves in its variables is overwritten by the next select().
BackToSelect == pos' = AtSelect /\ nready' = 0 /\ readfds' = {}

Continue(k, n) == pos' = k + 1 /\ nready' = n /\ UNCHANGED readfds

\* Mutant: every visit ends the round.
AdvanceBreaks(k) == BackToSelect

\* Mutant: the countdown stops one visit early.
AdvanceTooEarly(k) == IF nready - 1 <= 1 THEN BackToSelect ELSE Continue(k, nready - 1)

\* if(--ctx->nready <= 0 ) control = DUCQ_LOOP_BREAK;
Advance(k) == IF nready - 1 <= 0 THEN BackToSelect ELSE Continue(k, nready - 1)

RoundEnds ==
  /\ pos > AtSelect
  /\ \A k \in Slots : ~IsNext(k)
  /\ BackToSelect
  /\ closed' = {}
  /\ Quiet
  /\ UNCHANGED <<conns, obj, last_msgs, kernel>>

\* ducq_dispatcher_accept_notify: reads the events, logs, loads the scripts.
AcceptNotify(k) ==
  /\ IsNext(k)
  /\ conns[k].type = "notify"
  /\ notified' = FALSE
  /\ Advance(k)
  /\ \E gone \in LogLosses(conns, {}) :
        /\ Drop(conns, gone)
        /\ unread' = UnreadAfter(gone, NoPeer)
  /\ Quiet
  /\ UNCHANGED <<backlog, last_msgs>>

\* The listener's accept callback, the program's own: it accepts a connection,
\* makes a ducq_i for it and hands both to ducq_reactor_add_client.
Accept(k) ==
  /\ IsNext(k)
  /\ conns[k].type = "listener"
  /\ backlog[k] # <<>>
  /\ \E s \in Slots, f \in 0..NSlots, a \in {b \in Ducqs : obj[b] = NoPeer} :
        /\ FirstFree(conns, s)
        /\ FreshFd(f)
        /\ conns' = AddClient(conns, s, f, a)
        /\ obj' = [obj EXCEPT ![a] = Head(backlog[k])]
  /\ backlog' = [backlog EXCEPT ![k] = Tail(@)]
  /\ Advance(k)
  /\ closed' = ClosedAfter({})
  /\ Quiet
  /\ UNCHANGED <<unread, partial, eof, notified, last_msgs>>

\* ... and closes the connection again when the table is full (DUCQ_EMAX).
Reject(k) ==
  /\ IsNext(k)
  /\ conns[k].type = "listener"
  /\ backlog[k] # <<>>
  /\ \A s \in Slots : Live(conns, s)
  /\ backlog' = [backlog EXCEPT ![k] = Tail(@)]
  /\ unread' = [unread EXCEPT ![Head(backlog[k])] = 0]
  /\ partial' = [partial EXCEPT ![Head(backlog[k])] = FALSE]
  /\ eof' = [eof EXCEPT ![Head(backlog[k])] = FALSE]
  /\ Advance(k)
  /\ closed' = ClosedAfter({})
  /\ Quiet
  /\ UNCHANGED <<conns, obj, notified, last_msgs>>
=============================================================================
