------------------------------ MODULE Commands ------------------------------
(***************************************************************************)
(* What round_table does with a ready client: it receives one frame and    *)
(* runs the command it names (src/src/commands/, ducq_dispatch).  One      *)
(* action per command, each the whole handler.                             *)
(*                                                                         *)
(* A command that runs on after it has released its own client (stale)     *)
(* sends on a closed descriptor through a freed ducq_i.  That is undefined *)
(* in C; here the freed memory still reads as before and the send fails.   *)
(***************************************************************************)
EXTENDS Reactor

Client(k) == IsNext(k) /\ conns[k].type = "client"

\* recv gives one frame; until the peer has sent the rest of it, or hangs up,
\* the visit waits in it and so does the whole server (ducq_tcp.c:34-50).
Receives(k) == Client(k) /\ unread[PeerAt(k)] > 0

\* what a send to p may return: success, or failure when p has hung up
Sends(p) == IF eof[p] THEN BOOLEAN ELSE {TRUE}

\* The rest of the handler of slot k: t is the table, gone the slots it deletes
Served(k, t, gone) ==
  /\ Advance(k)
  /\ Drop(t, gone)
  /\ unread' = UnreadAfter(gone, PeerAt(k))
  /\ UNCHANGED <<backlog, notified>>

\* Commands that log, then answer their client: its slot may be gone by then,
\* the failure of the answer is only reported to the dispatcher.
LogThenAnswer(k, frame) ==
  /\ Receives(k)
  /\ \E gone \in LogLosses(conns, {}), sent \in Sends(PeerAt(k)) :
        /\ Served(k, conns, gone)
        /\ out' = IF sent /\ k \notin gone THEN To(PeerAt(k), frame) ELSE Silent
        /\ stale' = (k \in gone)
  /\ UNCHANGED last_msgs

\* Commands and errors that answer first and then log.
AnswerThenLog(k, frame) ==
  /\ Receives(k)
  /\ \E gone \in LogLosses(conns, {}), sent \in Sends(PeerAt(k)) :
        /\ Served(k, conns, gone)
        /\ out' = IF sent THEN To(PeerAt(k), frame) ELSE Silent
  /\ stale' = FALSE
  /\ UNCHANGED last_msgs

PING(k)    == LogThenAnswer(k, <<"PONG">>)
epoch(k)   == LogThenAnswer(k, <<"TIME">>)
lscmd(k)   == LogThenAnswer(k, <<"COMMANDS">>)
unknown(k) == LogThenAnswer(k, Nack)

\* a listing: the id and the route of every client connected, but for S
Listing(S) ==
  <<"LIST", {<<PeerAt(j), conns[j].route>> : j \in LiveClients(conns) \ S}>>

lsconn(k) == AnswerThenLog(k, Listing({}))

\* list_subscriptions logs first: whom the log deletes is not listed any more
list_subscriptions(k) ==
  /\ Receives(k)
  /\ \E gone \in LogLosses(conns, {}), sent \in Sends(PeerAt(k)) :
        /\ Served(k, conns, gone)
        /\ out' = IF sent /\ k \notin gone THEN To(PeerAt(k), Listing(gone)) ELSE Silent
        /\ stale' = (k \in gone)
  /\ UNCHANGED last_msgs

\* PONG only logs.
PONG(k) ==
  /\ Receives(k)
  /\ \E gone \in LogLosses(conns, {}) : Served(k, conns, gone)
  /\ Quiet
  /\ UNCHANGED last_msgs

-----------------------------------------------------------------------------
\* the slots _publish sends to
Subscribers(r) == {j \in LiveClients(conns) : Matches(conns[j].route, r)}

\* Mutant: a subscriber may be deleted although the send succeeded.
DeletableAnyway(S) == S

\* the slots among S whose send may fail, and which are then deleted
Deletable(S) == {j \in S : eof[PeerAt(j)]}

\* pub: the message is recorded, acknowledged, logged, sent to the subscribers,
\* those whose send fails are deleted, and the count is logged.  When the
\* acknowledgement fails the publisher is deleted and nobody gets the message.
pub(k, r, m) ==
  /\ Receives(k)
  /\ SetLastMsg(r, m)
  /\ \E acked \in Sends(PeerAt(k)), L1 \in LogLosses(conns, {}) :
       \/ /\ ~acked
          /\ Served(k, conns, L1 \cup {k})
          /\ Quiet
       \/ /\ acked
          /\ \E F \in SUBSET Deletable(Subscribers(r) \ L1) :
             \E L2 \in LogLosses(conns, L1 \cup F) :
               Served(k, conns, L1 \cup F \cup L2)
               /\ LET reached == {PeerAt(j) : j \in Subscribers(r) \ (L1 \cup F)}
                  IN  out' = [p \in Peers |->
                                (IF p = PeerAt(k) THEN <<Ack>> ELSE <<>>)
                                \o (IF p \in reached THEN <<Msg(r, m)>> ELSE <<>>)]
               /\ stale' = (k \in L1 \cup F)

\* ... without a route (no newline): refused, and the publisher deleted
pubWithoutRoute(k) ==
  /\ Receives(k)
  /\ \E sent \in Sends(PeerAt(k)), L \in LogLosses(conns, {}) :
        /\ Served(k, conns, L \cup {k})
        /\ out' = IF sent THEN To(PeerAt(k), Nack) ELSE Silent
  /\ stale' = FALSE
  /\ UNCHANGED last_msgs

\* sub: the route is set on the first slot with the client's pointer, then the
\* client gets an acknowledgement or, if it asked for it, the last message;
\* when that fails, the failure is logged and the client deleted.
sub(k, r, last) ==
  /\ Receives(k)
  /\ LET t == SetRoute(conns, conns[k].ducq, r)
     IN  \E sent \in Sends(PeerAt(k)), L \in LogLosses(t, {}) :
           /\ Served(k, t, IF sent THEN L ELSE L \cup {k})
           /\ out' = IF sent THEN To(PeerAt(k), IF last THEN LastFrame(r) ELSE Ack)
                             ELSE Silent
  /\ stale' = FALSE
  /\ UNCHANGED last_msgs

\* ... without a route (no newline): refused, the client stays
subWithoutRoute(k) == AnswerThenLog(k, Nack)

HasId(j, id) == j \in LiveClients(conns) /\ PeerAt(j) = id

\* unsub: the first client with the id is deleted, then the log, then the answer
unsub(k, id) ==
  /\ Receives(k)
  /\ \E j \in Slots :
        /\ HasId(j, id)
        /\ \A i \in 1..(j - 1) : ~HasId(i, id)
        /\ \E L \in LogLosses(conns, {j}), sent \in Sends(PeerAt(k)) :
              /\ Served(k, conns, L \cup {j})
              /\ out' = IF sent /\ k \notin L \cup {j} THEN To(PeerAt(k), Ack) ELSE Silent
              /\ stale' = (k \in L \cup {j})
  /\ UNCHANGED last_msgs

\* ... with an id no client has: NACK, as for an empty id
unsubNotFound(k, id) ==
  /\ \A j \in Slots : ~HasId(j, id)
  /\ LogThenAnswer(k, Nack)

-----------------------------------------------------------------------------
Dispatch(k) ==
  \/ PING(k)
  \/ epoch(k)
  \/ lscmd(k)
  \/ unknown(k)
  \/ list_subscriptions(k)
  \/ lsconn(k)
  \/ PONG(k)
  \/ \E r \in Routes, m \in Msgs : pub(k, r, m)
  \/ pubWithoutRoute(k)
  \/ \E r \in Routes, last \in BOOLEAN : sub(k, r, last)
  \/ subWithoutRoute(k)
  \/ \E id \in Peers : unsub(k, id) \/ unsubNotFound(k, id)

\* case DUCQ_PROTOCOL: break; // ignore
Ignore(k) == /\ Receives(k)
             /\ Served(k, conns, {})
             /\ Quiet
             /\ UNCHANGED last_msgs

\* Mutant: a closed connection is ignored like a frame of the protocol.
DisconnectIgnored(k) ==
  /\ Client(k)
  /\ unread[PeerAt(k)] = 0 /\ eof[PeerAt(k)]
  /\ Advance(k)
  /\ Quiet
  /\ UNCHANGED <<conns, obj, unread, partial, eof, backlog, notified, last_msgs, closed>>

\* default: recv failed, on a frame it refuses or at the end of the stream,
\* which may come inside a frame.
Disconnect(k) ==
  /\ Client(k)
  /\ unread[PeerAt(k)] > 0 \/ eof[PeerAt(k)]
  /\ \E sent \in Sends(PeerAt(k)), L \in LogLosses(conns, {}) :
        /\ Served(k, conns, L \cup {k})
        /\ out' = IF sent THEN To(PeerAt(k), Nack) ELSE Silent
  /\ stale' = FALSE
  /\ UNCHANGED last_msgs

round_table(k) ==
  \/ AcceptNotify(k)
  \/ Accept(k)
  \/ Reject(k)
  \/ Dispatch(k)
  \/ Ignore(k)
  \/ Disconnect(k)
=============================================================================
