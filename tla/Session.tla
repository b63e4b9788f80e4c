------------------------------- MODULE Session -------------------------------
(***************************************************************************)
(* Clients that use the library's calls (ducq_pub, ducq_emit, ducq_listen, *)
(* ducq_receive) and the server that answers them, over connections that   *)
(* hold a bounded number of frames: a send into a full one blocks, the     *)
(* whole server with it.  A client whose read times out sends a PING.      *)
(*                                                                         *)
(* A client that has not subscribed has the empty route in its slot, so a  *)
(* publication on a route that "" matches goes to it too.  Frames are      *)
(* whole (module TcpStream), and the server does not stop.                 *)
(***************************************************************************)
EXTENDS Routing, Naturals, Sequences, Functions

CONSTANTS Matches(_, _),  \* ducq_route_cmp(subscription, publication)
          N,            \* number of clients, in the order of their slots
          Cap,          \* frames a connection holds in one direction
          MaxRequests,  \* bound: requests of each client, PINGs included
          MaxTotal,     \* bound: requests of all clients
          MaxTimeouts   \* bound: PINGs of each client

ASSUME SessionAssumption ==
  /\ N \in Nat \ {0} /\ Cap \in Nat \ {0}
  /\ MaxRequests \in Nat /\ MaxTotal \in Nat /\ MaxTimeouts \in Nat

Clients == 1..N

\* A frame and the request it is, or answers; a MSG answers none.  Only a pub
\* and a sub have a route, the others have "" here.
Kinds  == {"pub", "sub", "PING", "ACK", "PONG", "MSG"}
Frames == [kind : Kinds, tag : 0..MaxRequests, route : Routes]
OnRoute(r, kind, tag) == [kind |-> kind, tag |-> tag, route |-> r]
Frame(kind, tag) == OnRoute(EmptyRoute, kind, tag)
Nothing == Frame("MSG", 0)
Answers == [to : Clients, frame : Frames, pub : BOOLEAN]
Msg(c)   == [to |-> c, frame |-> Nothing, pub |-> FALSE]
NoAnswer == Msg(1)

VARIABLES
  up,       \* up[c]: frames written by c that the server has not read
  down,     \* down[c]: frames written by the server that c has not read
  call,     \* call[c]: the call c is in, "pub", "listen" or "none"
  out,      \* out[c]: what c is writing, or Nothing
  buf,      \* buf[c]: the command in the buffer of the call, "none" outside a call
  ret,      \* ret[c]: what the last call returned, "none" in a call and before
  gone,     \* the clients whose process has ended
  conns,    \* the clients the server has a slot for
  route,    \* route[c]: the route of c's slot
  answer,   \* the answer the server's handler has still to send
  msgs,     \* and the clients it has still to send a MSG to
  nreq,     \* history: the requests of each client, PINGs included
  pings,    \* history: the PINGs among them
  hasSub,   \* history: the clients that have asked to subscribe
  toAll     \* history: somebody published on a route that "" matches

clientVars == <<call, out, buf, ret, nreq, pings, hasSub, toAll>>
serverVars == <<conns, route, answer, msgs>>
vars == <<up, down, gone, clientVars, serverVars>>

Init ==
  /\ up = [c \in Clients |-> <<>>] /\ down = [c \in Clients |-> <<>>]
  /\ call = [c \in Clients |-> "none"] /\ out = [c \in Clients |-> Nothing]
  /\ buf = [c \in Clients |-> "none"] /\ ret = [c \in Clients |-> "none"]
  /\ gone = {} /\ conns = Clients /\ route = [c \in Clients |-> EmptyRoute]
  /\ answer = NoAnswer /\ msgs = {}
  /\ nreq = [c \in Clients |-> 0]
  /\ pings = [c \in Clients |-> 0] /\ hasSub = {} /\ toAll = FALSE

-----------------------------------------------------------------------------
\* A client

\* It hands a request to ducq_send, which goes on as long as it takes.
Write(c, kind, r) ==
  /\ nreq[c] < MaxRequests
  /\ SumFunction(nreq) < MaxTotal
  /\ nreq' = [nreq EXCEPT ![c] = @ + 1]
  /\ out' = [out EXCEPT ![c] = OnRoute(r, kind, nreq'[c])]

Calls(c, name) ==
  /\ c \notin gone /\ call[c] = "none"
  /\ call' = [call EXCEPT ![c] = name]
  /\ ret' = [ret EXCEPT ![c] = "none"]

ducq_pub(c, r) ==
  /\ Calls(c, "pub") /\ Write(c, "pub", r)
  /\ toAll' = (toAll \/ Matches(EmptyRoute, r))
  /\ UNCHANGED <<up, down, gone, serverVars, buf, pings, hasSub>>

\* ducq_emit of a sub, then ducq_listen
ducq_listen(c, r) ==
  /\ Calls(c, "listen") /\ Write(c, "sub", r)
  /\ hasSub' = hasSub \cup {c}
  /\ UNCHANGED <<up, down, gone, serverVars, buf, pings, toAll>>

Returns(c, state) ==
  /\ call' = [call EXCEPT ![c] = "none"]
  /\ ret' = [ret EXCEPT ![c] = state]
  /\ buf' = [buf EXCEPT ![c] = "none"]

GoesOn(c, kind) ==
  /\ buf' = [buf EXCEPT ![c] = kind]
  /\ UNCHANGED <<call, ret>>

\* Mutant: DUCQ_PROTOCOL is handed to the caller.
PubStateRaw(state) == state

\* return state <= DUCQ_PROTOCOL ? DUCQ_OK : state
PubState(state) == IF state \in {"DUCQ_OK", "DUCQ_PROTOCOL"} THEN "DUCQ_OK" ELSE state

\* Mutant: ducq_pub does not wait for its acknowledgement.
AfterWriteOfAny(c) ==
  IF call[c] = "pub" THEN Returns(c, "DUCQ_OK") ELSE GoesOn(c, buf[c])

\* A request has been written.  After a PING, ducq_receive returns
\* DUCQ_PROTOCOL: ducq_pub takes it for its acknowledgement, and a callback of
\* ducq_listen may end it.
AfterWrite(c) ==
  \/ call[c] = "pub" /\ out[c].kind = "PING" /\ Returns(c, PubState("DUCQ_PROTOCOL"))
  \/ call[c] = "listen" /\ out[c].kind = "PING" /\ Returns(c, "DUCQ_PROTOCOL")
  \/ ~(call[c] = "pub" /\ out[c].kind = "PING") /\ GoesOn(c, buf[c])

ducq_send(c) ==
  /\ out[c] # Nothing /\ Len(up[c]) < Cap
  /\ up' = [up EXCEPT ![c] = Append(@, out[c])]
  /\ out' = [out EXCEPT ![c] = Nothing]
  /\ AfterWrite(c)
  /\ UNCHANGED <<down, gone, serverVars, nreq, pings, hasSub, toAll>>

Reading(c) == call[c] # "none" /\ out[c] = Nothing

\* what ducq_receive makes of a frame; the server sends no PING
StateOf(kind) == IF kind = "MSG" THEN "DUCQ_OK" ELSE "DUCQ_PROTOCOL"

\* ducq_receive gets a frame, whatever it answers.  A callback of ducq_listen
\* may end it.
ducq_receive(c) ==
  /\ Reading(c) /\ down[c] # <<>>
  /\ LET kind == Head(down[c]).kind
     IN  \/ call[c] = "pub" /\ Returns(c, PubState(StateOf(kind)))
         \/ call[c] = "listen" /\ Returns(c, StateOf(kind))
         \/ call[c] = "listen" /\ GoesOn(c, kind)
  /\ down' = [down EXCEPT ![c] = Tail(@)]
  /\ UNCHANGED <<up, gone, serverVars, out, nreq, pings, hasSub, toAll>>

TimesOut(c) == Reading(c) /\ down[c] = <<>>

\* Mutant: the timeout is passed over in silence.
TimeoutIgnored(c) ==
  /\ TimesOut(c) /\ buf[c] # "PING"
  /\ pings[c] < MaxTimeouts
  /\ pings' = [pings EXCEPT ![c] = @ + 1]
  /\ IF call[c] = "pub" THEN Returns(c, "DUCQ_OK") ELSE GoesOn(c, "PING")
  /\ UNCHANGED <<up, down, gone, serverVars, out, nreq, hasSub, toAll>>

\* The read timed out: the buffer becomes a PING, which is sent ...
FirstTimeout(c) ==
  /\ TimesOut(c) /\ buf[c] # "PING"
  /\ pings[c] < MaxTimeouts
  /\ pings' = [pings EXCEPT ![c] = @ + 1]
  /\ GoesOn(c, "PING")
  /\ Write(c, "PING", EmptyRoute)
  /\ UNCHANGED <<up, down, gone, serverVars, hasSub, toAll>>

\* ... unless it still is one: on_error decides whether ducq_listen goes on,
\* and without on_error it does.
SecondTimeout(c) ==
  /\ TimesOut(c) /\ buf[c] = "PING"
  /\ Returns(c, "DUCQ_ETIMEOUT")
  /\ UNCHANGED <<up, down, gone, serverVars, out, nreq, pings, hasSub, toAll>>

\* the process ends, at any point
Quit(c) ==
  /\ c \notin gone
  /\ gone' = gone \cup {c}
  /\ call' = [call EXCEPT ![c] = "none"]
  /\ out' = [out EXCEPT ![c] = Nothing]
  /\ buf' = [buf EXCEPT ![c] = "none"]
  /\ ret' = [ret EXCEPT ![c] = "none"]
  /\ down' = [down EXCEPT ![c] = <<>>]
  /\ UNCHANGED <<up, serverVars, nreq, pings, hasSub, toAll>>

ClientStep(c) ==
  \/ \E r \in Routes : ducq_pub(c, r)
  \/ \E r \in Routes : ducq_listen(c, r)
  \/ ducq_send(c) \/ ducq_receive(c)
  \/ FirstTimeout(c) \/ SecondTimeout(c) \/ Quit(c)

-----------------------------------------------------------------------------
\* The server, one request at a time

Busy == answer # NoAnswer \/ msgs # {}

\* What is sent next: pub acknowledges, then goes through the clients by slot.
Sending ==
  IF answer # NoAnswer THEN answer ELSE Msg(CHOOSE d \in msgs : \A e \in msgs : d <= e)

\* the clients _publish sends to: whether they have subscribed is not asked
Receivers(r) == {d \in conns : Matches(route[d], r)}

Serve(c) ==
  /\ ~Busy /\ up[c] # <<>>
  /\ LET r == Head(up[c])
     IN  /\ answer' = [to |-> c, pub |-> r.kind = "pub",
                       frame |-> Frame(IF r.kind = "PING" THEN "PONG" ELSE "ACK", r.tag)]
         /\ msgs' = IF r.kind = "pub" THEN Receivers(r.route) ELSE {}
         /\ route' = IF r.kind = "sub" THEN [route EXCEPT ![c] = r.route] ELSE route
  /\ up' = [up EXCEPT ![c] = Tail(@)]
  /\ UNCHANGED <<down, gone, conns, clientVars>>

\* on to the next
Sent ==
  IF answer # NoAnswer THEN answer' = NoAnswer /\ UNCHANGED msgs
                       ELSE msgs' = msgs \ {Sending.to} /\ UNCHANGED answer

\* Mutant: the loop over the subscribers does not advance.
SendAgain ==
  /\ Busy /\ Sending.to \notin gone
  /\ Len(down[Sending.to]) < Cap
  /\ down' = [down EXCEPT ![Sending.to] = Append(@, Sending.frame)]
  /\ UNCHANGED <<answer, msgs, up, gone, conns, route, clientVars>>

\* ducq_send returns when the frame is written: a full connection blocks it.
SendNext ==
  /\ Busy /\ Sending.to \notin gone
  /\ Len(down[Sending.to]) < Cap
  /\ down' = [down EXCEPT ![Sending.to] = Append(@, Sending.frame)]
  /\ Sent
  /\ UNCHANGED <<up, gone, conns, route, clientVars>>

\* To a client that is gone a send fails, or its frame is lost.  A client that
\* an ACK or a MSG fails to reach is deleted, and its own publication ends
\* there when it is the ACK.
SendFails ==
  /\ Busy /\ Sending.to \in gone
  /\ \/ Sent /\ UNCHANGED <<up, conns>>
     \/ /\ Sending.frame.kind # "PONG"
        /\ IF Sending.pub THEN answer' = NoAnswer /\ msgs' = {} ELSE Sent
        /\ up' = [up EXCEPT ![Sending.to] = <<>>]
        /\ conns' = conns \ {Sending.to}
  /\ UNCHANGED <<down, gone, route, clientVars>>

\* the end of a client's stream is read
SeesEnd(c) ==
  /\ ~Busy /\ c \in gone \cap conns /\ up[c] = <<>>
  /\ conns' = conns \ {c}
  /\ UNCHANGED <<up, down, gone, route, answer, msgs, clientVars>>

ServerStep == SendNext \/ SendFails \/ \E c \in Clients : Serve(c) \/ SeesEnd(c)

Next == ServerStep \/ \E c \in Clients : ClientStep(c)

Spec == Init /\ [][Next]_vars

\* The server runs; a call that has something to write or to read goes on.
FairSpec ==
  /\ Spec
  /\ WF_vars(SendNext \/ SendFails)
  /\ \A c \in Clients : WF_vars(Serve(c)) /\ WF_vars(ducq_send(c)) /\ WF_vars(ducq_receive(c))

-----------------------------------------------------------------------------
\* ducq_pub knows two outcomes only while the server lives, and a connection
\* never holds more than it can (ducq.c:119-225).
TypeOK ==
  /\ up \in [Clients -> Seq(Frames)] /\ down \in [Clients -> Seq(Frames)]
  /\ \A c \in Clients : Len(up[c]) <= Cap /\ Len(down[c]) <= Cap
  /\ call \in [Clients -> {"none", "pub", "listen"}]
  /\ out \in [Clients -> Frames]
  /\ buf \in [Clients -> Kinds \cup {"none"}]
  /\ \A c \in Clients \ hasSub : ret[c] \in {"none", "DUCQ_OK"}
  /\ gone \subseteq Clients /\ hasSub \subseteq Clients /\ toAll \in BOOLEAN
  /\ conns \subseteq Clients /\ route \in [Clients -> Routes]
  /\ answer \in Answers /\ msgs \subseteq Clients
  /\ toAll \/ msgs \subseteq hasSub
  /\ nreq \in [Clients -> 0..MaxRequests] /\ pings \in [Clients -> 0..MaxTimeouts]

\* What ducq_pub takes for its acknowledgement answers a request that was sent
\* before its own by two for every timeout so far: a late ACK and a PONG stay in
\* the stream for good.  Without a timeout it is the answer to its own request.
\* A client that subscribes may take a message instead, and once somebody has
\* published on the empty route so may any client (ducq.c:143-156, 217-224,
\* pub.c:21).
EveryTimeoutSetsTwoBack ==
  [][\A c \in Clients \ hasSub :
       /\ ~toAll /\ call[c] = "pub" /\ c \notin gone'
       /\ Len(down'[c]) < Len(down[c])
       => Head(down[c]).tag = nreq[c] - 2 * pings[c]]_vars

\* The server and c both write into full connections: neither will ever read.
MutualWait(c) ==
  /\ out[c] # Nothing /\ Len(up[c]) = Cap
  /\ Busy /\ Sending.to = c /\ Len(down[c]) = Cap

\* A client that only publishes cannot wedge the server, whatever times out: a
\* read times out only when nothing has come, and one PING beside a late answer
\* does not fill both directions.  A client that is sent messages can: it takes
\* each for an acknowledgement, and gets further ahead with every call.  That
\* needs a subscription of its own, or a publication on the empty route, which
\* is the route of every client that never subscribed (pub.c:21-23,
\* ducq.c:143-156, 217-224, 289-311).
MutualWaitTakesMessages == \A c \in Clients : MutualWait(c) => c \in hasSub \/ toAll

\* The server waits only for a client that does not read: it gets done with a
\* request, or the client it is sending to is again and again outside
\* ducq_receive (pub.c:23, ducq.c:193-211).
ReadersFreeTheServer == []<>(~Busy \/ ~Reading(Sending.to))
=============================================================================
