----------------------------- MODULE WsConnection -----------------------------
(***************************************************************************)
(* One WebSocket connection of the server (ducq_http.c, ducq_ws.c), from   *)
(* the HTTP request that upgrades it to the closing handshake, and its     *)
(* peer, a browser that follows RFC 6455.                                  *)
(*                                                                         *)
(* The reactor reads when there is something to read; what _recv returns   *)
(* decides what round_table does next (ducq_reactor.c:346-361): on an      *)
(* error it sends a NACK and closes.  It may also close, or send, at any   *)
(* other time, for another client's command.  Payloads are their lengths;  *)
(* a write to a peer that is gone is not told from one that is lost.       *)
(***************************************************************************)
EXTENDS WsHeader, SequencesExt

CONSTANTS Size,        \* the room the reactor gives, DUCQ_MSGSZ
          PeerLens,    \* lengths of the peer's payloads
          ServerLens,  \* lengths of the server's payloads
          Masks,       \* the masks the peer draws
          MaxFrames,   \* bound: frames the peer sends
          MaxSends     \* bound: frames the server sends of its own

\* The room holds a control frame, and a length is an int.
ASSUME WsAssumption ==
  /\ Size \in Nat /\ Size >= 125
  /\ PeerLens \subseteq Lengths /\ ServerLens \subseteq Lengths
  /\ Masks \subseteq [1..4 -> Byte]
  /\ MaxFrames \in Nat /\ MaxSends \in Nat

CONT == 0   TEXT == 1   CLOSE == 8   PING == 9   PONG == 10    \* ws_opcode_t
FIN  == 128

Goodbye == 2       \* the length of a status code
NackLen == 40      \* that of a NACK, about

\* A request: its Sec-WebSocket-Key is absent, follows "Key: " or "Key:", or
\* has not the length of a key; whole when it ends with an empty line.
Requests == [key : {"none", "spaced", "unspaced", "odd"}, semicolon : BOOLEAN, whole : BOOLEAN]

\* A control frame is short and never a fragment.
Frames ==
  {f \in [op : {CONT, TEXT, CLOSE, PING, PONG}, fin : BOOLEAN, len : PeerLens,
          mask : Masks, whole : BOOLEAN] :
     f.op \in {CLOSE, PING, PONG} => f.fin /\ f.len < 126}

\* The key is found after the colon and one space at least: the loop over the
\* spaces is what finds its end.  ws_make_accept_key takes one length only.
KeyFound(r) == r.key \in {"spaced", "odd"}
KeyFits(r)  == r.key = "spaced"

\* ducq_new_ws_connection clears the buffer
NewHeader == [i \in 1..HdrSize |-> 0]

VARIABLES
  inq,      \* what the peer has written and nobody has read
  npeer,    \* frames the peer has sent
  peer,     \* the peer: "talks", "closing" once it has sent a CLOSE, "gone"
  ws,       \* http->ws: "none", or ws->state
  hdr,      \* ws->buf.as_hdr
  fd,       \* "open", "shut" for writing, "closed"
  drain,    \* reads _close may still make
  alive,    \* the server process has not aborted
  sent,     \* history: what the server has written
  texts,    \* history: the text frames the peer has sent whole
  got,      \* history: the messages _recv has returned
  nul,      \* history: where the last message was terminated
  nsends    \* frames the server has sent of its own

vars == <<inq, npeer, peer, ws, hdr, fd, drain, alive, sent, texts, got, nul, nsends>>
peerVars == <<npeer, peer, texts>>

Init ==
  /\ \E r \in Requests : inq = <<r>>
  /\ npeer = 0 /\ peer = "talks" /\ texts = <<>>
  /\ ws = "none" /\ hdr = NewHeader /\ fd = "open" /\ drain = 0
  /\ alive = TRUE
  /\ sent = <<>> /\ got = <<>> /\ nul = 0 /\ nsends = 0

-----------------------------------------------------------------------------
\* The peer.  Its frames are masked; a frame that is not whole is its last.
PeerHeader(f) ==
  LET b0 == (IF f.fin THEN FIN ELSE 0) + f.op
      h  == PutLen(NewHeader, f.len)
      m  == ws_set_msk([h EXCEPT ![1] = b0], f.mask)
  IN  SubSeq(m, 1, ws_get_hdr_len(m))

Upgraded == sent # <<>> /\ sent[1].op = 101

PeerSends(f) ==
  /\ peer = "talks" /\ fd # "closed" /\ Upgraded
  /\ npeer < MaxFrames
  /\ inq' = Append(inq, f)
  /\ npeer' = npeer + 1
  /\ peer' = IF ~f.whole THEN "gone" ELSE IF f.op = CLOSE THEN "closing" ELSE peer
  /\ texts' = IF f.whole /\ f.fin /\ f.op = TEXT THEN Append(texts, f.len) ELSE texts
  /\ UNCHANGED <<ws, hdr, fd, drain, alive, sent, got, nul, nsends>>

PeerGoes ==
  /\ peer # "gone"
  /\ peer' = "gone"
  /\ UNCHANGED <<inq, npeer, ws, hdr, fd, drain, alive, sent, texts, got, nul, nsends>>

-----------------------------------------------------------------------------
\* Mutant: the mask bit of the frame received stays set.
OutgoingMasked(h, op, len) == ws_set_len([h EXCEPT ![1] = FIN + op], len)

\* ws_send of a server: the header buffer, then the payload
Outgoing(h, op, len) ==
  LET l == ws_set_len([h EXCEPT ![1] = FIN + op], len) IN [l EXCEPT ![2] = Len7(l)]

\* what was meant, and the header that was written
Record(h, op, len, status) == [op |-> op, len |-> len, wire |-> h, status |-> status]
Reply(line) == [op |-> line, len |-> 0, wire |-> hdr, status |-> 0]

\* Mutant: a CLOSE that was received is not remembered.
StatusForgetful(closing) == 1001

\* we_inited_close decides the status of a server
Status(closing) == IF closing THEN 1000 ELSE 1001

\* Mutant: a CLOSE that answers is written before what is still to be sent.
CloseThenSend(h, out, closing) ==
  /\ hdr' = Outgoing(h, CLOSE, Goodbye)
  /\ sent' = Append(sent, Record(hdr', CLOSE, Goodbye, Status(closing))) \o out
  /\ ws' = "WS_CLOSE" /\ fd' = "closed" /\ drain' = 0

\* _close of the WebSocket, from the header buffer h and after the frames out:
\* a CLOSE, then, unless the peer asked for it, five reads at most.
Close(h, out, closing) ==
  /\ hdr' = Outgoing(h, CLOSE, Goodbye)
  /\ sent' = (sent \o out) \o <<Record(hdr', CLOSE, Goodbye, Status(closing))>>
  /\ IF closing
     THEN ws' = "WS_CLOSE" /\ fd' = "closed" /\ drain' = 0
     ELSE ws' = "WS_OPEN" /\ fd' = "shut" /\ drain' = 5

\* round_table on an error: a NACK, then connection_free.
Refuse(h, closing) ==
  \E nack \in {Outgoing(h, TEXT, NackLen)} :
    Close(nack, <<Record(nack, TEXT, NackLen, 0)>>, closing)

\* A connection that is still HTTP is closed at once, after the reply if any.
RefuseHttp(out) ==
  /\ sent' = sent \o out
  /\ fd' = "closed"
  /\ UNCHANGED <<ws, hdr, drain>>

Reading == alive /\ fd = "open" /\ (inq # <<>> \/ peer = "gone")
Whole   == inq # <<>> /\ Head(inq).whole

-----------------------------------------------------------------------------
\* _recv of ducq_http: the header up to the empty line.  The test for the
\* upgrade is inverted and has a semicolon for a colon, so that every request
\* is upgraded but the one that contains it.
RecvRequest ==
  /\ Reading /\ ws = "none" /\ Whole
  /\ inq' = Tail(inq)
  /\ LET r == Head(inq)
     IN  \/ r.semicolon /\ RefuseHttp(<<>>) /\ UNCHANGED alive
         \/ /\ ~r.semicolon /\ ~KeyFound(r)
            /\ RefuseHttp(<<Reply(400)>>) /\ UNCHANGED alive
         \/ /\ ~r.semicolon /\ KeyFound(r) /\ ~KeyFits(r)     \* assert
            /\ alive' = FALSE
            /\ UNCHANGED <<sent, fd, ws, hdr, drain>>
         \/ /\ ~r.semicolon /\ KeyFound(r) /\ KeyFits(r)
            /\ sent' = Append(sent, Reply(101))
            /\ ws' = "WS_OPEN"
            /\ UNCHANGED <<hdr, fd, drain, alive>>
  /\ UNCHANGED <<peerVars, got, nul, nsends>>

\* ... which does not come: DUCQ_HTTP_TIMEOUT, or the end of the stream.
RecvNoRequest ==
  /\ alive /\ fd = "open" /\ ws = "none" /\ ~Whole
  /\ inq' = <<>>
  /\ RefuseHttp(<<Reply(400)>>)
  /\ UNCHANGED <<peerVars, alive, got, nul, nsends>>

\* Mutant: the length is not looked at.
TooBigNever(len) == FALSE

\* if(msg_len > *count+1) return DUCQ_EMSGSIZE; // count + null
TooBig(len) == len > Size + 1

\* Mutant: the mask is taken from where a short frame has it.
UnmaskedShort(h, f) == IF SubSeq(h, 3, 6) = f.mask THEN f.len ELSE -1

\* ws_mask_message with the mask found in the header gives the payload back
Unmasked(h, f) == IF MaskOf(h) = f.mask THEN f.len ELSE -1

\* Mutant: the header of a PING is sent back as it is.
PongHeaderKept(h, len) == [h EXCEPT ![1] = FIN + PONG]

PongHeader(h, len) == Outgoing(h, PONG, len)

\* _recv of ducq_ws, a whole frame
RecvFrame ==
  /\ Reading /\ ws = "WS_OPEN" /\ Whole
  /\ inq' = Tail(inq)
  /\ \E f \in {Head(inq)} : \E h \in {Put(hdr, 0, PeerHeader(f))} :
     LET len == ws_get_len(h)
     IN  \/ /\ TooBig(len)
            /\ Refuse(h, FALSE)
            /\ UNCHANGED <<got, nul>>
         \/ /\ ~TooBig(len)
            /\ nul' = len
            /\ \/ f.op = CLOSE /\ Refuse(h, TRUE) /\ UNCHANGED got
               \/ /\ f.op = PING
                  /\ hdr' = PongHeader(h, len)
                  /\ sent' = Append(sent, Record(hdr', PONG, len, 0))
                  /\ UNCHANGED <<ws, fd, drain, got>>
               \/ /\ f.op \notin {CLOSE, PING} /\ h[1] # FIN + TEXT
                  /\ Refuse(h, FALSE)
                  /\ UNCHANGED got
               \/ /\ h[1] = FIN + TEXT
                  /\ hdr' = h
                  /\ got' = Append(got, Unmasked(h, f))
                  /\ UNCHANGED <<ws, fd, drain, sent>>
  /\ UNCHANGED <<peerVars, alive, nsends>>

\* ... or the end of the stream, or DUCQ_HTTP_TIMEOUT inside a frame: any part
\* of the header may have been read over the old one.
RecvCut ==
  /\ Reading /\ ws = "WS_OPEN" /\ ~Whole
  /\ inq' = <<>>
  /\ IF inq = <<>>
     THEN Refuse(hdr, FALSE)
     ELSE LET bs == PeerHeader(Head(inq))
          IN  \E k \in 0..Len(bs) : Refuse(Put(hdr, 0, SubSeq(bs, 1, k)), FALSE)
  /\ UNCHANGED <<peerVars, alive, got, nul, nsends>>

\* Another client's command, or its own: a publication, an answer ...
ServerSends(len) ==
  /\ alive /\ fd = "open" /\ ws = "WS_OPEN"
  /\ nsends < MaxSends
  /\ nsends' = nsends + 1
  /\ hdr' = Outgoing(hdr, TEXT, len)
  /\ sent' = Append(sent, Record(hdr', TEXT, len, 0))
  /\ UNCHANGED <<inq, peerVars, ws, fd, drain, alive, got, nul>>

\* ... or its removal
ServerCloses ==
  /\ alive /\ fd = "open"
  /\ IF ws = "WS_OPEN" THEN Close(hdr, <<>>, FALSE) ELSE RefuseHttp(<<>>)
  /\ UNCHANGED <<inq, peerVars, alive, got, nul, nsends>>

CloseFd == ws' = "WS_CLOSE" /\ fd' = "closed" /\ drain' = 0

\* One readn() of _close: it throws away what it reads, CLOSE included.  It
\* goes on for as long as readn() reads something, and for five reads.
DrainRead ==
  /\ alive /\ fd = "shut" /\ inq # <<>>
  /\ \E n \in 1..Len(inq) : inq' = SubSeq(inq, n + 1, Len(inq))
  /\ IF drain > 1 THEN drain' = drain - 1 /\ UNCHANGED <<ws, fd>> ELSE CloseFd
  /\ UNCHANGED <<peerVars, hdr, alive, sent, got, nul, nsends>>

\* Mutant: the wait has no timeout.
DrainOnlyAtEnd ==
  /\ alive /\ fd = "shut" /\ peer = "gone" /\ inq = <<>>
  /\ CloseFd
  /\ UNCHANGED <<inq, peerVars, hdr, alive, sent, got, nul, nsends>>

\* the peer is gone, or three seconds have passed
DrainEnds ==
  /\ alive /\ fd = "shut" /\ inq = <<>>
  /\ CloseFd
  /\ UNCHANGED <<inq, peerVars, hdr, alive, sent, got, nul, nsends>>

_recv  == RecvRequest \/ RecvNoRequest \/ RecvFrame \/ RecvCut
_close == DrainRead \/ DrainEnds

Next ==
  \/ \E f \in Frames : PeerSends(f)
  \/ PeerGoes
  \/ _recv \/ _close \/ ServerCloses
  \/ \E len \in ServerLens : ServerSends(len)

Spec == Init /\ [][Next]_vars

\* The reactor reads what select() reports and _close returns; the peer may
\* stay silent for ever.
FairSpec == Spec /\ WF_vars(_recv) /\ WF_vars(_close)

-----------------------------------------------------------------------------
TypeOK ==
  /\ inq \in Seq(Requests \cup Frames) /\ npeer \in 0..MaxFrames
  /\ peer \in {"talks", "closing", "gone"}
  /\ ws \in {"none", "WS_OPEN", "WS_CLOSE"}
  /\ hdr \in Headers /\ fd \in {"open", "shut", "closed"} /\ drain \in 0..5
  /\ alive \in BOOLEAN
  /\ nul \in 0..(Size + 1) /\ nsends \in 0..MaxSends

\* Every frame the server writes says what was meant, unmasked and in its
\* shortest form, whatever frame of the peer, long, short, masked or cut, was
\* last in the buffer it shares (ducq_ws.c:76-103, inet_ws.c:50-108).
FramesSayWhatIsMeant ==
  \A i \in 1..Len(sent) : sent[i].op \in {TEXT, PONG, CLOSE} =>
    LET h == sent[i].wire
    IN  /\ h[1] = FIN + sent[i].op
        /\ ~HasMask(h)
        /\ ws_get_len(h) = sent[i].len
        /\ ws_get_hdr_len(h) = IF sent[i].len < 126 THEN 2
                               ELSE IF sent[i].len <= Mask16 THEN 4 ELSE 10

\* The messages received are the peer's, whole, unmasked and in order
\* (ducq_ws.c:116-164).
MessagesInOrder == IsPrefix(got, texts)

\* A connection speaks HTTP first, one reply, then WebSocket, and a CLOSE is
\* the last thing it says: NACKs, PONGs and publications never follow it
\* (ducq_http.c:68-97, ducq_ws.c:191-228, ducq_reactor.c:352-360).
ClosedOnceAndLast ==
  \A i \in 1..Len(sent) :
    /\ sent[i].op \in {101, 400} <=> i = 1
    /\ sent[i].op = 400 => Len(sent) = 1
    /\ sent[i].op = CLOSE => i = Len(sent)

\* An upgraded connection is never dropped without a CLOSE, and its status
\* tells who began: 1000 answers a CLOSE of the peer, 1001 announces ours, also
\* when both are under way (ducq_ws.c:195-200).
StatusTellsWhoBegan ==
  [][fd = "open" /\ fd' # "open" /\ Upgraded =>
       /\ sent'[Len(sent')].op = CLOSE
       /\ sent'[Len(sent')].status = 1000 <=>
            inq # <<>> /\ inq' = Tail(inq) /\ Head(inq).op = CLOSE /\ Head(inq).whole]_vars

\* A connection whose peer has closed or gone ends, and closing one, which holds
\* up every other client, comes to an end whatever the peer does
\* (ducq_ws.c:214-227).
ClosesEnd ==
  /\ (peer # "talks" /\ alive) ~> fd = "closed" \/ ~alive
  /\ fd = "shut" ~> fd = "closed"

\* ducq_ws.c:136 says of the length it accepts "count + null": the message and
\* its terminator are inside the buffer.
TerminatorInBuffer == nul < Size
=============================================================================
