---------------------------- MODULE SessionProofs ----------------------------
(***************************************************************************)
(* As long as nobody publishes on a route that the empty one matches, a    *)
(* client that only publishes never wedges the server, and what it takes   *)
(* for an acknowledgement is off by two for every timeout: for any number  *)
(* of clients, room in the connections, requests, routes and timeouts.     *)
(***************************************************************************)
EXTENDS Session, LeastNumber, SequenceTheorems

USE SessionAssumption, RoutingAssumption

\* the clients that never asked to subscribe
Publishers == Clients \ hasSub

SessionTypeOK ==
  /\ up \in [Clients -> Seq(Frames)] /\ down \in [Clients -> Seq(Frames)]
  /\ \A c \in Clients : Len(up[c]) <= Cap /\ Len(down[c]) <= Cap
  /\ call \in [Clients -> {"none", "pub", "listen"}]
  /\ out \in [Clients -> Frames]
  /\ buf \in [Clients -> Kinds \cup {"none"}]
  /\ ret \in [Clients -> {"none", "DUCQ_OK", "DUCQ_PROTOCOL", "DUCQ_ETIMEOUT"}]
  /\ gone \subseteq Clients /\ hasSub \subseteq Clients /\ toAll \in BOOLEAN
  /\ conns \subseteq Clients /\ route \in [Clients -> Routes]
  /\ answer \in Answers /\ msgs \subseteq Clients
  /\ nreq \in [Clients -> 0..MaxRequests] /\ pings \in [Clients -> 0..MaxTimeouts]

\* A publisher is in ducq_pub or in no call, writes a request or a PING, and
\* does not read once the PING is in its buffer.  It has never failed.
OnlyPublishes(c) ==
  /\ call[c] \in {"none", "pub"} /\ ret[c] \in {"none", "DUCQ_OK"}
  /\ call[c] = "none" => out[c] = Nothing
  /\ buf[c] = "PING" => out[c].kind = "PING"
  /\ out[c] # Nothing => out[c].kind \in {"pub", "PING"}
  /\ \A i \in 1..Len(up[c]) : up[c][i].kind # "sub"

\* A client that has ended writes nothing.
EndedIsSilent == \A c \in gone : call[c] = "none" /\ out[c] = Nothing

\* The requests of c that are on their way, or whose answers are, in the order
\* in which they were made: n is the last, o the last that c has read of.  d and
\* u are the two directions, a and tag the answer in the hands of the server,
\* w counts what c is writing.
Numbered(s, k) == \A i \in 1..Len(s) : s[i].tag = k + i
Chain(d, a, tag, u, w, o, n) ==
  /\ Numbered(d, o)
  /\ a = 1 => tag = o + Len(d) + 1
  /\ Numbered(u, o + Len(d) + a)
  /\ o + Len(d) + a + Len(u) + w = n

Answered(c) == IF answer # NoAnswer /\ answer.to = c THEN 1 ELSE 0
Written(c)  == IF out[c] = Nothing THEN 0 ELSE 1
Awaited(c)  == IF call[c] = "pub" /\ out[c].kind # "PING" THEN 1 ELSE 0

\* Every timeout leaves two of them for good, the PING and the answer nobody
\* waits for any more; one is awaited in a call that has not timed out.
LastRead(c) == nreq[c] - 2 * pings[c] - Awaited(c)

\* A read times out only when what is under way fits in one direction and in
\* the server's hand.
Counted(c) ==
  /\ Chain(down[c], Answered(c), answer.frame.tag, up[c], Written(c), LastRead(c), nreq[c])
  /\ Written(c) = 1 => out[c].tag = nreq[c]
  /\ 2 * pings[c] <= Cap + 2

\* A frame that is not a publication to those that never subscribed
Elsewhere(e) == e.kind = "pub" => ~Matches(EmptyRoute, e.route)

\* Nobody has published to the publishers: they have the empty route, no frame
\* under way is for it, and the server has nothing but answers for them.
Apart ==
  /\ \A c \in Publishers : route[c] = EmptyRoute
  /\ \A c \in Clients : Elsewhere(out[c]) /\ \A i \in 1..Len(up[c]) : Elsewhere(up[c][i])
  /\ msgs \subseteq hasSub

IInv ==
  /\ SessionTypeOK
  /\ EndedIsSilent
  /\ ~toAll => Apart
  /\ \A c \in Publishers : OnlyPublishes(c)
  /\ ~toAll => \A c \in Publishers \ gone : Counted(c)

-----------------------------------------------------------------------------
\* The server's hand can be empty.
LEMMA NoAnswerType == NoAnswer \in Answers /\ Nothing \in Frames
<1>1. 1 \in Clients /\ 0 \in 0..MaxRequests
  BY DEF Clients
<1>2. "MSG" \in Kinds
  BY DEF Kinds
<1>3. Nothing \in Frames
  BY <1>1, <1>2 DEF Nothing, Frame, OnRoute, Frames
<1> QED BY <1>1, <1>3 DEF NoAnswer, Msg, Answers

\* At the start nobody has asked for anything (ducq.c:184-187).
LEMMA InitInv == Init => IInv
<1> SUFFICES ASSUME Init PROVE IInv
  OBVIOUS
<1> USE DEF Init
<1>1. NoAnswer \in Answers /\ Nothing \in Frames
  BY NoAnswerType
<1>2. SessionTypeOK
  <2>1. /\ up \in [Clients -> Seq(Frames)] /\ down \in [Clients -> Seq(Frames)]
        /\ \A d \in Clients : Len(up[d]) <= Cap /\ Len(down[d]) <= Cap
    BY SessionAssumption
  <2>2. nreq \in [Clients -> 0..MaxRequests] /\ pings \in [Clients -> 0..MaxTimeouts]
    BY SessionAssumption
  <2>3. route \in [Clients -> Routes]
    BY RoutingAssumption
  <2> QED BY <1>1, <2>1, <2>2, <2>3 DEF SessionTypeOK, Kinds
<1>3. EndedIsSilent /\ \A c \in Publishers : OnlyPublishes(c)
  BY DEF EndedIsSilent, OnlyPublishes, Publishers
<1>4. \A c \in Publishers \ gone : Counted(c)
  BY DEF Counted, Chain, Numbered, LastRead, Awaited, Written, Answered, Publishers
<1>5. Apart
  BY DEF Apart, Elsewhere, Nothing, Frame, OnRoute, Publishers
<1> QED BY <1>2, <1>3, <1>4, <1>5 DEF IInv

-----------------------------------------------------------------------------
\* What a step leaves alone of a client: its connection and its calls.
Unseen(d) ==
  /\ up'[d] = up[d] /\ down'[d] = down[d] /\ call'[d] = call[d] /\ out'[d] = out[d]
  /\ buf'[d] = buf[d] /\ ret'[d] = ret[d] /\ nreq'[d] = nreq[d] /\ pings'[d] = pings[d]

\* What is under way is counted in naturals.
LEMMA CountTypes ==
  ASSUME SessionTypeOK, NEW c \in Clients
  PROVE  /\ Answered(c) \in Nat /\ Written(c) \in Nat /\ Awaited(c) \in Nat
         /\ LastRead(c) \in Int /\ nreq[c] \in Nat /\ pings[c] \in Nat
<1>1. Answered(c) \in Nat /\ Written(c) \in Nat /\ Awaited(c) \in Nat
  BY DEF Answered, Written, Awaited
<1>2. nreq[c] \in 0..MaxRequests /\ pings[c] \in 0..MaxTimeouts
  BY DEF SessionTypeOK
<1> QED BY <1>1, <1>2 DEF LastRead

\* What is written comes after what is there, and what is read before it.
LEMMA NumberedAppend ==
  ASSUME NEW s \in Seq(Frames), NEW e \in Frames, NEW k \in Int, Numbered(s, k),
         e.tag = k + Len(s) + 1
  PROVE  Numbered(Append(s, e), k) /\ Len(Append(s, e)) = Len(s) + 1
<1>1. /\ Len(s) \in Nat /\ Len(Append(s, e)) = Len(s) + 1
      /\ \A i \in 1..Len(s) : Append(s, e)[i] = s[i]
      /\ Append(s, e)[Len(s) + 1] = e
  BY AppendProperties, LenProperties
<1>2. \A i \in 1..Len(s) : s[i].tag = k + i
  BY DEF Numbered
<1>3. ASSUME NEW i \in 1..(Len(s) + 1) PROVE Append(s, e)[i].tag = k + i
  <2>1. CASE i \in 1..Len(s)
    BY <1>1, <1>2, <2>1
  <2>2. CASE i = Len(s) + 1
    BY <1>1, <2>2
  <2> QED BY <1>1, <2>1, <2>2
<1> QED BY <1>1, <1>3 DEF Numbered

LEMMA NumberedTail ==
  ASSUME NEW s \in Seq(Frames), s # <<>>, NEW k \in Int, Numbered(s, k)
  PROVE  /\ Numbered(Tail(s), k + 1) /\ Len(Tail(s)) = Len(s) - 1
         /\ Head(s) \in Frames /\ Head(s).tag = k + 1
<1>1. /\ Len(s) \in Nat \ {0} /\ Head(s) = s[1] /\ Head(s) \in Frames
      /\ Len(Tail(s)) = Len(s) - 1
      /\ \A i \in 1..(Len(s) - 1) : Tail(s)[i] = s[i + 1]
  BY HeadTailProperties, LenProperties, EmptySeq, ElementOfSeq
<1>2. \A i \in 1..Len(s) : s[i].tag = k + i
  BY DEF Numbered
<1>3. ASSUME NEW i \in 1..(Len(s) - 1) PROVE Tail(s)[i].tag = (k + 1) + i
  <2>1. i + 1 \in 1..Len(s) /\ k + (i + 1) = (k + 1) + i
    BY <1>1
  <2> QED BY <1>1, <1>2, <2>1
<1>4. s[1].tag = k + 1
  BY <1>1, <1>2
<1> QED BY <1>1, <1>3, <1>4 DEF Numbered

\* A request is made, written, read, answered, and its answer read.
LEMMA ChainCalls ==
  ASSUME NEW d \in Seq(Frames), NEW u \in Seq(Frames), NEW a \in Nat, NEW tag,
         NEW o \in Int, NEW n \in Int, Chain(d, a, tag, u, 0, o, n)
  PROVE  Chain(d, a, tag, u, 1, o, n + 1)
BY LenProperties DEF Chain

LEMMA ChainWrites ==
  ASSUME NEW d \in Seq(Frames), NEW u \in Seq(Frames), NEW a \in Nat, NEW tag,
         NEW o \in Int, NEW n \in Int, Chain(d, a, tag, u, 1, o, n),
         NEW e \in Frames, e.tag = n
  PROVE  Chain(d, a, tag, Append(u, e), 0, o, n)
<1>1. Len(d) \in Nat /\ Len(u) \in Nat
  BY LenProperties
<1>2. o + Len(d) + a \in Int /\ e.tag = (o + Len(d) + a) + Len(u) + 1
  BY <1>1 DEF Chain
<1>3. Numbered(Append(u, e), o + Len(d) + a) /\ Len(Append(u, e)) = Len(u) + 1
  BY <1>2, NumberedAppend DEF Chain
<1> QED BY <1>1, <1>3 DEF Chain

LEMMA ChainServes ==
  ASSUME NEW d \in Seq(Frames), NEW u \in Seq(Frames), NEW w \in Nat, NEW tag,
         NEW o \in Int, NEW n \in Int, Chain(d, 0, tag, u, w, o, n), u # <<>>
  PROVE  Chain(d, 1, Head(u).tag, Tail(u), w, o, n)
<1>1. Len(d) \in Nat /\ Len(u) \in Nat
  BY LenProperties
<1>2. o + Len(d) + 0 = o + Len(d) /\ o + Len(d) \in Int
  BY <1>1
<1>3. /\ Numbered(Tail(u), o + Len(d) + 1) /\ Len(Tail(u)) = Len(u) - 1
      /\ Head(u).tag = o + Len(d) + 1
  BY <1>2, NumberedTail DEF Chain
<1> QED BY <1>1, <1>3 DEF Chain

LEMMA ChainAnswers ==
  ASSUME NEW d \in Seq(Frames), NEW u \in Seq(Frames), NEW w \in Nat, NEW tag, NEW next,
         NEW o \in Int, NEW n \in Int, Chain(d, 1, tag, u, w, o, n),
         NEW e \in Frames, e.tag = tag
  PROVE  Chain(Append(d, e), 0, next, u, w, o, n)
<1>1. Len(d) \in Nat /\ Len(u) \in Nat /\ e.tag = o + Len(d) + 1
  BY LenProperties DEF Chain
<1>2. Numbered(Append(d, e), o) /\ Len(Append(d, e)) = Len(d) + 1
  BY <1>1, NumberedAppend DEF Chain
<1>3. o + Len(Append(d, e)) + 0 = o + Len(d) + 1
  BY <1>1, <1>2
<1> QED BY <1>1, <1>2, <1>3 DEF Chain

LEMMA ChainReads ==
  ASSUME NEW d \in Seq(Frames), NEW u \in Seq(Frames), NEW a \in Nat, NEW w \in Nat,
         NEW tag, NEW o \in Int, NEW n \in Int, Chain(d, a, tag, u, w, o, n), d # <<>>
  PROVE  Head(d).tag = o + 1 /\ Chain(Tail(d), a, tag, u, w, o + 1, n)
<1>1. Len(d) \in Nat /\ Len(u) \in Nat
  BY LenProperties
<1>2. /\ Numbered(Tail(d), o + 1) /\ Len(Tail(d)) = Len(d) - 1
      /\ Head(d).tag = o + 1
  BY NumberedTail DEF Chain
<1>3. (o + 1) + Len(Tail(d)) = o + Len(d)
  BY <1>1, <1>2
<1> QED BY <1>1, <1>2, <1>3 DEF Chain

\* A client that the step does not concern stays as it is.
LEMMA OthersStay ==
  ASSUME NEW d, Unseen(d), Answered(d)' = Answered(d),
         Answered(d) = 1 => answer'.frame = answer.frame
  PROVE  (OnlyPublishes(d) => OnlyPublishes(d)') /\ (Counted(d) => Counted(d)')
<1>1. OnlyPublishes(d) => OnlyPublishes(d)'
  BY DEF OnlyPublishes, Unseen
<1>2. Written(d)' = Written(d) /\ LastRead(d)' = LastRead(d)
  BY DEF Written, Awaited, LastRead, Unseen
<1>3. Counted(d) => Counted(d)'
  BY <1>2 DEF Counted, Chain, Unseen
<1> QED BY <1>1, <1>3

\* A step of a client concerns no other client and not the server.
LEMMA ClientsAlone ==
  ASSUME IInv, NEW c \in Clients, ClientStep(c)
  PROVE  /\ UNCHANGED serverVars
         /\ hasSub \subseteq hasSub' /\ hasSub' \subseteq hasSub \cup {c}
         /\ gone \subseteq gone' /\ gone' \subseteq gone \cup {c}
         /\ toAll => toAll'
         /\ \A d \in Clients \ {c} : Unseen(d)
<1> USE DEF IInv, SessionTypeOK, Unseen, serverVars, Write, Calls, Returns, GoesOn
<1>1. CASE \E r \in Routes : ducq_pub(c, r)
  BY <1>1 DEF ducq_pub
<1>2. CASE \E r \in Routes : ducq_listen(c, r)
  BY <1>2 DEF ducq_listen
<1>3. CASE ducq_send(c)
  BY <1>3 DEF ducq_send, AfterWrite
<1>4. CASE ducq_receive(c)
  BY <1>4 DEF ducq_receive
<1>5. CASE FirstTimeout(c)
  BY <1>5 DEF FirstTimeout
<1>6. CASE SecondTimeout(c)
  BY <1>6 DEF SecondTimeout
<1>7. CASE Quit(c)
  BY <1>7 DEF Quit
<1> QED BY <1>1, <1>2, <1>3, <1>4, <1>5, <1>6, <1>7 DEF ClientStep

\* Every call and every frame of a client is of its type (ducq.c:119-225).
LEMMA ClientTypes ==
  ASSUME IInv, NEW c \in Clients, ClientStep(c)
  PROVE  SessionTypeOK' /\ EndedIsSilent'
<1>0. \A d \in Clients \ {c} : call'[d] = call[d]
  BY ClientsAlone DEF Unseen
<1> USE DEF IInv, SessionTypeOK, EndedIsSilent, serverVars, Write, Calls, Returns, GoesOn
<1>1. \A r \in Routes, k \in Kinds, i \in 0..MaxRequests : OnRoute(r, k, i) \in Frames
  BY DEF OnRoute, Frames
<1>2. Nothing \in Frames /\ "MSG" \in Kinds /\ "pub" \in Kinds /\ "sub" \in Kinds /\ "PING" \in Kinds
  BY NoAnswerType DEF Kinds
<1>3. nreq[c] < MaxRequests => nreq[c] + 1 \in 0..MaxRequests
  OBVIOUS
<1>4. CASE \E r \in Routes : ducq_pub(c, r)
  BY <1>1, <1>2, <1>3, <1>4 DEF ducq_pub
<1>5. CASE \E r \in Routes : ducq_listen(c, r)
  BY <1>1, <1>2, <1>3, <1>5 DEF ducq_listen
<1>6. CASE ducq_send(c)
  <2>1. up' \in [Clients -> Seq(Frames)] /\ \A d \in Clients : Len(up'[d]) <= Cap
    BY <1>6 DEF ducq_send
  <2> QED BY <1>2, <1>6, <2>1 DEF ducq_send, AfterWrite, PubState
<1>7. CASE ducq_receive(c)
  <2>1. down' \in [Clients -> Seq(Frames)] /\ \A d \in Clients : Len(down'[d]) <= Cap
    BY <1>7 DEF ducq_receive
  <2>2. Head(down[c]) \in Frames
    BY <1>7, HeadTailProperties DEF ducq_receive
  <2>3. Head(down[c]).kind \in Kinds
    BY <2>2 DEF Frames
  <2>4. /\ StateOf(Head(down[c]).kind) \in {"DUCQ_OK", "DUCQ_PROTOCOL"}
        /\ PubState(StateOf(Head(down[c]).kind)) = "DUCQ_OK"
    BY DEF StateOf, PubState
  <2>5. /\ call' \in [Clients -> {"none", "pub", "listen"}]
        /\ ret' \in [Clients -> {"none", "DUCQ_OK", "DUCQ_PROTOCOL", "DUCQ_ETIMEOUT"}]
        /\ buf' \in [Clients -> Kinds \cup {"none"}]
    <3> DEFINE kind == Head(down[c]).kind
    <3>1. \/ Returns(c, PubState(StateOf(kind)))
          \/ Returns(c, StateOf(kind))
          \/ GoesOn(c, kind)
      BY <1>7 DEF ducq_receive
    <3> HIDE DEF kind
    <3>2. kind \in Kinds \cup {"none"} /\ call[c] \in {"none", "pub", "listen"}
      BY <2>3 DEF kind
    <3>3. \A state : state \in {"DUCQ_OK", "DUCQ_PROTOCOL"} /\ Returns(c, state) =>
            /\ call' \in [Clients -> {"none", "pub", "listen"}]
            /\ ret' \in [Clients -> {"none", "DUCQ_OK", "DUCQ_PROTOCOL", "DUCQ_ETIMEOUT"}]
            /\ buf' \in [Clients -> Kinds \cup {"none"}]
      OBVIOUS
    <3>4. CASE Returns(c, PubState(StateOf(kind)))
      BY <2>4, <3>3, <3>4 DEF kind
    <3>5. CASE Returns(c, StateOf(kind))
      BY <2>4, <3>3, <3>5 DEF kind
    <3>6. CASE GoesOn(c, kind)
      BY <3>2, <3>6
    <3> QED BY <3>1, <3>4, <3>5, <3>6
  <2>6. c \notin gone /\ UNCHANGED <<out, gone>>
    BY <1>7 DEF ducq_receive, Reading
  <2>7. \A d \in gone : call'[d] = call[d]
    BY <1>0, <2>6
  <2> QED BY <1>7, <2>1, <2>5, <2>6, <2>7 DEF ducq_receive
<1>8. CASE FirstTimeout(c)
  BY <1>1, <1>2, <1>3, <1>8 DEF FirstTimeout, TimesOut, Reading
<1>9. CASE SecondTimeout(c)
  BY <1>9 DEF SecondTimeout, TimesOut, Reading
<1>10. CASE Quit(c)
  <2>1. down' \in [Clients -> Seq(Frames)] /\ \A d \in Clients : Len(down'[d]) <= Cap
    BY <1>10 DEF Quit
  <2> QED BY <1>2, <1>10, <2>1 DEF Quit
<1> QED BY <1>4, <1>5, <1>6, <1>7, <1>8, <1>9, <1>10 DEF ClientStep

\* A publisher that takes a step is one still, and counts (ducq.c:143-156,
\* 217-224).
LEMMA PublisherStep ==
  ASSUME IInv, NEW c \in Clients, ClientStep(c), c \notin hasSub'
  PROVE  OnlyPublishes(c)' /\ (~toAll' /\ c \notin gone' => Counted(c)')
<1>1. c \notin hasSub /\ c \in Publishers /\ OnlyPublishes(c)
  BY ClientsAlone DEF Publishers, IInv
<1>2. ~toAll /\ c \notin gone => Counted(c)
  BY <1>1 DEF IInv
<1>14. toAll => toAll'
  BY ClientsAlone
<1>3. \A r \in Routes : ~ducq_listen(c, r)
  BY DEF ducq_listen, IInv, SessionTypeOK
<1>4. ~SecondTimeout(c)
  <2>1. Nothing.kind # "PING"
    BY DEF Nothing, Frame, OnRoute
  <2> QED BY <1>1, <2>1 DEF SecondTimeout, TimesOut, Reading, OnlyPublishes
<1>5. Answered(c)' = Answered(c) /\ answer' = answer
  BY ClientsAlone DEF Answered, serverVars
<1>6. /\ up \in [Clients -> Seq(Frames)] /\ down \in [Clients -> Seq(Frames)]
      /\ call \in [Clients -> {"none", "pub", "listen"}]
      /\ out \in [Clients -> Frames] /\ buf \in [Clients -> Kinds \cup {"none"}]
      /\ ret \in [Clients -> {"none", "DUCQ_OK", "DUCQ_PROTOCOL", "DUCQ_ETIMEOUT"}]
      /\ nreq \in [Clients -> 0..MaxRequests] /\ pings \in [Clients -> 0..MaxTimeouts]
  BY DEF IInv, SessionTypeOK
<1>7. /\ Answered(c) \in Nat /\ Written(c) \in Nat /\ Awaited(c) \in Nat
      /\ LastRead(c) \in Int /\ nreq[c] \in Nat /\ pings[c] \in Nat
      /\ up[c] \in Seq(Frames) /\ down[c] \in Seq(Frames) /\ out[c] \in Frames
  BY <1>6, CountTypes DEF IInv
<1>8. Nothing.kind = "MSG" /\ \A q, k, i : OnRoute(q, k, i).kind = k /\ OnRoute(q, k, i).tag = i
  BY DEF Nothing, Frame, OnRoute
<1>9. CASE \E r \in Routes : ducq_pub(c, r)
  <2> PICK q \in Routes : ducq_pub(c, q)
    BY <1>9
  <2>1. /\ out[c] = Nothing /\ out'[c] = OnRoute(q, "pub", nreq[c] + 1) /\ out'[c] # Nothing
        /\ nreq'[c] = nreq[c] + 1 /\ call[c] = "none" /\ call'[c] = "pub"
        /\ ret'[c] = "none" /\ buf'[c] = buf[c]
        /\ UNCHANGED <<up, down, gone, pings>>
    BY <1>1, <1>6 DEF ducq_pub, OnlyPublishes, Nothing, Frame, OnRoute, Calls, Write
  <2>2. OnlyPublishes(c)'
    BY <1>1, <1>8, <2>1 DEF OnlyPublishes
  <2>3. Written(c) = 0 /\ Written(c)' = 1 /\ Awaited(c) = 0 /\ Awaited(c)' = 1
    BY <1>8, <2>1 DEF Written, Awaited
  <2>4. LastRead(c)' = LastRead(c)
    BY <1>7, <2>1, <2>3 DEF LastRead
  <2>5. ASSUME Counted(c) PROVE Counted(c)'
    <3>1. Chain(down[c], Answered(c), answer.frame.tag, up[c], 1, LastRead(c), nreq[c] + 1)
      BY <1>7, <2>3, <2>5, ChainCalls DEF Counted
    <3>2. out'[c].tag = nreq[c] + 1
      BY <1>8, <2>1
    <3> QED BY <1>5, <2>1, <2>3, <2>4, <2>5, <3>1, <3>2 DEF Counted
  <2> QED BY <1>2, <1>14, <2>1, <2>2, <2>5
<1>10. CASE ducq_send(c)
  <2>1. /\ out[c] # Nothing /\ out'[c] = Nothing /\ up'[c] = Append(up[c], out[c])
        /\ UNCHANGED <<down, gone, nreq, pings>>
        /\ out[c].kind \in {"pub", "PING"} /\ call[c] = "pub"
    BY <1>1, <1>6, <1>10 DEF ducq_send, OnlyPublishes
  <2>2. IF out[c].kind = "PING"
        THEN call'[c] = "none" /\ ret'[c] = "DUCQ_OK" /\ buf'[c] = "none"
        ELSE call'[c] = "pub" /\ ret'[c] = ret[c] /\ buf'[c] = buf[c]
    BY <1>6, <1>10, <2>1 DEF ducq_send, AfterWrite, PubState, Returns, GoesOn
  <2>3. Written(c) = 1 /\ Written(c)' = 0 /\ Awaited(c)' = Awaited(c)
    BY <1>8, <2>1, <2>2 DEF Written, Awaited
  <2>4. LastRead(c)' = LastRead(c)
    BY <2>1, <2>3 DEF LastRead
  <2>5. OnlyPublishes(c)'
    <3>1. /\ Len(up[c]) \in Nat /\ Len(Append(up[c], out[c])) = Len(up[c]) + 1
          /\ \A i \in 1..Len(up[c]) : Append(up[c], out[c])[i] = up[c][i]
          /\ Append(up[c], out[c])[Len(up[c]) + 1] = out[c]
      BY <1>7, AppendProperties, LenProperties
    <3>2. ASSUME NEW i \in 1..(Len(up[c]) + 1) PROVE Append(up[c], out[c])[i].kind # "sub"
      <4>1. CASE i \in 1..Len(up[c])
        BY <1>1, <3>1, <4>1 DEF OnlyPublishes
      <4>2. CASE i = Len(up[c]) + 1
        BY <2>1, <3>1, <4>2
      <4> QED BY <3>1, <4>1, <4>2
    <3> QED BY <1>1, <2>1, <2>2, <3>1, <3>2 DEF OnlyPublishes
  <2>6. ASSUME Counted(c) PROVE Counted(c)'
    <3>1. Chain(down[c], Answered(c), answer.frame.tag, Append(up[c], out[c]), 0,
                LastRead(c), nreq[c])
      BY <1>7, <2>3, <2>6, ChainWrites DEF Counted
    <3> QED BY <1>5, <2>1, <2>3, <2>4, <2>6, <3>1 DEF Counted
  <2> QED BY <1>2, <1>14, <2>1, <2>5, <2>6
<1>11. CASE ducq_receive(c)
  <2>1. /\ call[c] = "pub" /\ out[c] = Nothing /\ down[c] # <<>>
        /\ down'[c] = Tail(down[c])
        /\ UNCHANGED <<up, gone, out, nreq, pings>>
    BY <1>1, <1>6, <1>11 DEF ducq_receive, Reading, OnlyPublishes
  <2>2. call'[c] = "none" /\ ret'[c] = "DUCQ_OK" /\ buf'[c] = "none"
    BY <1>6, <1>11, <2>1 DEF ducq_receive, Returns, StateOf, PubState
  <2>3. OnlyPublishes(c)'
    BY <1>1, <2>1, <2>2 DEF OnlyPublishes
  <2>4. Written(c)' = Written(c) /\ Awaited(c) = 1 /\ Awaited(c)' = 0
    BY <1>8, <2>1, <2>2 DEF Written, Awaited
  <2>5. LastRead(c)' = LastRead(c) + 1
    BY <1>7, <2>1, <2>4 DEF LastRead
  <2>6. ASSUME Counted(c) PROVE Counted(c)'
    <3>1. Chain(Tail(down[c]), Answered(c), answer.frame.tag, up[c], Written(c),
                LastRead(c) + 1, nreq[c])
      BY <1>7, <2>1, <2>6, ChainReads DEF Counted
    <3> QED BY <1>5, <2>1, <2>4, <2>5, <2>6, <3>1 DEF Counted
  <2> QED BY <1>2, <1>14, <2>1, <2>3, <2>6
<1>12. CASE FirstTimeout(c)
  <2>1. /\ out[c] = Nothing /\ down[c] = <<>> /\ call[c] = "pub"
        /\ out'[c] = OnRoute(EmptyRoute, "PING", nreq[c] + 1) /\ out'[c] # Nothing /\ buf'[c] = "PING"
        /\ nreq'[c] = nreq[c] + 1 /\ pings'[c] = pings[c] + 1
        /\ UNCHANGED <<up, down, gone, call, ret>>
    BY <1>1, <1>6, <1>8, <1>12
    DEF FirstTimeout, TimesOut, Reading, GoesOn, Write, OnlyPublishes, Nothing, Frame, OnRoute
  <2>2. OnlyPublishes(c)'
    BY <1>1, <1>8, <2>1 DEF OnlyPublishes
  <2>3. /\ Written(c) = 0 /\ Written(c)' = 1 /\ Awaited(c) = 1 /\ Awaited(c)' = 0
    BY <1>8, <2>1 DEF Written, Awaited
  <2>4. LastRead(c)' = LastRead(c)
    BY <1>7, <2>1, <2>3 DEF LastRead
  <2>5. ASSUME Counted(c) PROVE Counted(c)'
    <3>1. Chain(down[c], Answered(c), answer.frame.tag, up[c], 1, LastRead(c), nreq[c] + 1)
      BY <1>7, <2>3, <2>5, ChainCalls DEF Counted
    <3>2. out'[c].tag = nreq[c] + 1
      BY <1>8, <2>1
    <3>3. 2 * (pings[c] + 1) <= Cap + 2
      <4>1. LastRead(c) + 0 + Answered(c) + Len(up[c]) + 0 = nreq[c]
        BY <2>1, <2>3, <2>5, EmptySeq DEF Counted, Chain
      <4>2. Answered(c) <= 1 /\ Len(up[c]) <= Cap /\ Len(up[c]) \in Nat
        BY <1>7, LenProperties DEF Answered, IInv, SessionTypeOK
      <4>3. LastRead(c) = nreq[c] - 2 * pings[c] - 1
        BY <2>3 DEF LastRead
      <4>4. PICK n, p, a, u \in Int :
              n = nreq[c] /\ p = pings[c] /\ a = Answered(c) /\ u = Len(up[c])
        BY <1>7, <4>2
      <4>5. a <= 1 /\ u <= Cap /\ (n - 2 * p - 1) + 0 + a + u + 0 = n
        BY <4>1, <4>2, <4>3, <4>4
      <4>6. 2 * (p + 1) <= Cap + 2
        BY <4>5
      <4> QED BY <4>4, <4>6
    <3> QED BY <1>5, <2>1, <2>3, <2>4, <3>1, <3>2, <3>3 DEF Counted
  <2> QED BY <1>2, <1>14, <2>1, <2>2, <2>5
<1>13. CASE Quit(c)
  <2>1. /\ c \in gone' /\ call'[c] = "none" /\ out'[c] = Nothing /\ buf'[c] = "none"
        /\ ret'[c] = "none" /\ UNCHANGED up
    BY <1>6, <1>13 DEF Quit, IInv, SessionTypeOK, serverVars
  <2> QED BY <1>1, <2>1 DEF OnlyPublishes
<1> QED BY <1>3, <1>4, <1>9, <1>10, <1>11, <1>12, <1>13 DEF ClientStep

\* A frame that is written is one that was handed to ducq_send, and toAll tells
\* of every call of ducq_pub on a route that the empty one matches (pub.c:21).
LEMMA ClientsApart ==
  ASSUME IInv, NEW c \in Clients, ClientStep(c), ~toAll'
  PROVE  Apart'
<1>1. Apart /\ SessionTypeOK
  BY ClientsAlone DEF IInv
<1>2. /\ UNCHANGED <<route, msgs>> /\ hasSub \subseteq hasSub'
      /\ \A d \in Clients \ {c} : up'[d] = up[d] /\ out'[d] = out[d]
  BY ClientsAlone DEF serverVars, Unseen
<1>3. /\ up \in [Clients -> Seq(Frames)] /\ out \in [Clients -> Frames]
      /\ up[c] \in Seq(Frames) /\ out[c] \in Frames
  BY <1>1 DEF SessionTypeOK
<1>4. /\ \A q, k, i : OnRoute(q, k, i).kind = k /\ OnRoute(q, k, i).route = q
      /\ Elsewhere(Nothing)
  BY DEF Elsewhere, Nothing, Frame, OnRoute
<1>5. Elsewhere(out[c]) /\ \A i \in 1..Len(up[c]) : Elsewhere(up[c][i])
  BY <1>1 DEF Apart
<1>6. Elsewhere(out'[c]) /\ \A i \in 1..Len(up'[c]) : Elsewhere(up'[c][i])
  <2>1. ASSUME NEW q \in Routes, ducq_pub(c, q) PROVE Elsewhere(out'[c]) /\ up' = up
    <3>1. out'[c] = OnRoute(q, "pub", nreq'[c]) /\ ~Matches(EmptyRoute, q) /\ up' = up
      BY <1>3, <2>1 DEF ducq_pub, Write
    <3> QED BY <1>4, <3>1 DEF Elsewhere
  <2>2. ASSUME NEW q \in Routes, ducq_listen(c, q) PROVE Elsewhere(out'[c]) /\ up' = up
    <3>1. out'[c] = OnRoute(q, "sub", nreq'[c]) /\ up' = up
      BY <1>3, <2>2 DEF ducq_listen, Write
    <3> QED BY <1>4, <3>1 DEF Elsewhere
  <2>3. CASE FirstTimeout(c)
    <3>1. out'[c] = OnRoute(EmptyRoute, "PING", nreq'[c]) /\ up' = up
      BY <1>3, <2>3 DEF FirstTimeout, Write
    <3>2. Elsewhere(out'[c])
      BY <1>4, <3>1 DEF Elsewhere
    <3> QED BY <1>5, <3>1, <3>2
  <2>4. CASE Quit(c)
    <3>1. out'[c] = Nothing /\ up' = up
      BY <1>3, <2>4 DEF Quit
    <3> QED BY <1>4, <1>5, <3>1
  <2>5. CASE ducq_send(c)
    <3>1. out'[c] = Nothing /\ up'[c] = Append(up[c], out[c])
      BY <1>3, <2>5 DEF ducq_send
    <3>2. /\ Len(up[c]) \in Nat /\ Len(Append(up[c], out[c])) = Len(up[c]) + 1
          /\ \A i \in 1..Len(up[c]) : Append(up[c], out[c])[i] = up[c][i]
          /\ Append(up[c], out[c])[Len(up[c]) + 1] = out[c]
      BY <1>3, AppendProperties, LenProperties
    <3>3. ASSUME NEW i \in 1..(Len(up[c]) + 1) PROVE Elsewhere(Append(up[c], out[c])[i])
      <4>1. CASE i \in 1..Len(up[c])
        BY <1>5, <3>2, <4>1
      <4>2. CASE i = Len(up[c]) + 1
        BY <1>5, <3>2, <4>2
      <4> QED BY <3>2, <4>1, <4>2
    <3> QED BY <1>4, <3>1, <3>2, <3>3
  <2>6. CASE ducq_receive(c) \/ SecondTimeout(c)
    BY <1>5, <2>6 DEF ducq_receive, SecondTimeout
  <2> QED BY <1>5, <2>1, <2>2, <2>3, <2>4, <2>5, <2>6 DEF ClientStep
<1>7. \A d \in Clients : Elsewhere(out'[d]) /\ \A i \in 1..Len(up'[d]) : Elsewhere(up'[d][i])
  BY <1>1, <1>2, <1>6 DEF Apart
<1>8. (\A d \in Publishers' : route'[d] = EmptyRoute) /\ msgs' \subseteq hasSub'
  BY <1>1, <1>2 DEF Apart, Publishers
<1> QED BY <1>7, <1>8 DEF Apart

\* A step of a client preserves the invariant (ducq.c:119-225).
LEMMA ClientsKeepInv ==
  ASSUME IInv, NEW c \in Clients, ClientStep(c)
  PROVE  IInv'
<1>1. SessionTypeOK' /\ EndedIsSilent'
  BY ClientTypes
<1>2. /\ UNCHANGED serverVars
      /\ hasSub \subseteq hasSub' /\ gone \subseteq gone' /\ (toAll => toAll')
      /\ \A d \in Clients \ {c} : Unseen(d)
  BY ClientsAlone
<1>3. ASSUME NEW d \in Publishers'
      PROVE  OnlyPublishes(d)' /\ (~toAll' /\ d \notin gone' => Counted(d)')
  <2>1. CASE d = c
    BY <1>3, <2>1, PublisherStep DEF Publishers
  <2>2. CASE d # c
    <3>1. d \in Publishers /\ Unseen(d) /\ answer' = answer /\ Answered(d)' = Answered(d)
      BY <1>2, <1>3, <2>2 DEF Publishers, serverVars, Answered
    <3>2. OnlyPublishes(d) /\ (~toAll /\ d \notin gone => Counted(d))
      BY <3>1 DEF IInv
    <3> QED BY <1>2, <3>1, <3>2, OthersStay
  <2> QED BY <2>1, <2>2
<1> QED BY <1>1, <1>2, <1>3, ClientsApart DEF IInv

-----------------------------------------------------------------------------
\* Beside its answer, the server sends to the receivers of a publication, and the
\* answer first (pub.c:16-58).
LEMMA WhatIsSent ==
  ASSUME SessionTypeOK, Busy
  PROVE  /\ Sending \in Answers
         /\ answer = NoAnswer => Sending.to \in msgs
         /\ answer # NoAnswer => Sending = answer
<1>1. CASE answer # NoAnswer
  BY <1>1 DEF Sending, SessionTypeOK
<1>2. CASE answer = NoAnswer
  <2>1. msgs \in SUBSET Nat /\ msgs # {} /\ msgs \subseteq Clients
    BY <1>2 DEF Busy, SessionTypeOK, Clients
  <2>2. PICK d \in msgs : \A e \in msgs : d <= e
    BY <2>1, LeastElement
  <2> DEFINE d0 == CHOOSE x \in msgs : \A e \in msgs : x <= e
  <2>3. d0 \in msgs
    BY <2>2
  <2> HIDE DEF d0
  <2>4. Sending = Msg(d0)
    BY <1>2 DEF Sending, d0
  <2>5. Nothing \in Frames
    BY NoAnswerType
  <2>6. Sending.to = d0 /\ Sending \in Answers
    BY <2>1, <2>3, <2>4, <2>5 DEF Msg, Answers
  <2> QED BY <1>2, <2>3, <2>6
<1> QED BY <1>1, <1>2

\* A publisher is sent its answer only, if nobody has published to all.
LEMMA SentToPublisher ==
  ASSUME IInv, ~toAll, Busy, NEW c \in Publishers, Sending.to = c
  PROVE  answer # NoAnswer /\ Sending = answer /\ Answered(c) = 1
<1>1. SessionTypeOK /\ c \notin hasSub /\ msgs \subseteq hasSub
  BY DEF IInv, Apart, Publishers
<1>2. answer # NoAnswer
  BY <1>1, WhatIsSent
<1>3. Sending = answer
  BY <1>1, <1>2, WhatIsSent
<1> QED BY <1>2, <1>3 DEF Answered

\* The receivers of a publication on a route that "" does not match have all
\* subscribed (pub.c:21, ducq_reactor.c:229-239).
LEMMA ServeApart ==
  ASSUME IInv, Apart, NEW c \in Clients, Serve(c)
  PROVE  Apart'
<1> DEFINE r == Head(up[c])
<1>1. /\ SessionTypeOK /\ up[c] \in Seq(Frames) /\ up[c] # <<>>
      /\ up \in [Clients -> Seq(Frames)] /\ route \in [Clients -> Routes]
      /\ UNCHANGED <<out, hasSub>> /\ up' = [up EXCEPT ![c] = Tail(up[c])]
      /\ msgs' = IF r.kind = "pub" THEN Receivers(r.route) ELSE {}
      /\ route' = IF r.kind = "sub" THEN [route EXCEPT ![c] = r.route] ELSE route
  BY DEF IInv, SessionTypeOK, Serve, clientVars
<1>2. /\ r = up[c][1] /\ Len(up[c]) \in Nat \ {0} /\ Len(Tail(up[c])) = Len(up[c]) - 1
      /\ \A i \in 1..(Len(up[c]) - 1) : Tail(up[c])[i] = up[c][i + 1]
  BY <1>1, HeadTailProperties, LenProperties, EmptySeq
<1>3. \A d \in Clients : Elsewhere(out[d]) /\ \A i \in 1..Len(up[d]) : Elsewhere(up[d][i])
  BY DEF Apart
<1>4. /\ Elsewhere(r)
      /\ c \in Publishers => r.kind # "sub"
  BY <1>2, <1>3 DEF IInv, OnlyPublishes
<1> HIDE DEF r
<1>5. \A d \in Publishers' : route'[d] = EmptyRoute
  <2>1. \A d \in Publishers' : d \in Publishers /\ route[d] = EmptyRoute
    BY <1>1 DEF Apart, Publishers
  <2>2. CASE r.kind = "sub"
    BY <1>1, <1>4, <2>1, <2>2 DEF Publishers
  <2>3. CASE r.kind # "sub"
    BY <1>1, <2>1, <2>3
  <2> QED BY <2>2, <2>3
<1>6. msgs' \subseteq hasSub'
  <2>1. ASSUME r.kind = "pub", NEW d \in Clients, Matches(route[d], r.route) PROVE d \in hasSub
    BY <1>4, <2>1 DEF Apart, Elsewhere, Publishers
  <2>2. conns \subseteq Clients
    BY <1>1 DEF SessionTypeOK
  <2> QED BY <1>1, <2>1, <2>2 DEF Receivers
<1>7. \A d \in Clients : Elsewhere(out'[d]) /\ \A i \in 1..Len(up'[d]) : Elsewhere(up'[d][i])
  <2> SUFFICES ASSUME NEW d \in Clients PROVE \A i \in 1..Len(up'[d]) : Elsewhere(up'[d][i])
    BY <1>1, <1>3
  <2>1. CASE d # c
    BY <1>1, <1>3, <2>1
  <2>2. ASSUME NEW i \in 1..(Len(up[c]) - 1) PROVE Elsewhere(Tail(up[c])[i])
    <3>1. i + 1 \in 1..Len(up[c]) /\ Tail(up[c])[i] = up[c][i + 1]
      BY <1>2
    <3> QED BY <1>3, <3>1
  <2>3. up'[c] = Tail(up[c])
    BY <1>1
  <2> QED BY <1>2, <2>1, <2>2, <2>3
<1> QED BY <1>5, <1>6, <1>7 DEF Apart

\* The server takes a request out of the stream and has its answer to send.
LEMMA ServeKeepsInv ==
  ASSUME IInv, NEW c \in Clients, Serve(c)
  PROVE  IInv'
<1> DEFINE r == Head(up[c])
<1>1. /\ up \in [Clients -> Seq(Frames)] /\ down \in [Clients -> Seq(Frames)]
      /\ SessionTypeOK /\ up[c] \in Seq(Frames) /\ up[c] # <<>> /\ answer = NoAnswer
      /\ UNCHANGED <<down, gone, conns, call, out, buf, ret, nreq, pings, hasSub, toAll>>
      /\ up' = [up EXCEPT ![c] = Tail(up[c])]
  BY DEF IInv, SessionTypeOK, Serve, Busy, clientVars
<1>2. /\ r \in Frames /\ Tail(up[c]) \in Seq(Frames) /\ Len(Tail(up[c])) = Len(up[c]) - 1
      /\ r = up[c][1] /\ Len(up[c]) \in Nat \ {0}
      /\ \A i \in 1..(Len(up[c]) - 1) : Tail(up[c])[i] = up[c][i + 1]
  BY <1>1, HeadTailProperties, LenProperties, EmptySeq
<1>3. /\ answer'.to = c /\ answer'.frame.tag = r.tag /\ answer' \in Answers /\ answer' # NoAnswer
  <2> DEFINE kind == IF r.kind = "PING" THEN "PONG" ELSE "ACK"
  <2>1. answer' = [to |-> c, pub |-> r.kind = "pub", frame |-> Frame(kind, r.tag)]
    BY DEF Serve
  <2>2. kind \in Kinds /\ kind # "MSG" /\ r.tag \in 0..MaxRequests /\ (r.kind = "pub") \in BOOLEAN
    BY <1>2 DEF Kinds, Frames
  <2>3. Frame(kind, r.tag) \in Frames /\ Frame(kind, r.tag).tag = r.tag /\ Frame(kind, r.tag).kind # "MSG"
    BY <2>2 DEF Frame, OnRoute, Frames
  <2>4. NoAnswer.frame.kind = "MSG"
    BY DEF NoAnswer, Msg, Nothing, Frame, OnRoute
  <2> HIDE DEF kind
  <2>5. answer'.frame = Frame(kind, r.tag) /\ answer'.to = c
    BY <2>1
  <2> QED BY <2>1, <2>2, <2>3, <2>4, <2>5 DEF Answers
<1>4. msgs' \subseteq Clients
  BY <1>1 DEF Serve, Receivers, SessionTypeOK
<1>5. route' \in [Clients -> Routes] /\ \A d \in Publishers : route'[d] = route[d]
  <2>1. c \in Publishers => r.kind # "sub"
    <3>1. 1 \in 1..Len(up[c])
      BY <1>2
    <3>2. c \in Publishers => OnlyPublishes(c)
      BY DEF IInv
    <3> QED BY <1>2, <3>1, <3>2 DEF OnlyPublishes
  <2>2. route \in [Clients -> Routes] /\ r.route \in Routes
    BY <1>1, <1>2 DEF SessionTypeOK, Frames
  <2>3. route' = IF r.kind = "sub" THEN [route EXCEPT ![c] = r.route] ELSE route
    BY DEF Serve
  <2> HIDE DEF r
  <2>4. CASE r.kind = "sub"
    BY <2>1, <2>2, <2>3, <2>4 DEF Publishers
  <2>5. CASE r.kind # "sub"
    BY <2>2, <2>3, <2>5
  <2> QED BY <2>4, <2>5
<1>6. up' \in [Clients -> Seq(Frames)] /\ \A d \in Clients : Len(up'[d]) <= Cap
  <2>1. up' \in [Clients -> Seq(Frames)]
    BY <1>1, <1>2
  <2>2. \A d \in Clients : up'[d] = IF d = c THEN Tail(up[c]) ELSE up[d]
    BY <1>1
  <2>3. \A d \in Clients : Len(up[d]) <= Cap
    BY DEF IInv, SessionTypeOK
  <2>4. Len(Tail(up[c])) <= Cap
    BY <1>2, <2>3
  <2> QED BY <2>1, <2>2, <2>3, <2>4
<1>7. SessionTypeOK'
  BY <1>1, <1>3, <1>4, <1>5, <1>6 DEF SessionTypeOK
<1>8. EndedIsSilent'
  BY <1>1 DEF IInv, EndedIsSilent
<1>9. ASSUME NEW d \in Publishers'
      PROVE  OnlyPublishes(d)' /\ (~toAll' /\ d \notin gone' => Counted(d)')
  <2>1. d \in Publishers /\ OnlyPublishes(d) /\ (~toAll /\ d \notin gone => Counted(d)) /\ d \in Clients
    BY <1>1, <1>9 DEF IInv, Publishers
  <2>2. CASE d # c
    <3>1. Unseen(d) /\ Answered(d) = 0 /\ Answered(d)' = 0
      BY <1>1, <1>3, <2>1, <2>2 DEF Unseen, Answered
    <3> QED BY <1>1, <2>1, <3>1, OthersStay
  <2>3. CASE d = c
    <3>1. up'[c] = Tail(up[c]) /\ Answered(c) = 0 /\ Answered(c)' = 1
      BY <1>1, <1>3 DEF Answered
    <3>2. \A i \in 1..Len(Tail(up[c])) : Tail(up[c])[i].kind # "sub"
      <4> SUFFICES ASSUME NEW i \in 1..(Len(up[c]) - 1) PROVE up[c][i + 1].kind # "sub"
        BY <1>2
      <4>1. i + 1 \in 1..Len(up[c])
        BY <1>2
      <4> QED BY <2>1, <2>3, <4>1 DEF OnlyPublishes
    <3>3. OnlyPublishes(c)'
      BY <1>1, <2>1, <2>3, <3>1, <3>2 DEF OnlyPublishes
    <3>4. ASSUME Counted(c) PROVE Counted(c)'
      <4>1. Written(c)' = Written(c) /\ LastRead(c)' = LastRead(c)
        BY <1>1 DEF Written, LastRead, Awaited
      <4>2. down[c] \in Seq(Frames) /\ Written(c) \in Nat /\ LastRead(c) \in Int /\ nreq[c] \in Int
        BY <1>1, CountTypes
      <4>3. Chain(down[c], 1, Head(up[c]).tag, Tail(up[c]), Written(c), LastRead(c), nreq[c])
        BY <1>1, <3>1, <3>4, <4>2, ChainServes DEF Counted
      <4> QED BY <1>1, <1>3, <3>1, <3>4, <4>1, <4>3 DEF Counted
    <3> QED BY <1>1, <2>1, <2>3, <3>3, <3>4
  <2> QED BY <2>2, <2>3
<1>10. ~toAll' => Apart'
  BY <1>1, ServeApart DEF IInv
<1> QED BY <1>7, <1>8, <1>9, <1>10 DEF IInv

\* What is left to send stays well-typed.
LEMMA SentTypes ==
  ASSUME SessionTypeOK, Busy, Sent
  PROVE  answer' \in Answers /\ msgs' \subseteq msgs /\ (answer' = answer \/ answer' = NoAnswer)
BY NoAnswerType DEF Sent, SessionTypeOK

\* A frame goes into a connection that has room, a publisher's answer behind
\* those it has not read (pub.c:23, ducq.c:59-63).
LEMMA SendKeepsInv ==
  ASSUME IInv, SendNext
  PROVE  IInv'
<1> DEFINE c == Sending.to
           e == Sending.frame
<1>1. /\ SessionTypeOK /\ Busy /\ Sent /\ Len(down[c]) < Cap /\ c \notin gone
      /\ up \in [Clients -> Seq(Frames)] /\ down \in [Clients -> Seq(Frames)]
      /\ down' = [down EXCEPT ![c] = Append(down[c], e)]
      /\ UNCHANGED <<up, gone, conns, route, call, out, buf, ret, nreq, pings, hasSub, toAll>>
  BY DEF IInv, SendNext, clientVars, SessionTypeOK
<1>2. Sending \in Answers /\ c \in Clients /\ e \in Frames
  BY <1>1, WhatIsSent DEF Answers
<1> HIDE DEF c, e
<1>3. /\ Len(down[c]) \in Nat /\ Append(down[c], e) \in Seq(Frames)
      /\ Len(Append(down[c], e)) = Len(down[c]) + 1
  BY <1>1, <1>2, AppendProperties, LenProperties
<1>4. down' \in [Clients -> Seq(Frames)] /\ \A d \in Clients : Len(down'[d]) <= Cap
  <2>1. down' \in [Clients -> Seq(Frames)]
    BY <1>1, <1>3
  <2>2. \A d \in Clients : down'[d] = IF d = c THEN Append(down[c], e) ELSE down[d]
    BY <1>1
  <2>3. \A d \in Clients : Len(down[d]) <= Cap
    BY DEF IInv, SessionTypeOK
  <2>4. Len(Append(down[c], e)) <= Cap
    BY <1>1, <1>3
  <2> QED BY <2>1, <2>2, <2>3, <2>4
<1>5. answer' \in Answers /\ msgs' \subseteq msgs /\ (answer' = answer \/ answer' = NoAnswer)
  BY <1>1, SentTypes
<1>6. SessionTypeOK'
  BY <1>1, <1>4, <1>5 DEF SessionTypeOK
<1>7. EndedIsSilent'
  BY <1>1 DEF IInv, EndedIsSilent
<1>8. ASSUME NEW d \in Publishers'
      PROVE  OnlyPublishes(d)' /\ (~toAll' /\ d \notin gone' => Counted(d)')
  <2>1. d \in Publishers /\ OnlyPublishes(d) /\ (~toAll /\ d \notin gone => Counted(d)) /\ d \in Clients
    BY <1>1, <1>8 DEF IInv, Publishers
  <2>2. CASE d # c
    <3>1. Unseen(d)
      BY <1>1, <2>1, <2>2 DEF Unseen
    <3>2. Answered(d) = 0 => Answered(d)' = 0
      BY <1>5 DEF Answered
    <3>3. Answered(d) # 0 => Answered(d)' = Answered(d) /\ answer' = answer
      BY <1>1, <2>2, WhatIsSent DEF Answered, Sent, c
    <3>4. Answered(d)' = Answered(d) /\ (Answered(d) = 1 => answer'.frame = answer.frame)
      BY <3>2, <3>3
    <3> QED BY <1>1, <2>1, <3>1, <3>4, OthersStay
  <2>3. CASE d = c
    <3>2. OnlyPublishes(d)'
      BY <1>1, <2>1, <2>3 DEF OnlyPublishes
    <3>3. ASSUME Counted(d), ~toAll PROVE Counted(d)'
      <4>0. answer # NoAnswer /\ Sending = answer /\ Answered(d) = 1 /\ answer' = NoAnswer
        BY <1>1, <2>1, <2>3, <3>3, SentToPublisher DEF Sent, c
      <4>1. Written(d)' = Written(d) /\ LastRead(d)' = LastRead(d) /\ Answered(d)' = 0
        BY <1>1, <4>0 DEF Written, LastRead, Awaited, Answered
      <4>2. /\ down[d] \in Seq(Frames) /\ up[d] \in Seq(Frames) /\ Written(d) \in Nat
            /\ LastRead(d) \in Int /\ nreq[d] \in Int
        BY <1>1, <2>1, CountTypes
      <4>3. e.tag = answer.frame.tag
        BY <4>0 DEF e
      <4>4. Chain(Append(down[d], e), 0, answer'.frame.tag, up[d], Written(d), LastRead(d), nreq[d])
        BY <1>2, <4>0, <3>3, <4>2, <4>3, ChainAnswers DEF Counted
      <4>5. down'[d] = Append(down[d], e)
        BY <1>1, <1>2, <2>3
      <4> QED BY <1>1, <3>3, <4>1, <4>4, <4>5 DEF Counted
    <3> QED BY <1>1, <2>1, <2>3, <3>2, <3>3
  <2> QED BY <2>2, <2>3
<1>9. ~toAll' => Apart'
  BY <1>1, <1>5 DEF IInv, Apart, Publishers
<1> QED BY <1>6, <1>7, <1>8, <1>9 DEF IInv

\* A client that is gone is no longer counted: it loses its answers, its
\* requests and its subscription (pub.c:24, 48-58).
LEMMA LossKeepsInv ==
  ASSUME IInv, SendFails \/ \E c \in Clients : SeesEnd(c)
  PROVE  IInv'
<1>1. /\ SessionTypeOK /\ up \in [Clients -> Seq(Frames)]
      /\ UNCHANGED <<down, gone, route, call, out, buf, ret, nreq, pings, hasSub, toAll>>
  BY DEF IInv, SendFails, SeesEnd, clientVars, SessionTypeOK
<1>2. /\ answer' \in Answers /\ msgs' \subseteq msgs /\ conns' \subseteq conns
      /\ up' = up \/ \E c \in gone : up' = [up EXCEPT ![c] = <<>>]
      /\ answer' = answer \/ (answer' = NoAnswer /\ (answer # NoAnswer => answer.to \in gone))
  <2>1. CASE SendFails
    <3>1. Busy /\ Sending.to \in gone
      BY <2>1 DEF SendFails
    <3>2. answer # NoAnswer => answer.to \in gone
      BY <1>1, <3>1, WhatIsSent
    <3>3. NoAnswer \in Answers
      BY NoAnswerType
    <3>4. (answer' = NoAnswer /\ msgs' = {}) \/ Sent
      BY <2>1 DEF SendFails
    <3>5. answer' \in Answers /\ msgs' \subseteq msgs /\ (answer' = answer \/ answer' = NoAnswer)
      BY <1>1, <3>1, <3>3, <3>4, SentTypes
    <3>6. conns' \subseteq conns /\ (up' = up \/ up' = [up EXCEPT ![Sending.to] = <<>>])
      BY <2>1 DEF SendFails
    <3> QED BY <3>1, <3>2, <3>5, <3>6
  <2>2. CASE \E c \in Clients : SeesEnd(c)
    BY <1>1, <2>2 DEF SeesEnd, SessionTypeOK
  <2> QED BY <2>1, <2>2
<1>3. up' \in [Clients -> Seq(Frames)] /\ \A d \in Clients : up'[d] = up[d] \/ (d \in gone /\ up'[d] = <<>>)
  <2>1. CASE up' = up
    BY <1>1, <2>1
  <2>2. ASSUME NEW c \in gone, up' = [up EXCEPT ![c] = <<>>]
        PROVE  up' \in [Clients -> Seq(Frames)]
               /\ \A d \in Clients : up'[d] = up[d] \/ (d \in gone /\ up'[d] = <<>>)
    <3>1. <<>> \in Seq(Frames)
      BY EmptySeq
    <3> QED BY <1>1, <2>2, <3>1
  <2> QED BY <1>2, <2>1, <2>2
<1>4. \A d \in Clients : Len(up'[d]) <= Cap
  <2>1. \A d \in Clients : Len(up[d]) <= Cap
    BY DEF IInv, SessionTypeOK
  <2>2. Len(<<>>) <= Cap
    BY EmptySeq
  <2> QED BY <1>3, <2>1, <2>2
<1>5. SessionTypeOK'
  BY <1>1, <1>2, <1>3, <1>4 DEF SessionTypeOK
<1>6. EndedIsSilent'
  BY <1>1 DEF IInv, EndedIsSilent
<1>7. ASSUME NEW d \in Publishers'
      PROVE  OnlyPublishes(d)' /\ (~toAll' /\ d \notin gone' => Counted(d)')
  <2>1. d \in Publishers /\ OnlyPublishes(d) /\ (~toAll /\ d \notin gone => Counted(d)) /\ d \in Clients
    BY <1>1, <1>7 DEF IInv, Publishers
  <2>2. CASE d \in gone
    <3>1. \A i \in 1..Len(up'[d]) : up'[d][i].kind # "sub"
      <4>1. CASE up'[d] = up[d]
        BY <2>1, <4>1 DEF OnlyPublishes
      <4>2. CASE up'[d] = <<>>
        BY <4>2, EmptySeq
      <4> QED BY <1>3, <2>1, <4>1, <4>2
    <3> QED BY <1>1, <2>1, <2>2, <3>1 DEF OnlyPublishes
  <2>3. CASE d \notin gone
    <3>1. Unseen(d)
      BY <1>1, <1>3, <2>1, <2>3 DEF Unseen
    <3>2. Answered(d)' = Answered(d) /\ (Answered(d) = 1 => answer' = answer)
      BY <1>2, <2>3 DEF Answered
    <3> QED BY <1>1, <2>1, <3>1, <3>2, OthersStay
  <2> QED BY <2>2, <2>3
<1>8. ~toAll' => Apart'
  <2> SUFFICES ASSUME Apart PROVE Apart'
    BY <1>1 DEF IInv
  <2>1. \A d \in Clients : \A i \in 1..Len(up'[d]) : Elsewhere(up'[d][i])
    <3> SUFFICES ASSUME NEW d \in Clients PROVE \A i \in 1..Len(up'[d]) : Elsewhere(up'[d][i])
      OBVIOUS
    <3>1. CASE up'[d] = up[d]
      BY <3>1 DEF Apart
    <3>2. CASE up'[d] = <<>>
      BY <3>2, EmptySeq
    <3> QED BY <1>3, <3>1, <3>2
  <2> QED BY <1>1, <1>2, <2>1 DEF Apart, Publishers
<1> QED BY <1>5, <1>6, <1>7, <1>8 DEF IInv

-----------------------------------------------------------------------------
LEMMA NextInv == IInv /\ [Next]_vars => IInv'
<1> SUFFICES ASSUME IInv, [Next]_vars PROVE IInv'
  OBVIOUS
<1>1. CASE UNCHANGED vars
  <2> USE <1>1 DEF vars, clientVars, serverVars
  <2>1. SessionTypeOK' /\ EndedIsSilent' /\ (~toAll' => Apart')
    BY DEF IInv, SessionTypeOK, EndedIsSilent, Apart, Elsewhere, Publishers
  <2>2. ASSUME NEW d \in Publishers'
        PROVE  OnlyPublishes(d)' /\ (~toAll' /\ d \notin gone' => Counted(d)')
    <3>1. d \in Publishers /\ Unseen(d) /\ Answered(d)' = Answered(d)
      BY <2>2 DEF Publishers, Unseen, Answered
    <3> QED BY <3>1, OthersStay DEF IInv
  <2> QED BY <2>1, <2>2 DEF IInv
<1>2. ASSUME NEW c \in Clients, ClientStep(c) PROVE IInv'
  BY <1>2, ClientsKeepInv
<1>3. ASSUME NEW c \in Clients, Serve(c) PROVE IInv'
  BY <1>3, ServeKeepsInv
<1>4. CASE SendNext
  BY <1>4, SendKeepsInv
<1>5. CASE SendFails \/ \E c \in Clients : SeesEnd(c)
  BY <1>5, LossKeepsInv
<1> QED BY <1>1, <1>2, <1>3, <1>4, <1>5 DEF Next, ServerStep

\* Every variable is of its type, connections hold no more than they can, and
\* ducq_pub has never failed (ducq.c:217-224).
THEOREM TypeCorrect == Spec => []TypeOK
<1>1. IInv => TypeOK
  BY DEF IInv, SessionTypeOK, TypeOK, Apart, Publishers, OnlyPublishes
<1> QED BY <1>1, InitInv, NextInv, PTL DEF Spec

\* Whatever times out and however little a connection holds, the server and a
\* client that only publishes never both write into full connections, as long as
\* nobody publishes on a route that the empty route of the clients without a
\* subscription matches (pub.c:21-23, ducq.c:143-156, 289-311).
THEOREM NoPublisherWedgesTheServer == Spec => []MutualWaitTakesMessages
<1>1. IInv => MutualWaitTakesMessages
  <2> SUFFICES ASSUME IInv, NEW c \in Clients, MutualWait(c), c \notin hasSub, ~toAll PROVE FALSE
    BY DEF MutualWaitTakesMessages
  <2>1. SessionTypeOK /\ c \in Publishers /\ c \notin gone /\ Counted(c)
    BY DEF IInv, Publishers, MutualWait, EndedIsSilent
  <2>2. Answered(c) = 1 /\ Written(c) = 1 /\ Len(up[c]) = Cap /\ Len(down[c]) = Cap
    BY <2>1, SentToPublisher DEF MutualWait, Written
  <2>3. /\ LastRead(c) + Cap + 1 + Cap + 1 = nreq[c]
        /\ 2 * pings[c] <= Cap + 2
    BY <2>1, <2>2 DEF Counted, Chain
  <2>4. LastRead(c) = nreq[c] - 2 * pings[c] - Awaited(c)
    BY DEF LastRead
  <2>5. PICK n, p, a \in Nat : n = nreq[c] /\ p = pings[c] /\ a = Awaited(c) /\ a <= 1
    BY <2>1, CountTypes DEF Awaited
  <2>6. (n - 2 * p - a) + Cap + 1 + Cap + 1 = n /\ 2 * p <= Cap + 2 /\ a <= 1
    BY <2>3, <2>4, <2>5
  <2> QED BY <2>6
<1> QED BY <1>1, InitInv, NextInv, PTL DEF Spec

\* The answer ducq_pub takes for its acknowledgement is older than its request
\* by two for every timeout so far, for a client that has not subscribed and
\* while nobody has published on the empty route (ducq.c:143-156, 217-224,
\* pub.c:21).
THEOREM TimeoutsAddUp == Spec => EveryTimeoutSetsTwoBack
<1> DEFINE A == \A c \in Clients \ hasSub :
                  /\ ~toAll /\ call[c] = "pub" /\ c \notin gone'
                  /\ Len(down'[c]) < Len(down[c])
                  => Head(down[c]).tag = nreq[c] - 2 * pings[c]
<1>1. IInv /\ [Next]_vars => [A]_vars
  <2> SUFFICES ASSUME IInv, Next, NEW c \in Clients \ hasSub, ~toAll,
                      call[c] = "pub", Len(down'[c]) < Len(down[c]), c \notin gone'
               PROVE  Head(down[c]).tag = nreq[c] - 2 * pings[c]
    OBVIOUS
  <2>1. /\ SessionTypeOK /\ down \in [Clients -> Seq(Frames)] /\ down[c] \in Seq(Frames)
        /\ up[c] \in Seq(Frames) /\ Len(down[c]) \in Nat
    BY LenProperties DEF IInv, SessionTypeOK
  <2>2. ~SendNext
    <3> SUFFICES ASSUME SendNext PROVE FALSE
      OBVIOUS
    <3>1. Busy /\ down' = [down EXCEPT ![Sending.to] = Append(@, Sending.frame)]
      BY DEF SendNext
    <3>2. Sending \in Answers
      BY <2>1, <3>1, WhatIsSent
    <3>3. Len(Append(down[c], Sending.frame)) = Len(down[c]) + 1
      BY <2>1, <3>2, AppendProperties DEF Answers
    <3>4. Len(down'[c]) \in {Len(down[c]), Len(down[c]) + 1}
      BY <2>1, <3>1, <3>3
    <3> QED BY <2>1, <3>4
  <2>3. ~ (SendFails \/ \E d \in Clients : Serve(d) \/ SeesEnd(d))
    BY <2>1 DEF SendFails, Serve, SeesEnd
  <2>4. ASSUME NEW d \in Clients, ClientStep(d) PROVE d = c /\ ducq_receive(c)
    <3>1. d = c
      BY <2>1, <2>4, ClientsAlone DEF Unseen
    <3>2. /\ ~ \E r \in Routes : ducq_pub(c, r) \/ ducq_listen(c, r)
          /\ ~ (ducq_send(c) \/ FirstTimeout(c) \/ SecondTimeout(c))
      BY <2>1 DEF ducq_pub, ducq_listen, ducq_send, FirstTimeout, SecondTimeout
    <3>3. ~Quit(c)
      BY DEF Quit
    <3> QED BY <2>4, <3>1, <3>2, <3>3 DEF ClientStep
  <2>5. ducq_receive(c)
    BY <2>2, <2>3, <2>4 DEF Next, ServerStep
  <2>6. down[c] # <<>> /\ out[c] = Nothing /\ c \notin gone
    BY <2>5 DEF ducq_receive, Reading
  <2>7. Counted(c)
    BY <2>6 DEF IInv, Publishers
  <2>8. Awaited(c) = 1
    BY <2>6 DEF Awaited, Nothing, Frame, OnRoute
  <2>9. Head(down[c]).tag = LastRead(c) + 1
    BY <2>1, <2>6, <2>7, CountTypes, ChainReads DEF Counted
  <2>10. nreq[c] \in Nat /\ pings[c] \in Nat
    BY <2>1, CountTypes
  <2> QED BY <2>8, <2>9, <2>10 DEF LastRead
<1> QED BY <1>1, InitInv, NextInv, PTL DEF Spec, EveryTimeoutSetsTwoBack
=============================================================================
