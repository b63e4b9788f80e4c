------------------------------- MODULE PubSub -------------------------------
(***************************************************************************)
(* What the server promises its clients, without descriptors, slots,       *)
(* pointers or rounds: who is connected, the route each has subscribed,    *)
(* the last message of the routes that are remembered, and the frames one  *)
(* step sends.  A client that has hung up (broken) may be found out, and   *)
(* dropped, by any step that sends to it.                                  *)
(***************************************************************************)
EXTENDS Integers, Sequences, FiniteSets, Routing

CONSTANTS Peers, Msgs, MaxChannels, LogRoute, AllowLogRoute, Matches(_, _)

VARIABLES connected,  \* the clients the server knows
          broken,     \* those of them that have hung up
          route,      \* what each client has subscribed; the empty route if nothing
          memory,     \* the last message of each remembered route
          out         \* the frames the last step sent to each client

vars == <<connected, broken, route, memory, out>>

Silent   == [p \in Peers |-> <<>>]
To(p, f) == [Silent EXCEPT ![p] = <<f>>]

Ack       == <<"ACK">>
Nack      == <<"NACK">>
Msg(r, m) == <<"MSG", r, m>>

Last(r) == IF r \in DOMAIN memory THEN Msg(r, memory[r])
           ELSE IF Cardinality(DOMAIN memory) < MaxChannels THEN Ack
           ELSE <<"ACK_">>

Init == /\ connected = {}
        /\ broken = {}
        /\ route = [p \in Peers |-> EmptyRoute]
        /\ memory = [r \in {} |-> {}]
        /\ out = Silent

\* The clients in S leave; rt are the routes of the others.
Leave(S, rt) ==
  /\ connected' = connected \ S
  /\ broken' = broken \ S
  /\ route' = [p \in Peers |-> IF p \in S THEN EmptyRoute ELSE rt[p]]

\* whom the log may find broken: subscribers of exactly the log route
LogLosses(rt) ==
  IF AllowLogRoute THEN SUBSET {p \in broken : rt[p] = LogRoute} ELSE {{}}

\* a frame to a broken client may be lost; a frame to a client that is not is sent
Answer(p, f) == out' = To(p, f) \/ (p \in broken /\ out' = Silent)

Tick == out' = Silent /\ UNCHANGED <<connected, broken, route, memory>>

Join(p) ==
  /\ p \notin connected
  /\ connected' = connected \cup {p}
  /\ \E late \in SUBSET {p} : broken' = broken \cup late
  /\ out' = Silent
  /\ UNCHANGED <<route, memory>>

HangUp(p) ==
  /\ p \in connected
  /\ broken' = broken \cup {p}
  /\ out' = Silent
  /\ UNCHANGED <<connected, route, memory>>

LogOnly ==
  /\ out' = Silent
  /\ \E lost \in LogLosses(route) : Leave(lost, route)
  /\ UNCHANGED memory

\* a client asks for something that changes nothing and is answered
Query(p, f) ==
  /\ p \in connected
  /\ Answer(p, f)
  /\ \E lost \in LogLosses(route) : Leave(lost, route)
  /\ UNCHANGED memory

\* a client that sends nonsense, or has closed its end, is told and leaves
Expel(p) ==
  /\ p \in connected
  /\ Answer(p, Nack)
  /\ \E lost \in LogLosses(route) : Leave(lost \cup {p}, route)
  /\ UNCHANGED memory

Subscribe(p, r) ==
  /\ p \in connected
  /\ LET rt == [route EXCEPT ![p] = r]
     IN  \/ /\ \E f \in {Ack, Last(r)} : out' = To(p, f)
            /\ \E lost \in LogLosses(rt) : Leave(lost, rt)
         \/ /\ p \in broken
            /\ out' = Silent
            /\ \E lost \in LogLosses(rt) : Leave(lost \cup {p}, rt)
  /\ UNCHANGED memory

\* The last message is remembered for good on the first MaxChannels routes.
Remember(r, m) ==
  memory' = IF r # EmptyRoute
               /\ (r \in DOMAIN memory \/ Cardinality(DOMAIN memory) < MaxChannels)
            THEN [q \in DOMAIN memory \cup {r} |-> IF q = r THEN m ELSE memory[q]]
            ELSE memory

\* A publication that is acknowledged reaches, in this step and once, every
\* client whose subscription matches and that has not hung up, its publisher
\* included, after the acknowledgement; nobody else hears of it, and only
\* clients that have hung up and are sent to leave.
Publish(p, r, m) ==
  LET subscribers == {q \in connected : Matches(route[q], r)}
      logging     == IF AllowLogRoute THEN {q \in connected : route[q] = LogRoute} ELSE {}
  IN  /\ p \in connected
      /\ Remember(r, m)
      /\ \E reached \in SUBSET subscribers :
            /\ out' = [q \in Peers |->
                         (IF q = p THEN <<Ack>> ELSE <<>>)
                         \o (IF q \in reached THEN <<Msg(r, m)>> ELSE <<>>)]
            /\ \E lost \in SUBSET (broken \cap (subscribers \cup logging)) :
                  /\ subscribers \ lost \subseteq reached
                  /\ reached \cap lost \subseteq logging
                  /\ Leave(lost, route)

\* One that cannot be acknowledged is remembered all the same, and sent to nobody.
PublishUnacknowledged(p, r, m) ==
  /\ p \in broken
  /\ out' = Silent
  /\ Remember(r, m)
  /\ \E lost \in LogLosses(route) : Leave(lost \cup {p}, route)

\* One client has another one removed, or itself, and is then not answered.
Unsubscribe(p, id) ==
  /\ {p, id} \subseteq connected
  /\ \E lost \in LogLosses(route) :
        /\ Leave(lost \cup {id}, route)
        /\ IF p \in lost \cup {id} THEN out' = Silent ELSE Answer(p, Ack)
  /\ UNCHANGED memory

Answers == {Ack, Nack, <<"PONG">>, <<"TIME">>, <<"COMMANDS">>}

\* A listing has exactly the clients connected, those this step finds broken
\* perhaps left out.
List(p) ==
  /\ p \in connected
  /\ \E lost \in LogLosses(route) :
        /\ Leave(lost, route)
        /\ \E seen \in {connected, connected \ lost} :
              Answer(p, <<"LIST", {<<q, route[q]>> : q \in seen}>>)
  /\ UNCHANGED memory

Next ==
  \/ Tick
  \/ LogOnly
  \/ \E p \in Peers :
        \/ Join(p)
        \/ HangUp(p)
        \/ Expel(p)
        \/ List(p)
        \/ \E f \in Answers : Query(p, f)
        \/ \E r \in Routes : Subscribe(p, r)
        \/ \E r \in Routes, m \in Msgs : Publish(p, r, m) \/ PublishUnacknowledged(p, r, m)
        \/ \E id \in Peers : Unsubscribe(p, id)

Spec == Init /\ [][Next]_vars
=============================================================================
