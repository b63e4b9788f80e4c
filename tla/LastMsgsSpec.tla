---------------------------- MODULE LastMsgsSpec ----------------------------
(***************************************************************************)
(* What the table of last messages promises its users, pub and sub: any    *)
(* sequence of publications, with a history of what was published last on  *)
(* each route to compare the table with.                                   *)
(***************************************************************************)
EXTENDS LastMsgs

VARIABLE published  \* history: the message published last on each route

vars == <<last_msgs, published>>

Init == /\ LastMsgsInit
        /\ published = [r \in Routes |-> NoMsg]

\* pub and publish record every publication that has a route (pub.c:44-46)
Publish(r, m) == /\ SetLastMsg(r, m)
                 /\ published' = [published EXCEPT ![r] = m]

Next == \E r \in Routes, m \in Msgs : Publish(r, m)

Spec == Init /\ [][Next]_vars

Full == \A c \in Channels : last_msgs[c].route # EmptyRoute

-----------------------------------------------------------------------------
TypeOK == /\ LastMsgsTypeOK
          /\ published \in [Routes -> Msgs \cup {NoMsg}]

\* A route never has two slots: ducq_get_last_msg (ducq_reactor.c:136-147)
\* would answer with the older one for ever.
OneSlotPerRoute ==
  \A c, d \in Channels :
    /\ last_msgs[c].route = last_msgs[d].route
    /\ last_msgs[c].route # EmptyRoute
    => c = d

\* The used slots are the first ones: a free slot ends the scan, so a route
\* behind one would be lost (ducq_reactor.c:140-141).
UsedSlotsFirst ==
  \A c \in Channels : last_msgs[c].route = EmptyRoute =>
    \A d \in c..MaxChannels : last_msgs[d].route = EmptyRoute

\* What a subscriber asking for 'last' is given (sub.c:30-34) is the message
\* published last on exactly that route, or "ACK" when there is none; only a
\* full table, and only for a route it has no slot for, may answer otherwise.
LastIsLastPublished ==
  \A r \in Routes \ {EmptyRoute} :
    \/ GetLastMsg(r) = published[r]
    \/ Full /\ r \notin Remembered /\ GetLastMsg(r) = FullMsg

\* A route that has a slot keeps it: later publications on other routes, a full
\* table included, never take it away (ducq_reactor.c:149-162).
NeverForgotten == [][Remembered \subseteq Remembered']_vars

\* What the documentation of sub says (sub.c:53-56): 'last' gets the last
\* message published on the route, if any.  Not so once the table is full.
LastPublishedIsAvailable ==
  \A r \in Routes \ {EmptyRoute} :
    published[r] # NoMsg => GetLastMsg(r) = published[r]
=============================================================================
