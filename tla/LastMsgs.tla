------------------------------ MODULE LastMsgs ------------------------------
(***************************************************************************)
(* The table of last messages of the reactor (ducq_reactor.c): for each of *)
(* at most MaxChannels routes, the last message published on it.  A slot   *)
(* whose route is the empty string is free; both functions scan the table  *)
(* from its start and stop at the first slot that is free or has the route.*)
(***************************************************************************)
EXTENDS Integers, Routing

CONSTANTS Msgs,        \* the messages published
          NoMsg,       \* "ACK", given when the route has no message
          FullMsg,     \* "ACK\n_", given when the scan finds neither
          MaxChannels  \* DUCQ_MAX_CHANNELS

ASSUME LastMsgsAssumption ==
  /\ NoMsg \notin Msgs
  /\ FullMsg \notin Msgs \cup {NoMsg}
  /\ MaxChannels \in Nat

VARIABLE last_msgs

Channels == 1..MaxChannels

LastMsgsTypeOK ==
  last_msgs \in [Channels -> [route : Routes, msg : Msgs \cup {NoMsg}]]

LastMsgsInit ==
  last_msgs = [c \in Channels |-> [route |-> EmptyRoute, msg |-> NoMsg]]

\* Mutant: the scan looks for a free slot only.
ScanStopsAtFree(c, r) == last_msgs[c].route = EmptyRoute

\* the scan for route r stops at slot c
ScanStopsAt(c, r) == last_msgs[c].route \in {EmptyRoute, r}

\* Mutant: any slot the scan may stop at, not the first.
AnyStop(c, r) == c \in Channels /\ ScanStopsAt(c, r)

First(c, r) == /\ c \in Channels
               /\ ScanStopsAt(c, r)
               /\ \A d \in 1..(c - 1) : ~ScanStopsAt(d, r)

Write(c, r, m) == last_msgs' = [last_msgs EXCEPT ![c] = [route |-> r, msg |-> m]]

NoStop(r) == \A c \in Channels : ~ScanStopsAt(c, r)

\* Mutant: a full table forgets its first route.
SetLastMsgEvicts(r, m) ==
  \/ \E c \in Channels : First(c, r) /\ Write(c, r, m)
  \/ NoStop(r) /\ Write(1, r, m)

\* Mutant: the scan runs one slot past the end of the table.
SetLastMsgOverruns(r, m) ==
  \/ \E c \in Channels : First(c, r) /\ Write(c, r, m)
  \/ /\ NoStop(r)
     /\ last_msgs' = [c \in 1..(MaxChannels + 1) |->
                        IF c > MaxChannels THEN [route |-> r, msg |-> m] ELSE last_msgs[c]]

\* ducq_set_last_msg: publishing on the empty route writes the message but
\* leaves the slot free; when every slot has another route it returns
\* DUCQ_EMAX, which its callers do not look at.
SetLastMsg(r, m) ==
  \/ \E c \in Channels : First(c, r) /\ Write(c, r, m)
  \/ NoStop(r) /\ UNCHANGED last_msgs

\* Mutant: the message of a free slot is given out.
GetLastMsgOfFreeSlot(r) ==
  IF \E c \in Channels : First(c, r)
  THEN last_msgs[CHOOSE c \in Channels : First(c, r)].msg
  ELSE FullMsg

\* ducq_get_last_msg
GetLastMsg(r) ==
  IF \E c \in Channels : First(c, r)
  THEN LET c == CHOOSE d \in Channels : First(d, r)
       IN  IF last_msgs[c].route = EmptyRoute THEN NoMsg ELSE last_msgs[c].msg
  ELSE FullMsg

\* the routes that have a slot
Remembered == {last_msgs[c].route : c \in Channels} \ {EmptyRoute}
=============================================================================
