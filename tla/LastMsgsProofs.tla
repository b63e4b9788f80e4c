--------------------------- MODULE LastMsgsProofs ---------------------------
(***************************************************************************)
(* The table of last messages keeps one slot per route, its used slots     *)
(* first, and answers with the last message published, for any number of   *)
(* channels, routes and messages.                                          *)
(***************************************************************************)
EXTENDS LastMsgsSpec, LeastNumber

USE LastMsgsAssumption, RoutingAssumption

\* A used slot has the last message published on its route.  A route that is
\* not remembered has no message published, unless the table is full.
SlotsHoldLastPublished ==
  \A c \in Channels : last_msgs[c].route # EmptyRoute =>
    last_msgs[c].msg = published[last_msgs[c].route]

UnrememberedOnlyWhenFull ==
  \A r \in Routes \ {EmptyRoute} :
    published[r] # NoMsg => Full \/ \E c \in Channels : last_msgs[c].route = r

\* The inductive invariant: the scan takes the first free slot for a new route,
\* which keeps routes unique only because no used slot lies behind a free one.
IInv == /\ TypeOK
        /\ OneSlotPerRoute
        /\ UsedSlotsFirst
        /\ SlotsHoldLastPublished
        /\ UnrememberedOnlyWhenFull

-----------------------------------------------------------------------------
\* Writing into the slot where the scan stops: that slot and no other changes.
LEMMA WriteSlot ==
  ASSUME TypeOK, NEW r \in Routes, NEW m \in Msgs, NEW c \in Channels,
         Write(c, r, m)
  PROVE  /\ LastMsgsTypeOK'
         /\ last_msgs'[c].route = r
         /\ last_msgs'[c].msg = m
         /\ \A d \in Channels : d # c => last_msgs'[d] = last_msgs[d]
BY DEF TypeOK, LastMsgsTypeOK, Write

\* A scan that stops somewhere has a slot where it stops first.
LEMMA FirstExists ==
  ASSUME NEW r, NEW c \in Channels, ScanStopsAt(c, r)
  PROVE  \E d \in Channels : First(d, r)
<1> DEFINE T == {d \in Channels : ScanStopsAt(d, r)}
<1>1. T \in SUBSET Nat /\ T # {}
  BY DEF Channels
<1>2. PICK d \in T : \A e \in T : d <= e
  BY <1>1, LeastElement
<1>3. \A e \in 1..(d - 1) : e \in Channels /\ e \notin T
  BY <1>2 DEF Channels
<1>4. First(d, r)
  BY <1>2, <1>3 DEF First
<1> QED BY <1>2, <1>4

LEMMA InitInv == Init => IInv
BY DEF Init, IInv, TypeOK, LastMsgsTypeOK, LastMsgsInit, OneSlotPerRoute,
       UsedSlotsFirst, SlotsHoldLastPublished, UnrememberedOnlyWhenFull, Channels, Full

LEMMA NextInv == IInv /\ [Next]_vars => IInv'
<1> SUFFICES ASSUME IInv, [Next]_vars PROVE IInv'
  OBVIOUS
<1> USE DEF IInv
<1>1. CASE UNCHANGED vars
  BY <1>1 DEF vars, TypeOK, LastMsgsTypeOK, OneSlotPerRoute, UsedSlotsFirst,
              SlotsHoldLastPublished, UnrememberedOnlyWhenFull, Full
<1>2. ASSUME NEW r \in Routes, NEW m \in Msgs, Publish(r, m)
      PROVE  IInv'
  <2>1. published' = [published EXCEPT ![r] = m] /\ published' \in [Routes -> Msgs \cup {NoMsg}]
    BY <1>2 DEF Publish, TypeOK
  <2>2. CASE NoStop(r) /\ UNCHANGED last_msgs
    <3>1. \A c \in Channels : last_msgs[c].route # r /\ last_msgs[c].route # EmptyRoute
      BY <2>2 DEF NoStop, ScanStopsAt
    <3>2. TypeOK' /\ OneSlotPerRoute' /\ UsedSlotsFirst'
      BY <2>1, <2>2 DEF TypeOK, LastMsgsTypeOK, OneSlotPerRoute, UsedSlotsFirst
    <3>3. SlotsHoldLastPublished'
      BY <2>1, <2>2, <3>1 DEF SlotsHoldLastPublished, TypeOK, LastMsgsTypeOK
    <3>4. UnrememberedOnlyWhenFull'
      BY <2>2, <3>1 DEF UnrememberedOnlyWhenFull, Full
    <3> QED BY <3>2, <3>3, <3>4
  <2>3. ASSUME NEW c \in Channels, First(c, r), Write(c, r, m)
        PROVE  IInv'
    <3>1. /\ LastMsgsTypeOK'
          /\ last_msgs'[c].route = r
          /\ last_msgs'[c].msg = m
          /\ \A d \in Channels : d # c => last_msgs'[d] = last_msgs[d]
      BY <2>3, WriteSlot
    <3>2. last_msgs[c].route \in {EmptyRoute, r}
      BY <2>3 DEF First, ScanStopsAt
    <3>3. \A d \in 1..(c - 1) : last_msgs[d].route # r /\ last_msgs[d].route # EmptyRoute
      BY <2>3 DEF First, ScanStopsAt
    <3>4. \A d \in Channels : d # c /\ r # EmptyRoute => last_msgs[d].route # r
      <4>1. CASE last_msgs[c].route = r
        BY <4>1 DEF OneSlotPerRoute
      <4>2. CASE last_msgs[c].route = EmptyRoute
        BY <4>2, <3>3 DEF UsedSlotsFirst, Channels
      <4> QED BY <4>1, <4>2, <3>2
    <3>5. TypeOK'
      BY <2>1, <3>1 DEF TypeOK
    <3>6. OneSlotPerRoute'
      BY <3>1, <3>4 DEF OneSlotPerRoute
    <3>7. UsedSlotsFirst'
      <4> SUFFICES ASSUME NEW e \in Channels, last_msgs'[e].route = EmptyRoute,
                          NEW d \in e..MaxChannels
                   PROVE  last_msgs'[d].route = EmptyRoute
        BY DEF UsedSlotsFirst
      <4>1. d \in Channels
        BY DEF Channels
      <4>2. last_msgs[e].route = EmptyRoute
        BY <3>1, <3>2
      <4>3. last_msgs[d].route = EmptyRoute
        BY <4>2 DEF UsedSlotsFirst
      <4>4. CASE d = c
        <5>1. CASE e = c
          BY <5>1, <4>4
        <5>2. CASE e # c
          BY <5>2, <4>4, <4>2, <3>3 DEF Channels
        <5> QED BY <5>1, <5>2
      <4> QED BY <4>1, <4>3, <4>4, <3>1
    <3>8. SlotsHoldLastPublished'
      BY <2>1, <3>1, <3>4, <3>5 DEF SlotsHoldLastPublished, TypeOK, LastMsgsTypeOK
    <3>9. UnrememberedOnlyWhenFull'
      <4> SUFFICES ASSUME NEW q \in Routes \ {EmptyRoute}, published'[q] # NoMsg
                   PROVE  Full' \/ \E d \in Channels : last_msgs'[d].route = q
        BY DEF UnrememberedOnlyWhenFull
      <4>1. CASE q = r
        BY <4>1, <3>1
      <4>2. CASE q # r
        <5>1. published[q] # NoMsg
          BY <4>2, <2>1 DEF TypeOK
        <5>2. CASE \E d \in Channels : last_msgs[d].route = q
          BY <5>2, <4>2, <3>1, <3>2
        <5>3. CASE Full
          BY <5>3, <3>1, <3>2 DEF Full
        <5> QED BY <5>1, <5>2, <5>3 DEF UnrememberedOnlyWhenFull
      <4> QED BY <4>1, <4>2
    <3> QED BY <3>5, <3>6, <3>7, <3>8, <3>9
  <2> QED BY <2>2, <2>3, <1>2 DEF Publish, SetLastMsg
<1> QED BY <1>1, <1>2 DEF Next

-----------------------------------------------------------------------------
\* The type invariant of the table and its history (ducq_reactor.c:36-39, 88-91).
THEOREM TypeCorrect == Spec => []TypeOK
<1>1. IInv => TypeOK
  BY DEF IInv
<1> QED BY <1>1, InitInv, NextInv, PTL DEF Spec

\* No route ever has two slots (ducq_reactor.c:149-162).
THEOREM RoutesAreUnique == Spec => []OneSlotPerRoute
<1>1. IInv => OneSlotPerRoute
  BY DEF IInv
<1> QED BY <1>1, InitInv, NextInv, PTL DEF Spec

\* No used slot lies behind a free one (ducq_reactor.c:149-162).
THEOREM TableIsCompact == Spec => []UsedSlotsFirst
<1>1. IInv => UsedSlotsFirst
  BY DEF IInv
<1> QED BY <1>1, InitInv, NextInv, PTL DEF Spec

\* 'last' is the last message published, but on a route a full table has no slot
\* for (ducq_reactor.c:136-162, sub.c:30-34).
THEOREM LastIsCorrect == Spec => []LastIsLastPublished
<1>1. IInv => LastIsLastPublished
  <2> SUFFICES ASSUME IInv, NEW r \in Routes \ {EmptyRoute}
               PROVE  \/ GetLastMsg(r) = published[r]
                      \/ Full /\ r \notin Remembered /\ GetLastMsg(r) = FullMsg
    BY DEF LastIsLastPublished
  <2> USE DEF IInv
  <2>1. CASE \E c \in Channels : First(c, r)
    <3> DEFINE c == CHOOSE d \in Channels : First(d, r)
    <3>1. c \in Channels /\ First(c, r)
      BY <2>1
    <3> HIDE DEF c
    <3>2. GetLastMsg(r) = IF last_msgs[c].route = EmptyRoute THEN NoMsg ELSE last_msgs[c].msg
      BY <2>1 DEF GetLastMsg, c
    <3>3. CASE last_msgs[c].route = EmptyRoute
      <4>1. \A d \in Channels : last_msgs[d].route # r
        BY <3>1, <3>3 DEF First, ScanStopsAt, UsedSlotsFirst, Channels
      <4>2. ~Full
        BY <3>1, <3>3 DEF Full
      <4> QED BY <3>2, <3>3, <4>1, <4>2 DEF UnrememberedOnlyWhenFull
    <3>4. CASE last_msgs[c].route # EmptyRoute
      <4>1. last_msgs[c].route = r
        BY <3>1, <3>4 DEF First, ScanStopsAt
      <4> QED BY <3>1, <3>2, <3>4, <4>1 DEF SlotsHoldLastPublished
    <3> QED BY <3>3, <3>4
  <2>2. CASE ~ \E c \in Channels : First(c, r)
    <3>1. GetLastMsg(r) = FullMsg
      BY <2>2 DEF GetLastMsg
    <3>2. \A c \in Channels : ~ScanStopsAt(c, r)
      BY <2>2, FirstExists
    <3>3. Full /\ r \notin Remembered
      BY <3>2 DEF ScanStopsAt, Full, Remembered
    <3> QED BY <3>1, <3>3
  <2> QED BY <2>1, <2>2
<1> QED BY <1>1, InitInv, NextInv, PTL DEF Spec

\* A remembered route stays remembered (ducq_reactor.c:149-162).
THEOREM NothingIsForgotten == Spec => NeverForgotten
<1>1. IInv /\ [Next]_vars => [Remembered \subseteq Remembered']_vars
  <2> SUFFICES ASSUME IInv, NEW q \in Routes, NEW m \in Msgs, Publish(q, m),
                      NEW r \in Remembered
               PROVE  r \in Remembered'
    BY DEF Next
  <2>1. PICK d \in Channels : last_msgs[d].route = r /\ r # EmptyRoute
    BY DEF Remembered
  <2>2. CASE UNCHANGED last_msgs
    BY <2>1, <2>2 DEF Remembered
  <2>3. ASSUME NEW c \in Channels, First(c, q), Write(c, q, m)
        PROVE  r \in Remembered'
    <3>1. last_msgs'[c].route = q /\ \A e \in Channels : e # c => last_msgs'[e] = last_msgs[e]
      BY <2>3, WriteSlot DEF IInv
    <3>2. last_msgs[c].route \in {EmptyRoute, q}
      BY <2>3 DEF First, ScanStopsAt
    <3>3. last_msgs'[d].route = r
      BY <2>1, <3>1, <3>2
    <3> QED BY <2>1, <3>3 DEF Remembered
  <2> QED BY <2>2, <2>3 DEF Publish, SetLastMsg
<1> QED BY <1>1, InitInv, NextInv, PTL DEF Spec, NeverForgotten
=============================================================================
