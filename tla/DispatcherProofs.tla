-------------------------- MODULE DispatcherProofs --------------------------
(***************************************************************************)
(* No change of a script is missed, a request runs what it names, only     *)
(* requests that are looked up in Lua leave values on its stack, and what  *)
(* is loaded fits the room made for it: for any number of folders,         *)
(* scripts, objects and slots, and any size of the queue.                  *)
(***************************************************************************)
EXTENDS Dispatcher, LeastNumber, SequenceTheorems, FiniteSetTheorems

States == {"new", "counted", "idle", "added", "scanning", "handling", "crashed", "undefined"}
Slots  == 1..MAX_EXTENSIONS
Wds    == Folders \cup {NoWd}

FilesTypeOK ==
  /\ pc \in States /\ lost \in BOOLEAN
  /\ files \in [Scripts -> Files] /\ read \in [Scripts -> Nat]
  /\ scan \subseteq Scripts /\ watched \subseteq Folders
  /\ queue \in Seq(Events) /\ events \in Seq(Events)
  /\ extensions \in [Slots -> [wd : Wds, path : Wds]]

\* Nothing is left of a scan or of a handler that has ended.
IdleIsDone ==
  /\ pc \notin {"added", "scanning", "undefined"} => scan = {}
  /\ pc \notin {"handling", "undefined"} => events = <<>>

\* An event is of a watched folder, or says that the queue has overflowed.
Announced == Range(queue) \cup Range(events)
EventsHaveAReason == \A ev \in Announced : ev.wd \in watched \/ (ev = Overflow /\ lost)

\* An event finds its folder: every watch has a slot, with its own path.
WatchesHaveSlots ==
  /\ \A f \in watched : \E i \in Slots : extensions[i].wd = f
  /\ \A i \in Slots : extensions[i].path = extensions[i].wd

IInv == /\ FilesTypeOK
        /\ IdleIsDone
        /\ EventsHaveAReason
        /\ WatchesHaveSlots
        /\ FreshOrPending

-----------------------------------------------------------------------------
\* What sequences hold.
LEMMA RangeOfAppend ==
  ASSUME NEW S, NEW s \in Seq(S), NEW e \in S
  PROVE  /\ Append(s, e) \in Seq(S)
         /\ Range(Append(s, e)) = Range(s) \cup {e}
         /\ Last(Append(s, e)) = e
<1>1. /\ Len(Append(s, e)) = Len(s) + 1
      /\ \A i \in 1..Len(s) : Append(s, e)[i] = s[i]
      /\ Append(s, e)[Len(s) + 1] = e
      /\ Append(s, e) \in Seq(S)
  BY AppendProperties
<1>2. /\ DOMAIN s = 1..Len(s) /\ DOMAIN Append(s, e) = 1..(Len(s) + 1)
      /\ Len(s) \in Nat
  BY <1>1, LenProperties
<1> QED BY <1>1, <1>2 DEF Range, Last

\* A handled event is the first of those that were left.
LEMMA RangeOfTail ==
  ASSUME NEW S, NEW s \in Seq(S), s # <<>>
  PROVE  /\ Tail(s) \in Seq(S) /\ Head(s) \in Range(s)
         /\ Range(s) = {Head(s)} \cup Range(Tail(s))
<1>1. /\ Len(s) \in Nat \ {0} /\ DOMAIN s = 1..Len(s) /\ Head(s) = s[1]
      /\ Tail(s) \in Seq(S) /\ Len(Tail(s)) = Len(s) - 1
      /\ DOMAIN Tail(s) = 1..(Len(s) - 1)
      /\ \A i \in 1..(Len(s) - 1) : Tail(s)[i] = s[i + 1]
  BY HeadTailProperties, LenProperties, EmptySeq
<1>2. \A i \in 1..Len(s) : i = 1 \/ (i - 1 \in 1..(Len(s) - 1) /\ s[i] = Tail(s)[i - 1])
  BY <1>1
<1>3. \A i \in 1..(Len(s) - 1) : i + 1 \in 1..Len(s)
  BY <1>1
<1>4. Head(s) \in Range(s) /\ Range(Tail(s)) \subseteq Range(s)
  <2>1. 1 \in 1..Len(s)
    BY <1>1
  <2> QED BY <1>1, <1>3, <2>1 DEF Range
<1>5. ASSUME NEW i \in 1..Len(s) PROVE s[i] \in {Head(s)} \cup Range(Tail(s))
  BY <1>1, <1>2 DEF Range
<1>6. \A x \in Range(s) : x \in {Head(s)} \cup Range(Tail(s))
  BY <1>1, <1>5 DEF Range
<1> QED BY <1>1, <1>4, <1>6

\* What is read from the queue and what stays there make up the queue.
LEMMA RangeOfSplit ==
  ASSUME NEW S, NEW s \in Seq(S), NEW n \in 1..Len(s)
  PROVE  /\ SubSeq(s, 1, n) \in Seq(S) /\ SubSeq(s, n + 1, Len(s)) \in Seq(S)
         /\ Range(s) = Range(SubSeq(s, 1, n)) \cup Range(SubSeq(s, n + 1, Len(s)))
<1> DEFINE a == SubSeq(s, 1, n)
           b == SubSeq(s, n + 1, Len(s))
<1>1. Len(s) \in Nat /\ DOMAIN s = 1..Len(s) /\ \A i \in 1..Len(s) : s[i] \in S
  BY LenProperties, ElementOfSeq
<1>2. a \in Seq(S) /\ Len(a) = n /\ \A i \in 1..n : a[i] = s[i]
  <2>1. \A i \in 1..n : s[i] \in S
    BY <1>1
  <2> QED BY <1>1, <2>1, SubSeqProperties
<1>3. b \in Seq(S) /\ Len(b) = Len(s) - n /\ \A i \in 1..(Len(s) - n) : b[i] = s[n + i]
  <2>1. PICK k \in Nat : k = Len(s)
    BY <1>1
  <2>2. PICK m \in Int : m = n + 1
    OBVIOUS
  <2>3. \A i \in m..k : s[i] \in S
    BY <1>1, <2>1, <2>2
  <2>4. /\ SubSeq(s, m, k) \in Seq(S)
        /\ Len(SubSeq(s, m, k)) = IF m <= k THEN k - m + 1 ELSE 0
        /\ \A i \in 1..(k - m + 1) : SubSeq(s, m, k)[i] = s[m + i - 1]
    BY <2>3, SubSeqProperties
  <2>5. b = SubSeq(s, m, k) /\ k - m + 1 = Len(s) - n /\ (m <= k \/ Len(s) - n = 0)
    BY <2>1, <2>2
  <2>6. \A i \in 1..(Len(s) - n) : m + i - 1 = n + i
    BY <2>1, <2>2
  <2> HIDE DEF b
  <2> QED BY <2>4, <2>5, <2>6
<1>4. DOMAIN a = 1..n /\ DOMAIN b = 1..(Len(s) - n)
  BY <1>2, <1>3, LenProperties
<1> HIDE DEF a, b
<1>5. \A i \in 1..Len(s) : i \in 1..n \/ (i - n \in 1..(Len(s) - n) /\ s[i] = b[i - n])
  BY <1>1, <1>3
<1>6. \A i \in 1..(Len(s) - n) : n + i \in 1..Len(s)
  BY <1>1
<1>7. Range(s) = Range(a) \cup Range(b)
  <2>1. Range(a) \subseteq Range(s)
    <3>1. \A i \in 1..n : i \in 1..Len(s)
      BY <1>1
    <3> QED BY <1>1, <1>2, <1>4, <3>1 DEF Range
  <2>3. Range(b) \subseteq Range(s)
    <3> SUFFICES ASSUME NEW i \in 1..(Len(s) - n) PROVE b[i] \in Range(s)
      BY <1>4 DEF Range
    <3>1. n + i \in 1..Len(s) /\ b[i] = s[n + i]
      BY <1>3, <1>6
    <3> QED BY <1>1, <3>1 DEF Range
  <2>2. Range(s) \subseteq Range(a) \cup Range(b)
    <3> SUFFICES ASSUME NEW i \in 1..Len(s) PROVE s[i] \in Range(a) \cup Range(b)
      BY <1>1 DEF Range
    <3> QED BY <1>2, <1>4, <1>5 DEF Range
  <2> QED BY <2>1, <2>2, <2>3
<1> QED BY <1>2, <1>3, <1>7 DEF a, b

-----------------------------------------------------------------------------
USE DispatcherAssumption

\* A new dispatcher watches nothing (dispatcher.c:78-105).
THEOREM InitOK == Init => IInv
<1> SUFFICES ASSUME Init PROVE IInv
  OBVIOUS
<1> USE DEF Init
<1>1. FilesTypeOK
  <2>1. queue \in Seq(Events) /\ events \in Seq(Events) /\ scan \subseteq Scripts
    BY EmptySeq
  <2>2. files \in [Scripts -> Files]
    BY DEF Files, Contents
  <2>3. read \in [Scripts -> Nat]
    BY DEF Never
  <2>4. extensions \in [Slots -> [wd : Wds, path : Wds]]
    BY DEF Slots, Wds, Free
  <2> QED BY <2>1, <2>2, <2>3, <2>4 DEF FilesTypeOK, States
<1>2. IdleIsDone /\ EventsHaveAReason /\ WatchesHaveSlots /\ FreshOrPending
  BY DEF IdleIsDone, EventsHaveAReason, Announced, WatchesHaveSlots, FreshOrPending, Free,
         Slots, Range
<1> QED BY <1>1, <1>2 DEF IInv

\* A change of a watched script is announced, unless the queue overflows, and
\* no announcement is taken back.
LEMMA NotifyAnnounces ==
  ASSUME IInv, NEW s \in Scripts, Notify(s)
  PROVE  /\ queue' \in Seq(Events) /\ lost' \in BOOLEAN /\ (lost => lost')
         /\ Range(queue) \subseteq Range(queue')
         /\ s[1] \in watched => Event(s) \in Range(queue') \/ lost'
         /\ \A ev \in Range(queue') \ Range(queue) :
              (ev = Event(s) /\ s[1] \in watched) \/ (ev = Overflow /\ lost')
<1>1. queue \in Seq(Events) /\ lost \in BOOLEAN
  BY DEF IInv, FilesTypeOK
<1>2. Event(s) \in Events /\ Overflow \in Events
  BY DEF Event, Events, Overflow, Folders
<1>3. CASE s[1] \notin watched
  BY <1>1, <1>3 DEF Notify
<1>4. CASE s[1] \in watched /\ queue # <<>> /\ Last(queue) = Event(s)
  <2>1. UNCHANGED <<queue, lost>>
    BY <1>4 DEF Notify
  <2>2. Len(queue) \in DOMAIN queue
    BY <1>1, <1>4, EmptySeq, LenProperties
  <2>3. Event(s) \in Range(queue)
    BY <1>4, <2>2 DEF Range, Last
  <2> QED BY <1>1, <2>1, <2>3
<1>5. CASE s[1] \in watched /\ queue' = Append(queue, Event(s)) /\ UNCHANGED lost
  BY <1>1, <1>2, <1>5, RangeOfAppend
<1>6. CASE /\ s[1] \in watched
           /\ queue' = IF Last(queue) = Overflow THEN queue ELSE Append(queue, Overflow)
           /\ lost' = TRUE
  BY <1>1, <1>2, <1>6, RangeOfAppend
<1> QED BY <1>3, <1>4, <1>5, <1>6 DEF Notify
\* A new version of a script, by whatever system calls it comes.
LEMMA ChangesKeepInv ==
  ASSUME IInv, NEW s \in Scripts, NEW content \in Contents \cup {"absent", "partial"},
         Changes(s, content),
         Notify(s) \/ (content \notin Contents /\ UNCHANGED <<queue, lost>>)
  PROVE  IInv'
<1>1. /\ queue' \in Seq(Events) /\ lost' \in BOOLEAN /\ (lost => lost')
      /\ Range(queue) \subseteq Range(queue')
      /\ content \in Contents /\ s[1] \in watched => Event(s) \in Range(queue') \/ lost'
      /\ \A ev \in Range(queue') \ Range(queue) :
           (ev = Event(s) /\ s[1] \in watched) \/ (ev = Overflow /\ lost')
  <2>1. CASE Notify(s)
    BY <2>1, NotifyAnnounces
  <2>2. CASE content \notin Contents /\ UNCHANGED <<queue, lost>>
    BY <2>2 DEF IInv, FilesTypeOK
  <2> QED BY <2>1, <2>2
<1>2. /\ UNCHANGED <<pc, watched, extensions, scan, events, read, skipped>>
      /\ files' = [files EXCEPT ![s] = [ver |-> files[s].ver + 1, content |-> content]]
  BY DEF Changes, lua
<1>3. FilesTypeOK'
  BY <1>1, <1>2 DEF IInv, FilesTypeOK, Files
<1>4. IdleIsDone' /\ WatchesHaveSlots'
  BY <1>2 DEF IInv, IdleIsDone, WatchesHaveSlots
<1>5. EventsHaveAReason'
  <2> SUFFICES ASSUME NEW ev \in Announced'
               PROVE  ev.wd \in watched' \/ (ev = Overflow /\ lost')
    BY DEF EventsHaveAReason
  <2>1. Event(s).wd = s[1]
    BY DEF Event
  <2>2. CASE ev \in Announced
    BY <1>1, <1>2, <2>2 DEF IInv, EventsHaveAReason
  <2>3. CASE ev \in Range(queue') \ Range(queue)
    BY <1>1, <1>2, <2>1, <2>3
  <2> QED BY <1>2, <2>2, <2>3 DEF Announced
<1>6. FreshOrPending'
  <2> SUFFICES ASSUME NEW t \in Scripts, t[1] \in watched', files'[t].content \in Contents
               PROVE  \/ read'[t] = files'[t].ver
                      \/ Pending(t)' \/ t \in scan' \/ t \in skipped'
                      \/ lost'
    BY DEF FreshOrPending
  <2>1. CASE t = s
    <3>1. content \in Contents
      BY <1>2, <2>1 DEF IInv, FilesTypeOK, Files
    <3> QED BY <1>1, <1>2, <2>1, <3>1 DEF Pending, Event
  <2>2. CASE t # s
    <3>1. files'[t] = files[t]
      BY <1>2, <2>2 DEF IInv, FilesTypeOK
    <3>2. Pending(t) => Pending(t)'
      BY <1>1, <1>2 DEF Pending, Event
    <3> QED BY <1>1, <1>2, <3>1, <3>2 DEF IInv, FreshOrPending
  <2> QED BY <2>1, <2>2
<1> QED BY <1>3, <1>4, <1>5, <1>6 DEF IInv

\* Whatever leaves files, watches, scan and events alone.
LEMMA OthersKeepInv ==
  ASSUME IInv, pc' \in States,
         pc' \notin {"added", "scanning", "undefined"} => scan = {},
         pc' \notin {"handling", "undefined"} => events = <<>>,
         UNCHANGED <<files, lost, watched, queue, extensions, scan, events, read, skipped>>
  PROVE  IInv'
<1>1. FilesTypeOK' /\ IdleIsDone' /\ EventsHaveAReason' /\ WatchesHaveSlots'
  BY DEF IInv, FilesTypeOK, IdleIsDone, EventsHaveAReason, Announced, WatchesHaveSlots
<1>2. FreshOrPending'
  BY DEF IInv, FreshOrPending, Pending, Event
<1> QED BY <1>1, <1>2 DEF IInv

-----------------------------------------------------------------------------
\* ducq_dispatcher_add, up to the scan: everything in the folder is to be loaded.
LEMMA AddKeepsInv == ASSUME IInv, NEW f \in Folders, Add(f) PROVE IInv'
<1>1. PICK i \in Slots :
        /\ extensions[i].wd = NoWd
        /\ extensions' = [extensions EXCEPT ![i] = [wd |-> f, path |-> f]]
  BY DEF Add, Slots
<1>2. /\ pc = "idle" /\ pc' = "added" /\ watched' = watched \cup {f}
      /\ scan' = {s \in Scripts : s[1] = f}
      /\ UNCHANGED <<files, lost, queue, events, read, skipped>>
  BY DEF Add, disk, lua
<1>3. scan = {} /\ events = <<>>
  BY <1>2 DEF IInv, IdleIsDone
<1>4. FilesTypeOK'
  BY <1>1, <1>2 DEF IInv, FilesTypeOK, States, Wds
<1>5. IdleIsDone' /\ EventsHaveAReason'
  BY <1>2, <1>3 DEF IInv, IdleIsDone, EventsHaveAReason, Announced
<1>6. WatchesHaveSlots'
  <2>1. \A j \in Slots : extensions'[j] = IF j = i THEN [wd |-> f, path |-> f] ELSE extensions[j]
    BY <1>1 DEF IInv, FilesTypeOK
  <2>2. NoWd \notin watched
    BY DEF IInv, FilesTypeOK
  <2> QED BY <1>1, <1>2, <2>1, <2>2 DEF IInv, WatchesHaveSlots
<1>7. FreshOrPending'
  BY <1>2, <1>3 DEF IInv, FreshOrPending, Pending, Event
<1> QED BY <1>4, <1>5, <1>6, <1>7 DEF IInv

\* A script that is not there when the folder is opened will have its event; of
\* a folder that cannot be opened all are left out.
LEMMA OpenDirKeepsInv == ASSUME IInv, OpenDir PROVE IInv'
<1>1. /\ pc = "added" /\ pc' \in {"scanning", "idle"} /\ (pc' = "idle" => scan' = {})
      /\ scan' \subseteq scan /\ skipped \subseteq skipped'
      /\ \A s \in scan : s \in scan' \/ s \in skipped' \/ files[s].content = "absent"
      /\ UNCHANGED <<files, lost, watched, queue, extensions, events, read>>
  BY DEF OpenDir, disk, lua
<1>2. FilesTypeOK' /\ IdleIsDone' /\ EventsHaveAReason' /\ WatchesHaveSlots'
  BY <1>1 DEF IInv, FilesTypeOK, States, IdleIsDone, EventsHaveAReason, Announced,
              WatchesHaveSlots
<1>3. "absent" \notin Contents
  BY DEF Contents
<1>4. FreshOrPending'
  BY <1>1, <1>3 DEF IInv, FreshOrPending, Pending, Event
<1> QED BY <1>2, <1>4 DEF IInv

\* Each script of a scan is loaded, or left out behind one that failed.
LEMMA LoadNextKeepsInv == ASSUME IInv, NEW s \in Scripts, LoadNext(s) PROVE IInv'
<1>0. CASE Overruns(LoadPushes) /\ UNCHANGED <<scan, skipped>>
  BY <1>0, OthersKeepInv DEF LoadNext, Overruns, disk, lua, States, IInv, IdleIsDone
<1> SUFFICES ASSUME ~(Overruns(LoadPushes) /\ UNCHANGED <<scan, skipped>>) PROVE IInv'
  BY <1>0
<1>1. /\ pc = "scanning" /\ pc' \in {"scanning", "idle"} /\ (pc' = "idle" => scan' = {})
      /\ read' = [read EXCEPT ![s] = files[s].ver]
      /\ scan' \subseteq scan /\ skipped \subseteq skipped'
      /\ \A t \in scan \ {s} : t \in scan' \/ t \in skipped'
      /\ UNCHANGED <<files, lost, watched, queue, extensions, events>>
  BY DEF LoadNext, Loads, disk
<1>2. FilesTypeOK' /\ IdleIsDone' /\ EventsHaveAReason' /\ WatchesHaveSlots'
  BY <1>1 DEF IInv, FilesTypeOK, Files, States, IdleIsDone, EventsHaveAReason, Announced,
              WatchesHaveSlots
<1>3. \A t \in Scripts : read'[t] = IF t = s THEN files[t].ver ELSE read[t]
  BY <1>1 DEF IInv, FilesTypeOK
<1>4. FreshOrPending'
  BY <1>1, <1>3 DEF IInv, FreshOrPending, Pending, Event
<1> QED BY <1>2, <1>4 DEF IInv

\* read(2) moves events from the queue to the handler.
LEMMA ReadEventsKeepsInv == ASSUME IInv, ReadEvents PROVE IInv'
<1>1. /\ pc = "idle" /\ pc' = "handling"
      /\ UNCHANGED <<files, lost, watched, extensions, scan, read, skipped>>
  BY DEF ReadEvents, disk, lua
<1>2. PICK n \in 1..Len(queue) :
        events' = SubSeq(queue, 1, n) /\ queue' = SubSeq(queue, n + 1, Len(queue))
  BY DEF ReadEvents
<1>3. queue \in Seq(Events) /\ scan = {} /\ events = <<>>
  BY <1>1 DEF IInv, FilesTypeOK, IdleIsDone
<1>4. /\ events' \in Seq(Events) /\ queue' \in Seq(Events)
      /\ Range(queue) = Range(events') \cup Range(queue')
  BY <1>2, <1>3, RangeOfSplit
<1>5. Range(events) = {}
  BY <1>3 DEF Range
<1>6. FilesTypeOK' /\ IdleIsDone' /\ EventsHaveAReason' /\ WatchesHaveSlots'
  BY <1>1, <1>3, <1>4 DEF IInv, FilesTypeOK, States, IdleIsDone, EventsHaveAReason, Announced,
              WatchesHaveSlots
<1>7. FreshOrPending'
  BY <1>1, <1>4, <1>5 DEF IInv, FreshOrPending, Pending, Event
<1> QED BY <1>6, <1>7 DEF IInv
\* Loading a script reads it as it is, whatever comes of it.
LEMMA LoadsReads ==
  ASSUME NEW s, NEW ok, Loads(s, ok)
  PROVE  read' = [read EXCEPT ![s] = files[s].ver]
BY DEF Loads

\* An event loads the script it is about; the others are dropped only after an
\* overflow, since each has a slot.
LEMMA HandleEventKeepsInv == ASSUME IInv, HandleEvent PROVE IInv'
<1>0. CASE Overruns(LoadPushes) /\ UNCHANGED events
  BY <1>0, OthersKeepInv DEF HandleEvent, Overruns, disk, lua, States, IInv, IdleIsDone
<1> SUFFICES ASSUME ~(Overruns(LoadPushes) /\ UNCHANGED events) PROVE IInv'
  BY <1>0
<1> DEFINE ev == Head(events)
<1>1. /\ pc = "handling" /\ events # <<>>
      /\ UNCHANGED <<pc, files, lost, watched, queue, extensions, scan, skipped>>
  BY DEF HandleEvent, disk
<1>2. events \in Seq(Events)
  BY DEF IInv, FilesTypeOK
<1>3. /\ Tail(events) \in Seq(Events) /\ ev \in Range(events)
      /\ Range(events) = {ev} \cup Range(Tail(events))
  BY <1>1, <1>2, RangeOfTail
<1>4. ev.wd \in watched \/ (ev = Overflow /\ lost)
  BY <1>3 DEF IInv, EventsHaveAReason, Announced
<1> HIDE DEF ev
<1>5. \/ SlotsOf(ev.wd) = {} /\ events' = <<>> /\ read' = read
      \/ ev = Overflow /\ events' = Tail(events) /\ read' = read
      \/ /\ SlotsOf(ev.wd) # {} /\ ev # Overflow /\ events' = Tail(events)
         /\ LET s == <<extensions[Min(SlotsOf(ev.wd))].path, ev.name>>
            IN  read' = [read EXCEPT ![s] = files[s].ver]
  BY LoadsReads DEF HandleEvent, AfterEvent, lua, ev
<1>6. events' \in Seq(Events) /\ Range(events') \subseteq Range(events)
  <2>1. <<>> \in Seq(Events) /\ Range(<<>>) = {}
    BY EmptySeq DEF Range
  <2> QED BY <1>3, <1>5, <2>1
<1>7. \/ lost /\ read' = read
      \/ /\ events' = Tail(events) /\ ev # Overflow
         /\ read' = [read EXCEPT ![<<ev.wd, ev.name>>] = files[<<ev.wd, ev.name>>].ver]
  <2>1. CASE SlotsOf(ev.wd) = {} /\ read' = read
    BY <1>4, <2>1 DEF IInv, WatchesHaveSlots, SlotsOf, Slots
  <2>2. CASE ev = Overflow /\ read' = read
    <3>1. Overflow.wd \notin watched
      BY DEF IInv, FilesTypeOK, Overflow
    <3> QED BY <1>4, <2>2, <3>1
  <2>3. CASE SlotsOf(ev.wd) # {}
    <3>1. SlotsOf(ev.wd) \in SUBSET Nat
      BY DEF SlotsOf
    <3>2. Min(SlotsOf(ev.wd)) \in SlotsOf(ev.wd)
      BY <2>3, <3>1, LeastElement DEF Min
    <3>3. extensions[Min(SlotsOf(ev.wd))].path = ev.wd
      BY <3>2 DEF IInv, WatchesHaveSlots, SlotsOf, Slots
    <3> QED BY <1>5, <2>2, <2>3, <3>3
  <2> QED BY <1>5, <2>1, <2>2, <2>3
<1>8. \A s \in Scripts : read'[s] = read[s] \/ (read'[s] = files[s].ver /\ events' = Tail(events))
  BY <1>7 DEF IInv, FilesTypeOK
<1>9. FilesTypeOK' /\ IdleIsDone' /\ EventsHaveAReason' /\ WatchesHaveSlots'
  <2>1. read' \in [Scripts -> Nat]
    BY <1>7 DEF IInv, FilesTypeOK, Files
  <2> QED BY <1>1, <1>6, <2>1 DEF IInv, FilesTypeOK, IdleIsDone, EventsHaveAReason, Announced,
                                  WatchesHaveSlots
<1>10. FreshOrPending'
  <2> SUFFICES ASSUME NEW s \in Scripts, s[1] \in watched, files[s].content \in Contents, ~lost
               PROVE  \/ read'[s] = files[s].ver
                      \/ Pending(s)' \/ s \in scan \/ s \in skipped
    BY <1>1 DEF FreshOrPending
  <2>1. events' = Tail(events)
    BY <1>7
  <2>2. CASE Event(s) = ev
    <3>1. s = <<ev.wd, ev.name>>
      BY <2>2 DEF Event
    <3> QED BY <1>7, <3>1 DEF IInv, FilesTypeOK
  <2>3. CASE Event(s) # ev
    <3>1. Pending(s) => Pending(s)'
      BY <1>1, <1>3, <2>1, <2>3 DEF Pending, Event
    <3> QED BY <1>8, <3>1 DEF IInv, FreshOrPending
  <2> QED BY <2>2, <2>3
<1> QED BY <1>9, <1>10 DEF IInv

-----------------------------------------------------------------------------
\* Every step of the dispatcher and of the writers of scripts keeps the invariant.
THEOREM NextOK == IInv /\ [Next]_vars => IInv'
<1> SUFFICES ASSUME IInv, [Next]_vars PROVE IInv'
  OBVIOUS
<1> USE DEF disk, boot, lua
<1>1. CASE \E s \in Scripts : OpenScript(s) \/ RemoveScript(s)
  <2>1. PICK s \in Scripts : OpenScript(s) \/ RemoveScript(s)
    BY <1>1
  <2>2. CASE OpenScript(s)
    BY <2>2, ChangesKeepInv DEF OpenScript, Contents
  <2>3. CASE RemoveScript(s)
    BY <2>3, ChangesKeepInv DEF RemoveScript, Contents
  <2> QED BY <2>1, <2>2, <2>3
<1>2. CASE \E s \in Scripts : \E content \in Becomes[s] :
             CloseScript(s, content) \/ MoveScript(s, content)
  <2>1. PICK s \in Scripts : \E content \in Becomes[s] :
             CloseScript(s, content) \/ MoveScript(s, content)
    BY <1>2
  <2>2. PICK content \in Becomes[s] : CloseScript(s, content) \/ MoveScript(s, content)
    BY <2>1
  <2>3. content \in Contents
    BY <2>2
  <2> QED BY <2>2, <2>3, ChangesKeepInv DEF CloseScript, MoveScript
<1>3. CASE \/ \E o \in Objects : InstallObject(o) \/ LoadCommand(o)
           \/ CountCommands \/ CommandsLoaded \/ ScanEnds \/ EventsHandled
           \/ \E name \in Asked : ducq_dispatch(name)
           \/ UNCHANGED vars
  <2>1. UNCHANGED <<files, lost, watched, queue, extensions, scan, events, read, skipped>>
    BY <1>3 DEF InstallObject, LoadCommand, CountCommands, CommandsLoaded, ScanEnds,
                EventsHandled, ducq_dispatch, lscmd, Overruns, Looked, vars
  <2>2. /\ pc' \in States
        /\ pc' \notin {"added", "scanning", "undefined"} => scan = {}
        /\ pc' \notin {"handling", "undefined"} => events = <<>>
    <3>1. CASE \E name \in Asked : ducq_dispatch(name)
      BY <3>1 DEF IInv, FilesTypeOK, IdleIsDone, States, ducq_dispatch, lscmd, Overruns, Looked
    <3>2. CASE ~ \E name \in Asked : ducq_dispatch(name)
      BY <1>3, <3>2 DEF IInv, FilesTypeOK, IdleIsDone, States, InstallObject, LoadCommand,
                  CountCommands, CommandsLoaded, ScanEnds, EventsHandled, vars
    <3> QED BY <3>1, <3>2
  <2> QED BY <2>1, <2>2, OthersKeepInv
<1>4. CASE \E f \in Folders : Add(f)
  BY <1>4, AddKeepsInv
<1>5. CASE OpenDir
  BY <1>5, OpenDirKeepsInv
<1>6. CASE \E s \in Scripts : LoadNext(s)
  BY <1>6, LoadNextKeepsInv
<1>7. CASE ReadEvents
  BY <1>7, ReadEventsKeepsInv
<1>8. CASE HandleEvent
  BY <1>8, HandleEventKeepsInv
<1> QED BY <1>1, <1>2, <1>3, <1>4, <1>5, <1>6, <1>7, <1>8 DEF Next, Others

\* No change of a script in a watched folder is missed between the watch, the
\* scan and the events, but by an overflow of the queue or behind a script that
\* failed the scan, or where the scan failed (dispatcher.c:238-332).
THEOREM NoChangeIsMissed == Spec => []FreshOrPending
<1>1. IInv => FreshOrPending
  BY DEF IInv
<1> QED BY InitOK, NextOK, <1>1, PTL DEF Spec
-----------------------------------------------------------------------------
(* The Lua stack *)

IsSequence(st) == st \in Seq(Range(st))
StackOK == IsSequence(stack)

\* t is the stack s with up to k values more on top.
GrownBy(s, t, k) ==
  /\ IsSequence(t)
  /\ Len(s) <= Len(t) /\ Len(t) <= Len(s) + k
  /\ \A i \in 1..Len(s) : t[i] = s[i]

\* Pushing one value, and popping it.
LEMMA PushedSequence ==
  ASSUME NEW s, IsSequence(s), NEW v
  PROVE  /\ GrownBy(s, Append(s, v), 1)
         /\ Len(Append(s, v)) = Len(s) + 1
         /\ Last(Append(s, v)) = v
         /\ Front(Append(s, v)) = s
<1> DEFINE S == Range(s) \cup {v}
           t == Append(s, v)
<1>1. s \in Seq(S)
  BY SeqMonotonic DEF IsSequence
<1>2. /\ t \in Seq(S) /\ Range(t) = S /\ Last(t) = v
      /\ Len(t) = Len(s) + 1 /\ Len(s) \in Nat
      /\ \A i \in 1..Len(s) : t[i] = s[i]
  BY <1>1, RangeOfAppend, AppendProperties, LenProperties
<1>3. Front(t) = s
  <2>1. \A i \in 1..Len(s) : t[i] \in S
    BY <1>1, <1>2, ElementOfSeq
  <2>2. /\ Front(t) \in Seq(S) /\ Len(Front(t)) = Len(s)
        /\ \A i \in 1..Len(s) : Front(t)[i] = t[i]
    BY <1>2, <2>1, SubSeqProperties DEF Front
  <2> QED BY <1>1, <1>2, <2>2, SeqEqual
<1> QED BY <1>2, <1>3 DEF GrownBy, IsSequence

\* What was on a stack that has grown is still there.
LEMMA GrownIsPrefix ==
  ASSUME NEW s, NEW t, NEW k, IsSequence(s), GrownBy(s, t, k)
  PROVE  IsPrefix(s, t)
<1>1. /\ s \in Seq(Range(s)) /\ t \in Seq(Range(t)) /\ Len(s) \in Nat /\ Len(t) \in Nat
      /\ Len(s) <= Len(t)
  BY LenProperties DEF IsSequence, GrownBy
<1>2. \A i \in 1..Len(s) : s[i] = t[i] /\ s[i] \in Range(s) /\ t[i] \in Range(t)
  BY <1>1, ElementOfSeq DEF GrownBy
<1>3. /\ SubSeq(s, 1, Len(s)) \in Seq(Range(s)) /\ Len(SubSeq(s, 1, Len(s))) = Len(s)
      /\ \A i \in 1..Len(s) : SubSeq(s, 1, Len(s))[i] = s[i]
  BY <1>1, <1>2, SubSeqProperties
<1>4. /\ SubSeq(t, 1, Len(s)) \in Seq(Range(t)) /\ Len(SubSeq(t, 1, Len(s))) = Len(s)
      /\ \A i \in 1..Len(s) : SubSeq(t, 1, Len(s))[i] = t[i]
  BY <1>1, <1>2, SubSeqProperties
<1>5. SubSeq(t, 1, Len(s)) \in Seq(Range(s))
  <2>1. \A i \in 1..Len(s) : t[i] \in Range(s)
    BY <1>2
  <2> QED BY <1>1, <2>1, SubSeqProperties
<1> QED BY <1>1, <1>2, <1>3, <1>4, <1>5, SeqEqual DEF IsPrefix

\* What a lookup finds depends on the global table alone.
Found(name) ==
  IF commands # NoWd /\ name \in DOMAIN commands /\ commands[name].exec
  THEN Exec(commands[name]) ELSE Nil

\* _find_lua_command leaves up to three values, the last of them what it found.
LEMMA Lookup ==
  ASSUME NEW st, IsSequence(st), NEW name
  PROVE  /\ GrownBy(st, _find_lua_command(st, name), 3)
         /\ Last(_find_lua_command(st, name)) = Found(name)
         /\ Found(name).is = "function" => Len(_find_lua_command(st, name)) = Len(st) + 3
<1> DEFINE st1 == Append(st, Commands)
           v2  == Field(Commands, name)
           st2 == Append(st1, v2)
           v3  == Field(v2, "exec")
           st3 == Append(st2, v3)
<1>1. GrownBy(st, st1, 1) /\ Last(st1) = Commands /\ Len(st1) = Len(st) + 1
  BY PushedSequence
<1>2. GrownBy(st1, st2, 1) /\ Last(st2) = v2 /\ Len(st2) = Len(st1) + 1
  BY <1>1, PushedSequence DEF GrownBy
<1>3. GrownBy(st2, st3, 1) /\ Last(st3) = v3 /\ Len(st3) = Len(st2) + 1
  BY <1>2, PushedSequence DEF GrownBy
<1>4. Len(st) \in Nat
  BY LenProperties DEF IsSequence
<1>5. GrownBy(st, st2, 3) /\ GrownBy(st, st3, 3)
  BY <1>1, <1>2, <1>3, <1>4 DEF GrownBy
<1>6. _find_lua_command(st, name) = IF commands = NoWd THEN Append(st, Nil)
                                    ELSE IF v2 = Nil THEN st2 ELSE st3
  BY <1>1, <1>2 DEF _find_lua_command
<1>7. commands # NoWd => v2 = IF name \in DOMAIN commands THEN Table(commands[name]) ELSE Nil
  BY DEF Field
<1>8. \A e : /\ Table(e) # Nil /\ Table(e) # Commands
             /\ Table(e).is = "table" /\ Table(e).entry = e
             /\ Exec(e).is = "function"
  BY DEF Table, Nil, Commands, Exec
<1>9. \A e : Field(Table(e), "exec") = IF e.exec THEN Exec(e) ELSE Nil
  BY <1>8 DEF Field
<1> HIDE DEF st1, st2, st3, v2, v3
<1>10. Nil.is = "nil"
  BY DEF Nil
<1>11. CASE commands = NoWd
  <2>1. GrownBy(st, Append(st, Nil), 1) /\ Last(Append(st, Nil)) = Nil
    BY PushedSequence
  <2>2. GrownBy(st, Append(st, Nil), 3)
    BY <1>4, <2>1, LenProperties DEF GrownBy, IsSequence
  <2> QED BY <1>6, <1>10, <1>11, <2>1, <2>2 DEF Found
<1>12. CASE commands # NoWd /\ name \notin DOMAIN commands
  BY <1>2, <1>5, <1>6, <1>7, <1>10, <1>12 DEF Found
<1>13. CASE commands # NoWd /\ name \in DOMAIN commands
  <2>1. v2 = Table(commands[name]) /\ v2 # Nil
    BY <1>7, <1>8, <1>13
  <2>2. v3 = IF commands[name].exec THEN Exec(commands[name]) ELSE Nil
    BY <1>9, <2>1 DEF v3
  <2>3. Len(st3) = Len(st) + 3
    BY <1>1, <1>2, <1>3, <1>4
  <2> QED BY <1>3, <1>5, <1>6, <1>13, <2>1, <2>2, <2>3 DEF Found
<1> QED BY <1>11, <1>12, <1>13
\* Running a command takes its function off again, and its result.
LEMMA CommandIsPopped ==
  ASSUME NEW st, IsSequence(st), NEW f, GrownBy(st, f, 3), Len(f) = Len(st) + 3
  PROVE  GrownBy(st, lua_command(f), 2)
<1> DEFINE S == Range(f) \cup {Nil}
           all == f \o <<Nil, Nil>>
           called == SubSeq(all, 1, Len(f) - 1)
<1>1. f \in Seq(S) /\ <<Nil, Nil>> \in Seq(S) /\ Len(f) \in Nat /\ Len(st) \in Nat
  <2>1. f \in Seq(S)
    BY SeqMonotonic DEF GrownBy, IsSequence
  <2> QED BY <2>1, LenProperties DEF IsSequence
<1>2. \A i \in 1..Len(f) : all[i] = f[i]
  BY <1>1, ConcatProperties
<1>3. /\ called \in Seq(S) /\ Len(called) = Len(f) - 1
      /\ \A i \in 1..(Len(f) - 1) : called[i] = f[i]
  <2>1. \A i \in 1..(Len(f) - 1) : all[i] \in S
    BY <1>1, <1>2, ElementOfSeq
  <2>2. \A i \in 1..(Len(f) - 1) : called[i] = all[1 + i - 1]
    BY <1>1, <2>1, SubSeqProperties
  <2> QED BY <1>1, <1>2, <2>1, <2>2, SubSeqProperties
<1>4. IsSequence(called)
  <2>1. called \in [1..Len(called) -> S]
    BY <1>3, LenProperties
  <2> QED BY <1>3, <2>1, SeqOfRange DEF IsSequence
<1>5. lua_command(f) = called
  BY <1>4, PushedSequence DEF lua_command, Arguments
<1> HIDE DEF called
<1> QED BY <1>1, <1>3, <1>4, <1>5 DEF GrownBy

\* lscmd leaves what it was at when it stopped.
LEMMA ListingGrows == ASSUME StackOK, lscmd PROVE GrownBy(stack, stack', 4)
<1>1. Len(stack) \in Nat
  BY LenProperties DEF StackOK, IsSequence
<1>2. \A v : GrownBy(stack, Append(stack, v), 4)
  BY <1>1, PushedSequence DEF StackOK, GrownBy
<1>3. ASSUME NEW c \in DOMAIN commands,
             stack' = stack \o <<Commands, Message, Table(commands[c]), Message>>
      PROVE  GrownBy(stack, stack', 4)
  <2> DEFINE more == <<Commands, Message, Table(commands[c]), Message>>
             S == Range(stack) \cup {Commands, Message, Table(commands[c])}
  <2>1. stack \in Seq(S) /\ more \in Seq(S) /\ Len(more) = 4
    <3>1. stack \in Seq(S)
      BY SeqMonotonic DEF StackOK, IsSequence
    <3> QED BY <3>1
  <2> HIDE DEF more
  <2>2. /\ stack' \in Seq(S) /\ Len(stack') = Len(stack) + 4
        /\ \A i \in 1..Len(stack) : stack'[i] = stack[i]
    BY <1>1, <1>3, <2>1, ConcatProperties DEF more
  <2>3. IsSequence(stack')
    BY <2>2, SeqOfRange DEF IsSequence
  <2> QED BY <1>1, <2>2, <2>3 DEF GrownBy
<1>4. CASE UNCHANGED stack
  BY <1>1, <1>4 DEF GrownBy, StackOK
<1> QED BY <1>2, <1>3, <1>4 DEF lscmd, Overruns, lua

\* A step grows the stack when it is such a request, and counts it, or leaves it
\* alone.  What is undefined comes of six values at most on top of the stack.
StackStep ==
  \/ UNCHANGED <<stack, lookups>> /\ (pc' = "undefined" => pc = "undefined" \/ ~Fits(6))
  \/ /\ \E name \in (Asked \ Range(cmds)) \cup {Lscmd} : ducq_dispatch(name)
     /\ GrownBy(stack, stack', 4)
     /\ lookups' = lookups + 1 /\ pc' = pc

\* More than can be pushed cannot be pushed either.
LEMMA OverrunStep ==
  ASSUME StackOK, NEW n \in 0..6, Overruns(n)
  PROVE  StackStep
<1>1. Len(stack) \in Nat
  BY LenProperties DEF StackOK, IsSequence
<1> QED BY <1>1 DEF Overruns, Fits, StackStep, lua

\* A lookup pushes three values, and the arguments three more.
LEMMA LookupPushesSix ==
  ASSUME StackOK, NEW name
  PROVE  LookupPushes(_find_lua_command(stack, name)) \in 0..6
<1> DEFINE f == _find_lua_command(stack, name)
<1>1. Len(stack) \in Nat
  BY LenProperties DEF StackOK, IsSequence
<1>2. GrownBy(stack, f, 3)
  BY Lookup DEF StackOK
<1> HIDE DEF f
<1>3. Len(f) \in Nat /\ Len(stack) <= Len(f) /\ Len(f) <= Len(stack) + 3
  BY <1>2, LenProperties DEF GrownBy, IsSequence
<1>4. Len(Arguments) = 2
  BY DEF Arguments
<1>5. LookupPushes(f) \in {Len(f) - Len(stack), Len(f) - Len(stack) + 3}
  BY <1>4 DEF LookupPushes
<1> QED BY <1>1, <1>3, <1>5 DEF f

\* One request (dispatcher.c:353-460).
LEMMA RequestGrows ==
  ASSUME StackOK, NEW name \in Asked, ducq_dispatch(name)
  PROVE  StackStep
<1>1. IsSequence(stack) /\ Len(stack) \in Nat
  BY LenProperties DEF StackOK, IsSequence
<1>2. CASE name = Lscmd
  <2>1. lscmd
    BY <1>2 DEF ducq_dispatch, Runs
  <2>2. CASE UNCHANGED <<pc, lua>>
    BY <2>2 DEF StackStep, lua
  <2>3. CASE Overruns(ListingPushes)
    BY <2>3, OverrunStep DEF ListingPushes
  <2>4. CASE Fits(ListingPushes) /\ Looked
    BY <1>2, <2>1, <2>4, ListingGrows DEF StackStep, Looked
  <2> QED BY <2>1, <2>2, <2>3, <2>4 DEF lscmd
<1>3. CASE name # Lscmd /\ name \in Range(cmds)
  BY <1>3 DEF ducq_dispatch, Runs, StackStep, lua
<1>4. CASE name # Lscmd /\ name \notin Range(cmds)
  <2> DEFINE f == _find_lua_command(stack, name)
  <2>1. GrownBy(stack, f, 3) /\ Last(f) = Found(name)
        /\ (Found(name).is = "function" => Len(f) = Len(stack) + 3)
    BY <1>1, Lookup
  <2>2. LookupPushes(f) \in 0..6
    BY LookupPushesSix
  <2> HIDE DEF f
  <2>3. Runs(name) = IF ~Fits(LookupPushes(f)) THEN [is |-> "undefined"]
                     ELSE IF Found(name).is = "function" THEN Found(name)
                     ELSE [is |-> "unknown"]
    BY <1>4, <2>1 DEF Runs, f
  <2>4. CASE ~Fits(LookupPushes(f))
    <3>1. Overruns(LookupPushes(f))
      BY <2>3, <2>4 DEF ducq_dispatch, f
    <3> QED BY <2>2, <3>1, OverrunStep
  <2>5. CASE Fits(LookupPushes(f)) /\ Found(name).is = "function"
    <3>1. stack' = lua_command(f) /\ Looked
      BY <2>3, <2>5 DEF ducq_dispatch, f
    <3>2. GrownBy(stack, stack', 2)
      BY <1>1, <2>1, <2>5, <3>1, CommandIsPopped
    <3>3. GrownBy(stack, stack', 4)
      BY <1>1, <3>2, LenProperties DEF GrownBy, IsSequence
    <3> QED BY <1>4, <3>1, <3>3 DEF StackStep, Looked
  <2>6. CASE Fits(LookupPushes(f)) /\ Found(name).is # "function"
    <3>1. stack' = f /\ Looked
      BY <2>3, <2>6 DEF ducq_dispatch, f
    <3>2. GrownBy(stack, stack', 4)
      BY <1>1, <2>1, <3>1, LenProperties DEF GrownBy, IsSequence
    <3> QED BY <1>4, <3>1, <3>2 DEF StackStep, Looked
  <2> QED BY <2>4, <2>5, <2>6
<1> QED BY <1>2, <1>3, <1>4

\* _load_lua_file pops the message it logs (dispatcher.c:233-234).
LEMMA LoadsLeaveTheStack ==
  ASSUME StackOK, NEW s, NEW ok, Loads(s, ok)
  PROVE  UNCHANGED <<stack, lookups>>
BY PushedSequence DEF StackOK, Loads, LoadFails, AfterError

\* Nothing else touches the stack.
LEMMA StackSteps == ASSUME StackOK, [Next]_vars PROVE StackStep
<1> USE DEF disk, boot, lua
<1>1. CASE \/ Others \/ CountCommands \/ CommandsLoaded
           \/ \E o \in Objects : LoadCommand(o)
           \/ \E f \in Folders : Add(f)
           \/ OpenDir \/ ScanEnds \/ ReadEvents \/ EventsHandled \/ UNCHANGED vars
  BY <1>1 DEF Others, OpenScript, CloseScript, MoveScript, RemoveScript, Changes, InstallObject,
              CountCommands, CommandsLoaded, LoadCommand, Add, OpenDir, ScanEnds, ReadEvents,
              EventsHandled, vars, StackStep
<1>2. CASE Overruns(LoadPushes)
  BY <1>2, OverrunStep DEF LoadPushes
<1>3. CASE ~Overruns(LoadPushes) /\ \E s \in Scripts : LoadNext(s)
  BY <1>3, LoadsLeaveTheStack DEF LoadNext, StackStep
<1>4. CASE ~Overruns(LoadPushes) /\ HandleEvent
  BY <1>4, LoadsLeaveTheStack DEF HandleEvent, StackStep
<1>5. CASE \E name \in Asked : ducq_dispatch(name)
  BY <1>5, RequestGrows
<1> QED BY <1>1, <1>2, <1>3, <1>4, <1>5 DEF Next

\* At most four values for each request, and what is undefined comes of too many.
StackInv ==
  /\ StackOK
  /\ lookups \in Nat /\ Len(stack) <= 4 * lookups
  /\ pc = "undefined" => Crowded

\* The Lua stack stays a stack, whatever is pushed and popped, and is filled by
\* four values a request at most (dispatcher.c:353-432).
THEOREM StackIsSequence == Spec => []StackInv
<1>1. Init => StackInv
  BY EmptySeq DEF Init, StackInv, StackOK, IsSequence
<1>2. StackInv /\ [Next]_vars => StackInv'
  <2> SUFFICES ASSUME StackInv, [Next]_vars PROVE StackInv'
    OBVIOUS
  <2>1. StackStep /\ StackOK /\ Len(stack) \in Nat
    BY StackSteps, LenProperties DEF StackInv, StackOK, IsSequence
  <2>2. CASE UNCHANGED <<stack, lookups>> /\ (pc' = "undefined" => pc = "undefined" \/ ~Fits(6))
    <3>1. ~Fits(6) => Crowded
      BY <2>1 DEF Fits, Crowded, StackInv
    <3>2. Crowded' = Crowded
      BY <2>2 DEF Crowded
    <3> QED BY <2>2, <3>1, <3>2 DEF StackInv, StackOK, IsSequence
  <2>3. CASE GrownBy(stack, stack', 4) /\ lookups' = lookups + 1 /\ pc' = pc
    <3>1. StackOK' /\ Len(stack') \in Nat /\ Len(stack') <= Len(stack) + 4
      BY <2>3, LenProperties DEF GrownBy, StackOK, IsSequence
    <3>2. Crowded => Crowded'
      BY <2>3 DEF Crowded, StackInv
    <3> QED BY <2>1, <2>3, <3>1, <3>2 DEF StackInv
  <2> QED BY <2>1, <2>2, <2>3 DEF StackStep
<1> QED BY <1>1, <1>2, PTL DEF Spec

\* Loading leaves the Lua stack as it was, native commands too, and what other
\* requests leave there is never taken away (dispatcher.c:228-236, 353-432).
THEOREM OnlyLookupsLeak == Spec => OnlyLuaLookupsLeak
<1> DEFINE Leak == stack' # stack =>
       /\ \E name \in (Asked \ Range(cmds)) \cup {Lscmd} : ducq_dispatch(name)
       /\ IsPrefix(stack, stack') /\ Len(stack') <= Len(stack) + 4
<1>1. StackInv /\ [Next]_vars => [Leak]_vars
  BY StackSteps, GrownIsPrefix DEF StackStep, StackInv, StackOK, GrownBy
<1> QED BY <1>1, StackIsSequence, PTL DEF Spec, OnlyLuaLookupsLeak

\* A request runs the command of its name as last loaded, a native one before a
\* Lua one, whatever earlier requests have left on the Lua stack while there were
\* too few of them to fill it; native commands always (dispatcher.c:353-456).
THEOREM TheRightCommandRuns == Spec => []RunsWhatWasAsked
<1>1. StackInv => RunsWhatWasAsked
  <2> SUFFICES ASSUME StackInv, NEW name \in Asked
               PROVE  \/ Runs(name) = Meant(name)
                      \/ Runs(name).is = "undefined" /\ name \notin Range(cmds) /\ Crowded
    BY DEF RunsWhatWasAsked, StackInv
  <2> DEFINE f == _find_lua_command(stack, name)
  <2>1. Last(f) = Found(name) /\ LookupPushes(f) \in 0..6 /\ Len(stack) \in Nat
    BY Lookup, LookupPushesSix, LenProperties DEF StackInv, StackOK, IsSequence
  <2>2. \A e : Exec(e).is = "function"
    BY DEF Exec
  <2>3. Nil.is # "function"
    BY DEF Nil
  <2>4. CASE name = Lscmd \/ name \in Range(cmds)
    BY <2>4 DEF Runs, Meant
  <2> HIDE DEF f
  <2>5. CASE name # Lscmd /\ name \notin Range(cmds)
    <3>1. ~Fits(LookupPushes(f)) => Crowded
      BY <2>1 DEF Fits, Crowded, StackInv
    <3>2. Runs(name) = IF ~Fits(LookupPushes(f)) THEN [is |-> "undefined"]
                       ELSE IF Found(name).is = "function" THEN Found(name)
                       ELSE [is |-> "unknown"]
      BY <2>1, <2>5 DEF Runs, f
    <3>3. Meant(name) = IF Found(name).is = "function" THEN Found(name) ELSE [is |-> "unknown"]
      BY <2>2, <2>3, <2>5 DEF Meant, Found
    <3> QED BY <2>5, <3>1, <3>2, <3>3
  <2> QED BY <2>4, <2>5
<1> QED BY <1>1, StackIsSequence, PTL

-----------------------------------------------------------------------------
(***************************************************************************)
(* The types.  The commands loaded fit their room because none is loaded   *)
(* before the room is made; the queue holds one event more than it may,    *)
(* and then that one says so.                                              *)
(***************************************************************************)
RoomSuffices ==
  /\ objects \subseteq Objects
  /\ cmds \in Seq(Objects) /\ room \in Nat
  /\ Len(cmds) <= room
  /\ pc = "new" => cmds = <<>>

QueueBounded ==
  /\ Len(queue) <= QueueMax + 1
  /\ Len(queue) > QueueMax => Last(queue) = Overflow

SlotsAreOfWatches ==
  \A i \in Slots :
    extensions[i] = Free \/ (extensions[i].wd \in watched /\ extensions[i].path \in Folders)

Kinds == {"nil", "message", "commands", "table", "function"}
AllValues(st) == \A i \in 1..Len(st) : st[i].is \in Kinds

TypeInv == /\ RoomSuffices
           /\ QueueBounded
           /\ SlotsAreOfWatches
           /\ skipped \subseteq Scripts
           /\ StackOK /\ AllValues(stack)

\* The room is that of the objects counted, and one is taken only while there
\* is room (dispatcher.c:192-207).
LEMMA RoomStep == ASSUME IInv, RoomSuffices, [Next]_vars PROVE RoomSuffices'
<1> USE DEF disk, boot, lua, RoomSuffices
<1>1. CASE CountCommands
  <2>1. IsFiniteSet(objects)
    BY FS_Subset
  <2>2. Cardinality(objects) \in Nat
    BY <2>1, FS_CardinalityType
  <2>3. cmds = <<>> /\ Len(cmds) = 0 /\ UNCHANGED <<cmds, objects>> /\ room' = Cardinality(objects)
        /\ pc' \in {"counted", "crashed"}
    BY <1>1, EmptySeq DEF CountCommands
  <2> QED BY <2>2, <2>3
<1>2. ASSUME NEW o \in Objects, LoadCommand(o)
      PROVE  RoomSuffices'
  <2>1. /\ pc' = "counted" /\ UNCHANGED room /\ objects' \subseteq Objects
        /\ Len(cmds) < room /\ cmds' \in {Append(cmds, o), cmds}
    BY <1>2 DEF LoadCommand
  <2>2. Append(cmds, o) \in Seq(Objects) /\ Len(Append(cmds, o)) = Len(cmds) + 1 /\ Len(cmds) \in Nat
    BY AppendProperties, LenProperties
  <2> QED BY <2>1, <2>2
<1>3. CASE CommandsLoaded \/ \E o \in Objects : InstallObject(o)
  BY <1>3 DEF CommandsLoaded, InstallObject
<1>4. CASE \/ \E s \in Scripts :
                \/ OpenScript(s) \/ RemoveScript(s)
                \/ \E content \in Becomes[s] : CloseScript(s, content) \/ MoveScript(s, content)
           \/ \E f \in Folders : Add(f)
           \/ OpenDir \/ ScanEnds \/ \E s \in Scripts : LoadNext(s)
           \/ ReadEvents \/ HandleEvent \/ EventsHandled
           \/ \E name \in Asked : ducq_dispatch(name)
           \/ UNCHANGED vars
  <2>1. UNCHANGED <<objects, cmds, room>>
    BY <1>4 DEF OpenScript, RemoveScript, CloseScript, MoveScript, Changes, Add, OpenDir, ScanEnds,
                LoadNext, ReadEvents, HandleEvent, EventsHandled, ducq_dispatch, lscmd, Overruns,
                Looked, vars
  <2>2. pc' = "new" => pc = "new"
    BY <1>4 DEF OpenScript, RemoveScript, CloseScript, MoveScript, Changes, Add, OpenDir, ScanEnds,
                LoadNext, ReadEvents, HandleEvent, EventsHandled, ducq_dispatch, lscmd, Overruns,
                Looked, vars
  <2> QED BY <2>1, <2>2
<1> QED BY <1>1, <1>2, <1>3, <1>4 DEF Next, Others

\* The kernel adds one event more than the queue may hold, and only one.
LEMMA NotifyBounded ==
  ASSUME IInv, QueueBounded, NEW s \in Scripts, Notify(s)
  PROVE  QueueBounded'
<1>1. queue \in Seq(Events) /\ Len(queue) \in Nat
  BY LenProperties DEF IInv, FilesTypeOK
<1>2. Event(s) \in Events /\ Overflow \in Events
  BY DEF Event, Events, Overflow, Folders
<1>3. \A ev \in Events : Len(Append(queue, ev)) = Len(queue) + 1 /\ Last(Append(queue, ev)) = ev
  BY <1>1, RangeOfAppend, AppendProperties
<1>4. CASE UNCHANGED queue
  BY <1>4 DEF QueueBounded
<1>5. CASE Len(queue) < QueueMax /\ queue' = Append(queue, Event(s))
  BY <1>1, <1>2, <1>3, <1>5 DEF QueueBounded
<1>6. CASE Last(queue) # Overflow /\ queue' = Append(queue, Overflow)
  BY <1>1, <1>2, <1>3, <1>6 DEF QueueBounded
<1> QED BY <1>4, <1>5, <1>6 DEF Notify

LEMMA QueueStep == ASSUME IInv, QueueBounded, [Next]_vars PROVE QueueBounded'
<1> USE DEF disk, boot, lua
<1>1. CASE \E s \in Scripts : \E content \in Becomes[s] :
             CloseScript(s, content) \/ MoveScript(s, content)
  <2>1. PICK s \in Scripts : Notify(s)
    BY <1>1 DEF CloseScript, MoveScript
  <2> QED BY <2>1, NotifyBounded
<1>2. CASE ReadEvents
  <2>1. PICK n \in 1..Len(queue) : queue' = SubSeq(queue, n + 1, Len(queue))
    BY <1>2 DEF ReadEvents
  <2>2. queue \in Seq(Events) /\ Len(queue) \in Nat /\ \A i \in (n + 1)..Len(queue) : queue[i] \in Events
    BY LenProperties, ElementOfSeq DEF IInv, FilesTypeOK
  <2>3. Len(queue') = Len(queue) - n
    BY <2>1, <2>2, SubSeqProperties
  <2>4. n \in Nat \ {0} /\ Len(queue) <= QueueMax + 1
    BY DEF QueueBounded
  <2>5. Len(queue') \in Nat /\ Len(queue') <= QueueMax
    BY <2>1, <2>2, <2>3, <2>4
  <2> QED BY <2>5 DEF QueueBounded
<1>3. CASE UNCHANGED queue
  BY <1>3 DEF QueueBounded
<1>4. \/ \E s \in Scripts : \E content \in Becomes[s] : CloseScript(s, content) \/ MoveScript(s, content)
      \/ ReadEvents
      \/ UNCHANGED queue
  BY DEF Next, Others, OpenScript, RemoveScript, Changes, InstallObject, CountCommands, LoadCommand,
         CommandsLoaded, Add, OpenDir, ScanEnds, LoadNext, HandleEvent, EventsHandled, ducq_dispatch, vars
<1> QED BY <1>1, <1>2, <1>3, <1>4

\* A slot is taken with its watch, and a watch is never removed.
LEMMA SlotsStep ==
  ASSUME IInv, SlotsAreOfWatches, skipped \subseteq Scripts, [Next]_vars
  PROVE  SlotsAreOfWatches' /\ skipped' \subseteq Scripts
<1> USE DEF disk, boot, lua
<1>1. CASE \E f \in Folders : Add(f)
  <2>1. PICK f \in Folders, i \in Slots :
          /\ extensions' = [extensions EXCEPT ![i] = [wd |-> f, path |-> f]]
          /\ watched' = watched \cup {f} /\ skipped' = skipped
    BY <1>1 DEF Add, Slots
  <2>2. \A j \in Slots : extensions'[j] = IF j = i THEN [wd |-> f, path |-> f] ELSE extensions[j]
    BY <2>1 DEF IInv, FilesTypeOK
  <2> QED BY <2>1, <2>2 DEF SlotsAreOfWatches
<1>2. CASE OpenDir \/ \E s \in Scripts : LoadNext(s)
  BY <1>2 DEF OpenDir, LoadNext, SlotsAreOfWatches, IInv, FilesTypeOK
<1>3. CASE UNCHANGED <<extensions, watched, skipped>>
  BY <1>3 DEF SlotsAreOfWatches
<1>4. \/ \E f \in Folders : Add(f)
      \/ OpenDir \/ \E s \in Scripts : LoadNext(s)
      \/ UNCHANGED <<extensions, watched, skipped>>
  BY DEF Next, Others, OpenScript, CloseScript, MoveScript, RemoveScript, Changes, InstallObject,
         CountCommands, LoadCommand, CommandsLoaded, ScanEnds, ReadEvents, HandleEvent,
         EventsHandled, ducq_dispatch, vars
<1> QED BY <1>1, <1>2, <1>3, <1>4

\* What is pushed is a Lua value.
LEMMA PushedValue ==
  ASSUME NEW st, IsSequence(st), AllValues(st), NEW v, v.is \in Kinds
  PROVE  IsSequence(Append(st, v)) /\ AllValues(Append(st, v))
<1>1. /\ IsSequence(Append(st, v)) /\ Len(Append(st, v)) = Len(st) + 1 /\ Len(st) \in Nat
      /\ \A i \in 1..Len(st) : Append(st, v)[i] = st[i]
  BY PushedSequence, LenProperties DEF GrownBy, IsSequence
<1>2. Append(st, v)[Len(st) + 1] = v
  BY <1>1, PushedSequence DEF Last
<1> QED BY <1>1, <1>2 DEF AllValues

LEMMA LookupPushesValues ==
  ASSUME NEW st, IsSequence(st), AllValues(st), NEW name
  PROVE  AllValues(_find_lua_command(st, name))
<1> DEFINE st1 == Append(st, Commands)
           v2  == Field(Commands, name)
           st2 == Append(st1, v2)
           v3  == Field(v2, "exec")
           st3 == Append(st2, v3)
<1>1. \A t, n : Field(t, n).is \in Kinds
  BY DEF Field, Table, Exec, Nil, Kinds
<1>2. Commands.is \in Kinds /\ Nil.is \in Kinds
  BY DEF Commands, Nil, Kinds
<1>3. IsSequence(st1) /\ AllValues(st1) /\ Last(st1) = Commands
  BY <1>2, PushedValue, PushedSequence
<1>4. IsSequence(st2) /\ AllValues(st2) /\ Last(st2) = v2
  BY <1>1, <1>3, PushedValue, PushedSequence
<1>5. AllValues(st3)
  BY <1>1, <1>4, PushedValue
<1>6. AllValues(Append(st, Nil))
  BY <1>2, PushedValue
<1>7. _find_lua_command(st, name) = IF commands = NoWd THEN Append(st, Nil)
                                    ELSE IF v2 = Nil THEN st2 ELSE st3
  BY <1>3, <1>4 DEF _find_lua_command
<1> QED BY <1>4, <1>5, <1>6, <1>7

LEMMA CallLeavesValues ==
  ASSUME NEW st, IsSequence(st), NEW f, GrownBy(st, f, 3), Len(f) = Len(st) + 3, AllValues(f)
  PROVE  AllValues(lua_command(f))
<1> DEFINE S == Range(f) \cup {Nil}
           all == f \o <<Nil, Nil>>
           called == SubSeq(all, 1, Len(f) - 1)
<1>1. f \in Seq(S) /\ <<Nil, Nil>> \in Seq(S) /\ Len(f) \in Nat
  <2>1. f \in Seq(S)
    BY SeqMonotonic DEF GrownBy, IsSequence
  <2> QED BY <2>1, LenProperties
<1>2. \A i \in 1..Len(f) : all[i] = f[i]
  BY <1>1, ConcatProperties
<1>3. /\ called \in Seq(S) /\ Len(called) = Len(f) - 1
      /\ \A i \in 1..(Len(f) - 1) : called[i] = f[i]
  <2>1. Len(f) - 1 \in Nat
    BY LenProperties DEF IsSequence
  <2>2. \A i \in 1..(Len(f) - 1) : all[i] \in S
    BY <1>1, <1>2, ElementOfSeq
  <2>3. \A i \in 1..(Len(f) - 1) : called[i] = all[1 + i - 1]
    BY <1>1, <2>1, <2>2, SubSeqProperties
  <2> QED BY <1>1, <1>2, <2>1, <2>2, <2>3, SubSeqProperties
<1>4. IsSequence(called)
  <2>1. called \in [1..Len(called) -> S]
    BY <1>3, LenProperties
  <2> QED BY <1>3, <2>1, SeqOfRange DEF IsSequence
<1>5. lua_command(f) = called
  BY <1>4, PushedSequence DEF lua_command, Arguments
<1> HIDE DEF called
<1> QED BY <1>1, <1>3, <1>5 DEF AllValues

LEMMA ListingPushesValues == ASSUME StackOK, AllValues(stack), lscmd PROVE AllValues(stack')
<1>1. Nil.is \in Kinds /\ Commands.is \in Kinds /\ Message.is \in Kinds
      /\ \A e : Table(e).is \in Kinds
  BY DEF Nil, Commands, Message, Table, Kinds
<1>2. CASE stack' = stack \/ stack' = Append(stack, Nil) \/ stack' = Append(stack, Commands)
  BY <1>1, <1>2, PushedValue DEF StackOK
<1>3. ASSUME NEW c \in DOMAIN commands,
             stack' = stack \o <<Commands, Message, Table(commands[c]), Message>>
      PROVE  AllValues(stack')
  <2> DEFINE more == <<Commands, Message, Table(commands[c]), Message>>
             S == Range(stack) \cup {Commands, Message, Table(commands[c])}
  <2>1. stack \in Seq(S) /\ more \in Seq(S) /\ Len(more) = 4 /\ Len(stack) \in Nat
    <3>1. stack \in Seq(S)
      BY SeqMonotonic DEF StackOK, IsSequence
    <3> QED BY <3>1, LenProperties
  <2>2. \A i \in 1..4 : more[i].is \in Kinds
    BY <1>1
  <2> HIDE DEF more
  <2>3. /\ Len(stack') = Len(stack) + 4
        /\ \A i \in 1..Len(stack) : stack'[i] = stack[i]
        /\ \A i \in (Len(stack) + 1)..(Len(stack) + 4) : stack'[i] = more[i - Len(stack)]
    BY <1>3, <2>1, ConcatProperties DEF more
  <2>4. \A i \in (Len(stack) + 1)..(Len(stack) + 4) : i - Len(stack) \in 1..4
    BY <2>1
  <2>5. ASSUME NEW i \in 1..(Len(stack) + 4) PROVE stack'[i].is \in Kinds
    <3>1. CASE i \in 1..Len(stack)
      BY <2>3, <3>1 DEF AllValues
    <3>2. CASE i \in (Len(stack) + 1)..(Len(stack) + 4)
      BY <2>2, <2>3, <2>4, <3>2
    <3> QED BY <2>1, <3>1, <3>2
  <2> QED BY <2>3, <2>5 DEF AllValues
<1> QED BY <1>2, <1>3 DEF lscmd, Overruns, lua

LEMMA ValuesStep == ASSUME StackOK, AllValues(stack), [Next]_vars PROVE AllValues(stack')
<1>1. CASE stack' = stack
  BY <1>1
<1>2. ASSUME NEW name \in Asked, ducq_dispatch(name)
      PROVE  AllValues(stack')
  <2>1. CASE name = Lscmd
    <3>1. lscmd
      BY <1>2, <2>1 DEF ducq_dispatch, Runs
    <3> QED BY <3>1, ListingPushesValues
  <2>2. CASE name # Lscmd /\ name \in Range(cmds)
    BY <1>2, <2>2 DEF ducq_dispatch, Runs, lua
  <2>3. CASE name # Lscmd /\ name \notin Range(cmds)
    <3> DEFINE f == _find_lua_command(stack, name)
    <3>1. /\ GrownBy(stack, f, 3) /\ Last(f) = Found(name) /\ AllValues(f)
          /\ (Found(name).is = "function" => Len(f) = Len(stack) + 3)
      BY Lookup, LookupPushesValues DEF StackOK
    <3> HIDE DEF f
    <3>2. \/ stack' = stack
          \/ Found(name).is = "function" /\ stack' = lua_command(f)
          \/ stack' = f
      BY <1>2, <2>3, <3>1 DEF ducq_dispatch, Runs, Overruns, lua, f
    <3>3. CASE Found(name).is = "function" /\ stack' = lua_command(f)
      BY <3>1, <3>3, CallLeavesValues DEF StackOK
    <3> QED BY <3>1, <3>2, <3>3
  <2> QED BY <2>1, <2>2, <2>3
<1>3. stack' = stack \/ \E name \in Asked : ducq_dispatch(name)
  BY StackSteps DEF StackStep, Asked
<1> QED BY <1>1, <1>2, <1>3

LEMMA TypeInvInit == Init => TypeInv
<1> SUFFICES ASSUME Init PROVE TypeInv
  OBVIOUS
<1>1. RoomSuffices /\ QueueBounded
  BY EmptySeq DEF Init, RoomSuffices, QueueBounded
<1>2. SlotsAreOfWatches /\ skipped \subseteq Scripts
  BY DEF Init, SlotsAreOfWatches, Slots
<1>3. StackOK /\ AllValues(stack)
  BY EmptySeq DEF Init, StackOK, IsSequence, AllValues
<1> QED BY <1>1, <1>2, <1>3 DEF TypeInv

LEMMA TypeInvNext == IInv /\ TypeInv /\ [Next]_vars => TypeInv'
<1> SUFFICES ASSUME IInv, TypeInv, [Next]_vars PROVE TypeInv'
  OBVIOUS
<1>1. StackOK'
  BY StackSteps DEF TypeInv, StackStep, GrownBy, StackOK, IsSequence
<1> QED BY <1>1, RoomStep, QueueStep, SlotsStep, ValuesStep DEF TypeInv

\* Every variable has its type: the commands loaded fit the room made for them
\* although objects may be installed between the two passes
\* (dispatcher.c:192-207), the queue holds one event more than it may at most,
\* and the Lua stack holds nothing but Lua values.
THEOREM TypeCorrect == Spec => []TypeOK
<1>1. IInv /\ TypeInv => TypeOK
  <2> SUFFICES ASSUME IInv, TypeInv PROVE TypeOK
    OBVIOUS
  <2>1. \A s \in Scripts : files[s] \in Files
    BY DEF IInv, FilesTypeOK
  <2>2. \A i \in 1..Len(stack) : stack[i].is \in {"nil", "message", "commands", "table", "function"}
    BY DEF TypeInv, AllValues, Kinds
  <2> QED BY <2>1, <2>2 DEF TypeOK, IInv, FilesTypeOK, States, TypeInv, RoomSuffices, QueueBounded,
                SlotsAreOfWatches, Slots
<1> QED BY <1>1, InitOK, NextOK, TypeInvInit, TypeInvNext, PTL DEF Spec
=============================================================================
