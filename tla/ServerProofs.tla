---------------------------- MODULE ServerProofs ----------------------------
(***************************************************************************)
(* What the runs check of the server, for any number of slots, peers,      *)
(* addresses, routes and listeners, in three parts.                        *)
(*                                                                         *)
(* The connection table stays sound: no ducq_i is leaked, freed twice or   *)
(* shared, and a subscription never goes to a slot that still holds the    *)
(* pointer of a client that left.                                          *)
(*                                                                         *)
(* The countdown of a round never ends it early, and the loop reads only   *)
(* where there is something to read, but for a reused descriptor.          *)
(*                                                                         *)
(* Every step is one that PubSub promises.                                 *)
(***************************************************************************)
EXTENDS Server, LeastNumber, FiniteSetTheorems, SequenceTheorems, TLAPS

\* The accept callback of a server is no ducq_i.
ServersHoldNoDucq ==
  \A k \in Slots : Live(conns, k) /\ conns[k].type # "client" => conns[k].ducq = NULL

\* A connection waits once in the backlog, and is not accepted yet.
WaitingAreNew ==
  /\ \A k \in Slots : \A n \in 1..Len(backlog[k]) : backlog[k][n] \notin Accepted
  /\ \A k \in Slots : \A n \in 1..Len(backlog[k]) :
       \A j \in Slots : \A m \in 1..Len(backlog[j]) :
         backlog[j][m] = backlog[k][n] => j = k /\ m = n

\* The inductive invariant.  OwnSlotFirst needs TableMatchesHeap, since a new
\* client must not get the address of one that is connected; the peers of
\* TableMatchesHeap are distinct because those that wait are.
TableInv == /\ conns \in Tables
            /\ obj \in [Ducqs -> Peers \cup {NoPeer}]
            /\ backlog \in [Slots -> Seq(Peers)]
            /\ TableMatchesHeap
            /\ OwnSlotFirst
            /\ ServersHoldNoDucq
            /\ WaitingAreNew

IInv == TypeOK /\ TableInv

\* t is the table, but for its routes
SameButRoutes(t) ==
  /\ t \in Tables
  /\ \A k \in Slots : /\ t[k].fd = conns[k].fd
                      /\ t[k].type = conns[k].type
                      /\ t[k].ducq = conns[k].ducq

-----------------------------------------------------------------------------
LEMMA TableItself == conns \in Tables => SameButRoutes(conns)
BY DEF SameButRoutes

LEMMA SetRouteKeepsTheRest ==
  ASSUME conns \in Tables, NEW d, NEW r \in Routes
  PROVE  SameButRoutes(SetRoute(conns, d, r))
<1> DEFINE t == SetRoute(conns, d, r)
<1>1. ASSUME NEW k \in Slots
      PROVE  /\ t[k] \in Connection
             /\ t[k].fd = conns[k].fd /\ t[k].type = conns[k].type /\ t[k].ducq = conns[k].ducq
  <2>1. conns[k] \in Connection
    BY DEF Tables
  <2>2. CASE HoldsFirst(conns, k, d)
    <3>1. t[k] = [conns[k] EXCEPT !.route = r]
      BY <2>2 DEF SetRoute
    <3> QED BY <3>1, <2>1 DEF Connection
  <2>3. CASE ~HoldsFirst(conns, k, d)
    <3>1. t[k] = conns[k]
      BY <2>3 DEF SetRoute
    <3> QED BY <3>1, <2>1
  <2> QED BY <2>2, <2>3
<1>2. t \in Tables
  BY <1>1 DEF Tables, SetRoute
<1> QED BY <1>1, <1>2 DEF SameButRoutes

LEMMA SameClients ==
  ASSUME NEW t, SameButRoutes(t)
  PROVE  LiveClients(t) = LiveClients(conns)
BY DEF SameButRoutes, LiveClients, LiveClient, Live

\* The log deletes only clients that are connected.
LEMMA LossesAreClients ==
  ASSUME NEW t, SameButRoutes(t), NEW S, NEW L \in LogLosses(t, S)
  PROVE  L \subseteq LiveClients(conns)
BY SameClients DEF LogLosses

\* A connected client's ducq_i is that of one peer, and of no other client.
LEMMA ClientsAreDistinct ==
  ASSUME TableInv
  PROVE  /\ \A k \in LiveClients(conns) :
              conns[k].ducq \in Ducqs /\ PeerAt(k) = obj[conns[k].ducq] /\ PeerAt(k) \in Peers
         /\ \A j, k \in LiveClients(conns) : j # k => conns[j].ducq # conns[k].ducq
BY DEF TableInv, TableMatchesHeap, PeerAt

\* What Release leaves of slot k
LEMMA ReleaseSlot ==
  ASSUME NEW t, SameButRoutes(t), NEW gone, NEW k \in Slots
  PROVE  LET u == Release(t, gone)
         IN  /\ u[k] \in Connection
             /\ u[k].type = conns[k].type /\ u[k].ducq = conns[k].ducq
             /\ u[k].fd = IF k \in gone THEN NoFd ELSE conns[k].fd
<1> DEFINE u == Release(t, gone)
<1>1. t[k] \in Connection
  BY DEF SameButRoutes, Tables
<1>2. CASE k \in gone
  <2>1. u[k] = [t[k] EXCEPT !.fd = NoFd]
    BY <1>2 DEF Release
  <2> QED BY <2>1, <1>1, <1>2 DEF SameButRoutes, Connection
<1>3. CASE k \notin gone
  <2>1. u[k] = t[k]
    BY <1>3 DEF Release
  <2> QED BY <2>1, <1>1, <1>3 DEF SameButRoutes
<1> QED BY <1>2, <1>3

\* Deleting clients, in a table whose routes may have changed, keeps it sound.
LEMMA DropKeepsTable ==
  ASSUME TableInv, NEW t, SameButRoutes(t),
         NEW gone, gone \subseteq LiveClients(conns),
         Drop(t, gone), backlog' = backlog
  PROVE  TableInv'
<1>1. \A k \in Slots : /\ conns'[k] \in Connection
                       /\ conns'[k].type = conns[k].type
                       /\ conns'[k].ducq = conns[k].ducq
                       /\ conns'[k].fd = IF k \in gone THEN NoFd ELSE conns[k].fd
  BY ReleaseSlot DEF Drop
<1>2. conns' \in Tables
  BY <1>1 DEF Drop, Release, Tables
<1>3. \A k \in Slots : Live(conns, k)' <=> Live(conns, k) /\ k \notin gone
  BY <1>1 DEF Live
<1>4. LiveClients(conns)' = LiveClients(conns) \ gone
  BY <1>1, <1>3 DEF LiveClients, LiveClient
<1>5. obj' = [a \in Ducqs |-> IF a \in {t[k].ducq : k \in gone} THEN NoPeer ELSE obj[a]]
  BY DEF Drop
<1>6. {t[k].ducq : k \in gone} = {conns[k].ducq : k \in gone}
  <2>1. \A k \in gone : t[k].ducq = conns[k].ducq
    BY DEF SameButRoutes, LiveClients
  <2> QED BY <2>1
<1>7. obj' \in [Ducqs -> Peers \cup {NoPeer}]
  BY <1>5 DEF TableInv
<1>8. \A k \in LiveClients(conns) \ gone :
        /\ k \in Slots
        /\ conns'[k].ducq = conns[k].ducq
        /\ obj'[conns[k].ducq] = obj[conns[k].ducq]
        /\ PeerAt(k)' = PeerAt(k)
  <2> SUFFICES ASSUME NEW k \in LiveClients(conns) \ gone
               PROVE  /\ k \in Slots
                      /\ conns'[k].ducq = conns[k].ducq
                      /\ obj'[conns[k].ducq] = obj[conns[k].ducq]
                      /\ PeerAt(k)' = PeerAt(k)
    OBVIOUS
  <2>1. k \in Slots
    BY DEF LiveClients
  <2>2. conns[k].ducq \in Ducqs /\ conns[k].ducq \notin {conns[j].ducq : j \in gone}
    BY ClientsAreDistinct
  <2>3. obj'[conns[k].ducq] = obj[conns[k].ducq]
    BY <2>2, <1>5, <1>6
  <2> QED BY <2>1, <2>3, <1>1 DEF PeerAt
<1>9. TableMatchesHeap'
  <2>1. \A k \in LiveClients(conns)' : conns'[k].ducq \in Ducqs /\ PeerAt(k)' # NoPeer
    BY <1>4, <1>8 DEF TableInv, TableMatchesHeap
  <2>2. \A j, k \in LiveClients(conns)' : j # k => PeerAt(j)' # PeerAt(k)'
    BY <1>4, <1>8 DEF TableInv, TableMatchesHeap
  <2>3. \A j, k \in Slots :
          j # k /\ Live(conns, j)' /\ Live(conns, k)' => conns'[j].fd # conns'[k].fd
    BY <1>1, <1>3 DEF TableInv, TableMatchesHeap
  <2>4. ASSUME NEW a \in Ducqs, obj'[a] # NoPeer
        PROVE  \E k \in LiveClients(conns)' : conns'[k].ducq = a
    <3>1. a \notin {conns[k].ducq : k \in gone} /\ obj[a] # NoPeer
      BY <2>4, <1>5, <1>6
    <3>2. PICK k \in LiveClients(conns) : conns[k].ducq = a
      BY <3>1 DEF TableInv, TableMatchesHeap
    <3> QED BY <3>1, <3>2, <1>4, <1>8
  <2> QED BY <2>1, <2>2, <2>3, <2>4 DEF TableMatchesHeap
<1>10. OwnSlotFirst'
  <2>1. \A k \in LiveClients(conns) : HoldsFirst(conns, k, conns[k].ducq)
    BY DEF TableInv, OwnSlotFirst
  <2>2. ASSUME NEW k \in LiveClients(conns) \ gone
        PROVE  HoldsFirst(conns', k, conns'[k].ducq)
    <3>1. HoldsFirst(conns, k, conns[k].ducq)
      BY <2>1
    <3>2. k \in Slots /\ \A j \in 1..(k - 1) : j \in Slots
      BY <3>1, ConnectionsAssumption DEF HoldsFirst, Slots
    <3>3. \A j \in 1..(k - 1) : conns'[j].ducq = conns[j].ducq
      BY <3>2, <1>1
    <3> QED BY <3>1, <3>2, <3>3, <1>1 DEF HoldsFirst
  <2> QED BY <2>2, <1>4 DEF OwnSlotFirst
<1>11. ServersHoldNoDucq'
  BY <1>1, <1>3 DEF ServersHoldNoDucq, TableInv
<1>12. WaitingAreNew'
  <2>1. Accepted' \subseteq Accepted
    BY <1>4, <1>8 DEF Accepted
  <2> QED BY <2>1 DEF WaitingAreNew, TableInv
<1> QED BY <1>2, <1>7, <1>9, <1>10, <1>11, <1>12 DEF TableInv

LEMMA FreshFdIsNew ==
  ASSUME NEW f, FreshFd(f)
  PROVE  f \in Nat /\ \A k \in Slots : Live(conns, k) => conns[k].fd # f
BY DEF FreshFd, OpenFds

LEMMA AddServerKeepsTable ==
  ASSUME TableInv, NEW k \in Slots, NEW f, FirstFree(conns, k), FreshFd(f),
         conns' = AddServer(conns, k, f, "listener"), UNCHANGED <<obj, backlog>>
  PROVE  TableInv'
<1>0. TableMatchesHeap /\ OwnSlotFirst /\ ServersHoldNoDucq /\ WaitingAreNew
  BY DEF TableInv
<1>1. f \in Nat /\ \A j \in Slots : Live(conns, j) => conns[j].fd # f
  BY FreshFdIsNew
<1>2. \A j \in Slots : conns[j] \in Connection
  BY DEF TableInv, Tables
<1>3. /\ conns'[k] = [fd |-> f, type |-> "listener", ducq |-> NULL, route |-> EmptyRoute]
      /\ \A j \in Slots : j # k => conns'[j] = conns[j]
      /\ DOMAIN conns' = Slots
  BY DEF AddServer, TableInv, Tables
<1>4. conns' \in Tables
  <2>1. conns'[k] \in Connection
    BY <1>1, <1>3, RoutingAssumption DEF Connection
  <2>2. conns' = [j \in Slots |-> conns'[j]]
    BY DEF AddServer, TableInv, Tables
  <2> QED BY <2>1, <2>2, <1>2, <1>3 DEF Tables
<1>5. ~Live(conns, k) /\ Live(conns, k)' /\ \A j \in Slots : j # k => (Live(conns, j)' <=> Live(conns, j))
  BY <1>1, <1>3 DEF FirstFree, Live, NoFd
<1>6. LiveClients(conns)' = LiveClients(conns) /\ k \notin LiveClients(conns)
  BY <1>3, <1>5 DEF LiveClients, LiveClient
<1>7. \A j \in LiveClients(conns) :
        j \in Slots /\ j # k /\ conns'[j] = conns[j] /\ PeerAt(j)' = PeerAt(j)
  BY <1>3, <1>6 DEF LiveClients, PeerAt
<1>8. TableMatchesHeap'
  <2>1. \A j \in LiveClients(conns)' : conns'[j].ducq \in Ducqs /\ PeerAt(j)' # NoPeer
    BY <1>0, <1>6, <1>7 DEF TableMatchesHeap
  <2>2. \A i, j \in LiveClients(conns)' : i # j => PeerAt(i)' # PeerAt(j)'
    BY <1>0, <1>6, <1>7 DEF TableMatchesHeap
  <2>3. \A i, j \in Slots :
          i # j /\ Live(conns, i)' /\ Live(conns, j)' => conns'[i].fd # conns'[j].fd
    BY <1>0, <1>1, <1>3, <1>5 DEF TableMatchesHeap
  <2>4. \A a \in Ducqs :
          obj'[a] # NoPeer => \E j \in LiveClients(conns)' : conns'[j].ducq = a
    BY <1>0, <1>6, <1>7 DEF TableMatchesHeap
  <2> QED BY <2>1, <2>2, <2>3, <2>4 DEF TableMatchesHeap
<1>9. OwnSlotFirst'
  <2> SUFFICES ASSUME NEW j \in LiveClients(conns)
               PROVE  HoldsFirst(conns', j, conns'[j].ducq)
    BY <1>6 DEF OwnSlotFirst
  <2>1. j \in Slots /\ conns'[j] = conns[j] /\ HoldsFirst(conns, j, conns[j].ducq)
    BY <1>7 DEF TableInv, OwnSlotFirst
  <2>2. conns[j].ducq \in Ducqs /\ conns'[k].ducq = NULL
    BY ClientsAreDistinct, <1>3
  <2>3. \A i \in 1..(j - 1) : i \in Slots
    BY <2>1, ConnectionsAssumption DEF Slots
  <2>4. \A i \in 1..(j - 1) : conns'[i].ducq # conns[j].ducq
    BY <2>1, <2>2, <2>3, <1>3, ConnectionsAssumption DEF HoldsFirst
  <2> QED BY <2>1, <2>4 DEF HoldsFirst
<1>10. ServersHoldNoDucq'
  BY <1>0, <1>3, <1>5 DEF ServersHoldNoDucq
<1>11. WaitingAreNew'
  <2>1. Accepted' = Accepted
    BY <1>6, <1>7 DEF Accepted
  <2> QED BY <2>1 DEF WaitingAreNew, TableInv
<1> QED BY <1>4, <1>8, <1>9, <1>10, <1>11 DEF TableInv

\* A queue loses its head.
LEMMA TailShifts ==
  ASSUME NEW q \in Seq(Peers), q # <<>>
  PROVE  /\ Tail(q) \in Seq(Peers)
         /\ Head(q) = q[1] /\ 1 \in 1..Len(q) /\ Head(q) \in Peers
         /\ \A n \in 1..Len(Tail(q)) : n + 1 \in 2..Len(q) /\ Tail(q)[n] = q[n + 1]
OBVIOUS

LEMMA HeadLeaves ==
  ASSUME TableInv, NEW k \in Slots, backlog[k] # <<>>,
         backlog' = [backlog EXCEPT ![k] = Tail(backlog[k])]
  PROVE  /\ Head(backlog[k]) \in Peers \ Accepted
         /\ backlog' \in [Slots -> Seq(Peers)]
         /\ \A j \in Slots : \A n \in 1..Len(backlog'[j]) :
              backlog'[j][n] \notin Accepted /\ backlog'[j][n] # Head(backlog[k])
         /\ \A j \in Slots : \A n \in 1..Len(backlog'[j]) :
              \A i \in Slots : \A m \in 1..Len(backlog'[i]) :
                backlog'[i][m] = backlog'[j][n] => i = j /\ m = n
<1> DEFINE q == backlog[k]
           At(j, n) == IF j = k THEN n + 1 ELSE n
<1>1. backlog \in [Slots -> Seq(Peers)] /\ q \in Seq(Peers)
  BY DEF TableInv
<1>2. /\ Tail(q) \in Seq(Peers)
      /\ Head(q) = q[1] /\ 1 \in 1..Len(q) /\ Head(q) \in Peers
      /\ \A n \in 1..Len(Tail(q)) : n + 1 \in 2..Len(q) /\ Tail(q)[n] = q[n + 1]
  BY <1>1, TailShifts
<1>3. /\ backlog' \in [Slots -> Seq(Peers)]
      /\ \A j \in Slots : backlog'[j] = IF j = k THEN Tail(q) ELSE backlog[j]
  BY <1>1, <1>2
<1>4. ASSUME NEW j \in Slots, NEW n \in 1..Len(backlog'[j])
      PROVE  /\ At(j, n) \in 1..Len(backlog[j]) /\ backlog'[j][n] = backlog[j][At(j, n)]
             /\ ~(j = k /\ At(j, n) = 1)
  <2>1. CASE j = k
    <3>1. backlog'[j] = Tail(q) /\ backlog[j] = q
      BY <1>3, <2>1
    <3>2. n \in 1..Len(Tail(q))
      BY <3>1
    <3>3. n + 1 \in 2..Len(q) /\ Tail(q)[n] = q[n + 1]
      BY <1>2, <3>2
    <3>4. n + 1 \in 1..Len(q) /\ n + 1 # 1
      <4>1. Len(q) \in Nat
        BY <1>1, LenProperties
      <4> QED BY <3>3, <4>1
    <3> QED BY <2>1, <3>1, <3>3, <3>4
  <2>2. CASE j # k
    BY <1>3, <2>2
  <2> QED BY <2>1, <2>2
<1>5. WaitingAreNew
  BY DEF TableInv
<1>6. ASSUME NEW j \in Slots, NEW n \in 1..Len(backlog'[j])
      PROVE  backlog'[j][n] \notin Accepted /\ backlog'[j][n] # q[1]
  BY <1>2, <1>4, <1>5 DEF WaitingAreNew
<1>7. ASSUME NEW j \in Slots, NEW n \in 1..Len(backlog'[j]),
             NEW i \in Slots, NEW m \in 1..Len(backlog'[i]), backlog'[i][m] = backlog'[j][n]
      PROVE  i = j /\ m = n
  <2>1. i = j /\ At(i, m) = At(j, n)
    <3>1. backlog[i][At(i, m)] = backlog[j][At(j, n)]
      BY <1>4, <1>7
    <3>2. At(i, m) \in 1..Len(backlog[i]) /\ At(j, n) \in 1..Len(backlog[j])
      BY <1>4
    <3> QED BY <1>5, <3>1, <3>2 DEF WaitingAreNew
  <2> QED BY <2>1
<1>8. q[1] \notin Accepted
  BY <1>2, <1>5 DEF WaitingAreNew
<1>9. Head(q) \in Peers \ Accepted /\ Head(q) = q[1]
  BY <1>2, <1>8
<1>10. \A j \in Slots : \A n \in 1..Len(backlog'[j]) :
         backlog'[j][n] \notin Accepted /\ backlog'[j][n] # Head(q)
  BY <1>6, <1>9
<1>11. \A j \in Slots : \A n \in 1..Len(backlog'[j]) :
         \A i \in Slots : \A m \in 1..Len(backlog'[i]) :
         backlog'[i][m] = backlog'[j][n] => i = j /\ m = n
  BY <1>7
<1> QED BY <1>3, <1>9, <1>10, <1>11

LEMMA AddClientKeepsTable ==
  ASSUME TableInv, NEW s \in Slots, NEW f, FirstFree(conns, s), FreshFd(f),
         NEW a \in Ducqs, obj[a] = NoPeer, NEW l \in Slots, backlog[l] # <<>>,
         conns' = AddClient(conns, s, f, a),
         obj' = [obj EXCEPT ![a] = Head(backlog[l])],
         backlog' = [backlog EXCEPT ![l] = Tail(backlog[l])]
  PROVE  TableInv'
<1> DEFINE p == Head(backlog[l])
<1>0. TableMatchesHeap /\ OwnSlotFirst /\ ServersHoldNoDucq /\ WaitingAreNew
  BY DEF TableInv
<1>1. f \in Nat /\ \A j \in Slots : Live(conns, j) => conns[j].fd # f
  BY FreshFdIsNew
<1>2. \A j \in Slots : conns[j] \in Connection
  BY DEF TableInv, Tables
<1>3. /\ conns'[s] = [fd |-> f, type |-> "client", ducq |-> a, route |-> EmptyRoute]
      /\ \A j \in Slots : j # s => conns'[j] = conns[j]
  BY DEF AddClient, TableInv, Tables
<1>4. conns' \in Tables
  <2>1. conns'[s] \in Connection
    BY <1>1, <1>3, RoutingAssumption DEF Connection
  <2>2. conns' = [j \in Slots |-> conns'[j]]
    BY DEF AddClient, TableInv, Tables
  <2> QED BY <2>1, <2>2, <1>2, <1>3 DEF Tables
<1>5. ~Live(conns, s) /\ Live(conns, s)' /\ \A j \in Slots : j # s => (Live(conns, j)' <=> Live(conns, j))
  BY <1>1, <1>3 DEF FirstFree, Live, NoFd
<1>6. LiveClients(conns)' = LiveClients(conns) \cup {s} /\ s \notin LiveClients(conns)
  BY <1>3, <1>5 DEF LiveClients, LiveClient
<1>7. /\ p \in Peers \ Accepted
      /\ backlog' \in [Slots -> Seq(Peers)]
      /\ \A j \in Slots : \A n \in 1..Len(backlog'[j]) :
           backlog'[j][n] \notin Accepted /\ backlog'[j][n] # p
      /\ \A j \in Slots : \A n \in 1..Len(backlog'[j]) :
           \A i \in Slots : \A m \in 1..Len(backlog'[i]) :
             backlog'[i][m] = backlog'[j][n] => i = j /\ m = n
  BY HeadLeaves
<1>8. obj' \in [Ducqs -> Peers \cup {NoPeer}] /\ obj'[a] = p
      /\ \A b \in Ducqs : b # a => obj'[b] = obj[b]
  BY <1>7 DEF TableInv
<1>9. \A j \in LiveClients(conns) :
        /\ j \in Slots /\ j # s /\ conns'[j] = conns[j]
        /\ conns[j].ducq \in Ducqs /\ conns[j].ducq # a
        /\ PeerAt(j)' = PeerAt(j) /\ PeerAt(j) # p
  <2> SUFFICES ASSUME NEW j \in LiveClients(conns)
               PROVE  /\ j \in Slots /\ j # s /\ conns'[j] = conns[j]
                      /\ conns[j].ducq \in Ducqs /\ conns[j].ducq # a
                      /\ PeerAt(j)' = PeerAt(j) /\ PeerAt(j) # p
    OBVIOUS
  <2>1. j \in Slots /\ j # s /\ conns'[j] = conns[j]
    BY <1>3, <1>6 DEF LiveClients
  <2>2. conns[j].ducq \in Ducqs /\ conns[j].ducq # a
    BY ClientsAreDistinct, ReactorAssumption
  <2>3. PeerAt(j)' = PeerAt(j)
    BY <2>1, <2>2, <1>8 DEF PeerAt
  <2>4. PeerAt(j) # p
    BY <1>7 DEF Accepted
  <2> QED BY <2>1, <2>2, <2>3, <2>4
<1>10. PeerAt(s)' = p /\ conns'[s].ducq = a
  BY <1>3, <1>8 DEF PeerAt
<1>11. TableMatchesHeap'
  <2>1. \A k \in LiveClients(conns)' : conns'[k].ducq \in Ducqs /\ PeerAt(k)' # NoPeer
    <3>1. p \in Peers /\ NoPeer \notin Peers
      BY <1>7, ReactorAssumption
    <3>2. p # NoPeer
      BY <3>1
    <3> QED BY <1>0, <1>6, <1>9, <1>10, <3>2 DEF TableMatchesHeap
  <2>2. \A j, k \in LiveClients(conns)' : j # k => PeerAt(j)' # PeerAt(k)'
    BY <1>0, <1>6, <1>9, <1>10 DEF TableMatchesHeap
  <2>3. \A j, k \in Slots :
          j # k /\ Live(conns, j)' /\ Live(conns, k)' => conns'[j].fd # conns'[k].fd
    BY <1>0, <1>1, <1>3, <1>5 DEF TableMatchesHeap
  <2>4. \A b \in Ducqs :
          obj'[b] # NoPeer => \E k \in LiveClients(conns)' : conns'[k].ducq = b
    BY <1>0, <1>6, <1>8, <1>9, <1>10 DEF TableMatchesHeap
  <2> QED BY <2>1, <2>2, <2>3, <2>4 DEF TableMatchesHeap
<1>12. OwnSlotFirst'
  <2>1. ASSUME NEW j \in LiveClients(conns)
        PROVE  HoldsFirst(conns', j, conns'[j].ducq)
    <3>1. HoldsFirst(conns, j, conns[j].ducq)
      BY DEF TableInv, OwnSlotFirst
    <3>2. \A i \in 1..(j - 1) : i \in Slots
      BY <1>9, ConnectionsAssumption DEF Slots
    <3>3. \A i \in 1..(j - 1) : conns'[i].ducq # conns[j].ducq
      BY <3>1, <3>2, <1>3, <1>9, <1>10 DEF HoldsFirst
    <3> QED BY <3>1, <3>3, <1>9 DEF HoldsFirst
  <2>2. HoldsFirst(conns', s, a)
    \* every slot before s is live: a server, or a client with a ducq_i of its own
    <3> SUFFICES ASSUME NEW i \in 1..(s - 1)
                 PROVE  conns'[i].ducq # a
      BY <1>10 DEF HoldsFirst
    <3>1. i \in Slots /\ i # s /\ Live(conns, i)
      BY ConnectionsAssumption DEF FirstFree, Slots
    <3>2. CASE i \in LiveClients(conns)
      BY <3>2, <1>9
    <3>3. CASE i \notin LiveClients(conns)
      <4>1. conns[i].ducq = NULL
        BY <3>1, <3>3 DEF LiveClients, LiveClient, TableInv, ServersHoldNoDucq
      <4> QED BY <4>1, <3>1, <1>3, ConnectionsAssumption
    <3> QED BY <3>2, <3>3
  <2> QED BY <2>1, <2>2, <1>6, <1>10 DEF OwnSlotFirst
<1>13. ServersHoldNoDucq'
  BY <1>0, <1>3, <1>5 DEF ServersHoldNoDucq
<1>14. WaitingAreNew'
  <2>1. Accepted' = Accepted \cup {p}
    BY <1>6, <1>9, <1>10 DEF Accepted
  <2>2. \A j \in Slots : \A n \in 1..Len(backlog'[j]) : backlog'[j][n] \notin Accepted'
    BY <1>7, <2>1
  <2>3. \A j \in Slots : \A n \in 1..Len(backlog'[j]) : \A i \in Slots : \A m \in 1..Len(backlog'[i]) :
          backlog'[i][m] = backlog'[j][n] => i = j /\ m = n
    BY <1>7
  <2> QED BY <2>1, <2>2, <2>3 DEF WaitingAreNew
<1> QED BY <1>4, <1>7, <1>8, <1>11, <1>12, <1>13, <1>14 DEF TableInv

-----------------------------------------------------------------------------
\* The table when it is left alone, and the queue when it is left alone too,
\* gets a new peer, or loses its head.
LEMMA UntouchedKeepsTable ==
  ASSUME TableInv, UNCHANGED <<conns, obj, backlog>>
  PROVE  TableInv'
<1>1. \A k : Live(conns, k)' <=> Live(conns, k)
  BY DEF Live
<1>2. LiveClients(conns)' = LiveClients(conns) /\ \A k : PeerAt(k)' = PeerAt(k)
  BY DEF LiveClients, LiveClient, Live, PeerAt
<1>3. Accepted' = Accepted
  BY <1>2 DEF Accepted
<1>4. TableMatchesHeap' /\ OwnSlotFirst'
  BY <1>1, <1>2 DEF TableInv, TableMatchesHeap, OwnSlotFirst
<1>5. ServersHoldNoDucq' /\ WaitingAreNew'
  BY <1>1, <1>3 DEF TableInv, ServersHoldNoDucq, WaitingAreNew
<1> QED BY <1>4, <1>5 DEF TableInv

LEMMA QueueKeepsTable ==
  ASSUME TableInv, UNCHANGED <<conns, obj>>,
         \/ \E p \in Peers \ (Accepted \cup Backlog), k \in Slots :
              backlog' = [backlog EXCEPT ![k] = Append(backlog[k], p)]
         \/ \E k \in Slots :
              backlog[k] # <<>> /\ backlog' = [backlog EXCEPT ![k] = Tail(backlog[k])]
  PROVE  TableInv'
<1>1. \A k : Live(conns, k)' <=> Live(conns, k)
  BY DEF Live
<1>2. LiveClients(conns)' = LiveClients(conns) /\ \A k : PeerAt(k)' = PeerAt(k)
  BY DEF LiveClients, LiveClient, Live, PeerAt
<1>3. Accepted' = Accepted
  BY <1>2 DEF Accepted
<1>4. TableMatchesHeap' /\ OwnSlotFirst' /\ ServersHoldNoDucq'
  BY <1>1, <1>2 DEF TableInv, TableMatchesHeap, OwnSlotFirst, ServersHoldNoDucq
<1>5. backlog' \in [Slots -> Seq(Peers)] /\ WaitingAreNew'
  <2>1. ASSUME NEW k \in Slots, backlog[k] # <<>>,
               backlog' = [backlog EXCEPT ![k] = Tail(backlog[k])]
        PROVE  backlog' \in [Slots -> Seq(Peers)] /\ WaitingAreNew'
    <3>1. /\ Head(backlog[k]) \in Peers \ Accepted
          /\ backlog' \in [Slots -> Seq(Peers)]
          /\ \A j \in Slots : \A n \in 1..Len(backlog'[j]) :
               backlog'[j][n] \notin Accepted /\ backlog'[j][n] # Head(backlog[k])
          /\ \A j \in Slots : \A n \in 1..Len(backlog'[j]) :
               \A i \in Slots : \A m \in 1..Len(backlog'[i]) :
                 backlog'[i][m] = backlog'[j][n] => i = j /\ m = n
      BY <2>1, HeadLeaves
    <3> QED BY <1>3, <3>1 DEF WaitingAreNew
  <2>2. ASSUME NEW p \in Peers \ (Accepted \cup Backlog), NEW k \in Slots,
               backlog' = [backlog EXCEPT ![k] = Append(backlog[k], p)]
        PROVE  backlog' \in [Slots -> Seq(Peers)] /\ WaitingAreNew'
    <3> DEFINE q == backlog[k]
    <3>1. backlog \in [Slots -> Seq(Peers)] /\ q \in Seq(Peers) /\ Len(q) \in Nat
      BY LenProperties DEF TableInv
    <3>2. /\ Append(q, p) \in Seq(Peers) /\ Len(Append(q, p)) = Len(q) + 1
          /\ \A n \in 1..(Len(q) + 1) : Append(q, p)[n] = IF n <= Len(q) THEN q[n] ELSE p
      BY <3>1, AppendProperties
    <3>3. /\ backlog' \in [Slots -> Seq(Peers)]
          /\ \A j \in Slots : backlog'[j] = IF j = k THEN Append(q, p) ELSE backlog[j]
      BY <2>2, <3>1, <3>2
    <3>4. ASSUME NEW j \in Slots, NEW n \in 1..Len(backlog'[j])
          PROVE  \/ j = k /\ n = Len(q) + 1 /\ backlog'[j][n] = p
                 \/ n \in 1..Len(backlog[j]) /\ backlog'[j][n] = backlog[j][n]
      <4>1. CASE j = k
        <5>1. backlog'[j] = Append(q, p) /\ backlog[j] = q
          BY <3>3, <4>1
        <5>2. n \in 1..(Len(q) + 1)
          BY <3>2, <5>1
        <5>3. n = Len(q) + 1 \/ n \in 1..Len(q)
          BY <3>1, <5>2
        <5> QED BY <3>1, <3>2, <4>1, <5>1, <5>2, <5>3
      <4>2. CASE j # k
        BY <3>3, <4>2
      <4> QED BY <4>1, <4>2
    <3>5. \A j \in Slots : \A n \in 1..Len(backlog[j]) : backlog[j][n] # p
      BY <2>2 DEF Backlog
    <3>6. p \notin Accepted
      BY <2>2
    <3>7. WaitingAreNew
      BY DEF TableInv
    <3>8. ASSUME NEW j \in Slots, NEW n \in 1..Len(backlog'[j])
          PROVE  backlog'[j][n] \notin Accepted
      BY <3>4, <3>6, <3>7 DEF WaitingAreNew
    <3>9. ASSUME NEW j \in Slots, NEW n \in 1..Len(backlog'[j]),
                 NEW i \in Slots, NEW m \in 1..Len(backlog'[i]), backlog'[i][m] = backlog'[j][n]
          PROVE  i = j /\ m = n
      <4>1. CASE i = k /\ m = Len(q) + 1 /\ backlog'[i][m] = p
        BY <3>4, <3>5, <3>9, <4>1
      <4>2. CASE m \in 1..Len(backlog[i]) /\ backlog'[i][m] = backlog[i][m]
        <5>1. n \in 1..Len(backlog[j]) /\ backlog'[j][n] = backlog[j][n]
          BY <3>4, <3>5, <3>9, <4>2
        <5>2. backlog[i][m] = backlog[j][n]
          BY <3>9, <4>2, <5>1
        <5> QED BY <3>7, <4>2, <5>1, <5>2 DEF WaitingAreNew
      <4> QED BY <3>4, <4>1, <4>2
    <3> QED BY <1>3, <3>3, <3>8, <3>9 DEF WaitingAreNew
  <2> QED BY <2>1, <2>2
<1> QED BY <1>4, <1>5 DEF TableInv

-----------------------------------------------------------------------------
\* The types of what the handlers write besides the table.
LEMMA AdvanceTypes ==
  ASSUME TypeOK, NEW k \in Slots, Advance(k)
  PROVE  pos' \in Setup..(NSlots + 1) /\ nready' \in Nat /\ readfds' \in SUBSET Nat
<1>1. NSlots \in Nat /\ k \in 1..NSlots /\ nready \in Nat /\ readfds \in SUBSET Nat
  BY ConnectionsAssumption DEF TypeOK, Slots
<1>2. CASE nready - 1 <= 0
  BY <1>1, <1>2 DEF Advance, BackToSelect, AtSelect, Setup
<1>3. CASE ~(nready - 1 <= 0)
  <2>1. pos' = k + 1 /\ nready' = nready - 1 /\ readfds' = readfds
    BY <1>3 DEF Advance, Continue
  <2> QED BY <2>1, <1>1, <1>3 DEF Setup
<1> QED BY <1>2, <1>3

LEMMA ClosedTypes ==
  ASSUME TypeOK, NEW fds \in SUBSET Nat
  PROVE  ClosedAfter(fds) \in SUBSET Nat
BY DEF ClosedAfter, TypeOK

LEMMA DropTypes ==
  ASSUME TypeOK, NEW t, SameButRoutes(t), NEW gone, gone \subseteq LiveClients(conns),
         Drop(t, gone)
  PROVE  closed' \in SUBSET Nat /\ eof' \in [Peers -> BOOLEAN] /\ partial' \in [Peers -> BOOLEAN]
<1>1. \A k \in gone : t[k].fd \in Nat
  <2> SUFFICES ASSUME NEW k \in gone PROVE t[k].fd \in Nat
    OBVIOUS
  <2>1. k \in Slots /\ conns[k].fd # NoFd /\ conns[k].fd = t[k].fd
    BY DEF LiveClients, LiveClient, Live, SameButRoutes
  <2>2. conns[k] \in Connection
    BY <2>1 DEF TypeOK, Tables
  <2> QED BY <2>1, <2>2 DEF Connection
<1>2. {t[k].fd : k \in gone} \in SUBSET Nat
  BY <1>1
<1>3. closed' \in SUBSET Nat
  BY <1>2, ClosedTypes DEF Drop
<1>4. eof' \in [Peers -> BOOLEAN] /\ partial' \in [Peers -> BOOLEAN]
  BY DEF Drop, TypeOK
<1> QED BY <1>3, <1>4

\* The reader, if any, has a request to read, unless it is deleted.
LEMMA UnreadTypes ==
  ASSUME TypeOK, NEW gone, NEW reader,
         reader \in Peers => unread[reader] > 0 \/ reader \in {PeerAt(k) : k \in gone}
  PROVE  UnreadAfter(gone, reader) \in [Peers -> Nat]
<1>1. \A p \in Peers : unread[p] \in Nat
  BY DEF TypeOK
<1>2. ASSUME NEW p \in Peers
      PROVE  (IF p \in {PeerAt(k) : k \in gone} THEN 0
              ELSE IF p = reader THEN unread[p] - 1 ELSE unread[p]) \in Nat
  <2>1. unread[p] \in Nat
    BY <1>1
  <2> QED BY <2>1
<1> QED BY <1>2 DEF UnreadAfter

LEMMA SilentTypes == Silent \in [Peers -> Seq(Frames)]
BY DEF Silent

LEMMA ToTypes ==
  ASSUME NEW p, NEW frame \in Frames
  PROVE  To(p, frame) \in [Peers -> Seq(Frames)]
<1>1. <<frame>> \in Seq(Frames)
  OBVIOUS
<1> QED BY <1>1, SilentTypes DEF To

LEMMA SimpleFrames ==
  /\ Ack \in Frames /\ Nack \in Frames /\ <<"ACK_">> \in Frames
  /\ <<"PONG">> \in Frames /\ <<"TIME">> \in Frames /\ <<"COMMANDS">> \in Frames
BY DEF Frames

LEMMA MsgFrames ==
  ASSUME NEW r \in Routes, NEW m \in Msgs
  PROVE  Msg(r, m) \in Frames
BY DEF Frames

LEMMA ListFrames ==
  ASSUME TableInv, NEW S
  PROVE  Listing(S) \in Frames
<1> DEFINE L == {<<PeerAt(j), conns[j].route>> : j \in LiveClients(conns) \ S}
<1>1. ASSUME NEW j \in LiveClients(conns)
      PROVE  <<PeerAt(j), conns[j].route>> \in Peers \X Routes
  <2>1. PeerAt(j) \in Peers /\ j \in Slots
    BY ClientsAreDistinct DEF LiveClients
  <2>2. conns[j] \in Connection
    BY <2>1 DEF TableInv, Tables
  <2> QED BY <2>1, <2>2 DEF Connection
<1>2. L \in SUBSET (Peers \X Routes)
  BY <1>1
<1>3. Listing(S) = <<"LIST", L>>
  BY DEF Listing
<1> HIDE DEF L
<1>4. <<"LIST", L>> \in {<<"LIST", M>> : M \in SUBSET (Peers \X Routes)}
  BY <1>2
<1> QED BY <1>3, <1>4 DEF Frames

LEMMA LastFrames ==
  ASSUME LastMsgsTypeOK, NEW r \in Routes
  PROVE  LastFrame(r) \in Frames
<1>1. GetLastMsg(r) \in Msgs \cup {NoMsg, FullMsg}
  <2>1. CASE \E c \in Channels : First(c, r)
    <3> DEFINE c == CHOOSE d \in Channels : First(d, r)
    <3>1. c \in Channels
      BY <2>1
    <3> HIDE DEF c
    <3>2. GetLastMsg(r) = IF last_msgs[c].route = EmptyRoute THEN NoMsg ELSE last_msgs[c].msg
      BY <2>1 DEF GetLastMsg, c
    <3>3. last_msgs[c].msg \in Msgs \cup {NoMsg}
      BY <3>1 DEF LastMsgsTypeOK
    <3> QED BY <3>2, <3>3
  <2>2. CASE ~ \E c \in Channels : First(c, r)
    BY <2>2 DEF GetLastMsg
  <2> QED BY <2>1, <2>2
<1> QED BY <1>1, SimpleFrames, MsgFrames DEF LastFrame

LEMMA SetLastMsgTypes ==
  ASSUME LastMsgsTypeOK, NEW r \in Routes, NEW m \in Msgs, SetLastMsg(r, m)
  PROVE  LastMsgsTypeOK'
<1>1. CASE UNCHANGED last_msgs
  BY <1>1 DEF LastMsgsTypeOK
<1>2. ASSUME NEW c \in Channels, Write(c, r, m)
      PROVE  LastMsgsTypeOK'
  BY <1>2 DEF LastMsgsTypeOK, Write
<1> QED BY <1>1, <1>2 DEF SetLastMsg

-----------------------------------------------------------------------------
\* Every handler ends alike: the loop goes on, some slots are released, one
\* request is read.
LEMMA ServedKeepsInv ==
  ASSUME IInv, NEW k \in Slots, Client(k),
         NEW t, SameButRoutes(t), NEW gone, gone \subseteq LiveClients(conns),
         unread[PeerAt(k)] > 0 \/ k \in gone,
         Served(k, t, gone), LastMsgsTypeOK',
         out' \in [Peers -> Seq(Frames)], stale' \in BOOLEAN
  PROVE  IInv'
<1>1. TypeOK /\ TableInv
  BY DEF IInv
<1>2. TableInv'
  BY <1>1, DropKeepsTable DEF Served
<1>3. pos' \in Setup..(NSlots + 1) /\ nready' \in Nat /\ readfds' \in SUBSET Nat
  BY <1>1, AdvanceTypes DEF Served
<1>4. closed' \in SUBSET Nat /\ eof' \in [Peers -> BOOLEAN] /\ partial' \in [Peers -> BOOLEAN]
  BY <1>1, DropTypes DEF Served
<1>5. unread' \in [Peers -> Nat]
  <2>1. unread[PeerAt(k)] > 0 \/ PeerAt(k) \in {PeerAt(j) : j \in gone}
    OBVIOUS
  <2> QED BY <1>1, <2>1, UnreadTypes DEF Served
<1>6. notified' \in BOOLEAN
  BY <1>1 DEF Served, TypeOK
<1> QED BY <1>2, <1>3, <1>4, <1>5, <1>6 DEF IInv, TypeOK, TableInv

LEMMA ClientIsLive ==
  ASSUME NEW k \in Slots, Client(k)
  PROVE  k \in LiveClients(conns)
BY DEF Client, IsNext, Visitable, LiveClients, LiveClient

\* Losses of a log call made when the table was not changed yet.
LEMMA FirstLosses ==
  ASSUME TableInv, NEW S, NEW L \in LogLosses(conns, S)
  PROVE  L \subseteq LiveClients(conns)
BY TableItself, LossesAreClients DEF TableInv

LEMMA LogThenAnswerInv ==
  ASSUME IInv, NEW k \in Slots, NEW frame \in Frames, LogThenAnswer(k, frame)
  PROVE  IInv'
<1>1. TableInv /\ TypeOK /\ SameButRoutes(conns) /\ Client(k) /\ unread[PeerAt(k)] > 0
  BY TableItself DEF IInv, TableInv, LogThenAnswer, Receives
<1>2. PICK gone \in LogLosses(conns, {}), sent \in Sends(PeerAt(k)) :
        /\ Served(k, conns, gone)
        /\ out' = IF sent /\ k \notin gone THEN To(PeerAt(k), frame) ELSE Silent
        /\ stale' = (k \in gone)
  BY DEF LogThenAnswer
<1>3. gone \subseteq LiveClients(conns)
  BY <1>1, FirstLosses
<1>4. LastMsgsTypeOK'
  BY <1>1 DEF LogThenAnswer, TypeOK, LastMsgsTypeOK
<1>5. out' \in [Peers -> Seq(Frames)] /\ stale' \in BOOLEAN
  BY <1>2, SilentTypes, ToTypes
<1> QED BY <1>1, <1>2, <1>3, <1>4, <1>5, ServedKeepsInv

LEMMA AnswerThenLogInv ==
  ASSUME IInv, NEW k \in Slots, NEW frame \in Frames, AnswerThenLog(k, frame)
  PROVE  IInv'
<1>1. TableInv /\ TypeOK /\ SameButRoutes(conns) /\ Client(k) /\ unread[PeerAt(k)] > 0
  BY TableItself DEF IInv, TableInv, AnswerThenLog, Receives
<1>2. PICK gone \in LogLosses(conns, {}), sent \in Sends(PeerAt(k)) :
        /\ Served(k, conns, gone)
        /\ out' = IF sent THEN To(PeerAt(k), frame) ELSE Silent
  BY DEF AnswerThenLog
<1>3. gone \subseteq LiveClients(conns)
  BY <1>1, FirstLosses
<1>4. LastMsgsTypeOK'
  BY <1>1 DEF AnswerThenLog, TypeOK, LastMsgsTypeOK
<1>5. out' \in [Peers -> Seq(Frames)] /\ stale' \in BOOLEAN
  BY <1>2, SilentTypes, ToTypes DEF AnswerThenLog
<1> QED BY <1>1, <1>2, <1>3, <1>4, <1>5, ServedKeepsInv

LEMMA ListSubscriptionsInv ==
  ASSUME IInv, NEW k \in Slots, list_subscriptions(k)
  PROVE  IInv'
<1>1. TableInv /\ TypeOK /\ SameButRoutes(conns) /\ Client(k) /\ unread[PeerAt(k)] > 0
  BY TableItself DEF IInv, TableInv, list_subscriptions, Receives
<1>2. PICK gone \in LogLosses(conns, {}), sent \in Sends(PeerAt(k)) :
        /\ Served(k, conns, gone)
        /\ out' = IF sent /\ k \notin gone THEN To(PeerAt(k), Listing(gone)) ELSE Silent
        /\ stale' = (k \in gone)
  BY DEF list_subscriptions
<1>3. gone \subseteq LiveClients(conns)
  BY <1>1, FirstLosses
<1>4. LastMsgsTypeOK'
  BY <1>1 DEF list_subscriptions, TypeOK, LastMsgsTypeOK
<1>5. Listing(gone) \in Frames
  BY <1>1, ListFrames
<1>6. out' \in [Peers -> Seq(Frames)] /\ stale' \in BOOLEAN
  BY <1>2, <1>5, SilentTypes, ToTypes
<1> QED BY <1>1, <1>2, <1>3, <1>4, <1>6, ServedKeepsInv

LEMMA PubInv ==
  ASSUME IInv, NEW k \in Slots, NEW r \in Routes, NEW m \in Msgs, pub(k, r, m)
  PROVE  IInv'
<1>1. TableInv /\ TypeOK /\ SameButRoutes(conns) /\ Client(k) /\ unread[PeerAt(k)] > 0
  BY TableItself DEF IInv, TableInv, pub, Receives
<1>2. LastMsgsTypeOK'
  BY <1>1, SetLastMsgTypes DEF pub, TypeOK
<1>3. k \in LiveClients(conns)
  BY <1>1, ClientIsLive
<1>4. ASSUME NEW L1 \in LogLosses(conns, {}), Served(k, conns, L1 \cup {k}), Quiet
      PROVE  IInv'
  <2>1. L1 \cup {k} \subseteq LiveClients(conns)
    BY <1>1, <1>3, FirstLosses
  <2>2. out' \in [Peers -> Seq(Frames)] /\ stale' \in BOOLEAN
    BY <1>4, SilentTypes DEF Quiet
  <2> QED BY <1>1, <1>2, <1>4, <2>1, <2>2, ServedKeepsInv
<1>5. ASSUME NEW L1 \in LogLosses(conns, {}),
             NEW F \in SUBSET Deletable(Subscribers(r) \ L1),
             NEW L2 \in LogLosses(conns, L1 \cup F),
             Served(k, conns, L1 \cup F \cup L2),
             out' = [p \in Peers |->
                       (IF p = PeerAt(k) THEN <<Ack>> ELSE <<>>)
                       \o (IF p \in {PeerAt(j) : j \in Subscribers(r) \ (L1 \cup F)}
                           THEN <<Msg(r, m)>> ELSE <<>>)],
             stale' = (k \in L1 \cup F)
      PROVE  IInv'
  <2>1. L1 \subseteq LiveClients(conns) /\ L2 \subseteq LiveClients(conns)
    BY <1>1, FirstLosses
  <2>2. F \subseteq LiveClients(conns)
    BY DEF Deletable, Subscribers
  <2>3. L1 \cup F \cup L2 \subseteq LiveClients(conns)
    BY <2>1, <2>2
  <2>4. <<Ack>> \in Seq(Frames) /\ <<Msg(r, m)>> \in Seq(Frames) /\ <<>> \in Seq(Frames)
    BY SimpleFrames, MsgFrames
  <2>5. \A u, v \in Seq(Frames) : u \o v \in Seq(Frames)
    OBVIOUS
  <2>6. out' \in [Peers -> Seq(Frames)]
    BY <1>5, <2>4, <2>5
  <2>7. stale' \in BOOLEAN
    BY <1>5
  <2> QED BY <1>1, <1>2, <1>5, <2>3, <2>6, <2>7, ServedKeepsInv
<1> QED BY <1>4, <1>5 DEF pub

LEMMA SubInv ==
  ASSUME IInv, NEW k \in Slots, NEW r \in Routes, NEW last \in BOOLEAN, sub(k, r, last)
  PROVE  IInv'
<1> DEFINE t == SetRoute(conns, conns[k].ducq, r)
<1>1. TableInv /\ TypeOK /\ Client(k) /\ unread[PeerAt(k)] > 0
  BY DEF IInv, sub, Receives
<1>2. SameButRoutes(t)
  BY <1>1, SetRouteKeepsTheRest DEF TableInv
<1>3. PICK sent \in Sends(PeerAt(k)), L \in LogLosses(t, {}) :
        /\ Served(k, t, IF sent THEN L ELSE L \cup {k})
        /\ out' = IF sent THEN To(PeerAt(k), IF last THEN LastFrame(r) ELSE Ack) ELSE Silent
  BY DEF sub
<1> HIDE DEF t
<1>4. (IF sent THEN L ELSE L \cup {k}) \subseteq LiveClients(conns)
  BY <1>1, <1>2, ClientIsLive, LossesAreClients
<1>5. LastMsgsTypeOK'
  BY <1>1 DEF sub, TypeOK, LastMsgsTypeOK
<1>6. (IF last THEN LastFrame(r) ELSE Ack) \in Frames
  BY <1>1, SimpleFrames, LastFrames DEF TypeOK
<1>7. out' \in [Peers -> Seq(Frames)] /\ stale' \in BOOLEAN
  BY <1>3, <1>6, SilentTypes, ToTypes DEF sub
<1> QED BY <1>1, <1>2, <1>3, <1>4, <1>5, <1>7, ServedKeepsInv

LEMMA UnsubInv ==
  ASSUME IInv, NEW k \in Slots, NEW id \in Peers, unsub(k, id)
  PROVE  IInv'
<1>1. TableInv /\ TypeOK /\ SameButRoutes(conns) /\ Client(k) /\ unread[PeerAt(k)] > 0
  BY TableItself DEF IInv, TableInv, unsub, Receives
<1>2. PICK j \in Slots : HasId(j, id) /\ \E L \in LogLosses(conns, {j}), sent \in Sends(PeerAt(k)) :
        /\ Served(k, conns, L \cup {j})
        /\ out' = IF sent /\ k \notin L \cup {j} THEN To(PeerAt(k), Ack) ELSE Silent
        /\ stale' = (k \in L \cup {j})
  BY DEF unsub
<1>3. PICK L \in LogLosses(conns, {j}), sent \in Sends(PeerAt(k)) :
        /\ Served(k, conns, L \cup {j})
        /\ out' = IF sent /\ k \notin L \cup {j} THEN To(PeerAt(k), Ack) ELSE Silent
        /\ stale' = (k \in L \cup {j})
  BY <1>2
<1>4. L \cup {j} \subseteq LiveClients(conns)
  BY <1>1, <1>2, FirstLosses DEF HasId
<1>5. LastMsgsTypeOK'
  BY <1>1 DEF unsub, TypeOK, LastMsgsTypeOK
<1>6. out' \in [Peers -> Seq(Frames)] /\ stale' \in BOOLEAN
  BY <1>3, SilentTypes, ToTypes, SimpleFrames
<1> QED BY <1>1, <1>3, <1>4, <1>5, <1>6, ServedKeepsInv

\* The handlers that delete their own client, and those that answer nothing.
LEMMA RefusalInv ==
  ASSUME IInv, NEW k \in Slots,
         pubWithoutRoute(k) \/ Disconnect(k) \/ PONG(k) \/ Ignore(k)
  PROVE  IInv'
<1>1. TableInv /\ TypeOK /\ SameButRoutes(conns) /\ Client(k)
  BY TableItself DEF IInv, TableInv, pubWithoutRoute, Disconnect, PONG, Ignore, Receives
<1>2. LastMsgsTypeOK'
  BY <1>1 DEF pubWithoutRoute, Disconnect, PONG, Ignore, TypeOK, LastMsgsTypeOK
<1>3. k \in LiveClients(conns)
  BY <1>1, ClientIsLive
<1>4. CASE pubWithoutRoute(k) \/ Disconnect(k)
  <2>1. PICK sent \in Sends(PeerAt(k)), L \in LogLosses(conns, {}) :
          /\ Served(k, conns, L \cup {k})
          /\ out' = IF sent THEN To(PeerAt(k), Nack) ELSE Silent
    BY <1>4 DEF pubWithoutRoute, Disconnect
  <2>2. L \cup {k} \subseteq LiveClients(conns)
    BY <1>1, <1>3, FirstLosses
  <2>3. out' \in [Peers -> Seq(Frames)] /\ stale' \in BOOLEAN
    BY <1>4, <2>1, SilentTypes, ToTypes, SimpleFrames DEF pubWithoutRoute, Disconnect
  <2> QED BY <1>1, <1>2, <2>1, <2>2, <2>3, ServedKeepsInv
<1>5. CASE PONG(k) \/ Ignore(k)
  <2>1. PICK gone : gone \subseteq LiveClients(conns) /\ Served(k, conns, gone)
    BY <1>1, <1>5, FirstLosses DEF PONG, Ignore
  <2>2. unread[PeerAt(k)] > 0
    BY <1>5 DEF PONG, Ignore, Receives
  <2>3. out' \in [Peers -> Seq(Frames)] /\ stale' \in BOOLEAN
    BY <1>5, SilentTypes DEF PONG, Ignore, Quiet
  <2> QED BY <1>1, <1>2, <2>1, <2>2, <2>3, ServedKeepsInv
<1> QED BY <1>4, <1>5

LEMMA DispatchInv ==
  ASSUME IInv, NEW k \in Slots, Dispatch(k)
  PROVE  IInv'
<1>1. CASE PING(k) \/ epoch(k) \/ lscmd(k) \/ unknown(k)
  BY <1>1, LogThenAnswerInv, SimpleFrames DEF PING, epoch, lscmd, unknown
<1>2. CASE list_subscriptions(k)
  BY <1>2, ListSubscriptionsInv
<1>3. CASE lsconn(k) \/ subWithoutRoute(k)
  BY <1>3, AnswerThenLogInv, ListFrames, SimpleFrames DEF lsconn, subWithoutRoute, IInv
<1>4. CASE PONG(k) \/ pubWithoutRoute(k)
  BY <1>4, RefusalInv
<1>5. CASE \E r \in Routes, m \in Msgs : pub(k, r, m)
  BY <1>5, PubInv
<1>6. CASE \E r \in Routes, last \in BOOLEAN : sub(k, r, last)
  BY <1>6, SubInv
<1>7. CASE \E id \in Peers : unsub(k, id)
  BY <1>7, UnsubInv
<1>8. CASE \E id \in Peers : unsubNotFound(k, id)
  BY <1>8, LogThenAnswerInv, SimpleFrames DEF unsubNotFound
<1> QED BY <1>1, <1>2, <1>3, <1>4, <1>5, <1>6, <1>7, <1>8 DEF Dispatch

LEMMA AcceptNotifyInv ==
  ASSUME IInv, NEW k \in Slots, AcceptNotify(k)
  PROVE  IInv'
<1>1. TableInv /\ TypeOK /\ SameButRoutes(conns)
  BY TableItself DEF IInv, TableInv
<1>2. PICK gone \in LogLosses(conns, {}) : Drop(conns, gone) /\ unread' = UnreadAfter(gone, NoPeer)
  BY DEF AcceptNotify
<1>3. gone \subseteq LiveClients(conns)
  BY <1>1, FirstLosses
<1>4. TableInv'
  BY <1>1, <1>2, <1>3, DropKeepsTable DEF AcceptNotify
<1>5. closed' \in SUBSET Nat /\ eof' \in [Peers -> BOOLEAN] /\ partial' \in [Peers -> BOOLEAN]
  BY <1>1, <1>2, <1>3, DropTypes
<1>6. unread' \in [Peers -> Nat]
  BY <1>1, <1>2, UnreadTypes, ReactorAssumption
<1>7. pos' \in Setup..(NSlots + 1) /\ nready' \in Nat /\ readfds' \in SUBSET Nat
  BY <1>1, AdvanceTypes DEF AcceptNotify
<1>8. out' \in [Peers -> Seq(Frames)] /\ stale' \in BOOLEAN /\ notified' \in BOOLEAN
  BY SilentTypes DEF AcceptNotify, Quiet
<1>9. LastMsgsTypeOK'
  BY <1>1 DEF AcceptNotify, TypeOK, LastMsgsTypeOK
<1> QED BY <1>4, <1>5, <1>6, <1>7, <1>8, <1>9 DEF IInv, TypeOK, TableInv

LEMMA AcceptInv ==
  ASSUME IInv, NEW k \in Slots, Accept(k) \/ Reject(k)
  PROVE  IInv'
<1>1. TableInv /\ TypeOK
  BY DEF IInv
<1>2. TableInv'
  <2>1. CASE Accept(k)
    BY <2>1, <1>1, AddClientKeepsTable DEF Accept
  <2>2. CASE Reject(k)
    BY <2>2, <1>1, QueueKeepsTable DEF Reject
  <2> QED BY <2>1, <2>2
<1>3. pos' \in Setup..(NSlots + 1) /\ nready' \in Nat /\ readfds' \in SUBSET Nat
  BY <1>1, AdvanceTypes DEF Accept, Reject
<1>4. closed' \in SUBSET Nat
  BY <1>1, ClosedTypes DEF Accept, Reject
<1>5. /\ unread' \in [Peers -> Nat] /\ eof' \in [Peers -> BOOLEAN]
      /\ partial' \in [Peers -> BOOLEAN] /\ notified' \in BOOLEAN
  <2>1. CASE Accept(k)
    BY <2>1, <1>1 DEF Accept, TypeOK
  <2>2. CASE Reject(k)
    <3>1. unread' = [unread EXCEPT ![Head(backlog[k])] = 0]
          /\ eof' = [eof EXCEPT ![Head(backlog[k])] = FALSE] /\ notified' = notified
          /\ partial' = [partial EXCEPT ![Head(backlog[k])] = FALSE]
      BY <2>2 DEF Reject
    <3>2. /\ unread \in [Peers -> Nat] /\ eof \in [Peers -> BOOLEAN]
          /\ partial \in [Peers -> BOOLEAN] /\ notified \in BOOLEAN
      BY <1>1 DEF TypeOK
    <3> QED BY <3>1, <3>2
  <2> QED BY <2>1, <2>2
<1>6. out' \in [Peers -> Seq(Frames)] /\ stale' \in BOOLEAN
  BY SilentTypes DEF Accept, Reject, Quiet
<1>7. LastMsgsTypeOK'
  BY <1>1 DEF Accept, Reject, TypeOK, LastMsgsTypeOK
<1> QED BY <1>2, <1>3, <1>4, <1>5, <1>6, <1>7 DEF IInv, TypeOK, TableInv

\* select() reports as many descriptors as it counts.
LEMMA ReadyTypes ==
  ASSUME TypeOK
  PROVE  ReadyFds \in SUBSET Nat /\ IsFiniteSet(ReadyFds) /\ Cardinality(ReadyFds) \in Nat
<1> DEFINE D == {j \in Slots : Live(conns, j) /\ Readable(j)}
           f == [k \in D |-> conns[k].fd]
<1>1. \A k \in D : conns[k].fd \in Nat
  BY DEF TypeOK, Tables, Connection, Live
<1>2. ReadyFds \in SUBSET Nat
  BY <1>1 DEF ReadyFds
<1>3. IsFiniteSet(D)
  <2>1. IsFiniteSet(Slots)
    BY FS_Interval, ConnectionsAssumption DEF Slots
  <2>2. D \in SUBSET Slots
    OBVIOUS
  <2> QED BY <2>1, <2>2, FS_Subset
<1>4. f \in Surjection(D, ReadyFds)
  BY DEF Surjection, ReadyFds
<1>5. IsFiniteSet(ReadyFds)
  BY <1>3, <1>4, FS_Surjection
<1> QED BY <1>2, <1>5, FS_CardinalityType

\* The steps of the loop that visit no slot.
LEMMA LoopInv ==
  ASSUME IInv, AddListener \/ EnterLoop \/ SelectReturns \/ SelectFails \/ RoundEnds
  PROVE  IInv'
<1>1. TableInv /\ TypeOK /\ SameButRoutes(conns) /\ NSlots \in Nat \ {0}
  BY TableItself, ConnectionsAssumption DEF IInv, TableInv
<1>2. out' \in [Peers -> Seq(Frames)] /\ stale' \in BOOLEAN
  BY SilentTypes DEF AddListener, EnterLoop, SelectReturns, SelectFails, RoundEnds, Quiet
<1>3. LastMsgsTypeOK'
  BY <1>1 DEF AddListener, EnterLoop, SelectReturns, SelectFails, RoundEnds, TypeOK, LastMsgsTypeOK
<1>4. CASE AddListener
  <2>1. TableInv'
    BY <1>4, <1>1, AddServerKeepsTable DEF AddListener, kernel
  <2> QED BY <1>1, <1>2, <1>3, <1>4, <2>1 DEF IInv, TypeOK, TableInv, AddListener, kernel
<1>5. CASE EnterLoop \/ RoundEnds
  <2>1. TableInv'
    BY <1>5, <1>1, UntouchedKeepsTable DEF EnterLoop, RoundEnds, kernel
  <2>2. pos' = 0 /\ readfds' \in SUBSET Nat /\ nready' \in Nat /\ closed' \in SUBSET Nat
    <3>1. readfds \in SUBSET Nat /\ nready \in Nat /\ closed \in SUBSET Nat
      BY <1>1 DEF TypeOK
    <3>2. CASE EnterLoop
      BY <3>1, <3>2 DEF EnterLoop, AtSelect
    <3>3. CASE RoundEnds
      BY <3>3 DEF RoundEnds, BackToSelect, AtSelect
    <3> QED BY <3>2, <3>3, <1>5
  <2>3. UNCHANGED kernel
    BY <1>5 DEF EnterLoop, RoundEnds
  <2> QED BY <1>1, <1>2, <1>3, <2>1, <2>2, <2>3 DEF IInv, TypeOK, TableInv, kernel, Setup
<1>6. CASE SelectReturns
  <2>1. TableInv'
    BY <1>6, <1>1, UntouchedKeepsTable DEF SelectReturns, kernel
  <2>2. pos' = 1 /\ readfds' \in SUBSET Nat /\ nready' \in Nat /\ closed' = {}
    BY <1>6, <1>1, ReadyTypes DEF SelectReturns
  <2>3. UNCHANGED kernel
    BY <1>6 DEF SelectReturns
  <2> QED BY <1>1, <1>2, <1>3, <2>1, <2>2, <2>3 DEF IInv, TypeOK, TableInv, kernel, Setup
<1>7. CASE SelectFails
  <2>1. PICK gone \in LogLosses(conns, {}) : Drop(conns, gone) /\ unread' = UnreadAfter(gone, NoPeer)
    BY <1>7 DEF SelectFails
  <2>2. gone \subseteq LiveClients(conns)
    BY <1>1, FirstLosses
  <2>3. TableInv'
    BY <1>1, <1>7, <2>1, <2>2, DropKeepsTable DEF SelectFails
  <2>4. closed' \in SUBSET Nat /\ eof' \in [Peers -> BOOLEAN] /\ partial' \in [Peers -> BOOLEAN]
    BY <1>1, <2>1, <2>2, DropTypes
  <2>5. unread' \in [Peers -> Nat]
    BY <1>1, <2>1, UnreadTypes, ReactorAssumption
  <2>6. UNCHANGED <<pos, readfds, nready, notified>>
    BY <1>7 DEF SelectFails
  <2> QED BY <1>1, <1>2, <1>3, <2>3, <2>4, <2>5, <2>6 DEF IInv, TypeOK, TableInv
<1> QED BY <1>4, <1>5, <1>6, <1>7

LEMMA EnvironmentInv ==
  ASSUME IInv, Environment
  PROVE  IInv'
<1>1. TableInv /\ TypeOK
  BY DEF IInv
<1>2. out' \in [Peers -> Seq(Frames)] /\ stale' \in BOOLEAN
  BY SilentTypes DEF Environment, Connect, SendRequest, BeginFrame, FinishFrame, HangUp, DropScript, Quiet
<1>3. UNCHANGED server
  BY DEF Environment, Connect, SendRequest, BeginFrame, FinishFrame, HangUp, DropScript
<1>4. LastMsgsTypeOK'
  BY <1>1, <1>3 DEF server, TypeOK, LastMsgsTypeOK
<1>5. /\ unread' \in [Peers -> Nat] /\ eof' \in [Peers -> BOOLEAN]
      /\ partial' \in [Peers -> BOOLEAN] /\ notified' \in BOOLEAN
  <2>1. ASSUME NEW p \in Peers, SendRequest(p) \/ FinishFrame(p)
        PROVE  /\ unread' \in [Peers -> Nat] /\ partial' \in [Peers -> BOOLEAN]
               /\ UNCHANGED <<eof, notified>>
    <3>1. unread' = [unread EXCEPT ![p] = unread[p] + 1] /\ unread[p] + 1 \in Nat
      BY <2>1, <1>1 DEF SendRequest, FinishFrame, TypeOK
    <3> QED BY <3>1, <2>1, <1>1 DEF SendRequest, FinishFrame, TypeOK
  <2>2. ASSUME NEW p \in Peers, Connect(p) \/ BeginFrame(p) \/ HangUp(p)
        PROVE  /\ eof' \in [Peers -> BOOLEAN] /\ partial' \in [Peers -> BOOLEAN]
               /\ UNCHANGED <<unread, notified>>
    BY <2>2, <1>1 DEF Connect, BeginFrame, HangUp, TypeOK
  <2>3. CASE DropScript
    BY <2>3, <1>1 DEF DropScript, TypeOK
  <2> QED BY <2>1, <2>2, <2>3, <1>1 DEF Environment, TypeOK
<1>6. TableInv'
  <2>1. ASSUME NEW p \in Peers, Connect(p)
        PROVE  TableInv'
    BY <2>1, <1>1, <1>3, QueueKeepsTable DEF Connect, server, Servers
  <2>2. CASE UNCHANGED backlog
    BY <2>2, <1>1, <1>3, UntouchedKeepsTable DEF server
  <2> QED BY <2>1, <2>2 DEF Environment, SendRequest, BeginFrame, FinishFrame, HangUp, DropScript
<1> QED BY <1>1, <1>2, <1>3, <1>4, <1>5, <1>6 DEF IInv, TypeOK, TableInv, server

-----------------------------------------------------------------------------
LEMMA InitInv == Init => IInv
<1> SUFFICES ASSUME Init PROVE IInv
  OBVIOUS
<1>1. /\ conns \in Tables
      /\ \A k \in Slots : conns[k].ducq = NULL
      /\ conns[1].type = "notify"
      /\ \A k \in Slots : k # 1 => conns[k].fd = NoFd
  <2>1. 1 \in Slots
    BY ConnectionsAssumption DEF Slots
  <2>2. \A k \in Slots :
          conns[k] = IF k = 1
                     THEN [fd |-> 0, type |-> "notify", ducq |-> NULL, route |-> EmptyRoute]
                     ELSE [fd |-> NoFd, type |-> "client", ducq |-> NULL, route |-> EmptyRoute]
    BY <2>1 DEF Init, AddServer, EmptyTable
  <2>3. conns = [k \in Slots |-> conns[k]]
    BY DEF Init, AddServer, EmptyTable
  <2>4. \A k \in Slots : conns[k] \in Connection
    BY <2>2, RoutingAssumption DEF Connection, NoFd
  <2> QED BY <2>1, <2>2, <2>3, <2>4 DEF Tables
<1>2. LiveClients(conns) = {}
  BY <1>1 DEF LiveClients, LiveClient, Live
<1>3. obj = [a \in Ducqs |-> NoPeer] /\ backlog = [k \in Slots |-> <<>>]
  BY DEF Init
<1>4. TableMatchesHeap
  BY <1>1, <1>2, <1>3 DEF TableMatchesHeap, Live
<1>5. OwnSlotFirst /\ ServersHoldNoDucq
  BY <1>1, <1>2 DEF OwnSlotFirst, ServersHoldNoDucq
<1>6. WaitingAreNew
  BY <1>3 DEF WaitingAreNew
<1>7. TableInv
  BY <1>1, <1>3, <1>4, <1>5, <1>6 DEF TableInv
<1>8. LastMsgsTypeOK
  BY RoutingAssumption DEF Init, LastMsgsInit, LastMsgsTypeOK
<1>9. pos \in Setup..(NSlots + 1)
  BY ConnectionsAssumption DEF Init, Setup
<1>10. out \in [Peers -> Seq(Frames)]
  BY SilentTypes DEF Init
<1>11. /\ readfds \in SUBSET Nat /\ nready \in Nat /\ unread \in [Peers -> Nat]
       /\ eof \in [Peers -> BOOLEAN] /\ partial \in [Peers -> BOOLEAN]
       /\ notified \in BOOLEAN /\ stale \in BOOLEAN /\ closed \in SUBSET Nat
  BY DEF Init
<1>12. TypeOK
  BY <1>7, <1>8, <1>9, <1>10, <1>11 DEF TypeOK, TableInv
<1> QED BY <1>7, <1>12 DEF IInv

LEMMA NextInv == IInv /\ [Next]_vars => IInv'
<1> SUFFICES ASSUME IInv, [Next]_vars PROVE IInv'
  OBVIOUS
<1>1. CASE UNCHANGED vars
  <2>1. TableInv'
    BY <1>1, UntouchedKeepsTable DEF IInv, vars, server, kernel
  <2> QED BY <1>1, <2>1 DEF IInv, TypeOK, LastMsgsTypeOK, vars, server, kernel
<1>2. CASE Environment
  BY <1>2, EnvironmentInv
<1>3. ASSUME NEW k \in Slots, round_table(k)
      PROVE  IInv'
  <2>1. CASE AcceptNotify(k)
    BY <2>1, AcceptNotifyInv
  <2>2. CASE Accept(k) \/ Reject(k)
    BY <2>2, AcceptInv
  <2>3. CASE Dispatch(k)
    BY <2>3, DispatchInv
  <2>4. CASE Ignore(k) \/ Disconnect(k)
    BY <2>4, RefusalInv
  <2> QED BY <1>3, <2>1, <2>2, <2>3, <2>4 DEF round_table
<1>4. CASE AddListener \/ EnterLoop \/ SelectReturns \/ SelectFails \/ RoundEnds
  BY <1>4, LoopInv
<1> QED BY <1>1, <1>2, <1>3, <1>4 DEF Next, ducq_loop

-----------------------------------------------------------------------------
\* Every variable has its type; in particular no handler sends a frame that is
\* none, and no request is read that was not sent.
THEOREM TypeCorrect == Spec => []TypeOK
<1>1. IInv => TypeOK
  BY DEF IInv
<1> QED BY <1>1, InitInv, NextInv, PTL DEF Spec

\* Whichever of the log, a failed send, unsub and a disconnection deletes a
\* client, and whoever is accepted next, the table and the heap agree: nothing
\* is leaked, shared or freed twice (ducq_reactor.c:103-117, 170-200, 218-219).
THEOREM TableIsSound == Spec => []TableMatchesHeap
<1>1. IInv => TableMatchesHeap
  BY DEF IInv, TableInv
<1> QED BY <1>1, InitInv, NextInv, PTL DEF Spec

\* Although ducq_reactor_subscribe compares pointers, and free slots keep old
\* ones, a client's subscription lands in its own slot (ducq_reactor.c:229-239).
THEOREM SubscriptionsLand == Spec => []OwnSlotFirst
<1>1. IInv => OwnSlotFirst
  BY DEF IInv, TableInv
<1> QED BY <1>1, InitInv, NextInv, PTL DEF Spec

\* The clients the log deletes have hung up.
LEMMA LossesHungUp ==
  ASSUME NEW t, NEW S, NEW L \in LogLosses(t, S), NEW k \in L
  PROVE  eof[PeerAt(k)]
BY DEF LogLosses

\* A command goes on with a client it has deleted only when that client had hung
\* up or asked for its own removal (pub.c:61-62, unsub.c:46-47).
THEOREM CommandsOutlived == Spec => ClientOutlivesItsCommand
<1> DEFINE Excused(k) == Client(k) /\ (eof[PeerAt(k)] \/ unsub(k, PeerAt(k)))
<1>1. ASSUME Next, stale'
      PROVE  \E k \in Slots : Excused(k)
  <2>1. CASE Environment \/ AddListener \/ EnterLoop \/ SelectReturns \/ SelectFails \/ RoundEnds
    BY <1>1, <2>1 DEF Environment, Connect, SendRequest, BeginFrame, FinishFrame, HangUp, DropScript, AddListener,
                      EnterLoop, SelectReturns, SelectFails, RoundEnds, Quiet
  <2>2. ASSUME NEW k \in Slots, round_table(k)
        PROVE  Excused(k)
    <3>1. CASE AcceptNotify(k) \/ Accept(k) \/ Reject(k) \/ Ignore(k) \/ Disconnect(k)
      BY <1>1, <3>1 DEF AcceptNotify, Accept, Reject, Ignore, Disconnect, Quiet
    <3>2. CASE PONG(k) \/ pubWithoutRoute(k) \/ lsconn(k) \/ subWithoutRoute(k)
               \/ \E r \in Routes, last \in BOOLEAN : sub(k, r, last)
      BY <1>1, <3>2 DEF PONG, pubWithoutRoute, lsconn, subWithoutRoute, AnswerThenLog, sub, Quiet
    <3>3. ASSUME NEW frame, LogThenAnswer(k, frame)
          PROVE  Excused(k)
      BY <1>1, <3>3, LossesHungUp DEF LogThenAnswer, Receives
    <3>4. CASE list_subscriptions(k)
      BY <1>1, <3>4, LossesHungUp DEF list_subscriptions, Receives
    <3>5. ASSUME NEW r \in Routes, NEW m \in Msgs, pub(k, r, m)
          PROVE  Excused(k)
      <4>1. Client(k)
        BY <3>5 DEF pub, Receives
      <4>2. PICK L1 \in LogLosses(conns, {}) :
              \E F \in SUBSET Deletable(Subscribers(r) \ L1) : k \in L1 \cup F
        BY <1>1, <3>5 DEF pub, Quiet
      <4> QED BY <4>1, <4>2, LossesHungUp DEF Deletable
    <3>6. ASSUME NEW id \in Peers, unsub(k, id)
          PROVE  Excused(k)
      <4>1. Client(k)
        BY <3>6 DEF unsub, Receives
      <4>2. PICK j \in Slots : /\ HasId(j, id)
                               /\ \E L \in LogLosses(conns, {j}) : k \in L \cup {j}
        BY <1>1, <3>6 DEF unsub
      <4>3. CASE k = j
        BY <4>1, <4>2, <4>3, <3>6 DEF HasId
      <4>4. CASE k # j
        BY <4>1, <4>2, <4>4, LossesHungUp
      <4> QED BY <4>3, <4>4
    <3> QED BY <2>2, <3>1, <3>2, <3>3, <3>4, <3>5, <3>6
            DEF round_table, Dispatch, PING, epoch, lscmd, unknown, unsubNotFound
  <2> QED BY <1>1, <2>1, <2>2 DEF Next, ducq_loop
<1>2. [Next]_vars => [stale' => \E k \in Slots : Excused(k)]_vars
  BY <1>1
<1> QED BY <1>2, PTL DEF Spec, ClientOutlivesItsCommand

-----------------------------------------------------------------------------
(***************************************************************************)
(* The round: which slots it visits and what it waits for there.  Its      *)
(* descriptors are those of a select() that returned before, while the     *)
(* visits close some and accept clients that get the same numbers.         *)
(***************************************************************************)
IsServer(t, k) == Live(t, k) /\ t[k].type # "client"
InRound        == pos > AtSelect

\* Servers are added before the first client and stay, so they are visited
\* before all clients, the inotify server first.
ServersFirst ==
  /\ \A k \in Slots : IsServer(conns, k) => \A j \in 1..(k - 1) : IsServer(conns, j)
  /\ \A k \in Slots : IsServer(conns, k) /\ conns[k].type = "notify" => k = 1
  /\ pos = Setup => LiveClients(conns) = {}

\* What the slots ahead wait for is there, but for a client that was accepted
\* under the number of a descriptor that was closed in this round.
NothingToWaitFor ==
  InRound => \A k \in pos..NSlots : Visitable(k) => Readable(k) \/ conns[k].fd \in closed

ClosedInRound ==
  /\ ~InRound => closed = {}
  /\ InRound => readfds \subseteq OpenFds(conns) \cup closed
  /\ \A k \in Slots : IsServer(conns, k) => conns[k].fd \notin closed

\* R, the reported descriptors that are still to be visited, are as many as
\* 'nready' says, and all of the slots ahead; while there are servers among
\* those only descriptors of servers have been visited, which are never closed.
Remaining(R) ==
  /\ R \in SUBSET readfds /\ IsFiniteSet(R) /\ Cardinality(R) = nready
  /\ \A k \in pos..NSlots : Visitable(k) => conns[k].fd \in R
  /\ \A k \in pos..NSlots : IsServer(conns, k) =>
       \A f \in readfds \ R : \E j \in Slots : IsServer(conns, j) /\ conns[j].fd = f

Countdown == InRound => \E R \in SUBSET readfds : Remaining(R)

\* Without the log a visit to a server closes nothing.
OnlyClientsClose ==
  ~AllowLogRoute =>
    /\ \A k \in Slots : Live(conns, k) => conns[k].fd \notin closed
    /\ closed # {} => \A k \in pos..NSlots : ~IsServer(conns, k)

RoundInv == ServersFirst /\ NothingToWaitFor /\ ClosedInRound /\ Countdown /\ OnlyClientsClose

\* The slots in gone are released, all others stay as they are: what a handler
\* does to the table, whatever it does to the routes.
Closes(gone) ==
  /\ gone \subseteq LiveClients(conns)
  /\ \A j \in Slots : /\ conns'[j].type = conns[j].type
                      /\ conns'[j].fd = IF j \in gone THEN NoFd ELSE conns[j].fd
  /\ \A j \in LiveClients(conns) \ gone :
       /\ PeerAt(j)' = PeerAt(j) /\ eof'[PeerAt(j)] = eof[PeerAt(j)]
       /\ partial'[PeerAt(j)] = partial[PeerAt(j)]
  /\ closed' = ClosedAfter({conns[j].fd : j \in gone})

\* What a visit of slot k takes from the kernel is for k alone, and only a visit
\* to a client, or the log, closes anything.
Leaves(k, gone) ==
  /\ \A j \in LiveClients(conns) \ gone : j # k => unread'[PeerAt(j)] = unread[PeerAt(j)]
  /\ \A j \in Slots : j # k => backlog'[j] = backlog[j]
  /\ notified' = notified \/ conns[k].type = "notify"
  /\ gone # {} => AllowLogRoute \/ conns[k].type = "client"

LEMMA DropCloses ==
  ASSUME TypeOK, TableInv, NEW t, SameButRoutes(t), NEW gone, gone \subseteq LiveClients(conns), Drop(t, gone)
  PROVE  Closes(gone)
<1>1. \A j \in Slots : /\ conns'[j].type = conns[j].type /\ conns'[j].ducq = conns[j].ducq
                       /\ conns'[j].fd = IF j \in gone THEN NoFd ELSE conns[j].fd
  BY ReleaseSlot DEF Drop
<1>2. gone \subseteq Slots /\ \A j \in gone : t[j].ducq = conns[j].ducq /\ t[j].fd = conns[j].fd
  BY DEF SameButRoutes, LiveClients
<1>3. ASSUME NEW j \in LiveClients(conns) \ gone
      PROVE  /\ PeerAt(j)' = PeerAt(j) /\ eof'[PeerAt(j)] = eof[PeerAt(j)]
             /\ partial'[PeerAt(j)] = partial[PeerAt(j)]
  <2>1. j \in Slots
    BY DEF LiveClients
  <2>2. conns[j].ducq \in Ducqs /\ PeerAt(j) \in Peers
    BY ClientsAreDistinct
  <2>3. conns[j].ducq \notin {t[k].ducq : k \in gone}
    BY <1>2, ClientsAreDistinct
  <2>4. obj' = [a \in Ducqs |-> IF a \in {t[k].ducq : k \in gone} THEN NoPeer ELSE obj[a]]
    BY DEF Drop
  <2>5. obj'[conns[j].ducq] = obj[conns[j].ducq]
    BY <2>2, <2>3, <2>4
  <2>6. PeerAt(j)' = PeerAt(j)
    BY <1>1, <2>1, <2>5 DEF PeerAt
  <2>7. PeerAt(j) \notin {PeerAt(k) : k \in gone}
    BY DEF TableInv, TableMatchesHeap
  <2>8. eof' = [p \in Peers |-> eof[p] /\ p \notin {PeerAt(k) : k \in gone}]
    BY DEF Drop
  <2>9. eof'[PeerAt(j)] = (eof[PeerAt(j)] /\ PeerAt(j) \notin {PeerAt(k) : k \in gone})
    BY <2>2, <2>8
  <2>10. eof[PeerAt(j)] \in BOOLEAN
    BY <2>2 DEF TypeOK
  <2>11. eof'[PeerAt(j)] = eof[PeerAt(j)]
    <3>1. eof'[PeerAt(j)] = (eof[PeerAt(j)] /\ TRUE)
      BY <2>7, <2>9
    <3> QED BY <2>10, <3>1
  <2>12. partial'[PeerAt(j)] = partial[PeerAt(j)]
    <3>1. partial' = [p \in Peers |-> partial[p] /\ p \notin {PeerAt(k) : k \in gone}]
      BY DEF Drop
    <3>2. partial'[PeerAt(j)] = (partial[PeerAt(j)] /\ PeerAt(j) \notin {PeerAt(k) : k \in gone})
      BY <2>2, <3>1
    <3>3. partial'[PeerAt(j)] = (partial[PeerAt(j)] /\ TRUE)
      BY <2>7, <3>2
    <3>4. partial[PeerAt(j)] \in BOOLEAN
      BY <2>2 DEF TypeOK
    <3> QED BY <3>3, <3>4
  <2> QED BY <2>6, <2>11, <2>12
<1>4. {t[k].fd : k \in gone} = {conns[k].fd : k \in gone}
  BY <1>2
<1>5. closed' = ClosedAfter({conns[k].fd : k \in gone})
  BY <1>4 DEF Drop
<1> QED BY <1>1, <1>3, <1>5 DEF Closes

\* Whether a slot is a server is not changed by closing clients.
LEMMA ServersStay ==
  ASSUME NEW gone, Closes(gone)
  PROVE  /\ \A j \in Slots : IsServer(conns, j)' <=> IsServer(conns, j)
         /\ \A j \in Slots : IsServer(conns, j) =>
              conns'[j].fd = conns[j].fd /\ conns'[j].type = conns[j].type
         /\ \A j \in Slots : Live(conns, j)' <=> Live(conns, j) /\ j \notin gone
         /\ LiveClients(conns)' = LiveClients(conns) \ gone
<1>1. \A j \in gone : j \in Slots /\ Live(conns, j) /\ conns[j].type = "client"
  BY DEF Closes, LiveClients, LiveClient
<1>2. \A j \in Slots : Live(conns, j)' <=> Live(conns, j) /\ j \notin gone
  BY DEF Closes, Live
<1>3. \A j \in Slots : conns'[j].type = conns[j].type
  BY DEF Closes
<1>4. \A j \in Slots : IsServer(conns, j) => j \notin gone
  BY <1>1 DEF IsServer
<1>5. \A j \in Slots : IsServer(conns, j)' <=> IsServer(conns, j)
  BY <1>2, <1>3, <1>4 DEF IsServer
<1>6. \A j \in Slots : IsServer(conns, j) => conns'[j].fd = conns[j].fd
  BY <1>4 DEF Closes
<1>7. LiveClients(conns)' = LiveClients(conns) \ gone
  BY <1>2, <1>3 DEF LiveClients, LiveClient
<1> QED BY <1>2, <1>3, <1>5, <1>6, <1>7

LEMMA SmallerAreSlots ==
  ASSUME NEW k \in Slots
  PROVE  /\ \A j \in 1..(k - 1) : j \in Slots
         /\ \A p \in Nat \ {0} : \A j \in p..NSlots : j \in Slots
BY ConnectionsAssumption DEF Slots

LEMMA ServersFirstKept ==
  ASSUME ServersFirst, NEW gone, Closes(gone), pos' # Setup
  PROVE  ServersFirst'
<1>1. \A j \in Slots : IsServer(conns, j)' <=> IsServer(conns, j)
  BY ServersStay
<1>2. \A j \in Slots : conns'[j].type = conns[j].type
  BY DEF Closes
<1>3. ASSUME NEW k \in Slots, IsServer(conns, k)'
      PROVE  \A j \in 1..(k - 1) : IsServer(conns, j)'
  BY <1>1, <1>3, SmallerAreSlots DEF ServersFirst
<1>4. ASSUME NEW k \in Slots, IsServer(conns, k)', conns'[k].type = "notify"
      PROVE  k = 1
  BY <1>1, <1>2, <1>4 DEF ServersFirst
<1> QED BY <1>3, <1>4 DEF ServersFirst

\* Between two rounds there is nothing to say but about the table.
LEMMA OutsideRound ==
  ASSUME ServersFirst', ~InRound', closed' = {}
  PROVE  RoundInv'
BY DEF RoundInv, NothingToWaitFor, ClosedInRound, Countdown, OnlyClientsClose

\* A slot ahead that select() reported can still be read, for nobody but its own
\* visit reads from it.
LEMMA StaysReadable ==
  ASSUME IInv, ServersFirst, NEW k \in Slots, NEW gone, Closes(gone), Leaves(k, gone),
         NEW j \in (k + 1)..NSlots, j \in Slots, Live(conns, j)', Readable(j)
  PROVE  Readable(j)'
<1>1. Live(conns, j) /\ j \notin gone /\ conns'[j].type = conns[j].type /\ conns[j] \in Connection
  BY ServersStay DEF Closes, IInv, TypeOK, Tables
<1>2. j # k /\ j # 1
  BY ConnectionsAssumption DEF Slots
<1>3. conns[j].type # "notify"
  BY <1>1, <1>2 DEF ServersFirst, IsServer
<1>4. CASE conns[j].type = "listener"
  <2>1. backlog'[j] = backlog[j] /\ backlog[j] # <<>>
    BY <1>2, <1>4 DEF Leaves, Readable
  <2> QED BY <1>1, <1>4, <2>1 DEF Readable
<1>5. CASE conns[j].type = "client"
  <2>1. j \in LiveClients(conns) \ gone
    BY <1>1, <1>5 DEF LiveClients, LiveClient
  <2>2. /\ PeerAt(j)' = PeerAt(j) /\ eof'[PeerAt(j)] = eof[PeerAt(j)]
        /\ unread'[PeerAt(j)] = unread[PeerAt(j)] /\ partial'[PeerAt(j)] = partial[PeerAt(j)]
    BY <1>2, <2>1 DEF Closes, Leaves
  <2>3. unread[PeerAt(j)] > 0 \/ partial[PeerAt(j)] \/ eof[PeerAt(j)]
    BY <1>5 DEF Readable
  <2> QED BY <1>1, <1>5, <2>2, <2>3 DEF Readable
<1> QED BY <1>1, <1>3, <1>4, <1>5 DEF Connection

\* The descriptors of the reported slots are one less to visit.
LEMMA OneLess ==
  ASSUME NEW R, NEW d \in R, IsFiniteSet(R), Cardinality(R) = nready
  PROVE  /\ IsFiniteSet(R \ {d}) /\ nready \in Nat /\ Cardinality(R \ {d}) = nready - 1
         /\ nready - 1 <= 0 => R \ {d} = {}
<1>1. IsFiniteSet(R \ {d}) /\ Cardinality(R \ {d}) = Cardinality(R) - 1
  BY FS_RemoveElement
<1>2. Cardinality(R) \in Nat /\ Cardinality(R \ {d}) \in Nat
  BY <1>1, FS_CardinalityType
<1>3. Cardinality(R \ {d}) = 0 => R \ {d} = {}
  BY <1>1, FS_EmptySet
<1> QED BY <1>1, <1>2, <1>3

\* The visit of the next slot, if it closes slots: what remains is right.
LEMMA RemainsAfter ==
  ASSUME IInv, ServersFirst, InRound, NEW R, Remaining(R), NEW k \in Slots, IsNext(k),
         NEW gone, Closes(gone)
  PROVE  /\ conns[k].fd \in R
         /\ \A j \in (k + 1)..NSlots :
              Live(conns, j)' /\ conns'[j].fd \in readfds => conns'[j].fd \in R \ {conns[k].fd}
         /\ \A j \in (k + 1)..NSlots : IsServer(conns, j)' =>
              \A f \in readfds \ (R \ {conns[k].fd}) :
                \E i \in Slots : IsServer(conns, i)' /\ conns'[i].fd = f
<1>1. pos \in Nat \ {0} /\ k \in pos..NSlots /\ Visitable(k)
  <2>1. pos \in Int /\ pos > 0
    BY ConnectionsAssumption DEF IInv, TypeOK, InRound, AtSelect, Setup
  <2> QED BY <2>1 DEF IsNext
<1>2. conns[k].fd \in R /\ Live(conns, k)
  BY <1>1 DEF Remaining, Visitable
<1>3. \A j \in (k + 1)..NSlots : j \in pos..NSlots /\ j \in Slots /\ j # k
  BY <1>1, ConnectionsAssumption DEF Slots
<1>4. ASSUME NEW j \in (k + 1)..NSlots, Live(conns, j)', conns'[j].fd \in readfds
      PROVE  conns'[j].fd \in R \ {conns[k].fd}
  <2>1. Live(conns, j) /\ conns'[j].fd = conns[j].fd
    BY <1>3, <1>4, ServersStay DEF Closes
  <2>2. conns[j].fd \in R
    BY <1>3, <1>4, <2>1 DEF Remaining, Visitable
  <2>3. conns[j].fd # conns[k].fd
    BY <1>2, <1>3, <2>1 DEF IInv, TableInv, TableMatchesHeap
  <2> QED BY <2>1, <2>2, <2>3
<1>5. ASSUME NEW j \in (k + 1)..NSlots, IsServer(conns, j)',
             NEW f \in readfds \ (R \ {conns[k].fd})
      PROVE  \E i \in Slots : IsServer(conns, i)' /\ conns'[i].fd = f
  <2>1. IsServer(conns, j)
    BY <1>3, <1>5, ServersStay
  <2>2. \E i \in Slots : IsServer(conns, i) /\ conns[i].fd = f
    <3>1. CASE f = conns[k].fd
      <4>1. k \in 1..(j - 1)
        BY ConnectionsAssumption DEF Slots
      <4>2. IsServer(conns, k)
        BY <1>3, <2>1, <4>1 DEF ServersFirst
      <4> QED BY <3>1, <4>2
    <3>2. CASE f # conns[k].fd
      BY <1>3, <2>1, <3>2 DEF Remaining
    <3> QED BY <3>1, <3>2
  <2> QED BY <2>2, ServersStay
<1> QED BY <1>2, <1>4, <1>5

\* None of the slots behind k is left that select() reported.
NoneLeft(k) == \A j \in (k + 1)..NSlots : ~(Live(conns', j) /\ conns'[j].fd \in readfds)

\* What ends with the visit of a slot, and what goes on.
LEMMA AdvanceEndsOrGoesOn ==
  ASSUME IInv, NEW k \in Slots, Advance(k)
  PROVE  \/ nready - 1 <= 0 /\ pos' = AtSelect /\ readfds' = {} /\ pos' # Setup
         \/ /\ ~(nready - 1 <= 0) /\ pos' = k + 1 /\ nready' = nready - 1 /\ readfds' = readfds
            /\ InRound' /\ pos' # Setup /\ pos' # AtSelect
<1>1. k \in Nat \ {0}
  BY ConnectionsAssumption DEF Slots
<1>2. CASE nready - 1 <= 0
  BY <1>2 DEF Advance, BackToSelect, AtSelect, Setup
<1>3. CASE ~(nready - 1 <= 0)
  BY <1>1, <1>3 DEF Advance, Continue, AtSelect, Setup, InRound
<1> QED BY <1>2, <1>3

\* The countdown goes on, or has come to its end with the last of the slots.
LEMMA CountdownGoesOn ==
  ASSUME IInv, NEW k \in Slots, Advance(k), NEW R \in SUBSET readfds, NEW d \in R,
         IsFiniteSet(R), Cardinality(R) = nready,
         \A j \in (k + 1)..NSlots :
           Live(conns, j)' /\ conns'[j].fd \in readfds => conns'[j].fd \in R \ {d},
         \A j \in (k + 1)..NSlots : IsServer(conns, j)' =>
           \A f \in readfds \ (R \ {d}) : \E i \in Slots : IsServer(conns, i)' /\ conns'[i].fd = f
  PROVE  Countdown' /\ (pos' = AtSelect => NoneLeft(k))
<1>1. /\ IsFiniteSet(R \ {d}) /\ nready \in Nat /\ Cardinality(R \ {d}) = nready - 1
      /\ nready - 1 <= 0 => R \ {d} = {}
  BY OneLess
<1>2. CASE nready - 1 <= 0
  <2>1. ~InRound'
    BY <1>2, AdvanceEndsOrGoesOn DEF InRound, AtSelect
  <2>2. NoneLeft(k)
    BY <1>1, <1>2 DEF NoneLeft, Live
  <2> QED BY <2>1, <2>2 DEF Countdown
<1>3. CASE ~(nready - 1 <= 0)
  <2>1. pos' = k + 1 /\ nready' = nready - 1 /\ readfds' = readfds /\ pos' # AtSelect
    BY <1>3, AdvanceEndsOrGoesOn
  <2>2. PICK Q \in SUBSET readfds : Q = R \ {d}
    OBVIOUS
  <2>3. \A j \in (k + 1)..NSlots : Visitable(j)' => conns'[j].fd \in Q
    BY <2>1, <2>2 DEF Visitable
  <2>4. Remaining(Q)'
    BY <1>1, <2>1, <2>2, <2>3 DEF Remaining
  <2> QED BY <2>1, <2>4 DEF Countdown
<1> QED BY <1>2, <1>3

\* The visit of a slot that accepts nobody.
LEMMA VisitRound ==
  ASSUME IInv, RoundInv, NEW k \in Slots, IsNext(k), Advance(k),
         NEW gone, Closes(gone), Leaves(k, gone)
  PROVE  RoundInv' /\ (pos' = AtSelect => NoneLeft(k))
<1>1. InRound /\ pos \in Nat \ {0} /\ k \in pos..NSlots
  <2>1. pos \in Int /\ pos > 0
    BY DEF IInv, TypeOK, IsNext, AtSelect, Setup
  <2> QED BY <2>1 DEF IsNext, InRound, AtSelect
<1>2. /\ ServersFirst /\ NothingToWaitFor /\ ClosedInRound /\ OnlyClientsClose
      /\ \E R \in SUBSET readfds : Remaining(R)
  BY <1>1 DEF RoundInv, Countdown
<1>3. PICK R \in SUBSET readfds : Remaining(R)
  BY <1>2
<1>4. PICK d : d = conns[k].fd
  OBVIOUS
<1>5. Countdown' /\ (pos' = AtSelect => NoneLeft(k))
  <2>1. /\ d \in R
        /\ \A j \in (k + 1)..NSlots :
             Live(conns, j)' /\ conns'[j].fd \in readfds => conns'[j].fd \in R \ {d}
        /\ \A j \in (k + 1)..NSlots : IsServer(conns, j)' =>
             \A f \in readfds \ (R \ {d}) : \E i \in Slots : IsServer(conns, i)' /\ conns'[i].fd = f
    BY <1>1, <1>2, <1>3, <1>4, RemainsAfter
  <2>2. IsFiniteSet(R) /\ Cardinality(R) = nready
    BY <1>3 DEF Remaining
  <2> QED BY <2>1, <2>2, CountdownGoesOn
<1>6. ServersFirst'
  BY <1>2, AdvanceEndsOrGoesOn, ServersFirstKept
<1>7. CASE nready - 1 <= 0
  <2>1. ~InRound' /\ closed' = {}
    BY <1>7, AdvanceEndsOrGoesOn DEF InRound, AtSelect, Closes, ClosedAfter
  <2> QED BY <1>5, <1>6, <2>1, OutsideRound
<1>8. CASE ~(nready - 1 <= 0)
  <2>1. pos' = k + 1 /\ readfds' = readfds /\ InRound' /\ pos' # AtSelect
    BY <1>8, AdvanceEndsOrGoesOn
  <2>2. closed' = closed \cup {conns[j].fd : j \in gone}
    BY <2>1 DEF Closes, ClosedAfter
  <2>3. gone \subseteq LiveClients(conns) /\ \A j \in gone : j \in Slots /\ Live(conns, j)
    BY DEF Closes, LiveClients, LiveClient
  <2>4. \A j \in (k + 1)..NSlots : j \in pos..NSlots /\ j \in Slots
    BY <1>1, ConnectionsAssumption DEF Slots
  <2>5. NothingToWaitFor'
    <3> SUFFICES ASSUME NEW j \in (k + 1)..NSlots, Visitable(j)', conns'[j].fd \notin closed'
                 PROVE  Readable(j)'
      BY <2>1 DEF NothingToWaitFor
    <3>1. Live(conns, j)' /\ conns'[j].fd \in readfds
      BY <2>1 DEF Visitable
    <3>2. Live(conns, j) /\ conns'[j].fd = conns[j].fd
      BY <2>4, <3>1, ServersStay DEF Closes
    <3>3. Readable(j)
      BY <1>1, <1>2, <2>2, <2>4, <3>1, <3>2 DEF NothingToWaitFor, Visitable
    <3> QED BY <1>2, <2>4, <3>1, <3>3, StaysReadable
  <2>6. readfds' \subseteq OpenFds(conns)' \cup closed'
    <3>1. \A j \in Slots : Live(conns, j) =>
            (Live(conns, j)' /\ conns'[j].fd = conns[j].fd) \/ conns[j].fd \in closed'
      BY <2>2, ServersStay DEF Closes
    <3>2. readfds \subseteq OpenFds(conns) \cup closed
      BY <1>1, <1>2 DEF ClosedInRound
    <3>3. OpenFds(conns) \subseteq OpenFds(conns)' \cup closed'
      BY <3>1 DEF OpenFds
    <3> QED BY <2>1, <2>2, <3>2, <3>3
  <2>7. ASSUME NEW j \in Slots, IsServer(conns, j)'
        PROVE  conns'[j].fd \notin closed'
    <3>1. IsServer(conns, j) /\ conns'[j].fd = conns[j].fd
      BY <2>7, ServersStay
    <3>2. \A i \in gone : conns[i].fd # conns[j].fd
      <4>1. \A i \in gone : i # j
        BY <3>1 DEF Closes, LiveClients, LiveClient, IsServer
      <4> QED BY <2>3, <3>1, <4>1 DEF IInv, TableInv, TableMatchesHeap, IsServer
    <3> QED BY <1>2, <2>2, <3>1, <3>2 DEF ClosedInRound
  <2>8. OnlyClientsClose'
    <3> SUFFICES ASSUME ~AllowLogRoute
                 PROVE  /\ \A j \in Slots : Live(conns, j)' => conns'[j].fd \notin closed'
                        /\ closed' # {} => \A j \in (k + 1)..NSlots : ~IsServer(conns, j)'
      BY <2>1 DEF OnlyClientsClose
    <3>1. ASSUME NEW j \in Slots, Live(conns, j)' PROVE conns'[j].fd \notin closed'
      <4>1. Live(conns, j) /\ j \notin gone /\ conns'[j].fd = conns[j].fd
        BY <3>1, ServersStay DEF Closes
      <4>2. \A i \in gone : conns[i].fd # conns[j].fd
        BY <2>3, <4>1 DEF IInv, TableInv, TableMatchesHeap
      <4> QED BY <1>2, <2>2, <4>1, <4>2 DEF OnlyClientsClose
    <3>2. ASSUME closed' # {}, NEW j \in (k + 1)..NSlots PROVE ~IsServer(conns, j)'
      <4>1. CASE closed # {}
        BY <1>2, <2>4, <4>1, ServersStay DEF OnlyClientsClose
      <4>2. CASE closed = {}
        <5>1. conns[k].type = "client"
          BY <2>2, <3>2, <4>2 DEF Leaves
        <5>2. k \in 1..(j - 1)
          BY ConnectionsAssumption DEF Slots
        <5>3. ~IsServer(conns, j)
          BY <1>2, <2>4, <5>1, <5>2 DEF ServersFirst, IsServer
        <5> QED BY <2>4, <5>3, ServersStay
      <4> QED BY <4>1, <4>2
    <3> QED BY <3>1, <3>2
  <2> QED BY <1>5, <1>6, <2>1, <2>5, <2>6, <2>7, <2>8 DEF RoundInv, ClosedInRound
<1> QED BY <1>5, <1>7, <1>8

-----------------------------------------------------------------------------
\* Every command ends by releasing some clients, in a table of which it has
\* changed no more than routes.
LEMMA HandlersServe ==
  ASSUME TableInv, NEW k \in Slots, Dispatch(k) \/ Ignore(k) \/ Disconnect(k)
  PROVE  /\ Client(k)
         /\ \E t \in Tables, gone \in SUBSET LiveClients(conns) :
              SameButRoutes(t) /\ Served(k, t, gone)
<1> DEFINE Goal == \E t \in Tables, gone \in SUBSET LiveClients(conns) :
                     SameButRoutes(t) /\ Served(k, t, gone)
<1>1. SameButRoutes(conns) /\ conns \in Tables
  BY TableItself DEF TableInv
<1>2. ASSUME NEW frame, LogThenAnswer(k, frame) \/ AnswerThenLog(k, frame)
      PROVE  Client(k) /\ Goal
  <2>1. PICK gone \in LogLosses(conns, {}) : Served(k, conns, gone)
    BY <1>2 DEF LogThenAnswer, AnswerThenLog
  <2> QED BY <1>1, <1>2, <2>1, FirstLosses DEF LogThenAnswer, AnswerThenLog, Receives
<1>3. CASE list_subscriptions(k) \/ PONG(k)
  <2>1. PICK gone \in LogLosses(conns, {}) : Served(k, conns, gone)
    BY <1>3 DEF list_subscriptions, PONG
  <2> QED BY <1>1, <1>3, <2>1, FirstLosses DEF list_subscriptions, PONG, Receives
<1>4. CASE pubWithoutRoute(k) \/ Disconnect(k)
  <2>1. Client(k)
    BY <1>4 DEF pubWithoutRoute, Disconnect, Receives
  <2>2. PICK L \in LogLosses(conns, {}) : Served(k, conns, L \cup {k})
    BY <1>4 DEF pubWithoutRoute, Disconnect
  <2>3. L \cup {k} \subseteq LiveClients(conns)
    BY <2>1, ClientIsLive, FirstLosses
  <2> QED BY <1>1, <2>1, <2>2, <2>3
<1>5. CASE Ignore(k)
  <2>1. {} \in SUBSET LiveClients(conns)
    OBVIOUS
  <2> QED BY <1>1, <1>5, <2>1 DEF Ignore, Receives
<1>6. ASSUME NEW r \in Routes, NEW m \in Msgs, pub(k, r, m)
      PROVE  Client(k) /\ Goal
  <2>1. Client(k)
    BY <1>6 DEF pub, Receives
  <2>2. CASE \E L1 \in LogLosses(conns, {}) : Served(k, conns, L1 \cup {k})
    <3>1. PICK L1 \in LogLosses(conns, {}) : Served(k, conns, L1 \cup {k})
      BY <2>2
    <3>2. L1 \cup {k} \subseteq LiveClients(conns)
      BY <2>1, ClientIsLive, FirstLosses
    <3> QED BY <1>1, <2>1, <3>1, <3>2
  <2>3. CASE \E L1 \in LogLosses(conns, {}) : \E F \in SUBSET Deletable(Subscribers(r) \ L1) :
             \E L2 \in LogLosses(conns, L1 \cup F) : Served(k, conns, L1 \cup F \cup L2)
    <3>0. PICK L1 \in LogLosses(conns, {}) : \E F \in SUBSET Deletable(Subscribers(r) \ L1) :
            \E L2 \in LogLosses(conns, L1 \cup F) : Served(k, conns, L1 \cup F \cup L2)
      BY <2>3
    <3>1. PICK F \in SUBSET Deletable(Subscribers(r) \ L1) :
            \E L2 \in LogLosses(conns, L1 \cup F) : Served(k, conns, L1 \cup F \cup L2)
      BY <3>0
    <3>2. PICK L2 \in LogLosses(conns, L1 \cup F) : Served(k, conns, L1 \cup F \cup L2)
      BY <3>1
    <3>3. L1 \subseteq LiveClients(conns) /\ L2 \subseteq LiveClients(conns)
      BY FirstLosses
    <3>4. F \subseteq LiveClients(conns)
      BY DEF Deletable, Subscribers
    <3>5. L1 \cup F \cup L2 \subseteq LiveClients(conns)
      BY <3>3, <3>4
    <3> QED BY <1>1, <2>1, <3>2, <3>5
  <2> QED BY <1>6, <2>2, <2>3 DEF pub
<1>7. ASSUME NEW r \in Routes, NEW last \in BOOLEAN, sub(k, r, last)
      PROVE  Client(k) /\ Goal
  <2> DEFINE t == SetRoute(conns, conns[k].ducq, r)
  <2>1. Client(k)
    BY <1>7 DEF sub, Receives
  <2>2. SameButRoutes(t) /\ t \in Tables
    BY SetRouteKeepsTheRest DEF TableInv, SameButRoutes
  <2>3. PICK sent \in BOOLEAN, L \in LogLosses(t, {}) : Served(k, t, IF sent THEN L ELSE L \cup {k})
    BY <1>7 DEF sub, Sends
  <2> HIDE DEF t
  <2>4. (IF sent THEN L ELSE L \cup {k}) \in SUBSET LiveClients(conns)
    BY <2>1, <2>2, ClientIsLive, LossesAreClients
  <2> QED BY <2>1, <2>2, <2>3, <2>4
<1>8. ASSUME NEW id \in Peers, unsub(k, id)
      PROVE  Client(k) /\ Goal
  <2>1. Client(k)
    BY <1>8 DEF unsub, Receives
  <2>2. PICK j \in Slots : HasId(j, id) /\ \E L \in LogLosses(conns, {j}) : Served(k, conns, L \cup {j})
    BY <1>8 DEF unsub
  <2>3. PICK L \in LogLosses(conns, {j}) : Served(k, conns, L \cup {j})
    BY <2>2
  <2>4. L \cup {j} \subseteq LiveClients(conns)
    BY <2>2, FirstLosses DEF HasId
  <2> QED BY <1>1, <2>1, <2>3, <2>4
<1> QED BY <1>2, <1>3, <1>4, <1>5, <1>6, <1>7, <1>8
        DEF Dispatch, PING, epoch, lscmd, unknown, lsconn, subWithoutRoute, unsubNotFound

LEMMA UnreadLeft ==
  ASSUME IInv, NEW gone, gone \subseteq LiveClients(conns), NEW reader,
         unread' = UnreadAfter(gone, reader), NEW j \in LiveClients(conns) \ gone, PeerAt(j) # reader
  PROVE  unread'[PeerAt(j)] = unread[PeerAt(j)]
<1>1. TableInv /\ PeerAt(j) \in Peers
  BY ClientsAreDistinct DEF IInv
<1>2. PeerAt(j) \notin {PeerAt(i) : i \in gone}
  BY <1>1 DEF TableInv, TableMatchesHeap
<1> QED BY <1>1, <1>2 DEF UnreadAfter

LEMMA ClientRound ==
  ASSUME IInv, RoundInv, NEW k \in Slots, Dispatch(k) \/ Ignore(k) \/ Disconnect(k)
  PROVE  RoundInv' /\ (pos' = AtSelect => NoneLeft(k))
<1>1. TypeOK /\ TableInv
  BY DEF IInv
<1>2. Client(k)
  BY <1>1, HandlersServe
<1>3. PICK t \in Tables, gone \in SUBSET LiveClients(conns) :
        SameButRoutes(t) /\ Served(k, t, gone)
  BY <1>1, HandlersServe
<1>4. Closes(gone)
  BY <1>1, <1>3, DropCloses DEF Served
<1>5. k \in LiveClients(conns)
  BY <1>2, ClientIsLive
<1>6. Leaves(k, gone)
  <2>1. ASSUME NEW j \in LiveClients(conns) \ gone, j # k
        PROVE  unread'[PeerAt(j)] = unread[PeerAt(j)]
    <3>1. PeerAt(j) # PeerAt(k)
      BY <1>1, <1>5, <2>1 DEF TableInv, TableMatchesHeap
    <3> QED BY <1>3, <3>1, UnreadLeft DEF Served
  <2>2. UNCHANGED <<backlog, notified>>
    BY <1>3 DEF Served
  <2>3. conns[k].type = "client"
    BY <1>2 DEF Client
  <2> QED BY <2>1, <2>2, <2>3 DEF Leaves
<1>7. IsNext(k) /\ Advance(k)
  BY <1>2, <1>3 DEF Client, Served
<1> QED BY <1>4, <1>6, <1>7, VisitRound

LEMMA NotifyRound ==
  ASSUME IInv, RoundInv, NEW k \in Slots, AcceptNotify(k)
  PROVE  RoundInv' /\ (pos' = AtSelect => NoneLeft(k))
<1>1. TypeOK /\ TableInv /\ SameButRoutes(conns)
  BY TableItself DEF IInv, TableInv
<1>2. PICK gone \in LogLosses(conns, {}) : Drop(conns, gone) /\ unread' = UnreadAfter(gone, NoPeer)
  BY DEF AcceptNotify
<1>3. gone \subseteq LiveClients(conns)
  BY <1>1, FirstLosses
<1>4. Closes(gone)
  BY <1>1, <1>2, <1>3, DropCloses
<1>5. Leaves(k, gone)
  <2>1. ASSUME NEW j \in LiveClients(conns) \ gone
        PROVE  unread'[PeerAt(j)] = unread[PeerAt(j)]
    <3>1. PeerAt(j) # NoPeer
      BY <1>1 DEF TableInv, TableMatchesHeap
    <3> QED BY <1>2, <1>3, <3>1, UnreadLeft
  <2>2. backlog' = backlog /\ conns[k].type = "notify"
    BY DEF AcceptNotify
  <2>3. gone # {} => AllowLogRoute
    BY <1>2 DEF LogLosses
  <2> QED BY <2>1, <2>2, <2>3 DEF Leaves
<1>6. IsNext(k) /\ Advance(k)
  BY DEF AcceptNotify
<1> QED BY <1>4, <1>5, <1>6, VisitRound

LEMMA RejectRound ==
  ASSUME IInv, RoundInv, NEW k \in Slots, Reject(k)
  PROVE  RoundInv' /\ (pos' = AtSelect => NoneLeft(k))
<1>1. /\ TypeOK /\ TableInv /\ IsNext(k) /\ Advance(k) /\ backlog[k] # <<>>
      /\ UNCHANGED <<conns, obj, notified>>
      /\ backlog' = [backlog EXCEPT ![k] = Tail(backlog[k])]
  BY DEF Reject, IInv
<1>2. Head(backlog[k]) \in Peers \ Accepted
  BY <1>1, HeadLeaves
<1>3. ASSUME NEW j \in LiveClients(conns)
      PROVE  /\ PeerAt(j)' = PeerAt(j)
             /\ eof'[PeerAt(j)] = eof[PeerAt(j)] /\ unread'[PeerAt(j)] = unread[PeerAt(j)]
             /\ partial'[PeerAt(j)] = partial[PeerAt(j)]
  <2>1. PeerAt(j) \in Peers /\ PeerAt(j) # Head(backlog[k])
    BY <1>1, <1>2, ClientsAreDistinct DEF Accepted
  <2>2. /\ eof \in [Peers -> BOOLEAN] /\ partial \in [Peers -> BOOLEAN]
        /\ unread \in [Peers -> Nat]
    BY <1>1 DEF TypeOK
  <2>3. /\ eof' = [eof EXCEPT ![Head(backlog[k])] = FALSE]
        /\ partial' = [partial EXCEPT ![Head(backlog[k])] = FALSE]
        /\ unread' = [unread EXCEPT ![Head(backlog[k])] = 0]
    BY DEF Reject
  <2>4. /\ eof'[PeerAt(j)] = eof[PeerAt(j)] /\ unread'[PeerAt(j)] = unread[PeerAt(j)]
        /\ partial'[PeerAt(j)] = partial[PeerAt(j)]
    BY <2>1, <2>2, <2>3
  <2>5. PeerAt(j)' = PeerAt(j)
    BY <1>1 DEF PeerAt
  <2> QED BY <2>4, <2>5
<1>4. Closes({})
  <2>1. closed' = ClosedAfter({})
    BY DEF Reject
  <2>2. {conns[j].fd : j \in {}} = {}
    OBVIOUS
  <2> QED BY <1>1, <1>3, <2>1, <2>2 DEF Closes
<1>5. Leaves(k, {})
  <2>1. backlog \in [Slots -> Seq(Peers)]
    BY <1>1 DEF TypeOK
  <2>2. \A j \in Slots : j # k => backlog'[j] = backlog[j]
    BY <1>1, <2>1
  <2> QED BY <1>1, <1>3, <2>2 DEF Leaves
<1> QED BY <1>1, <1>4, <1>5, VisitRound

\* A client accepted under a number select() had reported is still counted: its
\* slot comes after the listener's, and that number is one nobody visited yet.
LEMMA AcceptRound ==
  ASSUME IInv, RoundInv, NEW k \in Slots, Accept(k)
  PROVE  RoundInv' /\ (pos' = AtSelect => NoneLeft(k))
<1>1. /\ TypeOK /\ TableInv /\ IsNext(k) /\ Advance(k) /\ backlog[k] # <<>>
      /\ conns[k].type = "listener" /\ closed' = ClosedAfter({})
      /\ UNCHANGED <<unread, partial, eof, notified>>
      /\ backlog' = [backlog EXCEPT ![k] = Tail(backlog[k])]
  BY DEF Accept, IInv
<1>2. PICK s \in Slots, f \in 0..NSlots, a \in {b \in Ducqs : obj[b] = NoPeer} :
        /\ FirstFree(conns, s) /\ FreshFd(f)
        /\ conns' = AddClient(conns, s, f, a)
        /\ obj' = [obj EXCEPT ![a] = Head(backlog[k])]
  BY DEF Accept
<1>3. /\ conns'[s].fd = f /\ conns'[s].type = "client"
      /\ \A j \in Slots : j # s => conns'[j] = conns[j]
  BY <1>1, <1>2 DEF AddClient, TypeOK, Tables
<1>4. f # NoFd /\ \A j \in Slots : Live(conns, j) => conns[j].fd # f
  BY <1>2, FreshFdIsNew DEF NoFd
<1>5. ~Live(conns, s) /\ Live(conns, s)' /\ \A j \in Slots : j # s => (Live(conns, j)' <=> Live(conns, j))
  BY <1>2, <1>3, <1>4 DEF FirstFree, Live
<1>6. /\ \A j \in Slots : IsServer(conns, j)' <=> IsServer(conns, j)
      /\ \A j \in Slots : IsServer(conns, j) => conns'[j] = conns[j]
  BY <1>3, <1>5 DEF IsServer
<1>7. InRound /\ pos \in Nat \ {0} /\ k \in pos..NSlots /\ Visitable(k) /\ IsServer(conns, k)
  <2>1. pos \in Int /\ pos > 0
    BY <1>1 DEF TypeOK, IsNext, AtSelect, Setup
  <2> QED BY <1>1, <2>1 DEF IsNext, InRound, AtSelect, Visitable, IsServer
<1>8. /\ ServersFirst /\ NothingToWaitFor /\ ClosedInRound /\ OnlyClientsClose
      /\ \E R \in SUBSET readfds : Remaining(R)
  BY <1>7 DEF RoundInv, Countdown
<1>9. \A j \in (k + 1)..NSlots : j \in pos..NSlots /\ j \in Slots /\ j # k /\ j # 1 /\ k \in 1..(j - 1)
  BY <1>7, ConnectionsAssumption DEF Slots
<1>10. PICK R \in SUBSET readfds : Remaining(R)
  BY <1>8
<1>11. PICK d : d = conns[k].fd
  OBVIOUS
<1>12. Countdown' /\ (pos' = AtSelect => NoneLeft(k))
  <2>1. d \in R /\ IsFiniteSet(R) /\ Cardinality(R) = nready
    BY <1>7, <1>10, <1>11 DEF Remaining
  <2>2. \A g \in readfds \ R : \E i \in Slots : IsServer(conns, i) /\ conns[i].fd = g
    BY <1>7, <1>10 DEF Remaining
  <2>3. f \in readfds => f \in R
    BY <1>4, <2>2 DEF IsServer
  <2>4. \A g \in readfds \ (R \ {d}) : \E i \in Slots : IsServer(conns, i) /\ conns[i].fd = g
    BY <1>7, <1>11, <2>2
  <2>5. \A g \in readfds \ (R \ {d}) : \E i \in Slots : IsServer(conns, i)' /\ conns'[i].fd = g
    BY <1>6, <2>4
  <2>6. ASSUME NEW j \in (k + 1)..NSlots, Live(conns, j)', conns'[j].fd \in readfds
        PROVE  conns'[j].fd \in R \ {d}
    <3>1. CASE j = s
      BY <1>3, <1>4, <1>7, <1>11, <2>3, <2>6, <3>1 DEF IsServer
    <3>2. CASE j # s
      <4>1. Live(conns, j) /\ conns'[j].fd = conns[j].fd
        BY <1>3, <1>5, <1>9, <2>6, <3>2
      <4>2. conns[j].fd \in R
        BY <1>9, <1>10, <2>6, <4>1 DEF Remaining, Visitable
      <4>3. conns[j].fd # conns[k].fd
        BY <1>1, <1>7, <1>9, <4>1 DEF TableInv, TableMatchesHeap, IsServer
      <4> QED BY <1>11, <4>1, <4>2, <4>3
    <3> QED BY <3>1, <3>2
  <2>7. \A j \in (k + 1)..NSlots :
          Live(conns, j)' /\ conns'[j].fd \in readfds => conns'[j].fd \in R \ {d}
    BY <2>6
  <2>8. \A j \in (k + 1)..NSlots : IsServer(conns, j)' =>
          \A g \in readfds \ (R \ {d}) : \E i \in Slots : IsServer(conns, i)' /\ conns'[i].fd = g
    BY <2>5
  <2> QED BY <1>1, <2>1, <2>7, <2>8, CountdownGoesOn
<1>13. ServersFirst'
  <2>1. ASSUME NEW i \in Slots, IsServer(conns, i)'
        PROVE  \A j \in 1..(i - 1) : IsServer(conns, j)'
    BY <1>6, <1>8, <2>1, SmallerAreSlots DEF ServersFirst
  <2>2. ASSUME NEW i \in Slots, IsServer(conns, i)', conns'[i].type = "notify"
        PROVE  i = 1
    BY <1>6, <1>8, <2>2 DEF ServersFirst
  <2>3. pos' # Setup
    BY <1>1, AdvanceEndsOrGoesOn
  <2> QED BY <2>1, <2>2, <2>3 DEF ServersFirst
<1>14. CASE nready - 1 <= 0
  <2>1. ~InRound' /\ closed' = {}
    BY <1>1, <1>14, AdvanceEndsOrGoesOn DEF InRound, AtSelect, ClosedAfter
  <2> QED BY <1>12, <1>13, <2>1, OutsideRound
<1>15. CASE ~(nready - 1 <= 0)
  <2>1. pos' = k + 1 /\ readfds' = readfds /\ InRound' /\ pos' # AtSelect
    BY <1>1, <1>15, AdvanceEndsOrGoesOn
  <2>2. closed' = closed
    BY <1>1, <2>1 DEF ClosedAfter
  <2>3. f \in readfds => f \in closed
    <3>1. f \notin OpenFds(conns)
      BY <1>4 DEF OpenFds
    <3> QED BY <1>7, <1>8, <3>1 DEF ClosedInRound
  <2>4. NothingToWaitFor'
    <3> SUFFICES ASSUME NEW j \in (k + 1)..NSlots, Visitable(j)', conns'[j].fd \notin closed'
                 PROVE  Readable(j)'
      BY <2>1 DEF NothingToWaitFor
    <3>1. Live(conns, j)' /\ conns'[j].fd \in readfds
      BY <2>1 DEF Visitable
    <3>2. j # s
      BY <1>3, <2>2, <2>3, <3>1
    <3>3. Live(conns, j) /\ conns'[j] = conns[j]
      BY <1>3, <1>5, <1>9, <3>1, <3>2
    <3>4. Readable(j)
      BY <1>7, <1>8, <1>9, <2>2, <3>1, <3>3 DEF NothingToWaitFor, Visitable
    <3>5. conns[j] \in Connection
      BY <1>1, <1>9 DEF TypeOK, Tables
    <3>6. conns[j].type # "notify"
      BY <1>8, <1>9, <3>3 DEF ServersFirst, IsServer
    <3>7. CASE conns[j].type = "listener"
      <4>1. backlog'[j] = backlog[j]
        BY <1>1, <1>9 DEF TypeOK
      <4> QED BY <3>3, <3>4, <3>7, <4>1 DEF Readable
    <3>8. CASE conns[j].type = "client"
      <4>1. j \in LiveClients(conns)
        BY <1>9, <3>3, <3>8 DEF LiveClients, LiveClient
      <4>2. conns[j].ducq \in Ducqs /\ conns[j].ducq # a
        BY <1>1, <1>2, <4>1, ClientsAreDistinct, ReactorAssumption
      <4>3. obj'[conns[j].ducq] = obj[conns[j].ducq]
        BY <1>1, <1>2, <4>2 DEF TypeOK
      <4>4. PeerAt(j)' = PeerAt(j)
        BY <3>3, <4>3 DEF PeerAt
      <4> QED BY <1>1, <3>3, <3>4, <3>8, <4>4 DEF Readable
    <3> QED BY <3>5, <3>6, <3>7, <3>8 DEF Connection
  <2>5. readfds' \subseteq OpenFds(conns)' \cup closed'
    <3>1. \A j \in Slots : Live(conns, j) => Live(conns, j)' /\ conns'[j].fd = conns[j].fd
      BY <1>3, <1>5
    <3>2. OpenFds(conns) \subseteq OpenFds(conns)'
      BY <3>1 DEF OpenFds
    <3> QED BY <1>7, <1>8, <2>1, <2>2, <3>2 DEF ClosedInRound
  <2>6. \A j \in Slots : IsServer(conns, j)' => conns'[j].fd \notin closed'
    BY <1>6, <1>8, <2>2 DEF ClosedInRound
  <2>7. OnlyClientsClose'
    <3> SUFFICES ASSUME ~AllowLogRoute PROVE closed' = {}
      BY DEF OnlyClientsClose
    <3> QED BY <1>7, <1>8, <2>2 DEF OnlyClientsClose
  <2> QED BY <1>12, <1>13, <2>1, <2>4, <2>5, <2>6, <2>7 DEF RoundInv, ClosedInRound
<1> QED BY <1>12, <1>14, <1>15

-----------------------------------------------------------------------------
\* Nothing happens to the server, and no descriptor ceases to be readable.
LEMMA RoundStays ==
  ASSUME TypeOK, RoundInv, UNCHANGED server,
         \A k \in Slots : Live(conns, k) /\ Readable(k) => Readable(k)'
  PROVE  RoundInv'
<1>1. UNCHANGED <<conns, obj, pos, readfds, nready, closed>>
  BY DEF server
<1>2. \A k : (Live(conns, k)' <=> Live(conns, k)) /\ (IsServer(conns, k)' <=> IsServer(conns, k))
  BY <1>1 DEF Live, IsServer
<1>3. (InRound' <=> InRound) /\ \A k : Visitable(k)' <=> Visitable(k)
  BY <1>1, <1>2 DEF InRound, Visitable
<1>4. LiveClients(conns)' = LiveClients(conns) /\ OpenFds(conns)' = OpenFds(conns)
  BY <1>1, <1>2 DEF LiveClients, LiveClient, OpenFds
<1>5. ServersFirst'
  BY <1>1, <1>2, <1>4 DEF RoundInv, ServersFirst
<1>6. NothingToWaitFor'
  <2> SUFFICES ASSUME InRound, NEW k \in pos..NSlots, Visitable(k), conns[k].fd \notin closed
               PROVE  Readable(k)'
    BY <1>1, <1>3 DEF NothingToWaitFor
  <2>1. pos \in Int /\ pos > 0
    BY DEF TypeOK, InRound, AtSelect, Setup
  <2>2. k \in Slots
    BY <2>1, ConnectionsAssumption DEF Slots
  <2>3. Readable(k) /\ Live(conns, k)
    BY DEF RoundInv, NothingToWaitFor, Visitable
  <2> QED BY <2>2, <2>3
<1>7. ClosedInRound'
  BY <1>1, <1>2, <1>3, <1>4 DEF RoundInv, ClosedInRound
<1>8. Countdown'
  <2> SUFFICES ASSUME InRound PROVE \E R \in SUBSET readfds' : Remaining(R)'
    BY <1>3 DEF Countdown
  <2>1. PICK R \in SUBSET readfds : Remaining(R)
    BY DEF RoundInv, Countdown
  <2>2. Remaining(R)'
    BY <1>1, <1>2, <1>3, <2>1 DEF Remaining
  <2> QED BY <1>1, <2>2
<1>9. OnlyClientsClose'
  BY <1>1, <1>2 DEF RoundInv, OnlyClientsClose
<1> QED BY <1>5, <1>6, <1>7, <1>8, <1>9 DEF RoundInv

LEMMA EnvironmentRound ==
  ASSUME IInv, RoundInv, Environment
  PROVE  RoundInv'
<1>1. TypeOK /\ TableInv
  BY DEF IInv
<1>2. UNCHANGED server
  BY DEF Environment, Connect, SendRequest, BeginFrame, FinishFrame, HangUp, DropScript
<1>3. ASSUME NEW k \in Slots, Live(conns, k), Readable(k)
      PROVE  Readable(k)'
  <2>1. conns' = conns /\ PeerAt(k)' = PeerAt(k) /\ conns[k] \in Connection
    BY <1>1, <1>2 DEF server, PeerAt, TypeOK, Tables
  <2>2. CASE conns[k].type = "notify"
    <3>1. notified
      BY <1>3, <2>2 DEF Readable
    <3>2. notified'
      BY <3>1 DEF Environment, Connect, SendRequest, BeginFrame, FinishFrame, HangUp, DropScript
    <3> QED BY <2>1, <2>2, <3>2 DEF Readable
  <2>3. CASE conns[k].type = "listener"
    <3>1. backlog[k] # <<>> /\ backlog \in [Slots -> Seq(Peers)] /\ backlog[k] \in Seq(Peers)
      BY <1>1, <1>3, <2>3 DEF Readable, TypeOK
    <3>2. backlog'[k] # <<>>
      <4>1. ASSUME NEW p \in Peers, Connect(p)
            PROVE  backlog'[k] # <<>>
        <5>1. PICK j \in Servers : backlog' = [backlog EXCEPT ![j] = Append(backlog[j], p)]
          BY <4>1 DEF Connect
        <5>2. backlog'[k] = backlog[k] \/ backlog'[k] = Append(backlog[k], p)
          BY <3>1, <5>1 DEF Servers
        <5>3. Append(backlog[k], p) # <<>>
          BY <3>1
        <5> QED BY <3>1, <5>2, <5>3
      <4>2. CASE UNCHANGED backlog
        BY <3>1, <4>2
      <4> QED BY <4>1, <4>2 DEF Environment, SendRequest, BeginFrame, FinishFrame, HangUp, DropScript
    <3> QED BY <2>1, <2>3, <3>2 DEF Readable
  <2>4. CASE conns[k].type = "client"
    <3>1. k \in LiveClients(conns)
      BY <1>3, <2>4 DEF LiveClients, LiveClient
    <3>2. PICK q \in Peers : q = PeerAt(k)
      BY <1>1, <3>1, ClientsAreDistinct
    <3>3. unread[q] \in Nat /\ (unread[q] > 0 \/ partial[q] \/ eof[q])
      BY <1>1, <1>3, <2>4, <3>2 DEF Readable, TypeOK
    <3>4. unread'[q] > 0 \/ partial'[q] \/ eof'[q]
      <4> DEFINE Reports == unread'[q] > 0 \/ partial'[q] \/ eof'[q]
      <4>1. ASSUME NEW p \in Peers, SendRequest(p) \/ FinishFrame(p)
            PROVE  Reports
        <5>1. unread \in [Peers -> Nat] /\ unread' = [unread EXCEPT ![p] = unread[p] + 1] /\ eof' = eof
          BY <1>1, <4>1 DEF SendRequest, FinishFrame, TypeOK
        <5>2. unread'[q] = IF q = p THEN unread[q] + 1 ELSE unread[q]
          BY <5>1
        <5>3. q # p => partial'[q] = partial[q]
          BY <1>1, <4>1 DEF SendRequest, FinishFrame, TypeOK
        <5>4. CASE q = p
          BY <3>3, <5>2, <5>4
        <5>5. CASE q # p
          BY <3>3, <5>1, <5>2, <5>3, <5>5
        <5> QED BY <5>4, <5>5
      <4>2. ASSUME NEW p \in Peers, BeginFrame(p)
            PROVE  Reports
        <5>1. partial \in [Peers -> BOOLEAN] /\ partial' = [partial EXCEPT ![p] = TRUE]
              /\ UNCHANGED <<unread, eof>>
          BY <1>1, <4>2 DEF BeginFrame, TypeOK
        <5>2. partial'[q] = IF q = p THEN TRUE ELSE partial[q]
          BY <5>1
        <5> QED BY <3>3, <5>1, <5>2
      <4>3. ASSUME NEW p \in Peers, HangUp(p)
            PROVE  Reports
        <5>1. eof \in [Peers -> BOOLEAN] /\ eof' = [eof EXCEPT ![p] = TRUE] /\ unread' = unread
          BY <1>1, <4>3 DEF HangUp, TypeOK
        <5>2. eof'[q] = IF q = p THEN TRUE ELSE eof[q]
          BY <5>1
        <5>3. q # p => partial'[q] = partial[q]
          BY <1>1, <4>3 DEF HangUp, TypeOK
        <5>4. CASE q = p
          BY <5>2, <5>4
        <5>5. CASE q # p
          BY <3>3, <5>1, <5>2, <5>3, <5>5
        <5> QED BY <5>4, <5>5
      <4>4. CASE UNCHANGED <<unread, partial, eof>>
        BY <3>3, <4>4
      <4> QED BY <4>1, <4>2, <4>3, <4>4 DEF Environment, Connect, DropScript
    <3> QED BY <2>1, <2>4, <3>2, <3>4 DEF Readable
  <2> QED BY <2>1, <2>2, <2>3, <2>4 DEF Connection
<1> QED BY <1>1, <1>2, <1>3, RoundStays

LEMMA SetupRound ==
  ASSUME IInv, RoundInv, AddListener \/ EnterLoop
  PROVE  RoundInv'
<1>1. ServersFirst /\ pos = Setup /\ closed' = {} /\ ~InRound' /\ LiveClients(conns) = {}
  <2>1. pos = Setup /\ closed' = closed /\ ~InRound /\ ~InRound'
    BY DEF AddListener, EnterLoop, InRound, Setup, AtSelect
  <2> QED BY <2>1 DEF RoundInv, ClosedInRound, ServersFirst
<1>2. ServersFirst'
  <2>1. CASE EnterLoop
    <3>1. conns' = conns /\ pos' # Setup
      BY <2>1 DEF EnterLoop, AtSelect, Setup
    <3>2. \A k : IsServer(conns, k)' <=> IsServer(conns, k)
      BY <3>1 DEF IsServer, Live
    <3> QED BY <1>1, <3>1, <3>2 DEF ServersFirst
  <2>2. CASE AddListener
    <3>1. PICK k \in Slots, f \in 0..NSlots :
            /\ FirstFree(conns, k) /\ FreshFd(f) /\ conns' = AddServer(conns, k, f, "listener")
      BY <2>2 DEF AddListener
    <3>2. /\ conns'[k].fd = f /\ conns'[k].type = "listener"
          /\ \A j \in Slots : j # k => conns'[j] = conns[j]
      BY <3>1 DEF AddServer, IInv, TypeOK, Tables
    <3>3. f # NoFd
      BY <3>1, FreshFdIsNew DEF NoFd
    <3>4. \A j \in Slots : IsServer(conns, j)' <=> IsServer(conns, j) \/ j = k
      BY <3>2, <3>3 DEF IsServer, Live
    <3>5. \A j \in Slots : Live(conns, j) => IsServer(conns, j)
      BY <1>1 DEF LiveClients, LiveClient, IsServer
    <3>6. ASSUME NEW i \in Slots, IsServer(conns, i)'
          PROVE  \A j \in 1..(i - 1) : IsServer(conns, j)'
      <4>1. \A j \in 1..(i - 1) : j \in Slots
        BY SmallerAreSlots
      <4>2. CASE i = k
        BY <3>1, <3>4, <3>5, <4>1, <4>2 DEF FirstFree
      <4>3. CASE i # k
        BY <1>1, <3>4, <3>6, <4>1, <4>3 DEF ServersFirst
      <4> QED BY <4>2, <4>3
    <3>7. ASSUME NEW i \in Slots, IsServer(conns, i)', conns'[i].type = "notify"
          PROVE  i = 1
      BY <1>1, <3>2, <3>4, <3>7 DEF ServersFirst
    <3>8. LiveClients(conns)' = {}
      BY <3>2, <3>4, <3>5 DEF LiveClients, LiveClient, IsServer, Live
    <3> QED BY <3>6, <3>7, <3>8 DEF ServersFirst
  <2> QED BY <2>1, <2>2
<1> QED BY <1>1, <1>2, OutsideRound

LEMMA SelectRound ==
  ASSUME IInv, RoundInv, SelectReturns
  PROVE  RoundInv'
<1>1. /\ pos' = 1 /\ closed' = {} /\ readfds' = ReadyFds /\ nready' = Cardinality(ReadyFds)
      /\ UNCHANGED <<conns, obj, backlog, unread, partial, eof, notified>>
  BY DEF SelectReturns, kernel
<1>2. /\ \A k : (Live(conns, k)' <=> Live(conns, k)) /\ (IsServer(conns, k)' <=> IsServer(conns, k))
      /\ \A k : Readable(k)' <=> Readable(k)
  BY <1>1 DEF Live, IsServer, Readable, PeerAt
<1>3. InRound' /\ \A k \in 1..NSlots : k \in Slots
  BY <1>1 DEF InRound, AtSelect, Slots
<1>4. ServersFirst'
  <2>1. pos' # Setup
    BY <1>1 DEF Setup
  <2> QED BY <1>1, <1>2, <2>1 DEF RoundInv, ServersFirst
<1>5. NothingToWaitFor'
  <2> SUFFICES ASSUME NEW k \in Slots, Visitable(k)'
               PROVE  Readable(k)
    BY <1>1, <1>2, <1>3 DEF NothingToWaitFor
  <2>1. Live(conns, k) /\ conns[k].fd \in ReadyFds
    BY <1>1, <1>2 DEF Visitable
  <2>2. PICK j \in Slots : Live(conns, j) /\ Readable(j) /\ conns[j].fd = conns[k].fd
    BY <2>1 DEF ReadyFds
  <2>3. j = k
    BY <2>1, <2>2 DEF IInv, TableInv, TableMatchesHeap
  <2> QED BY <2>2, <2>3
<1>6. ClosedInRound'
  <2>1. ReadyFds \subseteq OpenFds(conns)
    BY DEF ReadyFds, OpenFds
  <2>2. OpenFds(conns)' = OpenFds(conns)
    BY <1>1, <1>2 DEF OpenFds
  <2> QED BY <1>1, <1>3, <2>1, <2>2 DEF ClosedInRound
<1>7. Countdown'
  <2>1. PICK R : R = ReadyFds
    OBVIOUS
  <2>2. IsFiniteSet(R)
    BY <2>1, ReadyTypes DEF IInv
  <2>3. Remaining(R)'
    BY <1>1, <2>1, <2>2 DEF Remaining, Visitable
  <2> QED BY <1>1, <2>1, <2>3 DEF Countdown
<1>8. OnlyClientsClose'
  BY <1>1 DEF OnlyClientsClose
<1> QED BY <1>4, <1>5, <1>6, <1>7, <1>8 DEF RoundInv

LEMMA IdleRound ==
  ASSUME IInv, RoundInv, SelectFails \/ RoundEnds
  PROVE  RoundInv'
<1>1. ServersFirst /\ TypeOK /\ TableInv
  BY DEF RoundInv, IInv
<1>2. pos' = AtSelect /\ pos' # Setup /\ ~InRound'
  BY DEF SelectFails, RoundEnds, BackToSelect, InRound, AtSelect, Setup
<1>3. CASE SelectFails
  <2>1. PICK gone \in LogLosses(conns, {}) : Drop(conns, gone)
    BY <1>3 DEF SelectFails
  <2>2. SameButRoutes(conns) /\ gone \subseteq LiveClients(conns)
    BY <1>1, TableItself, FirstLosses DEF TableInv
  <2>3. Closes(gone)
    BY <1>1, <2>1, <2>2, DropCloses
  <2>4. closed' = {}
    BY <1>2, <2>3 DEF Closes, ClosedAfter
  <2>5. ServersFirst'
    BY <1>1, <1>2, <2>3, ServersFirstKept
  <2> QED BY <1>2, <2>4, <2>5, OutsideRound
<1>4. CASE RoundEnds
  <2>1. conns' = conns /\ closed' = {}
    BY <1>4 DEF RoundEnds
  <2>2. \A k : IsServer(conns, k)' <=> IsServer(conns, k)
    BY <2>1 DEF IsServer, Live
  <2>3. ServersFirst'
    BY <1>1, <1>2, <2>1, <2>2 DEF ServersFirst
  <2> QED BY <1>2, <2>1, <2>3, OutsideRound
<1> QED BY <1>3, <1>4

LEMMA InitRound == Init => RoundInv
<1> SUFFICES ASSUME Init PROVE RoundInv
  OBVIOUS
<1>1. 1 \in Slots
  BY ConnectionsAssumption DEF Slots
<1>2. \A k \in Slots : /\ k = 1 => conns[k].type = "notify"
                       /\ k # 1 => ~Live(conns, k)
  BY <1>1 DEF Init, AddServer, EmptyTable, Live
<1>3. \A k \in Slots : IsServer(conns, k) => k = 1
  BY <1>2 DEF IsServer
<1>4. LiveClients(conns) = {}
  BY <1>2 DEF LiveClients, LiveClient
<1>5. ServersFirst
  BY <1>3, <1>4 DEF ServersFirst
<1>6. closed = {} /\ ~InRound
  BY DEF Init, InRound, AtSelect, Setup
<1> QED BY <1>5, <1>6
        DEF RoundInv, NothingToWaitFor, ClosedInRound, Countdown, OnlyClientsClose

\* A visit keeps what is known of the round, and one that ends it leaves nobody out.
LEMMA VisitEndsOrGoesOn ==
  ASSUME IInv, RoundInv, NEW k \in Slots, round_table(k)
  PROVE  RoundInv' /\ (pos' = AtSelect => NoneLeft(k))
BY ClientRound, NotifyRound, AcceptRound, RejectRound DEF round_table

LEMMA RoundNext == IInv /\ RoundInv /\ [Next]_vars => RoundInv'
<1> SUFFICES ASSUME IInv, RoundInv, [Next]_vars PROVE RoundInv'
  OBVIOUS
<1>1. CASE UNCHANGED vars
  <2>1. UNCHANGED server /\ UNCHANGED <<conns, obj, backlog, unread, partial, eof, notified>>
    BY <1>1 DEF vars, server, kernel
  <2>2. \A k \in Slots : Live(conns, k) /\ Readable(k) => Readable(k)'
    BY <2>1 DEF Readable, PeerAt
  <2> QED BY <2>1, <2>2, RoundStays DEF IInv
<1> QED BY <1>1, EnvironmentRound, SetupRound, SelectRound, IdleRound, VisitEndsOrGoesOn
        DEF Next, ducq_loop

LEMMA RoundAlways == Spec => [](IInv /\ RoundInv)
BY InitInv, NextInv, InitRound, RoundNext, PTL DEF Spec

\* What the server waits for is the rest of a frame, or a client that got the
\* number of a descriptor closed in the same round (ducq_reactor.c:330, 343).
LEMMA BlockedIn ==
  ASSUME IInv, RoundInv, NEW k \in Slots, Blocked(k)
  PROVE  /\ conns[k].type = "client" /\ Live(conns, k)
         /\ partial[PeerAt(k)] \/ conns[k].fd \in closed
<1>1. InRound /\ Visitable(k) /\ k \in pos..NSlots /\ Live(conns, k)
  BY DEF Blocked, IsNext, InRound, Visitable
<1>2. conns[k] \in Connection
  BY DEF IInv, TypeOK, Tables
<1>3. Readable(k) => conns[k].type = "client" /\ partial[PeerAt(k)]
  <2>1. CASE conns[k].type = "notify"
    BY <2>1 DEF Blocked
  <2>2. CASE conns[k].type = "listener"
    BY <2>2 DEF Blocked, Readable
  <2>3. CASE conns[k].type = "client"
    BY <2>3 DEF Blocked, Readable
  <2> QED BY <1>2, <2>1, <2>2, <2>3 DEF Connection
<1>4. CASE Readable(k)
  BY <1>1, <1>3, <1>4
<1>5. CASE ~Readable(k)
  <2>1. conns[k].fd \in closed
    BY <1>1, <1>5 DEF RoundInv, NothingToWaitFor
  <2>2. conns[k].type = "client"
    BY <1>1, <2>1 DEF RoundInv, ClosedInRound, IsServer
  <2> QED BY <1>1, <2>1, <2>2
<1> QED BY <1>4, <1>5

\* With or without the log route, the server waits for a peer that has sent a
\* part of a frame (ducq_tcp.c:34-50), or because the log deleted a client
\* select() had reported and FD_ISSET takes the descriptor's next owner for
\* ready (ducq_reactor.c:330); never in an accept, and for no other client.
THEOREM WaitsForAFrameOrReused == Spec => []WaitsInsideAFrameOrOnReused
<1>1. IInv /\ RoundInv => WaitsInsideAFrameOrOnReused
  BY BlockedIn DEF WaitsInsideAFrameOrOnReused
<1> QED BY <1>1, RoundAlways, PTL

\* Without the log route a listener is visited before any client, and nothing is
\* closed before the last accept of a round: what the server waits for is the
\* rest of a frame whose beginning it has been sent, and nothing else
\* (ducq_reactor.c:330, 343; ducq_tcp.c:34-50).
THEOREM WaitsForAFrame == ASSUME ~AllowLogRoute PROVE Spec => []WaitsOnlyInsideAFrame
<1>1. IInv /\ RoundInv => WaitsOnlyInsideAFrame
  BY BlockedIn DEF WaitsOnlyInsideAFrame, RoundInv, OnlyClientsClose
<1> QED BY <1>1, RoundAlways, PTL

\* The countdown of ducq_reactor.c:333 comes to zero only when no slot ahead is
\* left that select() reported, although the visits delete slots that were
\* counted and accept clients that were not.
THEOREM NobodyIsLeftOut == Spec => EveryReadySlotIsVisited
<1> DEFINE Complete == \A k \in Slots : IsNext(k) /\ pos' = AtSelect =>
             \A j \in (k + 1)..NSlots : ~(Live(conns', j) /\ conns'[j].fd \in readfds)
<1>1. ASSUME IInv, RoundInv, Next, NEW k \in Slots, IsNext(k), pos' = AtSelect
      PROVE  NoneLeft(k)
  <2>1. pos \in Int /\ pos > 0
    BY <1>1 DEF IInv, TypeOK, IsNext, Setup, AtSelect
  <2>2. PICK i \in Slots : round_table(i)
    <3>1. ~(Environment \/ AddListener \/ EnterLoop \/ SelectReturns \/ SelectFails)
      BY <1>1, <2>1 DEF Environment, Connect, SendRequest, BeginFrame, FinishFrame, HangUp, DropScript, server,
                        AddListener, EnterLoop, SelectReturns, SelectFails, AtSelect, Setup
    <3>2. ~RoundEnds
      BY <1>1 DEF RoundEnds
    <3> QED BY <1>1, <3>1, <3>2 DEF Next, ducq_loop
  <2>3. IsNext(i)
    <3>1. CASE AcceptNotify(i) \/ Accept(i) \/ Reject(i)
      BY <3>1 DEF AcceptNotify, Accept, Reject
    <3>2. CASE Dispatch(i) \/ Ignore(i) \/ Disconnect(i)
      BY <1>1, <3>2, HandlersServe DEF IInv, Client
    <3> QED BY <2>2, <3>1, <3>2 DEF round_table
  <2>4. i = k
    <3>1. i \in pos..NSlots /\ k \in pos..NSlots /\ Visitable(i) /\ Visitable(k)
      BY <1>1, <2>3 DEF IsNext
    <3>2. ~(i \in pos..(k - 1)) /\ ~(k \in pos..(i - 1))
      BY <1>1, <2>3, <3>1 DEF IsNext
    <3>3. i \in Int /\ k \in Int
      BY ConnectionsAssumption DEF Slots
    <3> QED BY <2>1, <3>1, <3>2, <3>3
  <2> QED BY <1>1, <2>2, <2>4, VisitEndsOrGoesOn
<1>2. IInv /\ RoundInv /\ [Next]_vars => [Complete]_vars
  BY <1>1 DEF NoneLeft
<1>3. Spec => [][Complete]_vars
  BY <1>2, RoundAlways, PTL DEF Spec
<1> QED BY <1>3 DEF EveryReadySlotIsVisited

-----------------------------------------------------------------------------

(***************************************************************************)
(* The promise: every step of the server is one of PubSub's.               *)
(*                                                                         *)
(* First the memory.  The table of last messages is a function of the      *)
(* routes it has slots for, because no route has two and free slots come   *)
(* last; it has room exactly while a slot is free.                         *)
(***************************************************************************)
MemoryInv ==
  /\ \A c, d \in Channels :
       last_msgs[c].route = last_msgs[d].route /\ last_msgs[c].route # EmptyRoute => c = d
  /\ \A c \in Channels : last_msgs[c].route = EmptyRoute =>
       \A d \in c..MaxChannels : last_msgs[d].route = EmptyRoute
  /\ \A c \in Channels : last_msgs[c].route # EmptyRoute => last_msgs[c].msg \in Msgs

\* what PubSub's memory stands for
Memory == [r \in Remembered |-> last_msgs[CHOOSE c \in Channels : last_msgs[c].route = r].msg]

LEMMA MemoryAt ==
  ASSUME MemoryInv, NEW c \in Channels, last_msgs[c].route # EmptyRoute
  PROVE  last_msgs[c].route \in Remembered /\ Memory[last_msgs[c].route] = last_msgs[c].msg
<1>1. last_msgs[c].route \in Remembered
  BY DEF Remembered
<1>2. (CHOOSE d \in Channels : last_msgs[d].route = last_msgs[c].route) = c
  <2> DEFINE e == CHOOSE d \in Channels : last_msgs[d].route = last_msgs[c].route
  <2>1. e \in Channels /\ last_msgs[e].route = last_msgs[c].route
    OBVIOUS
  <2> HIDE DEF e
  <2>2. e = c
    BY <2>1 DEF MemoryInv
  <2> QED BY <2>2 DEF e
<1> QED BY <1>1, <1>2 DEF Memory

\* The same of the next state
LEMMA MemoryAtNext ==
  ASSUME MemoryInv', NEW c \in Channels, last_msgs'[c].route # EmptyRoute
  PROVE  last_msgs'[c].route \in Remembered' /\ Memory'[last_msgs'[c].route] = last_msgs'[c].msg
<1>1. last_msgs'[c].route \in Remembered'
  BY DEF Remembered
<1>2. (CHOOSE d \in Channels : last_msgs'[d].route = last_msgs'[c].route) = c
  <2> DEFINE e == CHOOSE d \in Channels : last_msgs'[d].route = last_msgs'[c].route
  <2>1. e \in Channels /\ last_msgs'[e].route = last_msgs'[c].route
    OBVIOUS
  <2> HIDE DEF e
  <2>2. e = c
    BY <2>1 DEF MemoryInv
  <2> QED BY <2>2 DEF e
<1> QED BY <1>1, <1>2 DEF Memory

LEMMA RoomWhileFree ==
  ASSUME MemoryInv
  PROVE  Cardinality(Remembered) < MaxChannels <=> \E c \in Channels : last_msgs[c].route = EmptyRoute
<1> DEFINE U == {c \in Channels : last_msgs[c].route # EmptyRoute}
           f == [c \in U |-> last_msgs[c].route]
<1>1. IsFiniteSet(Channels) /\ Cardinality(Channels) = MaxChannels /\ MaxChannels \in Nat
  BY FS_Interval, LastMsgsAssumption DEF Channels
<1>2. IsFiniteSet(U) /\ Cardinality(U) <= MaxChannels /\ (Cardinality(U) = MaxChannels => U = Channels)
  <2>1. U \in SUBSET Channels
    OBVIOUS
  <2> QED BY <1>1, <2>1, FS_Subset
<1>3. Cardinality(Remembered) = Cardinality(U)
  <2>1. f \in Surjection(U, Remembered)
    BY DEF Surjection, Remembered
  <2>2. f \in [U -> Remembered] /\ \A c, d \in U : f[c] = f[d] => c = d
    BY <2>1 DEF Surjection, MemoryInv
  <2> HIDE DEF f
  <2>3. f \in Injection(U, Remembered)
    BY <2>2 DEF Injection, IsInjective
  <2> QED BY <1>2, <2>1, <2>3, FS_Surjection
<1>4. U = Channels <=> ~ \E c \in Channels : last_msgs[c].route = EmptyRoute
  OBVIOUS
<1>5. PICK n \in Nat : n = Cardinality(U)
  BY <1>2, FS_CardinalityType
<1> HIDE DEF U, f
<1>6. n < MaxChannels <=> U # Channels
  BY <1>1, <1>2, <1>5
<1> QED BY <1>3, <1>4, <1>5, <1>6

\* A scan that stops somewhere has a slot where it stops first.
LEMMA FirstExists ==
  ASSUME NEW r, NEW c \in Channels, ScanStopsAt(c, r)
  PROVE  \E d \in Channels : First(d, r)
<1> DEFINE T == {d \in Channels : ScanStopsAt(d, r)}
<1>1. T \in SUBSET Nat /\ T # {}
  BY DEF Channels
<1>2. PICK d \in T : \A e \in T : d <= e
  BY <1>1, LeastElement
<1>3. \A e \in 1..(d - 1) : e \in Channels /\ e \notin T
  BY <1>2, LastMsgsAssumption DEF Channels
<1>4. First(d, r)
  BY <1>2, <1>3 DEF First
<1> QED BY <1>2, <1>4

\* Where the scan stops first, the route's slot is found or there is none.
LEMMA FirstFinds ==
  ASSUME MemoryInv, NEW r, NEW c \in Channels, First(c, r)
  PROVE  /\ last_msgs[c].route \in {EmptyRoute, r}
         /\ \A d \in Channels : d # c /\ r # EmptyRoute => last_msgs[d].route # r
         /\ \A d \in 1..(c - 1) : d \in Channels /\ last_msgs[d].route # EmptyRoute
<1>1. last_msgs[c].route \in {EmptyRoute, r}
  BY DEF First, ScanStopsAt
<1>2. \A d \in 1..(c - 1) : d \in Channels /\ last_msgs[d].route # r /\ last_msgs[d].route # EmptyRoute
  BY LastMsgsAssumption DEF First, ScanStopsAt, Channels
<1>3. \A d \in Channels : d # c /\ r # EmptyRoute => last_msgs[d].route # r
  <2>1. CASE last_msgs[c].route = r
    BY <2>1 DEF MemoryInv
  <2>2. CASE last_msgs[c].route = EmptyRoute
    BY <1>2, <2>2, LastMsgsAssumption DEF MemoryInv, Channels
  <2> QED BY <1>1, <2>1, <2>2
<1> QED BY <1>1, <1>2, <1>3

LEMMA SetLastMsgMemory ==
  ASSUME LastMsgsTypeOK, MemoryInv, NEW r \in Routes, NEW m \in Msgs, SetLastMsg(r, m)
  PROVE  MemoryInv'
<1>1. CASE UNCHANGED last_msgs
  BY <1>1 DEF MemoryInv
<1>2. ASSUME NEW c \in Channels, First(c, r), Write(c, r, m)
      PROVE  MemoryInv'
  <2>1. /\ last_msgs'[c].route = r /\ last_msgs'[c].msg = m
        /\ \A d \in Channels : d # c => last_msgs'[d] = last_msgs[d]
    BY <1>2 DEF Write, LastMsgsTypeOK
  <2>2. /\ last_msgs[c].route \in {EmptyRoute, r}
        /\ \A d \in Channels : d # c /\ r # EmptyRoute => last_msgs[d].route # r
        /\ \A d \in 1..(c - 1) : d \in Channels /\ last_msgs[d].route # EmptyRoute
    BY <1>2, FirstFinds
  <2>3. ASSUME NEW d \in Channels, NEW e \in Channels,
               last_msgs'[d].route = last_msgs'[e].route, last_msgs'[d].route # EmptyRoute
        PROVE  d = e
    BY <2>1, <2>2, <2>3 DEF MemoryInv
  <2>4. ASSUME NEW d \in Channels, last_msgs'[d].route = EmptyRoute, NEW e \in d..MaxChannels
        PROVE  last_msgs'[e].route = EmptyRoute
    <3>1. e \in Channels /\ last_msgs[d].route = EmptyRoute
      BY <2>1, <2>2, <2>4, LastMsgsAssumption DEF Channels
    <3>2. last_msgs[e].route = EmptyRoute
      BY <3>1, <2>4 DEF MemoryInv
    <3>3. e = c => d = c
      BY <2>2, <2>4, <3>1, LastMsgsAssumption DEF Channels
    <3> QED BY <2>1, <2>4, <3>1, <3>2, <3>3
  <2>5. \A d \in Channels : last_msgs'[d].route # EmptyRoute => last_msgs'[d].msg \in Msgs
    BY <2>1 DEF MemoryInv
  <2> QED BY <2>3, <2>4, <2>5 DEF MemoryInv
<1> QED BY <1>1, <1>2 DEF SetLastMsg

\* ducq_set_last_msg does to the memory what PubSub's Remember does.
LEMMA Remembers ==
  ASSUME LastMsgsTypeOK, MemoryInv, NEW r \in Routes, NEW m \in Msgs, SetLastMsg(r, m)
  PROVE  Memory' = IF r # EmptyRoute /\ (r \in Remembered \/ Cardinality(Remembered) < MaxChannels)
                   THEN [q \in Remembered \cup {r} |-> IF q = r THEN m ELSE Memory[q]]
                   ELSE Memory
<1>1. MemoryInv'
  BY SetLastMsgMemory
<1>2. ASSUME NoStop(r), UNCHANGED last_msgs
      PROVE  /\ Memory' = Memory
             /\ r \notin Remembered /\ ~(Cardinality(Remembered) < MaxChannels)
  <2>1. \A c \in Channels : last_msgs[c].route # r /\ last_msgs[c].route # EmptyRoute
    BY <1>2 DEF NoStop, ScanStopsAt
  <2>2. Memory' = Memory
    BY <1>2 DEF Memory, Remembered
  <2>3. ~(Cardinality(Remembered) < MaxChannels)
    BY <2>1, RoomWhileFree
  <2> QED BY <2>1, <2>2, <2>3 DEF Remembered
<1>3. ASSUME NEW c \in Channels, First(c, r), Write(c, r, m)
      PROVE  /\ last_msgs'[c].route = r /\ last_msgs'[c].msg = m
             /\ \A d \in Channels : d # c => last_msgs'[d] = last_msgs[d]
             /\ last_msgs[c].route \in {EmptyRoute, r}
             /\ r # EmptyRoute => r \in Remembered \/ Cardinality(Remembered) < MaxChannels
  <2>1. last_msgs[c].route \in {EmptyRoute, r}
    BY <1>3, FirstFinds
  <2>2. /\ last_msgs'[c].route = r /\ last_msgs'[c].msg = m
        /\ \A d \in Channels : d # c => last_msgs'[d] = last_msgs[d]
    BY <1>3 DEF Write, LastMsgsTypeOK
  <2>3. last_msgs[c].route = EmptyRoute => Cardinality(Remembered) < MaxChannels
    BY RoomWhileFree
  <2>4. last_msgs[c].route # EmptyRoute => last_msgs[c].route \in Remembered
    BY MemoryAt
  <2> QED BY <2>1, <2>2, <2>3, <2>4
<1>4. ASSUME NEW c \in Channels, First(c, r), Write(c, r, m), r = EmptyRoute
      PROVE  Memory' = Memory
  <2>1. \A d \in Channels : last_msgs'[d].route = last_msgs[d].route
    BY <1>3, <1>4
  <2>2. Remembered' = Remembered
    BY <2>1 DEF Remembered
  <2>3. ASSUME NEW q \in Remembered PROVE Memory'[q] = Memory[q]
    <3>1. PICK d \in Channels : last_msgs[d].route = q /\ q # EmptyRoute
      BY DEF Remembered
    <3>2. d # c
      BY <1>3, <1>4, <3>1
    <3>3. last_msgs'[d] = last_msgs[d]
      BY <1>3, <1>4, <3>2
    <3> QED BY <1>1, <3>1, <3>3, MemoryAt, MemoryAtNext
  <2>4. Memory = [q \in Remembered |-> Memory[q]] /\ Memory' = [q \in Remembered' |-> Memory'[q]]
    BY DEF Memory
  <2> QED BY <2>2, <2>3, <2>4
<1>5. ASSUME NEW c \in Channels, First(c, r), Write(c, r, m), r # EmptyRoute
      PROVE  Memory' = [q \in Remembered \cup {r} |-> IF q = r THEN m ELSE Memory[q]]
  <2>1. Remembered' = Remembered \cup {r}
    <3>1. ASSUME NEW q \in Remembered PROVE q \in Remembered'
      <4>1. PICK d \in Channels : last_msgs[d].route = q /\ q # EmptyRoute
        BY DEF Remembered
      <4>2. last_msgs'[d].route = q
        BY <1>3, <1>5, <4>1
      <4> QED BY <4>1, <4>2 DEF Remembered
    <3>2. r \in Remembered'
      BY <1>3, <1>5 DEF Remembered
    <3>3. ASSUME NEW q \in Remembered' PROVE q \in Remembered \cup {r}
      <4>1. PICK d \in Channels : last_msgs'[d].route = q /\ q # EmptyRoute
        BY DEF Remembered
      <4>2. q = r \/ last_msgs[d].route = q
        BY <1>3, <1>5, <4>1
      <4> QED BY <4>1, <4>2 DEF Remembered
    <3> QED BY <3>1, <3>2, <3>3
  <2>2. Memory'[r] = m
    BY <1>1, <1>3, <1>5, MemoryAtNext
  <2>3. ASSUME NEW q \in Remembered, q # r PROVE Memory'[q] = Memory[q]
    <3>1. PICK d \in Channels : last_msgs[d].route = q /\ q # EmptyRoute
      BY DEF Remembered
    <3>2. d # c
      BY <1>3, <1>5, <2>3, <3>1
    <3>3. last_msgs'[d] = last_msgs[d]
      BY <1>3, <1>5, <3>2
    <3> QED BY <1>1, <3>1, <3>3, MemoryAt, MemoryAtNext
  <2>4. Memory' = [q \in Remembered' |-> Memory'[q]]
    BY DEF Memory
  <2> QED BY <2>1, <2>2, <2>3, <2>4
<1> QED BY <1>2, <1>3, <1>4, <1>5 DEF SetLastMsg

\* ducq_get_last_msg answers what PubSub's Last says.
LEMMA LastIsRemembered ==
  ASSUME LastMsgsTypeOK, MemoryInv, NEW r \in Routes
  PROVE  LastFrame(r) = IF r \in Remembered THEN Msg(r, Memory[r])
                        ELSE IF Cardinality(Remembered) < MaxChannels THEN Ack
                        ELSE <<"ACK_">>
<1>1. CASE \E c \in Channels : First(c, r)
  <2> DEFINE c == CHOOSE d \in Channels : First(d, r)
  <2>1. c \in Channels /\ First(c, r)
    BY <1>1
  <2> HIDE DEF c
  <2>2. GetLastMsg(r) = IF last_msgs[c].route = EmptyRoute THEN NoMsg ELSE last_msgs[c].msg
    BY <1>1 DEF GetLastMsg, c
  <2>3. CASE last_msgs[c].route = EmptyRoute
    <3>1. Cardinality(Remembered) < MaxChannels
      BY <2>1, <2>3, RoomWhileFree
    <3>2. r \notin Remembered
      <4>1. r # EmptyRoute => \A d \in Channels : last_msgs[d].route # r
        BY <2>1, <2>3, FirstFinds
      <4> QED BY <4>1 DEF Remembered
    <3> QED BY <2>2, <2>3, <3>1, <3>2 DEF LastFrame
  <2>4. CASE last_msgs[c].route # EmptyRoute
    <3>1. last_msgs[c].route = r /\ last_msgs[c].msg \in Msgs
      BY <2>1, <2>4, FirstFinds DEF MemoryInv
    <3>2. r \in Remembered /\ Memory[r] = last_msgs[c].msg
      BY <2>1, <2>4, <3>1, MemoryAt
    <3>3. last_msgs[c].msg # NoMsg /\ last_msgs[c].msg # FullMsg
      BY <3>1, LastMsgsAssumption
    <3> QED BY <2>2, <2>4, <3>2, <3>3 DEF LastFrame
  <2> QED BY <2>3, <2>4
<1>2. CASE ~ \E c \in Channels : First(c, r)
  <2>1. \A c \in Channels : last_msgs[c].route # r /\ last_msgs[c].route # EmptyRoute
    BY <1>2, FirstExists DEF ScanStopsAt
  <2>2. r \notin Remembered /\ ~(Cardinality(Remembered) < MaxChannels)
    BY <2>1, RoomWhileFree DEF Remembered
  <2>3. GetLastMsg(r) = FullMsg /\ FullMsg # NoMsg
    BY <1>2, LastMsgsAssumption DEF GetLastMsg
  <2> QED BY <2>2, <2>3 DEF LastFrame
<1> QED BY <1>1, <1>2

-----------------------------------------------------------------------------
(***************************************************************************)
(* Then the clients: the slots a handler releases are the clients that     *)
(* leave, and the others keep their subscriptions.                         *)
(***************************************************************************)
Subscriptions == [p \in Peers |-> RouteOf(p)]
Broken        == {p \in Accepted : eof[p]}
PeersAt(S)    == {PeerAt(k) : k \in S}

\* rt gives each client the route of its slot in the table t
RoutesOf(t, rt) ==
  /\ rt \in [Peers -> Routes]
  /\ \A k \in LiveClients(conns) : rt[PeerAt(k)] = t[k].route
  /\ \A p \in Peers \ Accepted : rt[p] = EmptyRoute

LEMMA RouteAtSlot ==
  ASSUME TableInv, NEW k \in LiveClients(conns)
  PROVE  RouteOf(PeerAt(k)) = conns[k].route
<1> DEFINE j == CHOOSE i \in LiveClients(conns) : PeerAt(i) = PeerAt(k)
<1>1. j \in LiveClients(conns) /\ PeerAt(j) = PeerAt(k)
  OBVIOUS
<1> HIDE DEF j
<1>2. j = k
  BY <1>1 DEF TableInv, TableMatchesHeap
<1>3. SlotOf(PeerAt(k)) = k
  BY <1>2 DEF SlotOf, j
<1>4. PeerAt(k) \in Accepted
  BY DEF Accepted
<1> QED BY <1>3, <1>4 DEF RouteOf

\* The same of the next state
LEMMA RouteAtSlotNext ==
  ASSUME TableInv', NEW k \in LiveClients(conns)', NEW p, p = PeerAt(k)'
  PROVE  RouteOf(p)' = conns'[k].route
<1>1. PICK j : j = SlotOf(p)'
  OBVIOUS
<1>2. j \in LiveClients(conns)' /\ PeerAt(j)' = p
  BY <1>1 DEF SlotOf
<1>3. j = k
  BY <1>2 DEF TableInv, TableMatchesHeap
<1>4. p \in Accepted'
  BY DEF Accepted
<1> QED BY <1>1, <1>3, <1>4 DEF RouteOf

LEMMA TheirOwnRoutes ==
  ASSUME TableInv
  PROVE  RoutesOf(conns, Subscriptions)
<1>1. \A k \in LiveClients(conns) : PeerAt(k) \in Peers /\ RouteOf(PeerAt(k)) = conns[k].route
  BY RouteAtSlot, ClientsAreDistinct
<1>2. \A k \in LiveClients(conns) : conns[k].route \in Routes
  BY DEF TableInv, Tables, Connection, LiveClients
<1>3. \A p \in Peers \ Accepted : RouteOf(p) = EmptyRoute
  BY DEF RouteOf
<1>4. \A p \in Peers : RouteOf(p) \in Routes
  BY <1>1, <1>2, <1>3, RoutingAssumption DEF Accepted
<1> QED BY <1>1, <1>3, <1>4 DEF RoutesOf, Subscriptions

\* Releasing slots is Leave.
LEMMA DropLeaves ==
  ASSUME TypeOK, TableInv, TableInv', NEW t, SameButRoutes(t),
         NEW gone, gone \subseteq LiveClients(conns), Drop(t, gone), NEW rt, RoutesOf(t, rt)
  PROVE  Promise!Leave(PeersAt(gone), rt)
<1>1. Closes(gone)
  BY DropCloses
<1>2. LiveClients(conns)' = LiveClients(conns) \ gone
  BY <1>1, ServersStay
<1>3. \A k \in LiveClients(conns) \ gone :
        /\ PeerAt(k)' = PeerAt(k) /\ eof'[PeerAt(k)] = eof[PeerAt(k)]
        /\ PeerAt(k) \notin PeersAt(gone)
  BY <1>1 DEF Closes, PeersAt, TableInv, TableMatchesHeap
<1>4. Accepted' = Accepted \ PeersAt(gone)
  BY <1>2, <1>3 DEF Accepted, PeersAt
<1>5. Broken' = Broken \ PeersAt(gone)
  <2>1. \A p \in Accepted' : eof'[p] = eof[p]
    <3> SUFFICES ASSUME NEW p \in Accepted' PROVE eof'[p] = eof[p]
      OBVIOUS
    <3>1. PICK k \in LiveClients(conns)' : p = PeerAt(k)'
      BY DEF Accepted
    <3> QED BY <1>2, <1>3, <3>1
  <2> QED BY <1>4, <2>1 DEF Broken
<1>6. ASSUME NEW p \in Peers
      PROVE  RouteOf(p)' = IF p \in PeersAt(gone) THEN EmptyRoute ELSE rt[p]
  <2>1. CASE p \in Accepted'
    <3>1. PICK k \in LiveClients(conns)' : p = PeerAt(k)'
      BY <2>1 DEF Accepted
    <3>2. k \in LiveClients(conns) \ gone /\ k \in Slots /\ p = PeerAt(k) /\ p \notin PeersAt(gone)
      BY <1>2, <1>3, <3>1 DEF LiveClients
    <3>3. RouteOf(p)' = conns'[k].route
      BY <3>1, RouteAtSlotNext
    <3>4. conns'[k].route = t[k].route
      BY <3>2 DEF Drop, Release
    <3> QED BY <3>2, <3>3, <3>4 DEF RoutesOf
  <2>2. CASE p \notin Accepted'
    <3>1. RouteOf(p)' = EmptyRoute
      BY <2>2 DEF RouteOf
    <3> QED BY <1>4, <2>2, <3>1 DEF RoutesOf
  <2> QED BY <2>1, <2>2
<1>7. Subscriptions' = [p \in Peers |-> IF p \in PeersAt(gone) THEN EmptyRoute ELSE rt[p]]
  BY <1>6 DEF Subscriptions
<1> QED BY <1>4, <1>5, <1>7 DEF Promise!Leave, Broken, Subscriptions

\* Whom the log finds broken in the table is whom it may find broken.
LEMMA LossesLeave ==
  ASSUME TableInv, NEW t, SameButRoutes(t), NEW rt, RoutesOf(t, rt),
         NEW S, NEW L \in LogLosses(t, S)
  PROVE  PeersAt(L) \in Promise!LogLosses(rt)
<1>1. CASE AllowLogRoute
  <2>1. \A k \in L : k \in LiveClients(conns) /\ t[k].route = LogRoute /\ eof[PeerAt(k)]
    BY <1>1, LossesAreClients DEF LogLosses
  <2>2. \A k \in L : PeerAt(k) \in Accepted /\ eof[PeerAt(k)] /\ rt[PeerAt(k)] = LogRoute
    BY <2>1 DEF RoutesOf, Accepted
  <2>3. PeersAt(L) \subseteq {p \in {q \in Accepted : eof[q]} : rt[p] = LogRoute}
    BY <2>2 DEF PeersAt
  <2> QED BY <1>1, <2>3 DEF Promise!LogLosses
<1>2. CASE ~AllowLogRoute
  BY <1>2 DEF LogLosses, Promise!LogLosses, PeersAt
<1> QED BY <1>1, <1>2

\* A client is one to PubSub as well, and what a send to it may return is that.
LEMMA ClientIsConnected ==
  ASSUME NEW k \in Slots, Client(k)
  PROVE  /\ PeerAt(k) \in Accepted
         /\ \A sent \in Sends(PeerAt(k)) : sent \in BOOLEAN /\ (~sent => PeerAt(k) \in Broken)
BY ClientIsLive DEF Accepted, Sends, Broken

\* The memory stays when the table of last messages does.
LEMMA MemoryStays == last_msgs' = last_msgs => Memory' = Memory
BY DEF Memory, Remembered

-----------------------------------------------------------------------------
(***************************************************************************)
(* Now the commands, one by one.                                           *)
(***************************************************************************)
LEMMA LogReleases ==
  ASSUME IInv, IInv', NEW gone \in LogLosses(conns, {}), Drop(conns, gone)
  PROVE  /\ PeersAt(gone) \in Promise!LogLosses(Subscriptions)
         /\ Promise!Leave(PeersAt(gone), Subscriptions)
<1>1. TypeOK /\ TableInv /\ TableInv' /\ SameButRoutes(conns) /\ RoutesOf(conns, Subscriptions)
  BY TableItself, TheirOwnRoutes DEF IInv, TableInv
<1>2. gone \subseteq LiveClients(conns)
  BY <1>1, FirstLosses
<1>3. PeersAt(gone) \in Promise!LogLosses(Subscriptions)
  BY <1>1, LossesLeave
<1>4. PICK rt : rt = Subscriptions /\ RoutesOf(conns, rt)
  BY <1>1
<1>5. Promise!Leave(PeersAt(gone), rt)
  BY <1>1, <1>2, <1>4, DropLeaves
<1>6. Promise!Leave(PeersAt(gone), Subscriptions)
  BY <1>4, <1>5 DEF Promise!Leave
<1> QED BY <1>3, <1>6

\* ... when slots are released besides those the log finds broken
LEMMA HandlerReleases ==
  ASSUME IInv, IInv', NEW S, NEW L \in LogLosses(conns, S), NEW j \in LiveClients(conns),
         Drop(conns, L \cup {j})
  PROVE  /\ PeersAt(L) \in Promise!LogLosses(Subscriptions)
         /\ Promise!Leave(PeersAt(L) \cup {PeerAt(j)}, Subscriptions)
<1>1. TypeOK /\ TableInv /\ TableInv' /\ SameButRoutes(conns) /\ RoutesOf(conns, Subscriptions)
  BY TableItself, TheirOwnRoutes DEF IInv, TableInv
<1>2. L \cup {j} \subseteq LiveClients(conns)
  BY <1>1, FirstLosses
<1>3. PeersAt(L) \in Promise!LogLosses(Subscriptions)
  BY <1>1, LossesLeave
<1>4. PICK rt : rt = Subscriptions /\ RoutesOf(conns, rt)
  BY <1>1
<1>5. Promise!Leave(PeersAt(L \cup {j}), rt)
  BY <1>1, <1>2, <1>4, DropLeaves
<1>6. PeersAt(L \cup {j}) = PeersAt(L) \cup {PeerAt(j)}
  BY DEF PeersAt
<1>7. Promise!Leave(PeersAt(L) \cup {PeerAt(j)}, Subscriptions)
  BY <1>4, <1>5, <1>6 DEF Promise!Leave
<1> QED BY <1>3, <1>7

LEMMA Answers ==
  ASSUME NEW p, NEW f, out' = To(p, f) \/ (p \in Broken /\ out' = Silent)
  PROVE  Promise!Answer(p, f)
BY DEF Promise!Answer, Promise!To, Promise!Silent, To, Silent, Broken

LEMMA SameFrames == Promise!Ack = Ack /\ Promise!Nack = Nack /\ \A r, m : Promise!Msg(r, m) = Msg(r, m)
BY DEF Promise!Ack, Promise!Nack, Promise!Msg, Ack, Nack, Msg

\* PING, epoch, list_commands and the refusals
LEMMA QueryPromised ==
  ASSUME IInv, IInv', NEW k \in Slots, NEW frame,
         LogThenAnswer(k, frame) \/ AnswerThenLog(k, frame)
  PROVE  Promise!Query(PeerAt(k), frame)
<1>1. PICK gone \in LogLosses(conns, {}), sent \in Sends(PeerAt(k)) :
        /\ Served(k, conns, gone)
        /\ \/ out' = IF sent /\ k \notin gone THEN To(PeerAt(k), frame) ELSE Silent
           \/ out' = IF sent THEN To(PeerAt(k), frame) ELSE Silent
  BY DEF LogThenAnswer, AnswerThenLog
<1>2. Client(k) /\ last_msgs' = last_msgs
  BY DEF LogThenAnswer, AnswerThenLog, Receives
<1>3. PeerAt(k) \in Accepted /\ sent \in BOOLEAN /\ (~sent => PeerAt(k) \in Broken)
  BY <1>2, ClientIsConnected
<1>4. k \in gone => PeerAt(k) \in Broken
  BY <1>3, LossesHungUp DEF Broken
<1>5. Promise!Answer(PeerAt(k), frame)
  BY <1>1, <1>3, <1>4, Answers
<1>6. /\ PeersAt(gone) \in Promise!LogLosses(Subscriptions)
      /\ Promise!Leave(PeersAt(gone), Subscriptions)
  BY <1>1, LogReleases DEF Served
<1> QED BY <1>2, <1>3, <1>5, <1>6, MemoryStays DEF Promise!Query, Subscriptions, Memory

\* A listing names exactly the clients connected and what they have subscribed.
LEMMA ListingLists ==
  ASSUME TableInv, NEW S, S \subseteq LiveClients(conns)
  PROVE  Listing(S) = <<"LIST", {<<q, Subscriptions[q]>> : q \in Accepted \ PeersAt(S)}>>
<1> DEFINE A == {<<PeerAt(j), conns[j].route>> : j \in LiveClients(conns) \ S}
           B == {<<q, Subscriptions[q]>> : q \in Accepted \ PeersAt(S)}
<1>1. \A j \in LiveClients(conns) :
        PeerAt(j) \in Accepted /\ PeerAt(j) \in Peers /\ Subscriptions[PeerAt(j)] = conns[j].route
  BY RouteAtSlot, ClientsAreDistinct DEF Accepted, Subscriptions
<1>2. \A j \in LiveClients(conns) \ S : PeerAt(j) \notin PeersAt(S)
  BY DEF PeersAt, TableInv, TableMatchesHeap
<1>3. A \subseteq B
  BY <1>1, <1>2
<1>4. \A q \in Accepted \ PeersAt(S) : \E j \in LiveClients(conns) \ S : q = PeerAt(j)
  BY DEF Accepted, PeersAt
<1>5. B \subseteq A
  BY <1>1, <1>4
<1>6. Listing(S) = <<"LIST", A>>
  BY DEF Listing
<1> HIDE DEF A, B
<1>7. A = B
  BY <1>3, <1>5
<1> QED BY <1>6, <1>7 DEF B

LEMMA ListPromised ==
  ASSUME IInv, IInv', NEW k \in Slots, lsconn(k) \/ list_subscriptions(k)
  PROVE  Promise!List(PeerAt(k))
<1>1. PICK gone \in LogLosses(conns, {}), sent \in Sends(PeerAt(k)) :
        /\ Served(k, conns, gone)
        /\ \/ out' = IF sent /\ k \notin gone THEN To(PeerAt(k), Listing(gone)) ELSE Silent
           \/ out' = IF sent THEN To(PeerAt(k), Listing({})) ELSE Silent
  BY DEF list_subscriptions, lsconn, AnswerThenLog
<1>2. TableInv /\ Client(k) /\ last_msgs' = last_msgs
  BY DEF list_subscriptions, lsconn, AnswerThenLog, Receives, IInv
<1>3. PeerAt(k) \in Accepted /\ sent \in BOOLEAN /\ (~sent => PeerAt(k) \in Broken)
  BY <1>2, ClientIsConnected
<1>4. k \in gone => PeerAt(k) \in Broken
  BY <1>3, LossesHungUp DEF Broken
<1>5. PICK seen \in {Accepted, Accepted \ PeersAt(gone)} :
        Promise!Answer(PeerAt(k), <<"LIST", {<<q, Subscriptions[q]>> : q \in seen}>>)
  <2>1. gone \subseteq LiveClients(conns) /\ {} \subseteq LiveClients(conns)
    BY <1>2, FirstLosses
  <2>2. Accepted \ PeersAt({}) = Accepted
    BY DEF PeersAt
  <2>3. Listing({}) = <<"LIST", {<<q, Subscriptions[q]>> : q \in Accepted}>>
    BY <1>2, <2>1, <2>2, ListingLists
  <2>4. Listing(gone) = <<"LIST", {<<q, Subscriptions[q]>> : q \in Accepted \ PeersAt(gone)}>>
    BY <1>2, <2>1, ListingLists
  <2>5. Promise!Answer(PeerAt(k), Listing({})) \/ Promise!Answer(PeerAt(k), Listing(gone))
    BY <1>1, <1>3, <1>4, Answers
  <2> QED BY <2>3, <2>4, <2>5
<1>6. /\ PeersAt(gone) \in Promise!LogLosses(Subscriptions)
      /\ Promise!Leave(PeersAt(gone), Subscriptions)
  BY <1>1, LogReleases DEF Served
<1> QED BY <1>2, <1>3, <1>5, <1>6, MemoryStays DEF Promise!List, Subscriptions, Memory

\* PONG and the handlers that answer nothing are seen only when the log finds
\* somebody broken.
LEMMA LogPromised ==
  ASSUME IInv, IInv', NEW gone \in LogLosses(conns, {}), Drop(conns, gone), out' = Silent,
         last_msgs' = last_msgs
  PROVE  Promise!LogOnly
<1>1. /\ PeersAt(gone) \in Promise!LogLosses(Subscriptions)
      /\ Promise!Leave(PeersAt(gone), Subscriptions)
  BY LogReleases
<1> QED BY <1>1, MemoryStays DEF Promise!LogOnly, Promise!Silent, Silent, Subscriptions, Memory

LEMMA ExpelPromised ==
  ASSUME IInv, IInv', NEW k \in Slots, pubWithoutRoute(k) \/ Disconnect(k)
  PROVE  Promise!Expel(PeerAt(k))
<1>1. PICK sent \in Sends(PeerAt(k)), L \in LogLosses(conns, {}) :
        /\ Served(k, conns, L \cup {k})
        /\ out' = IF sent THEN To(PeerAt(k), Nack) ELSE Silent
  BY DEF pubWithoutRoute, Disconnect
<1>2. Client(k) /\ last_msgs' = last_msgs
  BY DEF pubWithoutRoute, Disconnect, Receives
<1>3. /\ PeerAt(k) \in Accepted /\ sent \in BOOLEAN /\ (~sent => PeerAt(k) \in Broken)
      /\ k \in LiveClients(conns)
  BY <1>2, ClientIsConnected, ClientIsLive
<1>4. Promise!Answer(PeerAt(k), Promise!Nack)
  BY <1>1, <1>3, Answers, SameFrames
<1>5. /\ PeersAt(L) \in Promise!LogLosses(Subscriptions)
      /\ Promise!Leave(PeersAt(L) \cup {PeerAt(k)}, Subscriptions)
  BY <1>1, <1>3, HandlerReleases DEF Served
<1> QED BY <1>2, <1>3, <1>4, <1>5, MemoryStays DEF Promise!Expel, Subscriptions, Memory

LEMMA UnsubPromised ==
  ASSUME IInv, IInv', NEW k \in Slots, NEW id \in Peers, unsub(k, id)
  PROVE  Promise!Unsubscribe(PeerAt(k), id)
<1>1. PICK j \in Slots : HasId(j, id) /\ \E L \in LogLosses(conns, {j}), sent \in Sends(PeerAt(k)) :
        /\ Served(k, conns, L \cup {j})
        /\ out' = IF sent /\ k \notin L \cup {j} THEN To(PeerAt(k), Ack) ELSE Silent
  BY DEF unsub
<1>2. PICK L \in LogLosses(conns, {j}), sent \in Sends(PeerAt(k)) :
        /\ Served(k, conns, L \cup {j})
        /\ out' = IF sent /\ k \notin L \cup {j} THEN To(PeerAt(k), Ack) ELSE Silent
  BY <1>1
<1>3. TableInv /\ Client(k) /\ last_msgs' = last_msgs
  BY DEF unsub, Receives, IInv
<1>4. /\ PeerAt(k) \in Accepted /\ sent \in BOOLEAN /\ (~sent => PeerAt(k) \in Broken)
      /\ k \in LiveClients(conns)
  BY <1>3, ClientIsConnected, ClientIsLive
<1>5. j \in LiveClients(conns) /\ PeerAt(j) = id /\ id \in Accepted
  BY <1>1 DEF HasId, Accepted
<1>6. /\ PeersAt(L) \in Promise!LogLosses(Subscriptions)
      /\ Promise!Leave(PeersAt(L) \cup {id}, Subscriptions)
  BY <1>2, <1>5, HandlerReleases DEF Served
<1>7. PeerAt(k) \in PeersAt(L) \cup {id} <=> k \in L \cup {j}
  <2>1. L \subseteq LiveClients(conns)
    BY <1>3, FirstLosses
  <2>2. \A i \in LiveClients(conns) : PeerAt(i) = PeerAt(k) => i = k
    BY <1>3, <1>4 DEF TableInv, TableMatchesHeap
  <2> QED BY <1>5, <2>1, <2>2 DEF PeersAt
<1>8. IF PeerAt(k) \in PeersAt(L) \cup {id}
      THEN out' = Promise!Silent ELSE Promise!Answer(PeerAt(k), Promise!Ack)
  <2>1. CASE k \in L \cup {j}
    BY <1>2, <1>7, <2>1 DEF Promise!Silent, Silent
  <2>2. CASE k \notin L \cup {j}
    <3>1. Promise!Answer(PeerAt(k), Ack)
      BY <1>2, <1>4, <2>2, Answers
    <3> QED BY <1>7, <2>2, <3>1, SameFrames
  <2> QED BY <2>1, <2>2
<1> QED BY <1>3, <1>4, <1>5, <1>6, <1>8, MemoryStays
        DEF Promise!Unsubscribe, Subscriptions, Memory

\* A subscription is set on the client's own slot, the first with its pointer.
LEMMA SubscriptionLands ==
  ASSUME TableInv, NEW k \in LiveClients(conns), NEW r \in Routes
  PROVE  RoutesOf(SetRoute(conns, conns[k].ducq, r), [Subscriptions EXCEPT ![PeerAt(k)] = r])
<1> DEFINE t  == SetRoute(conns, conns[k].ducq, r)
           rt == [Subscriptions EXCEPT ![PeerAt(k)] = r]
<1>1. RoutesOf(conns, Subscriptions)
  BY TheirOwnRoutes
<1>2. PeerAt(k) \in Peers /\ PeerAt(k) \in Accepted
  BY ClientsAreDistinct DEF Accepted
<1>3. rt \in [Peers -> Routes] /\ \A p \in Peers : rt[p] = IF p = PeerAt(k) THEN r ELSE Subscriptions[p]
  BY <1>1, <1>2 DEF RoutesOf
<1>4. \A p \in Peers \ Accepted : rt[p] = EmptyRoute
  BY <1>1, <1>2, <1>3 DEF RoutesOf
<1>5. ASSUME NEW j \in LiveClients(conns)
      PROVE  rt[PeerAt(j)] = t[j].route
  <2>1. j \in Slots /\ conns[j] \in Connection /\ PeerAt(j) \in Peers
    BY ClientsAreDistinct DEF LiveClients, TableInv, Tables
  <2>2. CASE j = k
    <3>1. HoldsFirst(conns, k, conns[k].ducq)
      BY DEF TableInv, OwnSlotFirst
    <3>2. t[k] = [conns[k] EXCEPT !.route = r]
      BY <2>1, <2>2, <3>1 DEF SetRoute
    <3> QED BY <1>3, <2>1, <2>2, <3>2 DEF Connection
  <2>3. CASE j # k
    <3>1. PeerAt(j) # PeerAt(k) /\ conns[j].ducq # conns[k].ducq
      BY <2>3, ClientsAreDistinct DEF TableInv, TableMatchesHeap
    <3>2. t[j] = conns[j]
      BY <2>1, <3>1 DEF SetRoute, HoldsFirst
    <3> QED BY <1>1, <1>3, <2>1, <3>1, <3>2 DEF RoutesOf
  <2> QED BY <2>2, <2>3
<1> QED BY <1>3, <1>4, <1>5 DEF RoutesOf

\* Both modules count alike, and Server's memory is PubSub's.
LEMMA SameCardinality ==
  \A S : Promise!Cardinality(S) = Cardinality(S)
BY DEF Cardinality, Promise!Cardinality

LEMMA PromisedLast ==
  ASSUME NEW r
  PROVE  Promise!Last(r) = IF r \in DOMAIN Memory THEN Promise!Msg(r, Memory[r])
                           ELSE IF Cardinality(DOMAIN Memory) < MaxChannels THEN Promise!Ack
                           ELSE <<"ACK_">>
BY SameCardinality DEF Promise!Last, Memory

LEMMA PromisedRemember ==
  ASSUME NEW r, NEW m,
         Memory' = IF r # EmptyRoute /\ (r \in DOMAIN Memory \/ Cardinality(DOMAIN Memory) < MaxChannels)
                   THEN [q \in DOMAIN Memory \cup {r} |-> IF q = r THEN m ELSE Memory[q]]
                   ELSE Memory
  PROVE  Promise!Remember(r, m)
BY SameCardinality DEF Promise!Remember, Memory

LEMMA SubPromised ==
  ASSUME IInv, IInv', MemoryInv, NEW k \in Slots, NEW r \in Routes, NEW last \in BOOLEAN,
         sub(k, r, last)
  PROVE  Promise!Subscribe(PeerAt(k), r)
<1> DEFINE t == SetRoute(conns, conns[k].ducq, r)
           Told == IF last THEN LastFrame(r) ELSE Ack
           rt == [Subscriptions EXCEPT ![PeerAt(k)] = r]
<1>1. TypeOK /\ TableInv /\ TableInv' /\ Client(k) /\ last_msgs' = last_msgs
  BY DEF sub, Receives, IInv
<1>2. /\ PeerAt(k) \in Accepted /\ k \in LiveClients(conns)
      /\ \A sent \in Sends(PeerAt(k)) : sent \in BOOLEAN /\ (~sent => PeerAt(k) \in Broken)
  BY <1>1, ClientIsConnected, ClientIsLive
<1>3. SameButRoutes(t)
  BY <1>1, SetRouteKeepsTheRest DEF TableInv
<1>4. RoutesOf(t, rt)
  BY <1>1, <1>2, SubscriptionLands
<1>5. PICK sent \in Sends(PeerAt(k)), L \in LogLosses(t, {}) :
        /\ Served(k, t, IF sent THEN L ELSE L \cup {k})
        /\ out' = IF sent THEN To(PeerAt(k), Told) ELSE Silent
  BY DEF sub
<1>6. PICK u : u = t
  OBVIOUS
<1>7. PICK ru : ru = rt
  OBVIOUS
<1> HIDE DEF t, rt
<1>8. SameButRoutes(u) /\ RoutesOf(u, ru) /\ L \in LogLosses(u, {})
  BY <1>3, <1>4, <1>5, <1>6, <1>7
<1>9. L \subseteq LiveClients(conns) /\ L \cup {k} \subseteq LiveClients(conns)
  BY <1>2, <1>8, LossesAreClients
<1>10. PeersAt(L) \in Promise!LogLosses(ru)
  BY <1>1, <1>8, LossesLeave
<1>11. PeersAt(L \cup {k}) = PeersAt(L) \cup {PeerAt(k)}
  BY DEF PeersAt
<1>12. CASE sent
  <2>1. Drop(u, L)
    BY <1>5, <1>6, <1>12 DEF Served
  <2>2. Promise!Leave(PeersAt(L), ru)
    BY <1>1, <1>8, <1>9, <2>1, DropLeaves
  <2>3. Told \in {Promise!Ack, Promise!Last(r)}
    <3>1. LastFrame(r) = Promise!Last(r)
      <4>1. DOMAIN Memory = Remembered
        BY DEF Memory
      <4>2. LastFrame(r) = IF r \in DOMAIN Memory THEN Msg(r, Memory[r])
                           ELSE IF Cardinality(DOMAIN Memory) < MaxChannels THEN Ack
                           ELSE <<"ACK_">>
        BY <1>1, <4>1, LastIsRemembered DEF TypeOK
      <4> QED BY <4>2, PromisedLast, SameFrames
    <3> QED BY <3>1, SameFrames
  <2>4. PICK f \in {Promise!Ack, Promise!Last(r)} : out' = Promise!To(PeerAt(k), f)
    BY <1>5, <1>12, <2>3 DEF To, Silent, Promise!To, Promise!Silent
  <2>5. Promise!Leave(PeersAt(L), [Subscriptions EXCEPT ![PeerAt(k)] = r])
    BY <1>7, <2>2 DEF Promise!Leave, rt
  <2>6. PeersAt(L) \in Promise!LogLosses([Subscriptions EXCEPT ![PeerAt(k)] = r])
    BY <1>7, <1>10 DEF Promise!LogLosses, rt
  <2> QED BY <1>1, <1>2, <2>4, <2>5, <2>6, MemoryStays
          DEF Promise!Subscribe, Subscriptions, Memory
<1>13. CASE ~sent
  <2>1. Drop(u, L \cup {k})
    BY <1>5, <1>6, <1>13 DEF Served
  <2>2. Promise!Leave(PeersAt(L) \cup {PeerAt(k)}, ru)
    BY <1>1, <1>8, <1>9, <1>11, <2>1, DropLeaves
  <2>3. PeerAt(k) \in Broken /\ out' = Promise!Silent
    BY <1>2, <1>5, <1>13 DEF Silent, Promise!Silent
  <2>4. Promise!Leave(PeersAt(L) \cup {PeerAt(k)}, [Subscriptions EXCEPT ![PeerAt(k)] = r])
    BY <1>7, <2>2 DEF Promise!Leave, rt
  <2>5. PeersAt(L) \in Promise!LogLosses([Subscriptions EXCEPT ![PeerAt(k)] = r])
    BY <1>7, <1>10 DEF Promise!LogLosses, rt
  <2> QED BY <1>1, <1>2, <2>3, <2>4, <2>5, MemoryStays
          DEF Promise!Subscribe, Subscriptions, Memory, Broken
<1> QED BY <1>12, <1>13

LEMMA PubPromised ==
  ASSUME IInv, IInv', MemoryInv, NEW k \in Slots, NEW r \in Routes, NEW m \in Msgs, pub(k, r, m)
  PROVE  Promise!Publish(PeerAt(k), r, m) \/ Promise!PublishUnacknowledged(PeerAt(k), r, m)
<1>1. /\ TypeOK /\ TableInv /\ TableInv' /\ Client(k) /\ SetLastMsg(r, m)
      /\ SameButRoutes(conns) /\ RoutesOf(conns, Subscriptions)
  BY TableItself, TheirOwnRoutes DEF pub, Receives, IInv, TableInv
<1>2. /\ PeerAt(k) \in Accepted /\ k \in LiveClients(conns)
      /\ \A sent \in Sends(PeerAt(k)) : sent \in BOOLEAN /\ (~sent => PeerAt(k) \in Broken)
  BY <1>1, ClientIsConnected, ClientIsLive
<1>3. Promise!Remember(r, m)
  <2>1. DOMAIN Memory = Remembered
    BY DEF Memory
  <2>2. Memory' = IF r # EmptyRoute /\ (r \in DOMAIN Memory \/ Cardinality(DOMAIN Memory) < MaxChannels)
                  THEN [q \in DOMAIN Memory \cup {r} |-> IF q = r THEN m ELSE Memory[q]]
                  ELSE Memory
    BY <1>1, <2>1, Remembers DEF TypeOK
  <2> QED BY <2>2, PromisedRemember
<1>4. CASE \E L1 \in LogLosses(conns, {}), acked \in Sends(PeerAt(k)) :
             ~acked /\ Served(k, conns, L1 \cup {k}) /\ Quiet
  <2>1. PICK L1 \in LogLosses(conns, {}), acked \in Sends(PeerAt(k)) :
          ~acked /\ Served(k, conns, L1 \cup {k}) /\ Quiet
    BY <1>4
  <2>2. /\ PeersAt(L1) \in Promise!LogLosses(Subscriptions)
        /\ Promise!Leave(PeersAt(L1) \cup {PeerAt(k)}, Subscriptions)
    BY <1>2, <2>1, HandlerReleases DEF Served
  <2>3. PeerAt(k) \in Broken /\ out' = Promise!Silent
    BY <1>2, <2>1 DEF Quiet, Silent, Promise!Silent
  <2> QED BY <1>3, <2>2, <2>3 DEF Promise!PublishUnacknowledged, Subscriptions, Broken
<1>5. CASE \E L1 \in LogLosses(conns, {}) : \E F \in SUBSET Deletable(Subscribers(r) \ L1) :
             \E L2 \in LogLosses(conns, L1 \cup F) :
               /\ Served(k, conns, L1 \cup F \cup L2)
               /\ out' = [p \in Peers |->
                           (IF p = PeerAt(k) THEN <<Ack>> ELSE <<>>)
                           \o (IF p \in PeersAt(Subscribers(r) \ (L1 \cup F))
                               THEN <<Msg(r, m)>> ELSE <<>>)]
  <2>1. PICK L1 \in LogLosses(conns, {}) : \E F \in SUBSET Deletable(Subscribers(r) \ L1) :
             \E L2 \in LogLosses(conns, L1 \cup F) :
               /\ Served(k, conns, L1 \cup F \cup L2)
               /\ out' = [p \in Peers |->
                           (IF p = PeerAt(k) THEN <<Ack>> ELSE <<>>)
                           \o (IF p \in PeersAt(Subscribers(r) \ (L1 \cup F))
                               THEN <<Msg(r, m)>> ELSE <<>>)]
    BY <1>5
  <2>2. PICK F \in SUBSET Deletable(Subscribers(r) \ L1) :
             \E L2 \in LogLosses(conns, L1 \cup F) :
               /\ Served(k, conns, L1 \cup F \cup L2)
               /\ out' = [p \in Peers |->
                           (IF p = PeerAt(k) THEN <<Ack>> ELSE <<>>)
                           \o (IF p \in PeersAt(Subscribers(r) \ (L1 \cup F))
                               THEN <<Msg(r, m)>> ELSE <<>>)]
    BY <2>1
  <2>3. PICK L2 \in LogLosses(conns, L1 \cup F) :
               /\ Served(k, conns, L1 \cup F \cup L2)
               /\ out' = [p \in Peers |->
                           (IF p = PeerAt(k) THEN <<Ack>> ELSE <<>>)
                           \o (IF p \in PeersAt(Subscribers(r) \ (L1 \cup F))
                               THEN <<Msg(r, m)>> ELSE <<>>)]
    BY <2>2
  <2> DEFINE subscribers == {q \in Accepted : Matches(Subscriptions[q], r)}
             logging == IF AllowLogRoute THEN {q \in Accepted : Subscriptions[q] = LogRoute} ELSE {}
             reached == PeersAt(Subscribers(r) \ (L1 \cup F))
             lost    == PeersAt(L1 \cup F \cup L2)
  <2>4. \A j \in LiveClients(conns) :
          PeerAt(j) \in Accepted /\ PeerAt(j) \in Peers /\ Subscriptions[PeerAt(j)] = conns[j].route
    BY <1>1, ClientsAreDistinct DEF RoutesOf, Accepted
  <2>5. subscribers = PeersAt(Subscribers(r))
    <3>1. \A j \in Subscribers(r) : PeerAt(j) \in subscribers
      BY <2>4 DEF Subscribers
    <3>2. \A q \in subscribers : \E j \in Subscribers(r) : q = PeerAt(j)
      BY <2>4 DEF Subscribers, Accepted
    <3> QED BY <3>1, <3>2 DEF PeersAt
  <2>6. \A j \in L1 \cup L2 : /\ j \in LiveClients(conns)
                              /\ PeerAt(j) \in Broken /\ PeerAt(j) \in logging
    <3> SUFFICES ASSUME NEW j \in L1 \cup L2
                 PROVE  /\ j \in LiveClients(conns)
                        /\ PeerAt(j) \in Broken /\ PeerAt(j) \in logging
      OBVIOUS
    <3>1. AllowLogRoute /\ j \in LiveClients(conns) /\ conns[j].route = LogRoute /\ eof[PeerAt(j)]
      BY DEF LogLosses
    <3> QED BY <2>4, <3>1 DEF Broken
  <2>7. \A j \in F : /\ j \in LiveClients(conns) /\ j \in Subscribers(r)
                     /\ PeerAt(j) \in Broken /\ PeerAt(j) \in subscribers
    <3>1. \A j \in F : j \in Subscribers(r) /\ j \in LiveClients(conns) /\ eof[PeerAt(j)]
      BY DEF Deletable, Subscribers
    <3> QED BY <2>4, <2>5, <3>1 DEF Broken, PeersAt
  <2>8. lost \subseteq Broken \cap (subscribers \cup logging)
    BY <2>6, <2>7 DEF PeersAt
  <2>9. reached \subseteq subscribers /\ subscribers \ lost \subseteq reached
    BY <2>5 DEF PeersAt
  <2>10. reached \cap lost \subseteq logging
    <3> SUFFICES ASSUME NEW i \in Subscribers(r) \ (L1 \cup F), NEW j \in L1 \cup F \cup L2,
                        PeerAt(i) = PeerAt(j)
                 PROVE  PeerAt(i) \in logging
      BY DEF PeersAt
    <3>1. i \in LiveClients(conns) /\ j \in LiveClients(conns)
      BY <2>6, <2>7 DEF Subscribers
    <3>2. i = j
      BY <1>1, <3>1 DEF TableInv, TableMatchesHeap
    <3> QED BY <2>6, <3>2
  <2>11. Promise!Leave(lost, Subscriptions)
    <3>1. PICK rt : rt = Subscriptions /\ RoutesOf(conns, rt)
      BY <1>1
    <3>2. L1 \cup F \cup L2 \subseteq LiveClients(conns) /\ Drop(conns, L1 \cup F \cup L2)
      BY <2>3, <2>6, <2>7 DEF Served
    <3>3. Promise!Leave(PeersAt(L1 \cup F \cup L2), rt)
      BY <1>1, <3>1, <3>2, DropLeaves
    <3> QED BY <3>1, <3>3 DEF Promise!Leave
  <2>12. out' = [p \in Peers |-> (IF p = PeerAt(k) THEN <<Promise!Ack>> ELSE <<>>)
                                 \o (IF p \in reached THEN <<Promise!Msg(r, m)>> ELSE <<>>)]
    BY <2>3, SameFrames
  <2> HIDE DEF reached, lost
  <2>13. Promise!Publish(PeerAt(k), r, m)
    BY <1>2, <1>3, <2>8, <2>9, <2>10, <2>11, <2>12 DEF Promise!Publish, Subscriptions, Broken
  <2> QED BY <2>13
<1> QED BY <1>4, <1>5 DEF pub, PeersAt


-----------------------------------------------------------------------------
(***************************************************************************)
(* The loop and the peers.                                                 *)
(***************************************************************************)
\* Where no client comes, goes or subscribes, PubSub sees the same clients.
LEMMA SameSubscribers ==
  ASSUME TableInv, TableInv', LiveClients(conns)' = LiveClients(conns),
         \A k \in LiveClients(conns) : PeerAt(k)' = PeerAt(k) /\ conns'[k].route = conns[k].route
  PROVE  Accepted' = Accepted /\ Subscriptions' = Subscriptions
<1>1. Accepted' = Accepted
  BY DEF Accepted
<1>2. ASSUME NEW p \in Peers
      PROVE  RouteOf(p)' = RouteOf(p)
  <2>1. CASE p \in Accepted
    <3>1. PICK k \in LiveClients(conns) : p = PeerAt(k)
      BY <2>1 DEF Accepted
    <3>2. RouteOf(p) = conns[k].route
      BY <3>1, RouteAtSlot
    <3>3. p = PeerAt(k)' /\ k \in LiveClients(conns)'
      BY <3>1
    <3>4. RouteOf(p)' = conns'[k].route
      BY <3>3, RouteAtSlotNext
    <3> QED BY <3>2, <3>4
  <2>2. CASE p \notin Accepted
    BY <1>1, <2>2 DEF RouteOf
  <2> QED BY <2>1, <2>2
<1>3. Subscriptions' = Subscriptions
  BY <1>2 DEF Subscriptions
<1> QED BY <1>1, <1>3

LEMMA TickPromised ==
  ASSUME TableInv, TableInv', LiveClients(conns)' = LiveClients(conns),
         \A k \in LiveClients(conns) :
           /\ PeerAt(k)' = PeerAt(k) /\ conns'[k].route = conns[k].route
           /\ eof'[PeerAt(k)] = eof[PeerAt(k)],
         last_msgs' = last_msgs, out' = Silent
  PROVE  Promise!Tick
<1>1. Accepted' = Accepted /\ Subscriptions' = Subscriptions
  BY SameSubscribers
<1>2. Broken' = Broken
  BY <1>1 DEF Broken, Accepted
<1> QED BY <1>1, <1>2, MemoryStays
        DEF Promise!Tick, Promise!Silent, Silent, Subscriptions, Broken, Memory

\* A connection accepted is a client that joins; it may have hung up meanwhile.
LEMMA AcceptPromised ==
  ASSUME IInv, IInv', NEW k \in Slots, Accept(k)
  PROVE  \E p \in Peers : Promise!Join(p)
<1>1. TableInv /\ TableInv' /\ backlog[k] # <<>> /\ UNCHANGED <<eof, last_msgs>> /\ out' = Silent
  BY DEF Accept, IInv, Quiet
<1>2. PICK s \in Slots, f \in 0..NSlots, a \in {b \in Ducqs : obj[b] = NoPeer} :
        /\ FirstFree(conns, s) /\ FreshFd(f)
        /\ conns' = AddClient(conns, s, f, a)
        /\ obj' = [obj EXCEPT ![a] = Head(backlog[k])]
  BY DEF Accept
<1>3. PICK p : p = Head(backlog[k])
  OBVIOUS
<1>4. p \in Peers /\ p \notin Accepted
  BY <1>1, <1>3, HeadLeaves DEF Accept
<1>5. /\ conns'[s] = [fd |-> f, type |-> "client", ducq |-> a, route |-> EmptyRoute]
      /\ \A j \in Slots : j # s => conns'[j] = conns[j]
  BY <1>1, <1>2 DEF AddClient, TableInv, Tables
<1>6. f # NoFd /\ ~Live(conns, s)
  BY <1>2, FreshFdIsNew DEF NoFd, FirstFree
<1>7. LiveClients(conns)' = LiveClients(conns) \cup {s} /\ s \notin LiveClients(conns)
  BY <1>5, <1>6 DEF LiveClients, LiveClient, Live
<1>8. obj'[a] = p /\ \A b \in Ducqs : b # a => obj'[b] = obj[b]
  BY <1>1, <1>2, <1>3 DEF TableInv
<1>9. \A j \in LiveClients(conns) : conns[j].ducq \in Ducqs /\ conns[j].ducq # a
  BY <1>1, <1>2 DEF TableInv, TableMatchesHeap, PeerAt
<1>10. /\ PeerAt(s)' = p
       /\ \A j \in LiveClients(conns) : PeerAt(j)' = PeerAt(j) /\ conns'[j].route = conns[j].route
  BY <1>5, <1>7, <1>8, <1>9 DEF PeerAt, LiveClients
<1>11. Accepted' = Accepted \cup {p}
  BY <1>7, <1>10 DEF Accepted
<1>12. ASSUME NEW q \in Peers
       PROVE  RouteOf(q)' = RouteOf(q)
  <2>1. CASE q \in Accepted
    <3>1. PICK j \in LiveClients(conns) : q = PeerAt(j)
      BY <2>1 DEF Accepted
    <3>2. RouteOf(q) = conns[j].route
      BY <1>1, <3>1, RouteAtSlot
    <3>3. q = PeerAt(j)' /\ j \in LiveClients(conns)'
      BY <1>7, <1>10, <3>1
    <3>4. RouteOf(q)' = conns'[j].route
      BY <1>1, <3>3, RouteAtSlotNext
    <3> QED BY <1>10, <3>2, <3>4
  <2>2. CASE q = p
    <3>1. q = PeerAt(s)' /\ s \in LiveClients(conns)'
      BY <1>7, <1>10, <2>2
    <3>2. RouteOf(q)' = conns'[s].route
      BY <1>1, <3>1, RouteAtSlotNext
    <3>3. RouteOf(q) = EmptyRoute
      BY <1>4, <2>2 DEF RouteOf
    <3> QED BY <1>5, <3>2, <3>3
  <2>3. CASE q \notin Accepted \cup {p}
    <3>1. RouteOf(q) = EmptyRoute /\ RouteOf(q)' = EmptyRoute
      BY <1>11, <2>3 DEF RouteOf
    <3> QED BY <3>1
  <2> QED BY <2>1, <2>2, <2>3
<1>13. Subscriptions' = Subscriptions
  BY <1>12 DEF Subscriptions
<1>14. Broken' = Broken \cup (IF eof[p] THEN {p} ELSE {})
  BY <1>1, <1>11 DEF Broken
<1>15. \E late \in SUBSET {p} : Broken' = Broken \cup late
  BY <1>14
<1>16. Promise!Join(p)
  BY <1>1, <1>4, <1>11, <1>13, <1>15, MemoryStays
     DEF Promise!Join, Promise!Silent, Silent, Subscriptions, Broken, Memory
<1> QED BY <1>4, <1>16

\* PubSub sees nothing of a connection that is turned away.
LEMMA RejectPromised ==
  ASSUME IInv, IInv', NEW k \in Slots, Reject(k)
  PROVE  Promise!Tick
<1>1. /\ TypeOK /\ TableInv /\ TableInv' /\ backlog[k] # <<>> /\ UNCHANGED <<conns, obj, last_msgs>>
      /\ out' = Silent /\ eof' = [eof EXCEPT ![Head(backlog[k])] = FALSE]
  BY DEF Reject, IInv, Quiet
<1>2. Head(backlog[k]) \notin Accepted
  BY <1>1, HeadLeaves DEF Reject
<1>3. \A j \in LiveClients(conns) : PeerAt(j) # Head(backlog[k]) /\ PeerAt(j) \in Peers
  BY <1>1, <1>2, ClientsAreDistinct DEF Accepted
<1>4. \A j \in LiveClients(conns) : eof'[PeerAt(j)] = eof[PeerAt(j)]
  BY <1>1, <1>3 DEF TypeOK
<1>5. \A j \in LiveClients(conns) : PeerAt(j)' = PeerAt(j) /\ conns'[j].route = conns[j].route
  BY <1>1 DEF PeerAt
<1>6. LiveClients(conns)' = LiveClients(conns)
  BY <1>1
<1> QED BY <1>1, <1>4, <1>5, <1>6, TickPromised

\* Only hanging up is seen of what the peers do, and only when accepted.
LEMMA EnvironmentPromised ==
  ASSUME IInv, IInv', Environment
  PROVE  Promise!Next
<1>1. /\ TypeOK /\ TableInv /\ TableInv' /\ UNCHANGED <<conns, obj, last_msgs>> /\ out' = Silent
  BY DEF Environment, Connect, SendRequest, BeginFrame, FinishFrame, HangUp, DropScript, server, IInv, Quiet
<1>2. /\ \A j \in LiveClients(conns) : PeerAt(j)' = PeerAt(j) /\ conns'[j].route = conns[j].route
      /\ LiveClients(conns)' = LiveClients(conns)
  BY <1>1 DEF PeerAt
<1>3. CASE UNCHANGED eof
  <2>1. Promise!Tick
    BY <1>1, <1>2, <1>3, TickPromised
  <2> QED BY <2>1 DEF Promise!Next
<1>4. ASSUME NEW p \in Peers, HangUp(p)
      PROVE  Promise!Next
  <2>1. eof' = [eof EXCEPT ![p] = TRUE]
    BY <1>4 DEF HangUp
  <2>2. CASE p \in Accepted
    <3>1. Accepted' = Accepted /\ Subscriptions' = Subscriptions
      BY <1>1, <1>2, SameSubscribers
    <3>2. Broken' = Broken \cup {p}
      <4>1. \A q \in Accepted : q \in Peers
        BY <1>1, ClientsAreDistinct DEF Accepted
      <4> QED BY <1>1, <2>1, <2>2, <3>1, <4>1 DEF Broken, TypeOK
    <3>3. Promise!HangUp(p)
      BY <1>1, <2>2, <3>1, <3>2, MemoryStays
         DEF Promise!HangUp, Promise!Silent, Silent, Subscriptions, Broken, Memory
    <3> QED BY <3>3 DEF Promise!Next
  <2>3. CASE p \notin Accepted
    <3>1. \A j \in LiveClients(conns) : PeerAt(j) # p /\ PeerAt(j) \in Peers
      BY <1>1, <2>3, ClientsAreDistinct DEF Accepted
    <3>2. \A j \in LiveClients(conns) : eof'[PeerAt(j)] = eof[PeerAt(j)]
      BY <1>1, <2>1, <3>1 DEF TypeOK
    <3>3. Promise!Tick
      BY <1>1, <1>2, <3>2, TickPromised
    <3> QED BY <3>3 DEF Promise!Next
  <2> QED BY <2>2, <2>3
<1> QED BY <1>3, <1>4 DEF Environment, Connect, SendRequest, BeginFrame, FinishFrame, DropScript

\* The steps of the loop that visit no slot are not seen at all, but for the
\* log line of a select() that failed.
LEMMA LoopPromised ==
  ASSUME IInv, IInv', AddListener \/ EnterLoop \/ SelectReturns \/ SelectFails \/ RoundEnds
  PROVE  Promise!Next
<1>1. /\ TypeOK /\ TableInv /\ TableInv' /\ last_msgs' = last_msgs /\ out' = Silent
  BY DEF AddListener, EnterLoop, SelectReturns, SelectFails, RoundEnds, IInv, Quiet
<1>2. CASE AddListener
  <2>1. PICK k \in Slots, f \in 0..NSlots :
          FirstFree(conns, k) /\ FreshFd(f) /\ conns' = AddServer(conns, k, f, "listener")
    BY <1>2 DEF AddListener
  <2>2. UNCHANGED <<obj, eof>>
    BY <1>2 DEF AddListener, kernel
  <2>3. /\ conns'[k].type = "listener"
        /\ \A j \in Slots : j # k => conns'[j] = conns[j]
    BY <1>1, <2>1 DEF AddServer, TableInv, Tables
  <2>4. ~Live(conns, k)
    BY <2>1 DEF FirstFree
  <2>5. LiveClients(conns)' = LiveClients(conns) /\ k \notin LiveClients(conns)
    BY <2>3, <2>4 DEF LiveClients, LiveClient, Live
  <2>6. \A j \in LiveClients(conns) :
          /\ PeerAt(j)' = PeerAt(j) /\ conns'[j].route = conns[j].route
          /\ eof'[PeerAt(j)] = eof[PeerAt(j)]
    BY <2>2, <2>3, <2>5 DEF PeerAt, LiveClients
  <2>7. Promise!Tick
    BY <1>1, <2>5, <2>6, TickPromised
  <2> QED BY <2>7 DEF Promise!Next
<1>3. CASE EnterLoop \/ SelectReturns \/ RoundEnds
  <2>1. UNCHANGED <<conns, obj, eof>>
    BY <1>3 DEF EnterLoop, SelectReturns, RoundEnds, kernel
  <2>2. /\ LiveClients(conns)' = LiveClients(conns)
        /\ \A j \in LiveClients(conns) :
          /\ PeerAt(j)' = PeerAt(j) /\ conns'[j].route = conns[j].route
          /\ eof'[PeerAt(j)] = eof[PeerAt(j)]
    BY <2>1 DEF PeerAt
  <2>3. Promise!Tick
    BY <1>1, <2>2, TickPromised
  <2> QED BY <2>3 DEF Promise!Next
<1>4. CASE SelectFails
  <2>1. PICK gone \in LogLosses(conns, {}) : Drop(conns, gone)
    BY <1>4 DEF SelectFails
  <2>2. Promise!LogOnly
    BY <1>1, <2>1, LogPromised
  <2> QED BY <2>2 DEF Promise!Next
<1> QED BY <1>2, <1>3, <1>4

\* What a command asks of PubSub
LEMMA DispatchPromised ==
  ASSUME IInv, IInv', MemoryInv, NEW k \in Slots, Dispatch(k)
  PROVE  Promise!Next
<1>1. PICK p \in Peers : p = PeerAt(k)
  <2>1. Client(k) /\ TableInv
    BY DEF Dispatch, PING, epoch, lscmd, unknown, list_subscriptions, lsconn, PONG, pub,
           pubWithoutRoute, sub, subWithoutRoute, unsub, unsubNotFound, LogThenAnswer,
           AnswerThenLog, Receives, IInv
  <2>2. k \in LiveClients(conns)
    BY <2>1, ClientIsLive
  <2> QED BY <2>1, <2>2, ClientsAreDistinct
<1>2. ASSUME NEW frame \in Promise!Answers, LogThenAnswer(k, frame) \/ AnswerThenLog(k, frame)
      PROVE  Promise!Next
  <2>1. Promise!Query(PeerAt(k), frame)
    BY <1>2, QueryPromised
  <2>2. Promise!Query(p, frame)
    BY <1>1, <2>1 DEF Promise!Query, Promise!Answer
  <2> QED BY <1>2, <2>2 DEF Promise!Next
<1>3. {Nack, <<"PONG">>, <<"TIME">>, <<"COMMANDS">>} \subseteq Promise!Answers
  BY SameFrames DEF Promise!Answers
<1>4. CASE PING(k) \/ epoch(k) \/ lscmd(k) \/ unknown(k) \/ subWithoutRoute(k)
           \/ \E id \in Peers : unsubNotFound(k, id)
  BY <1>2, <1>3, <1>4 DEF PING, epoch, lscmd, unknown, subWithoutRoute, unsubNotFound
<1>5. CASE lsconn(k) \/ list_subscriptions(k)
  <2>1. Promise!List(PeerAt(k))
    BY <1>5, ListPromised
  <2>2. Promise!List(p)
    BY <1>1, <2>1 DEF Promise!List, Promise!Answer
  <2> QED BY <2>2 DEF Promise!Next
<1>6. CASE PONG(k)
  <2>1. PICK gone \in LogLosses(conns, {}) : Drop(conns, gone) /\ out' = Silent /\ last_msgs' = last_msgs
    BY <1>6 DEF PONG, Served, Quiet
  <2>2. Promise!LogOnly
    BY <2>1, LogPromised
  <2> QED BY <2>2 DEF Promise!Next
<1>7. ASSUME NEW r \in Routes, NEW m \in Msgs, pub(k, r, m)
      PROVE  Promise!Next
  <2>1. Promise!Publish(PeerAt(k), r, m) \/ Promise!PublishUnacknowledged(PeerAt(k), r, m)
    BY <1>7, PubPromised
  <2>2. CASE Promise!Publish(PeerAt(k), r, m)
    <3>1. Promise!Publish(p, r, m)
      BY <1>1, <2>2 DEF Promise!Publish
    <3> QED BY <3>1 DEF Promise!Next
  <2>3. CASE Promise!PublishUnacknowledged(PeerAt(k), r, m)
    <3>1. Promise!PublishUnacknowledged(p, r, m)
      BY <1>1, <2>3 DEF Promise!PublishUnacknowledged, Promise!Leave
    <3> QED BY <3>1 DEF Promise!Next
  <2> QED BY <2>1, <2>2, <2>3
<1>8. CASE pubWithoutRoute(k)
  <2>1. Promise!Expel(PeerAt(k))
    BY <1>8, ExpelPromised
  <2>2. Promise!Expel(p)
    BY <1>1, <2>1 DEF Promise!Expel, Promise!Answer, Promise!Leave
  <2> QED BY <2>2 DEF Promise!Next
<1>9. ASSUME NEW r \in Routes, NEW last \in BOOLEAN, sub(k, r, last)
      PROVE  Promise!Next
  <2>1. Promise!Subscribe(PeerAt(k), r)
    BY <1>9, SubPromised
  <2>2. Promise!Subscribe(p, r)
    BY <1>1, <2>1 DEF Promise!Subscribe, Promise!Leave, Promise!LogLosses
  <2> QED BY <2>2 DEF Promise!Next
<1>10. ASSUME NEW id \in Peers, unsub(k, id)
       PROVE  Promise!Next
  <2>1. Promise!Unsubscribe(PeerAt(k), id)
    BY <1>10, UnsubPromised
  <2>2. Promise!Unsubscribe(p, id)
    BY <1>1, <2>1 DEF Promise!Unsubscribe, Promise!Answer
  <2> QED BY <2>2 DEF Promise!Next
<1> QED BY <1>4, <1>5, <1>6, <1>7, <1>8, <1>9, <1>10 DEF Dispatch

\* Every visit of the loop
LEMMA VisitPromised ==
  ASSUME IInv, IInv', MemoryInv, NEW k \in Slots, round_table(k)
  PROVE  Promise!Next
<1>1. CASE AcceptNotify(k)
  <2>1. PICK gone \in LogLosses(conns, {}) : Drop(conns, gone) /\ out' = Silent /\ last_msgs' = last_msgs
    BY <1>1 DEF AcceptNotify, Quiet
  <2>2. Promise!LogOnly
    BY <2>1, LogPromised
  <2> QED BY <2>2 DEF Promise!Next
<1>2. CASE Accept(k)
  BY <1>2, AcceptPromised DEF Promise!Next
<1>3. CASE Reject(k)
  BY <1>3, RejectPromised DEF Promise!Next
<1>4. CASE Dispatch(k)
  BY <1>4, DispatchPromised
<1>5. CASE Ignore(k)
  <2>1. Drop(conns, {}) /\ out' = Silent /\ last_msgs' = last_msgs
    BY <1>5 DEF Ignore, Served, Quiet
  <2>2. {} \in LogLosses(conns, {})
    BY DEF LogLosses
  <2>3. Promise!LogOnly
    BY <2>1, <2>2, LogPromised
  <2> QED BY <2>3 DEF Promise!Next
<1>6. CASE Disconnect(k)
  <2>1. k \in LiveClients(conns) /\ TableInv
    BY <1>6, ClientIsLive DEF Disconnect, IInv
  <2>2. PeerAt(k) \in Peers
    BY <2>1, ClientsAreDistinct
  <2>3. Promise!Expel(PeerAt(k))
    BY <1>6, ExpelPromised
  <2>4. PICK p \in Peers : p = PeerAt(k)
    BY <2>2
  <2>5. Promise!Expel(p)
    BY <2>3, <2>4 DEF Promise!Expel, Promise!Answer, Promise!Leave
  <2> QED BY <2>5 DEF Promise!Next
<1> QED BY <1>1, <1>2, <1>3, <1>4, <1>5, <1>6 DEF round_table

LEMMA StutterPromised ==
  ASSUME IInv, IInv', UNCHANGED vars
  PROVE  UNCHANGED Promise!vars
<1>1. TableInv /\ TableInv' /\ UNCHANGED <<conns, obj, last_msgs, eof, out>>
  BY DEF IInv, vars, server, kernel
<1>2. /\ LiveClients(conns)' = LiveClients(conns)
      /\ \A j \in LiveClients(conns) : PeerAt(j)' = PeerAt(j) /\ conns'[j].route = conns[j].route
  BY <1>1 DEF PeerAt
<1>3. Accepted' = Accepted /\ Subscriptions' = Subscriptions
  BY <1>1, <1>2, SameSubscribers
<1>4. Broken' = Broken
  BY <1>1, <1>3 DEF Broken
<1> QED BY <1>1, <1>3, <1>4, MemoryStays DEF Promise!vars, Subscriptions, Broken, Memory

LEMMA InitPromise == Init => Promise!Init /\ MemoryInv
<1> SUFFICES ASSUME Init PROVE Promise!Init /\ MemoryInv
  OBVIOUS
<1>1. last_msgs = [c \in Channels |-> [route |-> EmptyRoute, msg |-> NoMsg]]
  BY DEF Init, LastMsgsInit
<1>2. Remembered = {} /\ MemoryInv
  BY <1>1, LastMsgsAssumption DEF Remembered, MemoryInv, Channels
<1>3. Accepted = {}
  <2>1. \A k \in Slots : Live(conns, k) => conns[k].type = "notify"
    <3>1. 1 \in Slots
      BY ConnectionsAssumption DEF Slots
    <3>2. \A k \in Slots :
            conns[k] = IF k = 1
                       THEN [fd |-> 0, type |-> "notify", ducq |-> NULL, route |-> EmptyRoute]
                       ELSE [fd |-> NoFd, type |-> "client", ducq |-> NULL, route |-> EmptyRoute]
      BY <3>1 DEF Init, AddServer, EmptyTable
    <3> QED BY <3>2 DEF Live
  <2> QED BY <2>1 DEF Accepted, LiveClients, LiveClient
<1>4. Subscriptions = [p \in Peers |-> EmptyRoute]
  BY <1>3 DEF Subscriptions, RouteOf
<1>5. Broken = {}
  BY <1>3 DEF Broken
<1>6. Memory = [r \in {} |-> {}]
  BY <1>2 DEF Memory
<1>7. out = Promise!Silent
  BY DEF Init, Silent, Promise!Silent
<1> QED BY <1>2, <1>3, <1>4, <1>5, <1>6, <1>7 DEF Promise!Init, Subscriptions, Broken, Memory

\* Only publications touch the table of last messages.
LEMMA OnlyPubRemembers ==
  ASSUME [Next]_vars
  PROVE  last_msgs' = last_msgs \/ \E r \in Routes, m \in Msgs : SetLastMsg(r, m)
<1>1. CASE UNCHANGED vars
  BY <1>1 DEF vars, server
<1>2. CASE Environment
  BY <1>2 DEF Environment, Connect, SendRequest, BeginFrame, FinishFrame, HangUp, DropScript, server
<1>3. CASE AddListener \/ EnterLoop \/ SelectReturns \/ SelectFails \/ RoundEnds
  BY <1>3 DEF AddListener, EnterLoop, SelectReturns, SelectFails, RoundEnds
<1>4. ASSUME NEW k \in Slots, round_table(k)
      PROVE  last_msgs' = last_msgs \/ \E r \in Routes, m \in Msgs : SetLastMsg(r, m)
  <2>1. CASE AcceptNotify(k) \/ Accept(k) \/ Reject(k) \/ Ignore(k) \/ Disconnect(k)
    BY <2>1 DEF AcceptNotify, Accept, Reject, Ignore, Disconnect
  <2>2. CASE \E r \in Routes, m \in Msgs : pub(k, r, m)
    BY <2>2 DEF pub
  <2>3. CASE Dispatch(k) /\ ~(\E r \in Routes, m \in Msgs : pub(k, r, m))
    BY <2>3 DEF Dispatch, PING, epoch, lscmd, unknown, list_subscriptions, lsconn, PONG,
                pubWithoutRoute, sub, subWithoutRoute, unsub, unsubNotFound, LogThenAnswer,
                AnswerThenLog
  <2> QED BY <1>4, <2>1, <2>2, <2>3 DEF round_table
<1> QED BY <1>1, <1>2, <1>3, <1>4 DEF Next, ducq_loop

LEMMA MemoryNext == IInv /\ MemoryInv /\ [Next]_vars => MemoryInv'
<1> SUFFICES ASSUME IInv, MemoryInv, [Next]_vars PROVE MemoryInv'
  OBVIOUS
<1>1. CASE last_msgs' = last_msgs
  BY <1>1 DEF MemoryInv
<1>2. ASSUME NEW r \in Routes, NEW m \in Msgs, SetLastMsg(r, m)
      PROVE  MemoryInv'
  BY <1>2, SetLastMsgMemory DEF IInv, TypeOK
<1> QED BY <1>1, <1>2, OnlyPubRemembers

LEMMA NextPromised ==
  IInv /\ IInv' /\ MemoryInv /\ [Next]_vars => [Promise!Next]_(Promise!vars)
<1> SUFFICES ASSUME IInv, IInv', MemoryInv, [Next]_vars PROVE [Promise!Next]_(Promise!vars)
  OBVIOUS
<1>1. CASE UNCHANGED vars
  BY <1>1, StutterPromised
<1>2. CASE Environment
  BY <1>2, EnvironmentPromised
<1>3. CASE AddListener \/ EnterLoop \/ SelectReturns \/ SelectFails \/ RoundEnds
  BY <1>3, LoopPromised
<1>4. CASE \E k \in Slots : round_table(k)
  BY <1>4, VisitPromised
<1> QED BY <1>1, <1>2, <1>3, <1>4 DEF Next, ducq_loop

\* The server does what PubSub promises, whatever the number of clients,
\* slots, listeners and routes: a publication that is acknowledged reaches in
\* that step exactly the connected clients it matches, a subscription that asks
\* for it gets the last message, and nobody leaves who had not to: every step
\* of the loop and of each command (pub.c, sub.c, unsub.c, lsconn.c,
\* ducq_reactor.c:210-272, 326-363, 463-506) is a step of PubSub, or none.
THEOREM ServerKeepsItsPromise == Spec => KeepsPromise
<1>1. Spec => [](IInv /\ MemoryInv)
  BY InitInv, NextInv, InitPromise, MemoryNext, PTL DEF Spec
<1>2. Init => Promise!Init
  BY InitPromise
<1> QED BY <1>1, <1>2, NextPromised, PTL DEF Spec, KeepsPromise, Promise!Spec
=============================================================================
