---------------------------- MODULE Connections ----------------------------
(***************************************************************************)
(* The connection table of the reactor (ducq_reactor.c): a fixed array of  *)
(* slots.  A slot is free when its fd is -1; a slot that is released keeps *)
(* its other fields, so a free slot may still hold the ducq pointer and    *)
(* the route of the client it once had.                                    *)
(*                                                                         *)
(* A server's slot holds its accept callback where a client's holds its    *)
(* ducq (a union); a function is never at the address of a ducq_i, so the  *)
(* ducq of a server's slot is modelled as NULL, and the callback as the    *)
(* type: "notify" for the inotify server the dispatcher adds, "listener"   *)
(* for a listening socket.                                                 *)
(***************************************************************************)
EXTENDS Integers, Routing

CONSTANTS NSlots,     \* DUCQ_MAX_CONNECTIONS
          Ducqs,      \* the addresses malloc gives ducq_i objects
          NULL

ASSUME ConnectionsAssumption ==
  /\ NSlots \in Nat \ {0}
  /\ NULL \notin Ducqs

Slots == 1..NSlots
NoFd  == -1

Connection == [fd    : Nat \cup {NoFd},
               type  : {"client", "notify", "listener"},
               ducq  : Ducqs \cup {NULL},
               route : Routes]

Tables == [Slots -> Connection]

\* memset(&it[i], 0, ...); it[i].fd = -1;
EmptyTable == [k \in Slots |-> [fd    |-> NoFd,
                                type  |-> "client",
                                ducq  |-> NULL,
                                route |-> EmptyRoute]]

Live(t, k)       == t[k].fd # NoFd
LiveClient(t, k) == Live(t, k) /\ t[k].type = "client"
LiveClients(t)   == {k \in Slots : LiveClient(t, k)}
OpenFds(t)       == {t[k].fd : k \in {j \in Slots : Live(t, j)}}

\* Mutant: the first slot that never had a client, else any free one.
PrefersUnused(t, k) ==
  /\ k \in Slots
  /\ ~Live(t, k)
  /\ t[k].ducq # NULL => \A j \in Slots : Live(t, j) \/ t[j].ducq # NULL

\* for(i = 0; i < DUCQ_MAX_CONNECTIONS; i++) if(it[i].fd == -1) break;
FirstFree(t, k) == /\ k \in Slots
                   /\ ~Live(t, k)
                   /\ \A j \in 1..(k - 1) : Live(t, j)

AddServer(t, k, fd, accept_f) ==
  [t EXCEPT ![k] = [fd |-> fd, type |-> accept_f, ducq |-> NULL, route |-> EmptyRoute]]

\* Mutant: the route of the slot's former client is left in place.
AddClientKeepsRoute(t, k, fd, ducq) ==
  [t EXCEPT ![k] = [fd |-> fd, type |-> "client", ducq |-> ducq, route |-> t[k].route]]

AddClient(t, k, fd, ducq) ==
  [t EXCEPT ![k] = [fd |-> fd, type |-> "client", ducq |-> ducq, route |-> EmptyRoute]]

\* ducq_reactor_subscribe looks for the pointer alone, in free slots too.
HoldsFirst(t, k, ducq) == /\ k \in Slots
                          /\ t[k].ducq = ducq
                          /\ \A j \in 1..(k - 1) : t[j].ducq # ducq

SetRoute(t, ducq, r) ==
  [k \in Slots |-> IF HoldsFirst(t, k, ducq) THEN [t[k] EXCEPT !.route = r] ELSE t[k]]

\* connection_free on the slots S
Release(t, S) == [k \in Slots |-> IF k \in S THEN [t[k] EXCEPT !.fd = NoFd] ELSE t[k]]
=============================================================================
