------------------------------ MODULE PeerMap ------------------------------
(***************************************************************************)
(* The table of connected servers of one server (distributed_server.c) as  *)
(* its callers see it: a map from the servers that have an element in the  *)
(* list to the age of their last_keep_alive date.  A server is identified  *)
(* by its address and its port together, as every comparison of the code   *)
(* does.                                                                   *)
(***************************************************************************)
EXTENDS Dates

CONSTANTS
  Server,   \* the servers, one for each pair of an address and a port
  PeerTTL   \* the age above which a server is dead (30 s in the code)

ASSUME PeerMapAssumption == PeerTTL \in Nat /\ PeerTTL < MaxAge

\* The values the map can take.
PeerTable == UNION {[P -> Age] : P \in SUBSET Server}

\* server_table = NULL
no_server == [p \in {} |-> 0]

is_known(p, t) == p \in DOMAIN t

\* A new element in front of the list, seen alive now.
insert_server(t, p) == [q \in DOMAIN t \cup {p} |-> IF q = p THEN 0 ELSE t[q]]

\* Mutant: the date is left as it is.
keep_alive_server_lost(t, p) == t

\* The date of a server that is in the list becomes now; an unknown one is
\* not added.
keep_alive_server(t, p) == [q \in DOMAIN t |-> IF q = p THEN 0 ELSE t[q]]

\* Mutants: a silent server goes one tick too late, or never.
suppression_dead_server_late(t, me) ==
  [q \in {p \in DOMAIN t : ~(p = me \/ t[p] > PeerTTL + 1)} |-> t[q]]

suppression_dead_server_self(t, me) == [q \in DOMAIN t \ {me} |-> t[q]]

\* Server me removes itself and the servers that were silent for too long.
suppression_dead_server(t, me) ==
  [q \in {p \in DOMAIN t : ~(p = me \/ t[p] > PeerTTL)} |-> t[q]]

\* The table one second later.
OlderPeers(t) == [q \in DOMAIN t |-> Older(t[q])]
=============================================================================
