---------------------------- MODULE ServerTable ----------------------------
(***************************************************************************)
(* What distributed_server.c promises to the two threads that use it: a    *)
(* map from the connected servers to the age of their last sign of life.   *)
(* Only an unknown server is inserted.  ServerThreads is shown to          *)
(* implement it with a linked list, one step at a time.                    *)
(***************************************************************************)
EXTENDS PeerMap

CONSTANT me   \* the server whose table it is

VARIABLES
  server_table,  \* the map
  call           \* the last call: without it, one that is lost would stutter

Insert(p) ==
  /\ call' = <<"insert", p>>
  /\ ~is_known(p, server_table)
  /\ server_table' = insert_server(server_table, p)

KeepAlive(p) ==
  /\ call' = <<"keep", p>>
  /\ server_table' = keep_alive_server(server_table, p)

Suppress ==
  /\ call' = <<"suppress">>
  /\ server_table' = suppression_dead_server(server_table, me)

Tick ==
  /\ call' = <<"tick">>
  /\ server_table' = OlderPeers(server_table)

Init == server_table = no_server /\ call = << >>

Next ==
  \/ \E p \in Server \ {me} : Insert(p) \/ KeepAlive(p)
  \/ Suppress
  \/ Tick

Spec == Init /\ [][Next]_<<server_table, call>>
=============================================================================
