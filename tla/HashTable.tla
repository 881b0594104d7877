----------------------------- MODULE HashTable -----------------------------
(***************************************************************************)
(* What hash_table.c promises to the server that uses it: a map from       *)
(* hashes to addresses and a date, on which the server puts, shares and    *)
(* sweeps while time passes.  AvlTable is shown to implement it.           *)
(***************************************************************************)
EXTENDS HashMap

VARIABLES
  table,   \* the map
  call     \* the last call: without it, a put that is lost would be a stutter

Put(h, ip) ==
  /\ call' = <<"put", h, ip>>
  /\ table' = insert_hash_addr_put(h, ip, table)

Share(h, ip) ==
  /\ call' = <<"share", h, ip>>
  /\ table' = insert_hash_addr_share(h, ip, table)

Sweep ==
  /\ call' = <<"sweep">>
  /\ table' = suppression_obsolete_hash(table)

Tick ==
  /\ call' = <<"tick">>
  /\ table' = OlderTable(table)

Init == table = empty_table /\ call = << >>

Next ==
  \/ \E h \in Hash, ip \in Addr : Put(h, ip) \/ Share(h, ip)
  \/ Sweep
  \/ Tick

Spec == Init /\ [][Next]_<<table, call>>
=============================================================================
