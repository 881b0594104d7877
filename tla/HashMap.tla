------------------------------ MODULE HashMap ------------------------------
(***************************************************************************)
(* The hash table of one server as its callers see it (hash_table.c): a    *)
(* map from the hashes that have a node to the addresses of the node's     *)
(* list and the age of its last_put date.  The AVL that stores the map,    *)
(* and the order of the lists, are the business of the AVL modules.        *)
(***************************************************************************)
EXTENDS Dates

CONSTANTS
  Hash,     \* the hashes that occur
  Addr,     \* the IPv6 addresses that are stored
  HashTTL   \* the age above which a hash is obsolete (30 s in the code)

ASSUME HashMapAssumption == HashTTL \in Nat /\ HashTTL < MaxAge

\* avl_node without its key and its place in the tree; a node is created
\* with its first address, so the list is never empty.
avl_node == [address_list : (SUBSET Addr) \ {{}}, last_put : Age]

\* The values the map can take.
Table == UNION {[K -> avl_node] : K \in SUBSET Hash}

\* hash_table = NULL
empty_table == [h \in {} |-> {}]

get_address_list(h, t) == IF h \in DOMAIN t THEN t[h].address_list ELSE {}

\* A new node, a new address, or neither; the date becomes now in any case.
insert_hash_addr_put(h, ip, t) ==
  [k \in DOMAIN t \cup {h} |->
     IF k = h
     THEN [address_list |-> get_address_list(h, t) \cup {ip}, last_put |-> 0]
     ELSE t[k]]

\* Mutant: the new node's list is not given its first address.
insert_hash_addr_share_bare(h, ip, t) ==
  [k \in DOMAIN t \cup {h} |->
     IF k = h THEN [address_list |-> get_address_list(h, t), last_put |-> 0]
              ELSE t[k]]

\* The same, but the date of a node that exists already is left alone.
insert_hash_addr_share(h, ip, t) ==
  [k \in DOMAIN t \cup {h} |->
     IF k = h
     THEN [address_list |-> get_address_list(h, t) \cup {ip},
           last_put |-> IF h \in DOMAIN t THEN t[h].last_put ELSE 0]
     ELSE t[k]]

\* Mutants: a node goes one tick too late, or never.
suppression_obsolete_hash_late(t) ==
  [k \in {h \in DOMAIN t : ~(t[h].last_put > HashTTL + 1)} |-> t[k]]

suppression_obsolete_hash_never(t) == t

\* Every node older than the limit goes, with all its addresses.
suppression_obsolete_hash(t) ==
  [k \in {h \in DOMAIN t : ~(t[h].last_put > HashTTL)} |-> t[k]]

\* The table one second later.
OlderTable(t) ==
  [k \in DOMAIN t |->
     [address_list |-> t[k].address_list, last_put |-> Older(t[k].last_put)]]
=============================================================================
