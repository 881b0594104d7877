------------------------------ MODULE AvlTable ------------------------------
(***************************************************************************)
(* The hash table of one server as hash_table.c stores it: a tree that     *)
(* rebalances itself at every insertion and whose nodes carry a linked     *)
(* list of addresses, newest first, and a date.  The hashes come from the  *)
(* texts clients are given on their command line.                          *)
(***************************************************************************)
EXTENDS AvlTree, Dates

CONSTANTS
  Entry,    \* the pairs <<text, address>> that are put or shared
  HashTTL   \* the age above which a hash is obsolete

ASSUME AvlTableAssumption ==
  /\ Entry \subseteq Text \X Addr
  /\ \A e \in Entry : char_to_uint16_t_hash(e[1]) # NULL
  /\ HashTTL \in Nat /\ HashTTL < MaxAge

VARIABLES
  tree,   \* the variable hash_table of the server
  stuck,  \* a call has entered a loop it never leaves; so has the server
  call    \* the last call that returned, for the comparison with HashTable

vars == <<tree, stuck, call>>

\* The numbers the texts write.
Number == [text \in {e[1] : e \in Entry} |-> strtol(text)]

\* The payload of h after ip was put or shared under it.
payload(h, ip, a) ==
  LET node == find_node(h, a)
  IN  IF node = NULL THEN new_node(ip) ELSE with_addr(node.data, ip)

insert_hash_addr_put(h, ip, a) ==
  insert(h, [payload(h, ip, a) EXCEPT !.last_put = 0], a)

insert_hash_addr_share(h, ip, a) == insert(h, payload(h, ip, a), a)

\* The tree one second later.
RECURSIVE OlderTree(_)
OlderTree(a) ==
  IF a = NULL THEN NULL
  ELSE [a EXCEPT !.data.last_put = Older(@), !.ll = OlderTree(@), !.rl = OlderTree(@)]

-----------------------------------------------------------------------------
(***************************************************************************)
(* The server's calls                                                      *)
(***************************************************************************)

\* The call c, whose result is a, returns, or never does.
Return(c, a) ==
  /\ ~stuck
  /\ IF a = DIVERGES
       THEN stuck' = TRUE /\ UNCHANGED <<tree, call>>
       ELSE tree' = a /\ call' = c /\ UNCHANGED stuck

\* What clients read from the texts they are given.
Read == [text \in {e[1] : e \in Entry} |-> char_to_uint16_t_hash(text)]

Put(text, ip) ==
  Return(<<"put", Number[text], ip>>, insert_hash_addr_put(Read[text], ip, tree))

Share(text, ip) ==
  Return(<<"share", Number[text], ip>>, insert_hash_addr_share(Read[text], ip, tree))

Sweep == Return(<<"sweep">>, suppression_obsolete_hash(HashTTL, tree))

Tick == Return(<<"tick">>, OlderTree(tree))

Init == tree = NULL /\ stuck = FALSE /\ call = << >>

Next ==
  \/ \E e \in Entry : Put(e[1], e[2]) \/ Share(e[1], e[2])
  \/ Sweep
  \/ Tick

Spec == Init /\ [][Next]_vars

-----------------------------------------------------------------------------
(***************************************************************************)
(* Properties                                                              *)
(***************************************************************************)

RECURSIVE nodes(_)
nodes(a) == IF a = NULL THEN << >> ELSE nodes(a.ll) \o <<a>> \o nodes(a.rl)

\* The hashes as numbers, and what is read from a text that writes n.
Hash == {Number[e[1]] : e \in Entry}
HashOf == [n \in Hash |-> Read[CHOOSE text \in DOMAIN Number : Number[text] = n]]

found == {n \in Hash : find_node(HashOf[n], tree) # NULL}

\* What a search finds, as the map of HashTable.
AsMap ==
  [n \in found |->
     LET d == find_node(HashOf[n], tree).data
     IN  [address_list |-> ToSet(d.address_list), last_put |-> d.last_put]]

Map == INSTANCE HashTable WITH table <- AsMap

\* The tree is a map from numbers, however they are written and whatever
\* rotations and removals have done to it: what a search finds after a put, a
\* share or a sweep is what the map holds after the same call.
ImplementsMap == Map!Spec

\* No node is out of the reach of find_node and no list holds an address twice,
\* so what is listed, shared or answered is what was stored, once each.
EachOnce ==
  /\ Len(nodes(tree)) = Cardinality(found)
  /\ \A i \in 1..Len(nodes(tree)) : IsInjective(nodes(tree)[i].data.address_list)

\* README 113: insertion and suppression are fast; here, every call returns.
EveryCallReturns == ~stuck

\* From left to right the numbers that the hashes of the tree print as increase:
\* an insertion or a rotation never moves a node to the wrong side of another
\* (hash_table.c 246, 482-555), so what is listed is listed in order.
TreeIsInOrder ==
  LET printed == [i \in 1..Len(nodes(tree)) |->
                    strtol(uint16_t_to_char_hash(nodes(tree)[i].hash))]
  IN  \A i \in 2..Len(printed) : printed[i - 1] < printed[i]

\* A hash is the number its text writes, with or without leading zeros and
\* whatever the length of the text: all that clients may be given, and all that
\* is printed of the tree, which is read as the hash that was printed
\* (addr_and_hash.c 44, 167, 191).
TextIsNumber ==
  /\ OthersAreRefused /\ NumbersAreRead
  /\ \A i \in 1..Len(nodes(tree)) :
       LET hash == nodes(tree)[i].hash
       IN  char_to_uint16_t_hash(uint16_t_to_char_hash(hash)) = hash
=============================================================================
