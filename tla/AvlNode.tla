------------------------------ MODULE AvlNode ------------------------------
(***************************************************************************)
(* What hash_table.c does to single nodes: a node is made, an address is   *)
(* entered in its list, and it changes places with a node below it.        *)
(***************************************************************************)
EXTENDS HashCodec, SequencesExt

CONSTANT Addr   \* the IPv6 addresses that are stored

leaf(h, d) == [hash |-> h, data |-> d, eq |-> 0, ll |-> NULL, rl |-> NULL]

-----------------------------------------------------------------------------
(***************************************************************************)
(* The payload of a node                                                   *)
(***************************************************************************)

is_in(ip, list) == ip \in ToSet(list)

head_insert_list(list, ip) == <<ip>> \o list

new_node(ip) == [address_list |-> head_insert_list(<< >>, ip), last_put |-> 0]

\* Mutant: the list is not searched first.
with_addr_unchecked(d, ip) == [d EXCEPT !.address_list = head_insert_list(@, ip)]

\* The node of a hash that is inserted again, its date left alone.
with_addr(d, ip) ==
  IF is_in(ip, d.address_list) THEN d
  ELSE [d EXCEPT !.address_list = head_insert_list(@, ip)]

-----------------------------------------------------------------------------
(***************************************************************************)
(* The rotations                                                           *)
(***************************************************************************)

avl_r_rotation(a) ==
  IF a = NULL \/ a.ll = NULL THEN a
  ELSE [a.ll EXCEPT !.rl = [a EXCEPT !.ll = a.ll.rl]]

\* Mutant: the inner subtree is lost.
avl_l_rotation_lossy(a) ==
  IF a = NULL \/ a.rl = NULL THEN a
  ELSE [a.rl EXCEPT !.ll = [a EXCEPT !.rl = NULL]]

avl_l_rotation(a) ==
  IF a = NULL \/ a.rl = NULL THEN a
  ELSE [a.rl EXCEPT !.ll = [a EXCEPT !.rl = a.rl.ll]]

\* eq of the new root is what it was before the rotations, less or plus one.
avl_rl_rotation(a) ==
  [avl_l_rotation([a EXCEPT !.rl = avl_r_rotation(@)]) EXCEPT !.eq = @ - 1]

avl_lr_rotation(a) ==
  [avl_r_rotation([a EXCEPT !.ll = avl_l_rotation(@)]) EXCEPT !.eq = @ + 1]
=============================================================================
