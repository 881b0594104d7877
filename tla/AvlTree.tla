------------------------------ MODULE AvlTree ------------------------------
(***************************************************************************)
(* The tree of hash_table.c.  A tree is NULL or a node with its hash, its  *)
(* payload and its two subtrees.  A node also has the field eq, the height *)
(* of its right subtree minus that of its left one when it was last        *)
(* computed; the rotations of the code read it when it may be out of date. *)
(***************************************************************************)
EXTENDS AvlNode

CONSTANT DIVERGES   \* what a call that never returns "returns"

LOCAL Larger(m, n) == IF m > n THEN m ELSE n
LOCAL Smaller(m, n) == IF m > n THEN n ELSE m

RECURSIVE avl_height(_)
avl_height(a) ==
  IF a = NULL THEN 0 ELSE 1 + Larger(avl_height(a.ll), avl_height(a.rl))

RECURSIVE avl_nearest_leaf_height(_)
avl_nearest_leaf_height(a) ==
  IF a = NULL THEN 0
  ELSE 1 + Smaller(avl_nearest_leaf_height(a.ll), avl_nearest_leaf_height(a.rl))

avl_max_difference_height(a) == avl_height(a) - avl_nearest_leaf_height(a)

\* Mutant: the two sides swapped.
define_balance_val_swapped(a) ==
  [a EXCEPT !.eq = avl_height(a.ll) - avl_height(a.rl)]

define_balance_val_avl(a) ==
  [a EXCEPT !.eq = avl_height(a.rl) - avl_height(a.ll)]

\* Asks more than an AVL has to satisfy: at every node the farthest and the
\* nearest leaf are less than two levels apart.
RECURSIVE is_avl(_)
is_avl(a) ==
  a = NULL \/ (avl_max_difference_height(a) < 2 /\ is_avl(a.ll) /\ is_avl(a.rl))

\* is_avl computes eq on its way; when it returns true it has been everywhere.
RECURSIVE defined(_)
defined(a) ==
  IF a = NULL THEN NULL
  ELSE define_balance_val_avl([a EXCEPT !.ll = defined(@), !.rl = defined(@)])

\* The two inner loops of balance_avl.
RECURSIVE lr_rotations(_)
lr_rotations(a) == IF a.eq < -1 THEN lr_rotations(avl_lr_rotation(a)) ELSE a

RECURSIVE rl_rotations(_)
rl_rotations(a) == IF a.eq > 1 THEN rl_rotations(avl_rl_rotation(a)) ELSE a

(***************************************************************************)
(* balance_avl turns until is_avl holds.  A turn depends on nothing but    *)
(* the tree, so a loop that comes back to a tree it has seen never ends.   *)
(***************************************************************************)
RECURSIVE balance_avl(_)
RECURSIVE turns(_, _)
turns(a, seen) ==
  IF is_avl(a) THEN defined(a)
  ELSE IF a \in seen THEN DIVERGES
  ELSE LET l == balance_avl(a.ll)
           r == balance_avl(a.rl)
       IN  IF DIVERGES \in {l, r} THEN DIVERGES
           ELSE turns(rl_rotations(lr_rotations(
                        define_balance_val_avl([a EXCEPT !.ll = l, !.rl = r]))),
                      seen \cup {a})

balance_avl(a) == IF a = NULL THEN NULL ELSE turns(define_balance_val_avl(a), {})

\* balance_avl of a node whose subtrees are the results of earlier calls.
rebalanced(a) == IF DIVERGES \in {a.ll, a.rl} THEN DIVERGES ELSE balance_avl(a)

RECURSIVE find_node(_, _)
find_node(h, a) ==
  IF a = NULL THEN NULL
  ELSE LET comparison == compare_hash(a.hash, h)
       IN  IF comparison = 0 THEN a
           ELSE IF comparison = -1 THEN find_node(h, a.rl) ELSE find_node(h, a.ll)

(***************************************************************************)
(* insert_hash_addr_put and insert_hash_addr_share: d is the payload that  *)
(* the node of h is left with, whether it is created or found.             *)
(***************************************************************************)
RECURSIVE insert(_, _, _)
insert(h, d, a) ==
  IF a = NULL THEN leaf(h, d)
  ELSE LET comparison == compare_hash(h, a.hash)
       IN  IF comparison = 0 THEN balance_avl([a EXCEPT !.data = d])
           ELSE IF comparison = -1 THEN rebalanced([a EXCEPT !.ll = insert(h, d, @)])
           ELSE rebalanced([a EXCEPT !.rl = insert(h, d, @)])

RECURSIVE avl_max(_)
avl_max(a) == IF a.rl = NULL THEN a ELSE avl_max(a.rl)

RECURSIVE remove_avl_max(_)
remove_avl_max(a) ==
  IF a = NULL THEN NULL
  ELSE IF a.rl = NULL THEN balance_avl(a.ll)
  ELSE rebalanced([a EXCEPT !.rl = remove_avl_max(@)])

(***************************************************************************)
(* remove_hash.  In the case of two subtrees the code reads the left one   *)
(* from the node it has just freed; the allocator it is built with leaves  *)
(* that field as it was.                                                   *)
(***************************************************************************)
RECURSIVE remove_hash(_, _)
remove_hash(h, a) ==
  IF a = NULL THEN NULL
  ELSE IF compare_hash(a.hash, h) = 0
  THEN IF a.ll = NULL THEN balance_avl(a.rl)
       ELSE IF a.rl = NULL THEN balance_avl(a.ll)
       ELSE rebalanced([avl_max(a.ll) EXCEPT !.ll = remove_avl_max(a.ll), !.rl = a.rl])
  ELSE IF compare_hash(a.hash, h) = 1 THEN rebalanced([a EXCEPT !.ll = remove_hash(h, @)])
  ELSE rebalanced([a EXCEPT !.rl = remove_hash(h, @)])

(***************************************************************************)
(* An obsolete root is removed and the result looked at again; otherwise   *)
(* the subtrees are, and nothing is balanced.                              *)
(***************************************************************************)
RECURSIVE suppression_obsolete_hash(_, _)
suppression_obsolete_hash(limit, a) ==
  IF a = NULL \/ a = DIVERGES THEN a
  ELSE IF a.data.last_put > limit
  THEN suppression_obsolete_hash(limit, remove_hash(a.hash, a))
  ELSE LET l == suppression_obsolete_hash(limit, a.ll)
           r == suppression_obsolete_hash(limit, a.rl)
       IN  IF DIVERGES \in {l, r} THEN DIVERGES ELSE [a EXCEPT !.ll = l, !.rl = r]
=============================================================================
