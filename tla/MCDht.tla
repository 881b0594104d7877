------------------------------- MODULE MCDht -------------------------------
(***************************************************************************)
(* Small instances of Dht for TLC: who may be told to connect to whom, and *)
(* how often each event happens.                                           *)
(***************************************************************************)
EXTENDS Dht, TLC

CONSTANTS s1, s2, s3, s4, h0, h1, a1, a2, c1

\* s1 is started alone, the others are told to connect to an earlier server.
ContactPair == (s1 :> {s1}) @@ (s2 :> {s1})
ContactThree == (s1 :> {s1}) @@ (s2 :> {s1}) @@ (s3 :> {s1, s2})
ContactFour ==
  (s1 :> {s1}) @@ (s2 :> {s1}) @@ (s3 :> {s1}) @@ (s4 :> {s3})

Events(put, start, stop, loss, dup) ==
  [put |-> put, start |-> start, stop |-> stop, loss |-> loss, dup |-> dup]

BudgetJoin == Events(0, 4, 0, 0, 0)
BudgetTime == Events(2, 2, 1, 0, 1)
BudgetFaults == Events(1, 3, 1, 1, 1)
BudgetData == Events(2, 2, 0, 0, 0)
BudgetData3 == Events(1, 3, 0, 0, 0)
BudgetGet == Events(1, 2, 0, 0, 0)
BudgetRestart == Events(0, 3, 1, 0, 0)

\* The hashes other than zero are alike, and so are the addresses.
Alike == Permutations({a1, a2})
=============================================================================
