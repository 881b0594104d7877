------------------------------- MODULE MCAvl -------------------------------
(***************************************************************************)
(* Small instances of AvlTable for TLC.  The texts write six or seven      *)
(* numbers on both sides of the border between two words, one of them in   *)
(* two ways and with two addresses.                                        *)
(***************************************************************************)
EXTENDS AvlTable, TLC

CONSTANTS a1, a2

\* In the order of the numbers: 0, 1, 4097, 65535, 65536, 69632, 131073.
Nought == << >>
One == <<1>>
OneAgain == <<0, 0, 0, 0, 1>>
Greatest == <<15, 15, 15, 15>>
Six == {Nought, One, <<1, 0, 0, 1>>, Greatest, <<1, 0, 0, 0, 0>>, <<1, 1, 0, 0, 0>>}
Seven == Six \cup {<<2, 0, 0, 0, 1>>}

Entry6 == (Six \X {a1}) \cup {<<OneAgain, a2>>}
Entry7 == Seven \X {a1}

\* Every text of at most six digits out of 0, 1 and f, and two that are none.
Texts == Seven \cup UNION {[1..n -> {0, 1, 15}] : n \in 0..6} \cup {<<16>>, <<1, 16>>}
=============================================================================
