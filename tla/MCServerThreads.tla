-------------------------- MODULE MCServerThreads --------------------------
(***************************************************************************)
(* Small instances of ServerThreads for TLC.                               *)
(***************************************************************************)
EXTENDS ServerThreads, TLC
CONSTANTS s0, s1, s2, s3, c1, c2, c3
=============================================================================
