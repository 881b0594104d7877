------------------------------- MODULE Dates -------------------------------
(***************************************************************************)
(* The dates the servers keep.  The code stores time(NULL) and later       *)
(* compares it with the current time; a model keeps the difference, the    *)
(* "age" of the date, in ticks of one second.  An age stops growing at     *)
(* MaxAge.  The modules that compare ages with a limit assume the limit    *)
(* below MaxAge, so two ages the code tells apart are still told apart.    *)
(***************************************************************************)
EXTENDS Naturals

CONSTANT MaxAge   \* the bound at which ages stop growing

ASSUME MaxAgeAssumption == MaxAge \in Nat

Age == 0..MaxAge

\* One second passes for a date whose age is a.
Older(a) == IF a < MaxAge THEN a + 1 ELSE a
=============================================================================
