--------------------------- MODULE MCYaftlContext ---------------------------
(* Blocks of seven pages hold two contexts of two pages with their marks;  *)
(* the seventh page is the one the test for room wants to see free.        *)
EXTENDS YaftlContext

FirstThree == [i \in 0..2 |-> i]
LastThree  == [i \in 0..2 |-> i + 1]
=============================================================================
