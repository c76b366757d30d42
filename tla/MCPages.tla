------------------------------ MODULE MCPages ------------------------------
(* Pages with two streams and a few chunks, and pages shorter than *)
(* the tables.                                                             *)
EXTENDS Pages

CONSTANTS n1, n2

TwoNames == {n1, n2}

(* one below the limit, the limit, one that is clamped, none and all *)
SomeCounts == {-1, 0, 1, 3}
=============================================================================
