---------------------------- MODULE MCSplitChunk ----------------------------
(* SplitChunk with two pieces whose spans begin and end just before, at    *)
(* and after the buffer's length and half a millisecond, with four ticks   *)
(* to a millisecond and a buffer of two milliseconds, and two that end     *)
(* before they start, by less and by more than two buffers.                *)
EXTENDS SplitChunk

CONSTANTS p1, p2

TwoPieces == {p1, p2}

BoundarySpans ==
  {[start |-> s, end |-> e] : s \in {0, 7, 8, 9}, e \in {11, 14}}
    \cup {[start |-> s, end |-> 24] : s \in {30, 42}}
=============================================================================
