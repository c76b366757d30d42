---------------------------- MODULE MCBroadcast ----------------------------
(* Broadcast with a few listeners and messages. *)
EXTENDS Broadcast

CONSTANTS l1, l2, l3

TwoListeners   == {l1, l2}
ThreeListeners == {l1, l2, l3}
=============================================================================
