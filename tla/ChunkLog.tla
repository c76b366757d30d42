------------------------------ MODULE ChunkLog ------------------------------
(***************************************************************************)
(* What the download command promises of the chunks table: the chunks of a *)
(* stream appear one by one, from the first on, none skipped and none      *)
(* twice, and none any more once the command has been told to stop.        *)
(***************************************************************************)
EXTENDS Naturals, Sequences

CONSTANT Streams

VARIABLES
  log,      (* the chunks of each stream that are in the table *)
  stopping

vars == <<log, stopping>>

Init ==
  /\ log = [s \in Streams |-> << >>]
  /\ stopping = FALSE

SaveNext(s) ==
  /\ ~stopping
  /\ log' = [log EXCEPT ![s] = Append(@, Len(@))]
  /\ UNCHANGED stopping

Stop ==
  /\ stopping' = TRUE
  /\ UNCHANGED log

Next == Stop \/ \E s \in Streams : SaveNext(s)

Spec == Init /\ [][Next]_vars
=============================================================================
