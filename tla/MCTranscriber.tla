--------------------------- MODULE MCTranscriber ---------------------------
(* Transcriber with three transmissions, one of them poison, and two       *)
(* processes.                                                              *)
EXTENDS Transcriber

CONSTANTS t1, t2, t3, w1, w2

ThreeTransmissions == {t1, t2, t3}
OnePoison          == {t1}
TwoWorkers         == {w1, w2}
=============================================================================
