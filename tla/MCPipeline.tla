----------------------------- MODULE MCPipeline -----------------------------
(* Pipeline with two streams, one of them without a chunk, or with one stream.       *)
EXTENDS Pipeline

CONSTANTS s1, s2

OneStream  == {s1}
TwoStreams == {s1, s2}

TwoChunks    == [s \in OneStream |-> 2]
ThreeAndNone    == [s \in TwoStreams |-> IF s = s1 THEN 3 ELSE 0]

NoFaults  == {}
AllFaults == {"start", "ffmpeg", "store", "save", "remove"}
=============================================================================
