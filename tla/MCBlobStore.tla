---------------------------- MODULE MCBlobStore ----------------------------
(* BlobStore with two writers of two blobs. *)
EXTENDS BlobStore

CONSTANTS w1, w2, k1, k2

TwoWriters == {w1, w2}
TwoKeys == {k1, k2}

AllFaults == {"error", "crash"}
=============================================================================
