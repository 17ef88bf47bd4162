--------------------------- MODULE MCBufferManager ---------------------------
EXTENDS BufferManager, TLC

(* Nothing tells the ids apart, nor the buffers, and no property is one of *)
(* liveness.                                                               *)
MCSymmetry == Permutations(Id) \cup Permutations(Buffer)
=============================================================================
