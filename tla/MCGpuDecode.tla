----------------------------- MODULE MCGpuDecode -----------------------------
EXTENDS GpuDecode

(* The projections of the first layer run on the GPU and wait for it, those*)
(* of the second do not.  (If those of the first do not either, a prompt   *)
(* processed on the host meets the passes in flight and is spoiled.)       *)
MCCpuGemm == {1}
=============================================================================
