---------------------------- MODULE MCCpuForward ----------------------------
(***************************************************************************)
(* The forward pass over its cache, and the tiled products that its tiled  *)
(* path calls.  They share no variable, so a property of one of them sees  *)
(* nothing of the other, and their interleavings would show nothing more   *)
(* than the behaviours of each: whichever takes the first step goes on.    *)
(***************************************************************************)
EXTENDS MCKvForward, MCTiledMatmul

CpuInit == Init /\ TiledInit

CpuNext ==
  \/ TiledInit /\ Next /\ UNCHANGED tiledVars
  \/ Init /\ TiledNext /\ UNCHANGED vars

CpuSpec ==
  /\ CpuInit /\ [][CpuNext]_<<vars, tiledVars>>
  /\ \A t \in Thread : WF_tiledVars(ThreadStep(t))
=============================================================================
