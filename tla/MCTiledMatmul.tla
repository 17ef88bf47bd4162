--------------------------- MODULE MCTiledMatmul ---------------------------
EXTENDS TiledMatmul

(* Rows and blocks with and without a rest; one input, a narrow product,   *)
(* a tile not full, a full tile and a rest, and a chunk that is too tall.  *)
MCShape == {<<2, 2, 3>>, <<3, 1, 3>>, <<5, 2, 3>>, <<5, 3, 1>>, <<6, 4, 2>>, <<6, 5, 1>>, <<18, 2, 1>>, <<4, 4, 2>>}
=============================================================================
