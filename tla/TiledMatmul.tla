----------------------------- MODULE TiledMatmul -----------------------------
(***************************************************************************)
(* The tiled product of quantised weights (m rows) and inputs (n rows) of  *)
(* nb blocks each (quant/matmul/tiled.rs), with which forward_pooled       *)
(* computes a prompt: dst[row * n + col].  A thread unpacks blocks into    *)
(* its workspace, lets the microkernel add products to the accumulator,    *)
(* and stores the accumulator when all the blocks of a tile are summed.    *)
(*                                                                         *)
(* What is modelled is where everything goes: which block lies in which    *)
(* slot of the workspace, which products each cell of the accumulator      *)
(* holds, and what each product was computed from.  The formats differ in  *)
(* their loops, in how much of a block of weights they unpack, and in the  *)
(* use of the block sums of the inputs.                                    *)
(***************************************************************************)
EXTENDS Integers, Sequences

CONSTANTS
  TILE_ROWS,     \* edge of a tile, and of the accumulator
  MICRO,         \* edge of a microtile: up to so many inputs are "narrow";
                 \* also TILE_K / 16, the block sums of an input block
  FewInputs,     \* 4: a narrow product of so few inputs reads
  LongRead,      \* 4: blocks at a time, and any other
  ShortRead,     \* 2
  ParallelFrom,  \* 256: rows from which the product is divided
  MaxThreads,
  Shape,         \* <<m, n, nb>> of the products asked for
  MaxCalls,      \* bound on the calls
  None

ASSUME SizesAssumption ==
  /\ {TILE_ROWS, MICRO, LongRead, ShortRead, ParallelFrom, MaxThreads} \subseteq Nat \ {0}
  /\ FewInputs \in Nat /\ MaxCalls \in Nat
  /\ ShortRead <= LongRead /\ MICRO * LongRead <= TILE_ROWS
  /\ MaxThreads < ParallelFrom
ASSUME ShapeAssumption == \A s \in Shape : s \in (Nat \ {0}) \X (Nat \ {0}) \X (Nat \ {0})
ASSUME NoneAssumption == None \notin Nat \X Nat

Format == {"Q4_K", "Q5_K", "Q6_K"}
Caller == 0
Thread == 0..MaxThreads  \* the threads of a scope are 1, 2, ...

VARIABLES
  n_threads,  \* default_n_threads(), the same in every call
  calls,      \* the number of calls made
  job,        \* the product of the call in progress, or of the last one
  stage,      \* each thread: "idle", "clear", "sum", "store" or "panicked"
  chunk,      \* the rows a thread computes: [start, rows]
  at,         \* its loop variables: [i0, j0, k0, ir0]
  ws,         \* its TiledWorkspace
  dst         \* what was stored in each cell of the result, in order

tiledVars == <<n_threads, calls, job, stage, chunk, at, ws, dst>>

Lesser(m, n) == IF m <= n THEN m ELSE n

(* TiledWorkspace::new(), the thread-local workspace of a new thread, all  *)
(* zero: the blocks of weights in src0_q and its scales; the blocks that   *)
(* left bits in `rest`, the bytes 16 to 31 of every 32 of a slot of        *)
(* src0_q; the blocks of inputs in src1_q, src1_d and src1_bsums, where    *)
(* sum i of slot s is cell s * MICRO + i; and the accumulator.  A block is *)
(* named by its call and its place.                                        *)
NewWorkspace ==
  [src0 |-> [s \in 0..(TILE_ROWS - 1) |-> None],
   rest |-> [s \in 0..(TILE_ROWS - 1) |-> {}],
   src1 |-> [s \in 0..(TILE_ROWS - 1) |-> None],
   acc  |-> [a \in 0..(TILE_ROWS * TILE_ROWS - 1) |-> <<>>]]

TiledInit ==
  /\ n_threads \in 1..MaxThreads
  /\ calls = 0
  /\ job = [format |-> "Q4_K", m |-> 0, n |-> 0, nb |-> 0]
  /\ stage = [t \in Thread |-> "idle"]
  /\ chunk = [t \in Thread |-> [start |-> 0, rows |-> 0]]
  /\ at = [t \in Thread |-> [i0 |-> 0, j0 |-> 0, k0 |-> 0, ir0 |-> 0]]
  /\ ws = [t \in Thread |-> NewWorkspace]
  /\ dst = <<>>

-----------------------------------------------------------------------------
(* The loops of the four paths (narrow or standard, whole or divided among *)
(* threads) of each format.                                                *)

Divided(j) == n_threads > 1 /\ j.m >= ParallelFrom
Narrow == job.n <= MICRO
(* The one standard path whose accumulator is as wide as the tile. *)
RowsOutside == ~Narrow /\ ~Divided(job) /\ job.format = "Q4_K"

num_k == IF Narrow THEN Lesser(IF job.n <= FewInputs THEN LongRead ELSE ShortRead, job.nb)
                   ELSE 1

(* The tile at hand: a narrow tile of a chunk, or of Q4_K, is as tall as   *)
(* the rows of the thread.                                                 *)
TileRows(t) == IF Narrow /\ (Divided(job) \/ job.format = "Q4_K") THEN chunk[t].rows
                                                                  ELSE TILE_ROWS
TileCols == IF Narrow THEN job.n ELSE TILE_ROWS
tile_m(t) == Lesser(TileRows(t), chunk[t].rows - at[t].i0)
tile_n(t) == Lesser(TileCols, job.n - at[t].j0)

(* Weights are unpacked for a microtile at a time, or for the tile. *)
UnpackRows == IF Narrow \/ RowsOutside THEN MICRO ELSE TILE_ROWS

(* Seeded variant: the accumulator is always as wide as it can be. *)
AccStrideOfTile(t) == TILE_ROWS

(* The cells of the accumulator between a row of the tile and the next. *)
AccStride(t) == IF Narrow \/ RowsOutside THEN tile_n(t) ELSE TILE_ROWS

Idle == \A t \in Thread : stage[t] = "idle"

(* Seeded variant: the chunks are rounded down. *)
ChunkFloor(j, t) ==
  IF Divided(j)
  THEN LET len == j.m \div n_threads IN
       IF t \in 1..n_threads THEN [start |-> (t - 1) * len, rows |-> len]
                             ELSE [start |-> 0, rows |-> 0]
  ELSE [start |-> 0, rows |-> IF t = Caller THEN j.m ELSE 0]

(* matmul_*_tiled: the whole product on the caller's thread with its       *)
(* workspace, or parallel_chunks with new threads and workspaces.          *)
Chunk(j, t) ==
  IF Divided(j)
  THEN LET len == (j.m + n_threads - 1) \div n_threads
           Row(i) == Lesser(i * len, j.m) IN
       IF t \in 1..n_threads THEN [start |-> Row(t - 1), rows |-> Row(t) - Row(t - 1)]
                             ELSE [start |-> 0, rows |-> 0]
  ELSE [start |-> 0, rows |-> IF t = Caller THEN j.m ELSE 0]

Call(format, s) ==
  LET j == [format |-> format, m |-> s[1], n |-> s[2], nb |-> s[3]]
      parts == [t \in Thread |-> Chunk(j, t)] IN
  /\ Idle
  /\ calls < MaxCalls
  /\ calls' = calls + 1
  /\ job' = j
  /\ chunk' = parts
  /\ stage' = [t \in Thread |-> IF parts[t].rows > 0 THEN "clear" ELSE "idle"]
  /\ at' = [t \in Thread |-> [i0 |-> 0, j0 |-> 0, k0 |-> 0, ir0 |-> 0]]
  /\ ws' = [t \in Thread |-> IF t = Caller THEN ws[t] ELSE NewWorkspace]
  /\ dst' = [c \in 0..(j.m * j.n - 1) |-> <<>>]
  /\ UNCHANGED n_threads

-----------------------------------------------------------------------------
(* Seeded variant: one cell too few is cleared. *)
ClearAccShort(t) ==
  LET cells == tile_m(t) * tile_n(t) IN
  /\ stage[t] = "clear"
  /\ IF cells > TILE_ROWS * TILE_ROWS
     THEN stage' = [stage EXCEPT ![t] = "panicked"] /\ UNCHANGED ws
     ELSE /\ ws' = [ws EXCEPT ![t].acc = [a \in DOMAIN @ |-> IF a < cells - 1 THEN <<>> ELSE @[a]]]
          /\ stage' = [stage EXCEPT ![t] = "sum"]
  /\ UNCHANGED <<n_threads, calls, job, chunk, at, dst>>

(* clear_acc(tile_m, tile_n): the first tile_m * tile_n cells, whatever    *)
(* the stride they are used with.  Past the end the index panics.          *)
ClearAcc(t) ==
  LET cells == tile_m(t) * tile_n(t) IN
  /\ stage[t] = "clear"
  /\ IF cells > TILE_ROWS * TILE_ROWS
     THEN stage' = [stage EXCEPT ![t] = "panicked"] /\ UNCHANGED ws
     ELSE /\ ws' = [ws EXCEPT ![t].acc = [a \in DOMAIN @ |-> IF a < cells THEN <<>> ELSE @[a]]]
          /\ stage' = [stage EXCEPT ![t] = "sum"]
  /\ UNCHANGED <<n_threads, calls, job, chunk, at, dst>>

(* unpack_src0_*, unpack_src1_q8k: the block for slot s.  `len` blocks are *)
(* taken to be as many rows as are unpacked, and a block past the end is   *)
(* skipped.                                                                *)
BlockFor(s, len, row_start, n_rows, k0, actual_num_k) ==
  LET r == s \div actual_num_k
      block_idx == (row_start + r) * (len \div n_rows) + k0 + (s % actual_num_k) IN
  IF r < n_rows /\ block_idx < len THEN <<calls, block_idx>> ELSE None

Unpacked(slots, len, row_start, n_rows, k0, actual_num_k) ==
  [s \in DOMAIN slots |->
     LET blk == BlockFor(s, len, row_start, n_rows, k0, actual_num_k) IN
     IF blk = None THEN slots[s] ELSE blk]

(* A load of 32 bytes with vld1q_u8 is one of 16: of Q4_K and Q5_K half of *)
(* the weights are not written, but Q5_K then sets high bits in all.       *)
UnpackedRest(rest, len, row_start, n_rows, k0, actual_num_k) ==
  [s \in DOMAIN rest |->
     LET blk == BlockFor(s, len, row_start, n_rows, k0, actual_num_k) IN
     IF blk = None \/ job.format = "Q4_K" THEN rest[s]
     ELSE IF job.format = "Q5_K" THEN rest[s] \cup {blk} ELSE {blk}]

(* run_microtile_*: what it multiplies for row i and column j.  The block  *)
(* sums, of which Q6_K makes no use, are read with a stride of their own,  *)
(* not the one they were unpacked with.                                    *)
SumCell(num, slab, x, j) ==
  (slab * MICRO + x) * (IF num = 1 THEN TILE_ROWS ELSE MICRO) + j

Blocks(src0, rest, src1, num, slab, i, j) ==
  [weight |-> src0[i * num + slab],
   rest   |-> rest[i * num + slab],
   input  |-> src1[j * num + slab],
   sums   |-> [x \in 1..(IF job.format = "Q6_K" THEN 0 ELSE MICRO) |->
                 LET cell == SumCell(num, slab, x - 1, j)
                 IN <<src1[cell \div MICRO], cell % MICRO>>]]

(* The next blocks of the next rows: unpacked, and multiplied with every   *)
(* input of the tile.  A product names the call, the row, the column and   *)
(* the block it is meant for, and what it was computed from.               *)
Sum(t) ==
  LET k0 == at[t].k0
      ir0 == at[t].ir0
      actual_num_k == Lesser(num_k, job.nb - k0)
      n_src0 == Lesser(UnpackRows, tile_m(t) - ir0)
      row == chunk[t].start + at[t].i0 + ir0
      src0 == Unpacked(ws[t].src0, job.m * job.nb, row, n_src0, k0, actual_num_k)
      rest == UnpackedRest(ws[t].rest, job.m * job.nb, row, n_src0, k0, actual_num_k)
      src1 == IF ir0 = 0
              THEN Unpacked(ws[t].src1, job.n * job.nb, at[t].j0, tile_n(t), k0, actual_num_k)
              ELSE ws[t].src1
      Products(i, j) ==
        [p \in 1..actual_num_k |->
           [call |-> calls, row |-> row + i, col |-> at[t].j0 + j, k |-> k0 + p - 1,
            from |-> Blocks(src0, rest, src1, actual_num_k, p - 1, i, j)]]
      Added(a) == LET i == a \div AccStride(t) - ir0
                      j == a % AccStride(t) IN
                  IF i \in 0..(n_src0 - 1) /\ j < tile_n(t) THEN Products(i, j) ELSE <<>> IN
  /\ stage[t] = "sum"
  /\ ws' = [ws EXCEPT ![t] =
       [src0 |-> src0, rest |-> rest, src1 |-> src1,
        acc |-> [a \in DOMAIN @.acc |-> @.acc[a] \o Added(a)]]]
  /\ IF ir0 + UnpackRows < tile_m(t)
     THEN at' = [at EXCEPT ![t].ir0 = @ + UnpackRows] /\ UNCHANGED stage
     ELSE /\ at' = [at EXCEPT ![t].ir0 = 0, ![t].k0 = @ + num_k]
          /\ stage' = [stage EXCEPT ![t] = IF k0 + num_k < job.nb THEN "sum" ELSE "store"]
  /\ UNCHANGED <<n_threads, calls, job, chunk, dst>>

(* The loops over tiles: rows inside, except in the path RowsOutside. *)
NextTile(t) ==
  LET down == at[t].i0 + TileRows(t)
      right == at[t].j0 + TileCols
      To(i, j) == /\ at' = [at EXCEPT ![t] = [i0 |-> i, j0 |-> j, k0 |-> 0, ir0 |-> 0]]
                  /\ stage' = [stage EXCEPT ![t] = "clear"] IN
  CASE right < job.n /\ (RowsOutside \/ down >= chunk[t].rows) ->
         To(IF RowsOutside THEN at[t].i0 ELSE 0, right)
    [] down < chunk[t].rows /\ (~RowsOutside \/ right >= job.n) ->
         To(down, IF RowsOutside THEN 0 ELSE at[t].j0)
    [] OTHER -> stage' = [stage EXCEPT ![t] = "idle"] /\ UNCHANGED at

(* Seeded variant: a chunk is stored from the start of the result. *)
StoreAtStart(t) ==
  /\ stage[t] = "store"
  /\ dst' = [c \in DOMAIN dst |->
       LET i == c \div job.n - at[t].i0
           j == (c % job.n) - at[t].j0 IN
       IF i \in 0..(tile_m(t) - 1) /\ j \in 0..(tile_n(t) - 1)
       THEN Append(dst[c], ws[t].acc[i * AccStride(t) + j])
       ELSE dst[c]]
  /\ NextTile(t)
  /\ UNCHANGED <<n_threads, calls, job, chunk, ws>>

(* The tile is complete: its cells of dst.  The thread's part of dst       *)
(* begins at its first row.                                                *)
StoreTile(t) ==
  /\ stage[t] = "store"
  /\ dst' = [c \in DOMAIN dst |->
       LET i == c \div job.n - (chunk[t].start + at[t].i0)
           j == (c % job.n) - at[t].j0 IN
       IF i \in 0..(tile_m(t) - 1) /\ j \in 0..(tile_n(t) - 1)
       THEN Append(dst[c], ws[t].acc[i * AccStride(t) + j])
       ELSE dst[c]]
  /\ NextTile(t)
  /\ UNCHANGED <<n_threads, calls, job, chunk, ws>>

ThreadStep(t) == ClearAcc(t) \/ Sum(t) \/ StoreTile(t)

TiledNext ==
  \/ \E format \in Format, s \in Shape : Call(format, s)
  \/ \E t \in Thread : ThreadStep(t)

(* The threads of a scope run to their end; nobody has to call. *)
TiledSafeSpec == TiledInit /\ [][TiledNext]_tiledVars
TiledSpec == TiledSafeSpec /\ \A t \in Thread : WF_tiledVars(ThreadStep(t))

-----------------------------------------------------------------------------
(* What a product for block k of a row and a column was computed from: the *)
(* right blocks if all inputs are unpacked together, or all weights, since *)
(* `len` divided by the rows unpacked is then the blocks of a row.  Of     *)
(* Q6_K all of the weights are the block's.                                *)
OwnBlocks(from, row, col, k) ==
  /\ job.n <= TileCols => from.input = <<calls, col * job.nb + k>>
  /\ ~Divided(job) /\ job.m <= UnpackRows =>
       /\ from.weight = <<calls, row * job.nb + k>>
       /\ job.format = "Q6_K" => from.rest = {from.weight}

(* The first `upto` blocks of a row and a column, each once, in order, and *)
(* nothing else.                                                           *)
Whole(sum, row, col, upto) ==
  /\ Len(sum) = upto
  /\ \A p \in 1..upto :
       /\ sum[p].call = calls /\ sum[p].row = row /\ sum[p].col = col /\ sum[p].k = p - 1
       /\ OwnBlocks(sum[p].from, row, col, p - 1)

(* The accumulator is cleared with the stride it is used with. *)
ClearedAsUsed == Narrow \/ RowsOutside \/ job.n % TILE_ROWS = 0

(* The accumulator of the thread is used tile after tile and call after    *)
(* call.  Where it is cleared with the stride it is used with, the sum     *)
(* that is stored has one product for each block, its own, and none of     *)
(* another tile or of an earlier call, whatever is left over of the rows,  *)
(* the inputs or the blocks.  In a product of Q6_K all the weights are     *)
(* those of its block; of Q4_K and Q5_K this says nothing of the half that *)
(* is not unpacked, nor of the block sums (see the next).                  *)
SumsAreWhole ==
  ClearedAsUsed =>
    \A c \in DOMAIN dst : \A s \in 1..Len(dst[c]) :
      Whole(dst[c][s], c \div job.n, c % job.n, job.nb)

(* "Computes: acc[i,j] += sum over subblocks of (scale_i * dot(q0_i, q1_j) *)
(* - min_i * bsum_j) * d0_i * d1_j" (tiled.rs:249): the block sums in a    *)
(* product are those of the input it multiplies.  They are read from other *)
(* cells than they were unpacked to, so this does not hold.                *)
BlockSumsAreTheInputs ==
  job.n <= TileCols /\ job.format # "Q6_K" =>
    \A c \in DOMAIN dst : \A s \in 1..Len(dst[c]) : \A p \in 1..Len(dst[c][s]) :
      LET from == dst[c][s][p].from IN
      \A x \in 1..MICRO : from.sums[x] = <<from.input, x - 1>>

(* The threads store through a raw pointer, each from its first row on: no *)
(* cell is stored twice, by two tiles or by two threads, and when a call   *)
(* is over none is left out.                                               *)
StoredOnce ==
  \A c \in DOMAIN dst : Len(dst[c]) <= 1 /\ (Idle => Len(dst[c]) = 1)

(* Every call is over at last, with every cell stored once, unless a       *)
(* narrow chunk has more cells than the accumulator.                       *)
EveryCellIsStored ==
  ~Idle ~> \/ Idle /\ \A c \in DOMAIN dst : Len(dst[c]) = 1
           \/ \E t \in Thread : /\ stage[t] = "panicked"
                                /\ Narrow
                                /\ chunk[t].rows * job.n > TILE_ROWS * TILE_ROWS

-----------------------------------------------------------------------------
(* The inductive invariant. *)

Slot == 0..(TILE_ROWS - 1)
AccCell == 0..(TILE_ROWS * TILE_ROWS - 1)
Block == (Nat \X Nat) \cup {None}
Source == [weight : Block, rest : SUBSET Block, input : Block, sums : Seq(Block \X Nat)]
Product == [call : Nat, row : Nat, col : Nat, k : Nat, from : Source]
Workspace ==
  [src0 : [Slot -> Block], rest : [Slot -> SUBSET Block], src1 : [Slot -> Block],
   acc : [AccCell -> Seq(Product)]]

TiledTypeOK ==
  /\ n_threads \in 1..MaxThreads /\ calls \in Nat
  /\ job \in [format : Format, m : Nat, n : Nat, nb : Nat]
  /\ job.m > 0 => job.n > 0 /\ job.nb > 0
  /\ stage \in [Thread -> {"idle", "clear", "sum", "store", "panicked"}]
  /\ chunk = [t \in Thread |-> Chunk(job, t)]
  /\ at \in [Thread -> [i0 : Nat, j0 : Nat, k0 : Nat, ir0 : Nat]]
  /\ ws \in [Thread -> Workspace]
  /\ dst \in [0..(job.m * job.n - 1) -> Seq(Seq(Product))]

(* Where the loops of a thread are. *)
InTile(t) ==
  /\ at[t].i0 < chunk[t].rows /\ at[t].i0 % TileRows(t) = 0
  /\ at[t].j0 < job.n /\ at[t].j0 % TileCols = 0
  /\ at[t].ir0 % UnpackRows = 0
  /\ stage[t] = "clear" => at[t].k0 = 0 /\ at[t].ir0 = 0
  /\ stage[t] = "sum" => at[t].k0 < job.nb /\ at[t].ir0 < tile_m(t)
  /\ stage[t] \in {"sum", "store"} => tile_m(t) * tile_n(t) <= TILE_ROWS * TILE_ROWS
  /\ stage[t] = "panicked" => Narrow /\ chunk[t].rows * job.n > TILE_ROWS * TILE_ROWS

Loops(t) == stage[t] # "idle" => InTile(t)

(* The blocks read at a time. *)
Slabs(t) == Lesser(num_k, job.nb - at[t].k0)

(* What was unpacked for the first microtile is there for the others.      *)
InputsStay(t) ==
  stage[t] = "sum" /\ at[t].ir0 > 0 /\ job.n <= TileCols =>
    \A j \in 0..(job.n - 1), s \in 0..(Slabs(t) - 1) :
      ws[t].src1[j * Slabs(t) + s] = <<calls, j * job.nb + at[t].k0 + s>>

(* The number of blocks that are summed for row i of the tile. *)
Summed(t, i) ==
  IF stage[t] = "store" THEN job.nb
  ELSE IF i < at[t].ir0 THEN at[t].k0 + Slabs(t) ELSE at[t].k0

SumsInProgress(t) ==
  ClearedAsUsed /\ stage[t] \in {"sum", "store"} =>
    \A a \in 0..(tile_m(t) * tile_n(t) - 1) :
      LET i == a \div tile_n(t)
          j == a % tile_n(t)
      IN Whole(ws[t].acc[a], chunk[t].start + at[t].i0 + i, at[t].j0 + j, Summed(t, i))

(* Row i of the chunk and column j are in a tile before the one at hand.   *)
Before(t, i, j) ==
  IF RowsOutside THEN i < at[t].i0 \/ (i < at[t].i0 + tile_m(t) /\ j < at[t].j0)
                 ELSE j < at[t].j0 \/ (j < at[t].j0 + tile_n(t) /\ i < at[t].i0)

StoredSoFar(t) ==
  \A c \in DOMAIN dst :
    LET i == c \div job.n - chunk[t].start IN
    i \in 0..(chunk[t].rows - 1) =>
      Len(dst[c]) = IF stage[t] = "idle" \/ Before(t, i, c % job.n) THEN 1 ELSE 0

(* The loops are where they should be, the accumulator holds what is       *)
(* summed so far, and the cells stored are those of the tiles before.      *)
TiledInv ==
  /\ TiledTypeOK /\ SumsAreWhole
  /\ \A t \in Thread : Loops(t) /\ InputsStay(t) /\ SumsInProgress(t) /\ StoredSoFar(t)
=============================================================================
