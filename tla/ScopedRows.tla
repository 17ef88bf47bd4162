----------------------------- MODULE ScopedRows -----------------------------
(***************************************************************************)
(* The parallel loops of the CPU kernels: the threads of a scope write the *)
(* rows of an output through a raw pointer (SyncPtr, or the address of the *)
(* buffer), so nothing but arithmetic keeps two threads off the same row.  *)
(* The code splits the rows in four ways:                                  *)
(*                                                                         *)
(*   "strided"  gemv_batch_with_barrier: thread t computes the rows t,     *)
(*              t + num_threads, ... of every product in turn, in one      *)
(*              scope, with a SpinBarrier between the products             *)
(*   "claimed"  a scope for each output, whose threads claim the next      *)
(*              chunk_size rows with counter.fetch_add (gemv_impl,         *)
(*              gemv_into, compute_ffn, the element-wise operations of     *)
(*              dag/cpu_executor.rs)                                       *)
(*   "chunked"  parallel_chunks: one contiguous chunk for each thread      *)
(*   "stolen"   parallel_work_stealing, which does not steal but chunks    *)
(*                                                                         *)
(* The barrier is that of SpinBarrierRounds, with as many threads as the   *)
(* scope spawns and no reset().                                            *)
(***************************************************************************)
EXTENDS SpinBarrierRounds, Sequences

CONSTANTS
  MaxThreads,  \* bound on the number of threads
  OutSize,     \* rows of each output, in the order they are computed
  chunk_size   \* rows of a claim

ASSUME ThreadsAssumption == MaxThreads \in Nat \ {0} /\ Thread = 0..(MaxThreads - 1)
ASSUME OutSizeAssumption == OutSize \in Seq(Nat) \ {<<>>}
ASSUME ChunkAssumption == chunk_size \in Nat \ {0}
\* A thread never waits as often as there are outputs.
ASSUME WaitsAssumption == MaxRounds = Len(OutSize)

Weight == 1..Len(OutSize)
Row(w) == 0..(OutSize[w] - 1)
Split == {"strided", "claimed", "chunked", "stolen"}

VARIABLES
  split,
  claimed,     \* the AtomicUsize `counter` of the loops that claim
  weight,      \* the output of the scope in progress, unless the split is "strided"
  pc,          \* each thread: "start", "rows", "barrier" or "done"
  row,         \* the next row of each thread
  until,       \* where the rows it has taken end
  written      \* history: who wrote each row of each output, in order

local == <<split, claimed, weight, pc, row, until, written>>
vars == <<local, roundsVars>>

num_threads == n_threads

(* The output a thread works on.  In the strided loop a thread has left    *)
(* the barrier once per product done.                                      *)
weight_idx(t) == IF split = "strided" THEN left[t] + 1 ELSE weight

Init ==
  /\ \E n \in 1..MaxThreads : team = 0..(n - 1)
  /\ RoundsInit
  /\ split \in Split
  /\ claimed = 0
  /\ weight = 1
  /\ pc = [t \in Thread |-> "start"]
  /\ row = [t \in Thread |-> 0]
  /\ until = [t \in Thread |-> 0]
  /\ written = [w \in Weight |-> [r \in Row(w) |-> <<>>]]

Lesser(a, b) == IF a <= b THEN a ELSE b

(* Thread t goes on with the rows from a up to b. *)
Take(t, a, b) ==
  /\ row' = [row EXCEPT ![t] = a]
  /\ until' = [until EXCEPT ![t] = b]
  /\ pc' = [pc EXCEPT ![t] = "rows"]

-----------------------------------------------------------------------------
(* let mut row = thread_id *)
StartStrided(t) ==
  /\ split = "strided" /\ pc[t] = "start"
  /\ Take(t, t, OutSize[weight_idx(t)])
  /\ UNCHANGED <<split, claimed, weight, written, roundsVars>>

(* Seeded variant: a claim moves the counter by one row. *)
ClaimShort(t) ==
  /\ split = "claimed" /\ pc[t] = "start"
  /\ claimed' = claimed + 1
  /\ IF claimed >= OutSize[weight]
     THEN pc' = [pc EXCEPT ![t] = "done"] /\ UNCHANGED <<row, until>>
     ELSE Take(t, claimed, Lesser(claimed + chunk_size, OutSize[weight]))
  /\ UNCHANGED <<split, weight, written, roundsVars>>

(* chunk_start = counter.fetch_add(chunk_size); break if there is nothing. *)
Claim(t) ==
  /\ split = "claimed" /\ pc[t] = "start"
  /\ claimed' = claimed + chunk_size
  /\ IF claimed >= OutSize[weight]
     THEN pc' = [pc EXCEPT ![t] = "done"] /\ UNCHANGED <<row, until>>
     ELSE Take(t, claimed, Lesser(claimed + chunk_size, OutSize[weight]))
  /\ UNCHANGED <<split, weight, written, roundsVars>>

(* Both helpers round the size of a chunk up; a small loop is left to the  *)
(* caller, here thread 0.                                                  *)
ChunkLen(m) == (m + num_threads - 1) \div num_threads
CallerAlone(m) == num_threads = 1 \/ m <= (IF split = "chunked" THEN num_threads ELSE 1)

StartChunk(t) ==
  LET m == OutSize[weight]
      start == t * ChunkLen(m) IN
  /\ split \in {"chunked", "stolen"} /\ pc[t] = "start"
  /\ IF CallerAlone(m) THEN Take(t, 0, IF t = 0 THEN m ELSE 0)
                       ELSE Take(t, start, Lesser(start + ChunkLen(m), m))
  /\ UNCHANGED <<split, claimed, weight, written, roundsVars>>

(* The next row: *out_ptr.add(row) = ... *)
WriteRow(t) ==
  LET w == weight_idx(t) IN
  /\ pc[t] = "rows"
  /\ row[t] < until[t]
  /\ written' = [written EXCEPT ![w][row[t]] = Append(@, t)]
  /\ row' = [row EXCEPT ![t] = @ + (IF split = "strided" THEN num_threads ELSE 1)]
  /\ UNCHANGED <<split, claimed, weight, pc, until, roundsVars>>

(* Seeded variant: the threads wait after the last product too. *)
EndRowsAlwaysWaits(t) ==
  /\ pc[t] = "rows"
  /\ row[t] >= until[t]
  /\ pc' = [pc EXCEPT ![t] =
       CASE split = "strided" -> "barrier" [] split = "claimed" -> "start" [] OTHER -> "done"]
  /\ UNCHANGED <<split, claimed, weight, row, until, written, roundsVars>>

(* The rows are done: claim again; or wait before the next product, unless *)
(* this was the last; or leave the scope.                                  *)
EndRows(t) ==
  /\ pc[t] = "rows"
  /\ row[t] >= until[t]
  /\ pc' = [pc EXCEPT ![t] =
       CASE split = "strided" /\ weight_idx(t) < Len(OutSize) -> "barrier"
         [] split = "claimed" -> "start"
         [] OTHER -> "done"]
  /\ UNCHANGED <<split, claimed, weight, row, until, written, roundsVars>>

(* barrier.wait() *)
InBarrier(t) ==
  /\ pc[t] = "barrier"
  /\ Enter(t) \/ Count(t) \/ Zero(t)
  /\ UNCHANGED local

LeaveBarrier(t) ==
  /\ pc[t] = "barrier"
  /\ Release(t) \/ Leave(t) \/ Solo(t)
  /\ pc' = [pc EXCEPT ![t] = "start"]
  /\ UNCHANGED <<split, claimed, weight, row, until, written>>

ThreadStep(t) ==
  \/ StartStrided(t) \/ Claim(t) \/ StartChunk(t)
  \/ WriteRow(t) \/ EndRows(t)
  \/ InBarrier(t) \/ LeaveBarrier(t)

(* The end of a scope joins its threads. *)
Joined == \A t \in team : pc[t] = "done"

(* The caller goes on to the next output, with a new scope and counter. *)
NextScope ==
  /\ Joined
  /\ split # "strided"
  /\ weight < Len(OutSize)
  /\ weight' = weight + 1
  /\ claimed' = 0
  /\ pc' = [t \in Thread |-> "start"]
  /\ UNCHANGED <<split, row, until, written, roundsVars>>

Finished == Joined /\ (split = "strided" \/ weight = Len(OutSize))
Return == Finished /\ UNCHANGED vars

Next == Return \/ NextScope \/ \E t \in team : ThreadStep(t)

(* The OS schedules every thread of a scope, and the caller.               *)
SafeSpec == Init /\ [][Next]_vars
Spec == SafeSpec /\ WF_vars(NextScope) /\ \A t \in Thread : WF_vars(t \in team /\ ThreadStep(t))

-----------------------------------------------------------------------------
TypeOK ==
  /\ split \in Split /\ claimed \in Nat /\ weight \in Weight
  /\ pc \in [Thread -> {"start", "rows", "barrier", "done"}]
  /\ row \in [Thread -> Nat]
  /\ until \in [Thread -> Nat]
  /\ DOMAIN written = Weight
  /\ \A w \in Weight : written[w] \in [Row(w) -> Seq(Thread)]
  /\ \A t \in team : weight_idx(t) \in Weight

(* The raw writes do not race: in whatever order the threads run and the   *)
(* rows are claimed, no row is written twice, so no two threads ever write *)
(* the same one.                                                           *)
WrittenOnce == \A w \in Weight : \A r \in Row(w) : Len(written[w][r]) <= 1

(* The outputs are computed one after the other, although nothing but the  *)
(* barrier separates them in the strided loop: a thread works on an output *)
(* only when every row of those before it is written, and a thread that is *)
(* ahead of another is one product ahead, with the other in the barrier.   *)
PhasesAreSeparate ==
  /\ \A t \in team : \A w \in 1..(weight_idx(t) - 1) : \A r \in Row(w) : written[w][r] # <<>>
  /\ \A t, u \in team :
       weight_idx(t) < weight_idx(u) => weight_idx(u) = weight_idx(t) + 1 /\ pc[t] = "barrier"

(* The function returns, and then every row of every output is computed.   *)
EveryRowIsComputed ==
  <>(Finished /\ \A w \in Weight : \A r \in Row(w) : Len(written[w][r]) = 1)

-----------------------------------------------------------------------------
(* The inductive invariant: whose rows are whose, and what is written.     *)

(* A thread stands in the barrier when it waits, and only the strided loop *)
(* waits: between two products.                                            *)
Linked ==
  /\ num_threads \in 1..MaxThreads /\ team = 0..(num_threads - 1)
  /\ left \in [Thread -> Nat] /\ bpc \in [Thread -> BarrierPC]
  /\ \A t \in team :
       /\ pc[t] # "barrier" => bpc[t] = "out"
       /\ pc[t] = "barrier" => split = "strided" /\ weight_idx(t) < Len(OutSize)

(* Where each row is computed if rows are not claimed, and whether its     *)
(* thread is past it.                                                      *)
Owner(w, r) ==
  IF split = "strided" THEN r % num_threads
  ELSE IF CallerAlone(OutSize[w]) THEN 0 ELSE r \div ChunkLen(OutSize[w])

Past(t, w, r) ==
  \/ w < weight_idx(t)
  \/ /\ w = weight_idx(t)
     /\ pc[t] \in {"barrier", "done"} \/ (pc[t] = "rows" /\ r < row[t])

WrittenByOwner ==
  \A w \in Weight : \A r \in Row(w) :
    written[w][r] = IF Past(Owner(w, r), w, r) THEN <<Owner(w, r)>> ELSE <<>>

TakesOwnRows(t) ==
  pc[t] = "rows" =>
    /\ until[t] <= OutSize[weight_idx(t)]
    /\ \A r \in Row(weight_idx(t)) : Owner(weight_idx(t), r) = t => r < until[t]
    /\ IF split = "strided" THEN row[t] % num_threads = t
       ELSE \A r \in row[t]..(until[t] - 1) : Owner(weight, r) = t

OwnedRows == split # "claimed" => WrittenByOwner /\ \A t \in team : TakesOwnRows(t)

(* Of the rows that were claimed each is taken by one thread or written.   *)
Takes(t, r) == pc[t] = "rows" /\ row[t] <= r /\ r < until[t]

TakesClaimed(t) ==
  /\ pc[t] = "rows" => until[t] <= OutSize[weight] /\ until[t] <= claimed
  /\ pc[t] = "done" => OutSize[weight] <= claimed

TakenApart ==
  \A t, u \in team : \A r \in Row(weight) : Takes(t, r) /\ Takes(u, r) => t = u

Computed(w, r) ==
  w < weight \/ (w = weight /\ r < claimed /\ \A t \in team : ~Takes(t, r))

WrittenIfComputed ==
  \A w \in Weight : \A r \in Row(w) : Len(written[w][r]) = IF Computed(w, r) THEN 1 ELSE 0

ClaimedRows ==
  split = "claimed" => (\A t \in team : TakesClaimed(t)) /\ TakenApart /\ WrittenIfComputed

(* Every row has one thread that computes it, and holds what that thread   *)
(* has done so far.                                                        *)
ScopedInv == TypeOK /\ Linked /\ OwnedRows /\ ClaimedRows
=============================================================================
