----------------------------- MODULE SpinBarrier -----------------------------
(***************************************************************************)
(* The steps of SpinBarrier (cpu/thread_pool.rs): the two atomics and what *)
(* one call of wait() does to them, one atomic access per step, so that    *)
(* modules which use the barrier can interleave the calls of several       *)
(* threads.  SpinBarrierRounds runs the barrier on its own with a fixed    *)
(* team; ThreadPool runs it as the pool does, with reset() between calls.  *)
(***************************************************************************)
EXTENDS Integers, FiniteSets

CONSTANTS
  Thread,   \* threads that may share the barrier
  Wrap      \* values of the `passed` counter before it wraps (2^64 for usize)

ASSUME ThreadAssumption == IsFiniteSet(Thread)
ASSUME WrapAssumption == Wrap \in Nat /\ Wrap >= 2

VARIABLES
  team,     \* field n_threads, as the set of the threads that share the barrier
  counter,  \* AtomicUsize counter: arrivals of the episode in progress
  passed,   \* AtomicUsize passed: episodes released so far, modulo Wrap
  bpc,      \* where each thread is inside wait()
  seen      \* the local n_passed of each thread's latest wait()

barrierVars == <<team, counter, passed, bpc, seen>>

n_threads == Cardinality(team)

BarrierPC == {"out", "add", "last", "publish", "spin"}

(* fetch_add(1) on a usize that wraps. *)
Succ(p) == IF p = Wrap - 1 THEN 0 ELSE p + 1

BarrierTypeOK ==
  /\ team \in SUBSET Thread
  /\ counter \in Nat
  /\ passed \in 0..(Wrap - 1)
  /\ bpc \in [Thread -> BarrierPC]
  /\ seen \in [Thread -> 0..(Wrap - 1)]

(* new(n_threads) *)
BarrierInit ==
  /\ counter = 0
  /\ passed = 0
  /\ bpc = [t \in Thread |-> "out"]
  /\ seen = [t \in Thread |-> 0]

-----------------------------------------------------------------------------
(* wait() of a single-thread barrier returns at once. *)
WaitSolo(t) ==
  /\ bpc[t] = "out"
  /\ n_threads = 1
  /\ UNCHANGED barrierVars

(* let n_passed = passed.load() *)
LoadPassed(t) ==
  /\ bpc[t] = "out"
  /\ n_threads # 1
  /\ seen' = [seen EXCEPT ![t] = passed]
  /\ bpc' = [bpc EXCEPT ![t] = "add"]
  /\ UNCHANGED <<team, counter, passed>>

(* Seeded variant: one arrival too few makes a thread the last one. *)
ArriveOffByOne(t) ==
  /\ bpc[t] = "add"
  /\ counter' = counter + 1
  /\ bpc' = [bpc EXCEPT ![t] = IF counter + 2 = n_threads THEN "last" ELSE "spin"]
  /\ UNCHANGED <<team, passed, seen>>

(* let n = counter.fetch_add(1): the n_threads-th arrival is the last one. *)
Arrive(t) ==
  /\ bpc[t] = "add"
  /\ counter' = counter + 1
  /\ bpc' = [bpc EXCEPT ![t] = IF counter = n_threads - 1 THEN "last" ELSE "spin"]
  /\ UNCHANGED <<team, passed, seen>>

(* Seeded variant: the last arriver publishes without emptying the counter. *)
ZeroCounterSkipped(t) ==
  /\ bpc[t] = "last"
  /\ bpc' = [bpc EXCEPT ![t] = "publish"]
  /\ UNCHANGED <<team, counter, passed, seen>>

(* counter.store(0), by the last arriver *)
ZeroCounter(t) ==
  /\ bpc[t] = "last"
  /\ counter' = 0
  /\ bpc' = [bpc EXCEPT ![t] = "publish"]
  /\ UNCHANGED <<team, passed, seen>>

(* passed.fetch_add(1) releases the spinners; the last arriver returns. *)
Publish(t) ==
  /\ bpc[t] = "publish"
  /\ passed' = Succ(passed)
  /\ bpc' = [bpc EXCEPT ![t] = "out"]
  /\ UNCHANGED <<team, counter, seen>>

(* while passed.load() == n_passed { cpu_relax() }: the load that ends it. *)
SpinExit(t) ==
  /\ bpc[t] = "spin"
  /\ passed # seen[t]
  /\ bpc' = [bpc EXCEPT ![t] = "out"]
  /\ UNCHANGED <<team, counter, passed, seen>>

(* The two stores of reset(). *)
ResetCounter ==
  /\ counter' = 0
  /\ UNCHANGED <<team, passed, bpc, seen>>

ResetPassed ==
  /\ passed' = 0
  /\ UNCHANGED <<team, counter, bpc, seen>>
=============================================================================
