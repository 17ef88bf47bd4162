-------------------------- MODULE SpinBarrierRounds --------------------------
(***************************************************************************)
(* A SpinBarrier shared by a fixed team of threads that call wait() over   *)
(* and over, with nobody calling reset().  entered, left and released are  *)
(* history variables: they count what happened and guard nothing except    *)
(* the bound MaxRounds on the length of a run.                             *)
(***************************************************************************)
EXTENDS SpinBarrier

CONSTANT MaxRounds   \* bound on the number of waits of one thread

ASSUME RoundsAssumption == MaxRounds \in Nat

VARIABLES
  entered,   \* waits each thread has entered
  left,      \* waits each thread has returned from
  released   \* episodes that were released

roundsVars == <<team, counter, passed, bpc, seen, entered, left, released>>

RoundsInit ==
  /\ team \in (SUBSET Thread) \ {{}}
  /\ BarrierInit
  /\ entered = [t \in Thread |-> 0]
  /\ left = [t \in Thread |-> 0]
  /\ released = 0

-----------------------------------------------------------------------------
Solo(t) ==
  /\ entered[t] < MaxRounds
  /\ WaitSolo(t)
  /\ entered' = [entered EXCEPT ![t] = @ + 1]
  /\ left' = [left EXCEPT ![t] = @ + 1]
  /\ released' = released + 1

Enter(t) ==
  /\ entered[t] < MaxRounds
  /\ LoadPassed(t)
  /\ entered' = [entered EXCEPT ![t] = @ + 1]
  /\ UNCHANGED <<left, released>>

Count(t) ==
  /\ Arrive(t)
  /\ UNCHANGED <<entered, left, released>>

Zero(t) ==
  /\ ZeroCounter(t)
  /\ UNCHANGED <<entered, left, released>>

Release(t) ==
  /\ Publish(t)
  /\ left' = [left EXCEPT ![t] = @ + 1]
  /\ released' = released + 1
  /\ UNCHANGED entered

Leave(t) ==
  /\ SpinExit(t)
  /\ left' = [left EXCEPT ![t] = @ + 1]
  /\ UNCHANGED <<entered, released>>

RoundsNext ==
  \E t \in team :
    Solo(t) \/ Enter(t) \/ Count(t) \/ Zero(t) \/ Release(t) \/ Leave(t)

(* A thread inside wait() keeps running (the OS schedules it); whether and *)
(* when a thread calls wait() again is up to its program.                  *)
Fairness ==
  \A t \in Thread : WF_roundsVars(Count(t) \/ Zero(t) \/ Release(t) \/ Leave(t))

SafeRounds == RoundsInit /\ [][RoundsNext]_roundsVars
Rounds == SafeRounds /\ Fairness

-----------------------------------------------------------------------------
RoundsTypeOK ==
  /\ BarrierTypeOK
  /\ team # {}
  /\ entered \in [Thread -> Nat]
  /\ left \in [Thread -> Nat]
  /\ released \in Nat

(* The threads counted by `counter`: inside the episode in progress, past  *)
(* their fetch_add.                                                        *)
Arrived ==
  {t \in team : bpc[t] \in {"spin", "last", "publish"} /\ entered[t] = released + 1}

(* Where the program counter of a thread puts it among the episodes.       *)
PlaceOf(t) ==
  /\ bpc[t] = "out" => entered[t] = released /\ left[t] = released
  /\ bpc[t] \in {"add", "last", "publish"} =>
       entered[t] = released + 1 /\ left[t] = released
  /\ bpc[t] = "add" => seen[t] = passed
  /\ bpc[t] = "spin" =>
       \/ entered[t] = released + 1 /\ left[t] = released /\ seen[t] = passed
       \/ /\ entered[t] = released
          /\ left[t] = released - 1
          /\ passed = Succ(seen[t])

Places == \A t \in team : PlaceOf(t)

(* `counter` counts the arrivals of the episode in progress, until the     *)
(* last arriver empties it; while there is a last arriver everybody else   *)
(* spins in the same episode.                                              *)
Counting ==
  /\ (\A t \in team : bpc[t] # "publish") => counter = Cardinality(Arrived)
  /\ (\A t \in team : bpc[t] \notin {"last", "publish"}) => counter < n_threads
  /\ \A t \in team : bpc[t] = "publish" => counter = 0
  /\ \A t \in team :
       bpc[t] \in {"last", "publish"} => \A u \in team \ {t} : bpc[u] = "spin"
  /\ \A t \in team : bpc[t] \in {"last", "publish"} => Arrived = team

(* The inductive invariant of the barrier. *)
BarrierInv == RoundsTypeOK /\ Places /\ Counting

(* Nobody returns from a wait that some thread has not entered: the k-th   *)
(* return of any thread comes after the k-th entry of every thread, across *)
(* re-entries and across the wrap of `passed` (SpinBarrier::wait).         *)
NobodyLeavesEarly == \A t, u \in team : left[t] <= entered[u]

(* A complete episode lets everybody go: once all threads have entered     *)
(* their k-th wait, all of them return from it, however slowly a spinner   *)
(* looks at `passed` (SpinBarrier::wait's store-then-fetch_add).           *)
EveryoneIsReleased ==
  \A k \in 1..MaxRounds :
    (\A t \in team : entered[t] >= k) ~> (\A t \in team : left[t] >= k)

(* The barrier implements the abstract rendezvous, liveness included: the  *)
(* counters of waits entered and left are its state, and the two atomics   *)
(* are a mechanism that the abstract specification does not mention.       *)
Abstract == INSTANCE Rendezvous
ImplementsRendezvous == Abstract!Spec
=============================================================================
