----------------------------- MODULE Rendezvous ------------------------------
(***************************************************************************)
(* What a reusable barrier promises, whatever its mechanism: a thread      *)
(* returns from its k-th wait only when every thread has entered its k-th  *)
(* wait.                                                                   *)
(***************************************************************************)
EXTENDS Integers

CONSTANTS
  Thread,
  MaxRounds    \* bound on the number of waits of one thread

VARIABLES
  team,        \* the threads that meet (fixed)
  entered,     \* waits each thread has entered
  left         \* waits each thread has returned from

Init ==
  /\ team \in (SUBSET Thread) \ {{}}
  /\ entered = [t \in Thread |-> 0]
  /\ left = [t \in Thread |-> 0]

Enter(t) ==
  /\ entered[t] = left[t]
  /\ entered[t] < MaxRounds
  /\ entered' = [entered EXCEPT ![t] = @ + 1]
  /\ UNCHANGED <<team, left>>

Leave(t) ==
  /\ left[t] < entered[t]
  /\ \A u \in team : left[t] < entered[u]
  /\ left' = [left EXCEPT ![t] = @ + 1]
  /\ UNCHANGED <<team, entered>>

(* A team of one enters and returns at once. *)
Alone(t) ==
  /\ team = {t}
  /\ entered[t] = left[t]
  /\ entered[t] < MaxRounds
  /\ entered' = [entered EXCEPT ![t] = @ + 1]
  /\ left' = [left EXCEPT ![t] = @ + 1]
  /\ UNCHANGED team

Next == \E t \in team : Enter(t) \/ Leave(t) \/ Alone(t)

vars == <<team, entered, left>>

(* The safety part; and the promise that a released wait returns. *)
SafeSpec == Init /\ [][Next]_vars
Spec == SafeSpec /\ \A t \in Thread : WF_vars(Leave(t))
=============================================================================
