-------------------------- MODULE RequestLifecycle --------------------------
(***************************************************************************)
(* What a client of the batcher may rely on: a request waits until it is   *)
(* taken up, no more than a batch of them at a time and in an order that   *)
(* is not promised; one that was taken up is given tokens one by one, and  *)
(* is completed when it has all it asked for, and only then; from there    *)
(* only the client takes it away.                                          *)
(***************************************************************************)
EXTENDS Naturals, FiniteSets

CONSTANTS Id, max_batch_size

VARIABLES
  phase,    \* of each request
  budget,   \* how many tokens it asks for
  got       \* how many it was given

vars == <<phase, budget, got>>

In(p) == {i \in Id : phase[i] = p}

Init ==
  /\ phase = [i \in Id |-> "new"]
  /\ budget = [i \in Id |-> 0]
  /\ got = [i \in Id |-> 0]

Submit(i) ==
  /\ phase[i] = "new"
  /\ phase' = [phase EXCEPT ![i] = "waiting"]
  /\ budget'[i] \in Nat
  /\ budget' = [budget EXCEPT ![i] = budget'[i]]
  /\ UNCHANGED got

Start(i) ==
  /\ phase[i] = "waiting"
  /\ Cardinality(In("running")) < max_batch_size
  /\ phase' = [phase EXCEPT ![i] = "running"]
  /\ UNCHANGED <<budget, got>>

Give(i) ==
  /\ phase[i] = "running"
  /\ got[i] < budget[i]
  /\ got' = [got EXCEPT ![i] = @ + 1]
  /\ UNCHANGED <<phase, budget>>

Complete(S) ==
  /\ \A i \in S : phase[i] = "running" /\ got[i] = budget[i]
  /\ phase' = [i \in Id |-> IF i \in S THEN "completed" ELSE phase[i]]
  /\ UNCHANGED <<budget, got>>

(* The client takes requests away, whatever has become of them. *)
Withdraw(S) ==
  /\ \A i \in S : phase[i] # "new"
  /\ phase' = [i \in Id |-> IF i \in S THEN "gone" ELSE phase[i]]
  /\ budget' = [i \in Id |-> IF i \in S THEN 0 ELSE budget[i]]
  /\ got' = [i \in Id |-> IF i \in S THEN 0 ELSE got[i]]

Next ==
  \/ \E i \in Id : Submit(i) \/ Start(i) \/ Give(i)
  \/ \E S \in SUBSET Id : Complete(S) \/ Withdraw(S)

Spec == Init /\ [][Next]_vars
=============================================================================
