----------------------------- MODULE GreedyMerge -----------------------------
(***************************************************************************)
(* What byte-pair encoding promises: as long as two neighbours can be      *)
(* merged, the pair of the best rank is, and the leftmost of equals.       *)
(***************************************************************************)
EXTENDS Naturals, Sequences

CONSTANTS
  Table,  \* the tables of merges: from pairs of tokens to ranks
  Text,   \* the texts: sequences of characters
  None

VARIABLES merges, list, result

vars == <<merges, list, result>>

Init ==
  /\ merges \in Table
  /\ \E text \in Text : list = [i \in DOMAIN text |-> <<text[i]>>]
  /\ result = None

Pair(i) == <<list[i], list[i + 1]>>
Mergeable == {i \in 1..(Len(list) - 1) : Pair(i) \in DOMAIN merges}

Best(i) ==
  /\ i \in Mergeable
  /\ \A j \in Mergeable :
       \/ merges[Pair(i)] < merges[Pair(j)]
       \/ merges[Pair(i)] = merges[Pair(j)] /\ i <= j

MergeBest ==
  /\ \E i \in DOMAIN list :
       /\ Best(i)
       /\ list' = SubSeq(list, 1, i - 1) \o <<list[i] \o list[i + 1]>>
                    \o SubSeq(list, i + 2, Len(list))
  /\ UNCHANGED <<merges, result>>

Return ==
  /\ Mergeable = {}
  /\ result = None
  /\ result' = list
  /\ UNCHANGED <<merges, list>>

Next == MergeBest \/ Return
SafeSpec == Init /\ [][Next]_vars
Spec == SafeSpec /\ WF_vars(Next)
=============================================================================
