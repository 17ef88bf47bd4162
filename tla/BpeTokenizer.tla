---------------------------- MODULE BpeTokenizer ----------------------------
(***************************************************************************)
(* BpeTokenizer::bpe_encode_optimized (tokenize.rs): the pieces of a text  *)
(* are a linked list in an array, and a heap holds the pairs that could be *)
(* merged when they were pushed.  An entry is not removed when its pair    *)
(* goes away, so each is checked when it is popped.                        *)
(***************************************************************************)
EXTENDS Integers, FiniteSets, Sequences, Bags

CONSTANTS
  Table,  \* HashMap<(String, String), usize>, from `new`: no two pairs have one rank
  Text,
  None

ASSUME TableAssumption ==
  \A m \in Table : \A p, q \in DOMAIN m : m[p] \in Nat /\ (m[p] = m[q] => p = q)
ASSUME TextAssumption == \A t \in Text : t \in Seq({t[k] : k \in DOMAIN t})

VARIABLES
  merges,
  text,    \* chars
  tokens,  \* at each position: the string and the neighbours, -1 for none
  alive,
  heap,    \* the entries <<rank, left position>>
  result

vars == <<merges, text, tokens, alive, heap, result>>

n == Len(text)
Position == 0..(n - 1)

(* The pair that begins at a position. *)
Key(toks, i, j) == <<toks[i].string, toks[j].string>>

(* The entry for the pair of positions i and j, if it can be merged. *)
Entry(toks, i, j) ==
  {<<merges[k], i>> : k \in {Key(toks, i, j)} \cap DOMAIN merges}

Init ==
  /\ merges \in Table
  /\ text \in Text
  /\ tokens = [i \in Position |->
       [string |-> <<text[i + 1]>>, prev |-> i - 1, next |-> IF i < n - 1 THEN i + 1 ELSE -1]]
  /\ alive = [i \in Position |-> TRUE]
  /\ heap = SetToBag(UNION {Entry(tokens, i, i + 1) : i \in 0..(n - 2)})
  /\ result = None

(* What pop() returns: the least rank, and of these the leftmost. *)
Top == CHOOSE e \in BagToSet(heap) :
         \A o \in BagToSet(heap) : e[1] < o[1] \/ (e[1] = o[1] /\ e[2] <= o[2])
Popped == heap (-) SetToBag({Top})

(* The pair at the popped position is one of living neighbours ... *)
Lives == /\ alive[Top[2]]
         /\ tokens[Top[2]].next # -1
         /\ alive[tokens[Top[2]].next]
TopKey == Key(tokens, Top[2], tokens[Top[2]].next)
(* ... and has a rank, which may be another than when it was pushed. *)
Ranked == Lives /\ TopKey \in DOMAIN merges

Discard ==
  /\ heap # EmptyBag /\ ~Ranked
  /\ heap' = Popped
  /\ UNCHANGED <<merges, text, tokens, alive, result>>

(* Rank changed, re-add with correct rank *)
PushAgain ==
  /\ heap # EmptyBag /\ Ranked
  /\ merges[TopKey] # Top[1]
  /\ heap' = Popped (+) SetToBag({<<merges[TopKey], Top[2]>>})
  /\ UNCHANGED <<merges, text, tokens, alive, result>>

(* Seeded variant: the left neighbour is not looked at. *)
NewPairsRight(toks, live, pos) ==
  LET right == toks[pos].next IN
  IF right # -1 /\ live[right] THEN Entry(toks, pos, right) ELSE {}

(* The pairs the merged piece forms with its neighbours. *)
NewPairs(toks, live, pos) ==
  LET left == toks[pos].prev
      right == toks[pos].next IN
  (IF left # -1 /\ live[left] THEN Entry(toks, left, pos) ELSE {})
    \cup (IF right # -1 /\ live[right] THEN Entry(toks, pos, right) ELSE {})

(* Seeded variant: the neighbour on the right keeps its link to the piece  *)
(* that is gone.                                                           *)
LinkedForward(toks, pos, next) ==
  [toks EXCEPT ![pos] = [@ EXCEPT !.string = @ \o toks[next].string, !.next = toks[next].next]]

(* `pos` takes over the string and the right neighbour of `next`. *)
Linked(toks, pos, next) ==
  [i \in DOMAIN toks |->
     CASE i = pos -> [toks[i] EXCEPT !.string = @ \o toks[next].string, !.next = toks[next].next]
       [] i = toks[next].next -> [toks[i] EXCEPT !.prev = pos]
       [] OTHER -> toks[i]]

Merge ==
  /\ heap # EmptyBag /\ Ranked
  /\ merges[TopKey] = Top[1]
  /\ LET pos == Top[2]
         next == tokens[pos].next IN
     /\ tokens' = Linked(tokens, pos, next)
     /\ alive' = [alive EXCEPT ![next] = FALSE]
     /\ heap' = Popped (+) SetToBag(NewPairs(tokens', alive', pos))
  /\ UNCHANGED <<merges, text, result>>

(* The living tokens, from the first along the links. *)
From[i \in -1..n] ==
  IF i = -1 \/ i = n THEN <<>>
  ELSE (IF alive[i] THEN <<tokens[i].string>> ELSE <<>>) \o From[tokens[i].next]
Collected == From[0]

Collect ==
  /\ heap = EmptyBag
  /\ result = None
  /\ result' = Collected
  /\ UNCHANGED <<merges, text, tokens, alive, heap>>

Next == Discard \/ PushAgain \/ Merge \/ Collect

(* One sequential function. *)
Spec == Init /\ [][Next]_vars /\ WF_vars(Next)

-----------------------------------------------------------------------------
(* The living tokens in the order of their positions. *)
Living == {i \in Position : alive[i]}
At(k) == CHOOSE i \in Living : Cardinality({j \in Living : j <= i}) = k
Pieces == [k \in 1..Cardinality(Living) |-> tokens[At(k)].string]

Greedy == INSTANCE GreedyMerge WITH list <- Pieces

(* In spite of the entries that are out of date, the heap always yields    *)
(* the merge the definition of byte-pair encoding asks for ...             *)
MergesGreedily == Greedy!SafeSpec
(* ... and the function returns when no merge is left.                     *)
ImplementsGreedyMerge == Greedy!Spec

Char == {text[k] : k \in 1..n}
Link == -1..(n - 1)

TypeOK ==
  /\ \A p \in DOMAIN merges : merges[p] \in Nat
  /\ text \in Seq(Char)
  /\ tokens \in [Position -> [string : Seq(Char), prev : Link, next : Link]]
  /\ alive \in [Position -> BOOLEAN]
  /\ IsABag(heap) /\ BagToSet(heap) \subseteq Nat \X Position

(* Where the link of a position leads: the end of the text if nowhere. *)
End(i) == IF tokens[i].next = -1 THEN n ELSE tokens[i].next

(* Every link leads on and past no living piece, also the link of a piece  *)
(* that is gone, so that the walk along the links finds every piece once   *)
(* and ends; and the first piece is never merged into another.             *)
LinksLeadOn ==
  /\ \A i \in Position : /\ i < End(i)
                          /\ \A j \in (i + 1)..(End(i) - 1) : ~alive[j]
  /\ n > 0 => alive[0]

(* The pieces spell the text, the links join them both ways, and every     *)
(* pair that can be merged is in the heap under its present rank.          *)
HeapCoversPairs ==
  \A i \in Position : alive[i] =>
    LET next == tokens[i].next IN
    /\ tokens[i].string = SubSeq(text, i + 1, End(i))
    /\ next # -1 =>
         /\ alive[next] /\ tokens[next].prev = i
         /\ Entry(tokens, i, next) \subseteq BagToSet(heap)

(* The inductive invariant of the merging. *)
MergeInv == TypeOK /\ LinksLeadOn /\ HeapCoversPairs
=============================================================================
