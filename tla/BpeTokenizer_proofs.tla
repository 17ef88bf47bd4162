------------------------- MODULE BpeTokenizer_proofs -------------------------
(***************************************************************************)
(* The heap of bpe_encode_optimized, whatever is out of date in it, makes  *)
(* the merges of byte-pair encoding, for every table and every text.       *)
(*                                                                         *)
(* The invariant.  The links join the living pieces in order, lead on and  *)
(* past nothing alive, and the pieces spell the text from one link to the  *)
(* next.  Of any two living neighbours that can be merged, the heap has an *)
(* entry with their present rank.  A merge changes two pairs at most:      *)
(* those of the merged piece with its neighbours, which it pushes.         *)
(*                                                                         *)
(* The refinement.  The pieces are numbered by rank: the piece at place k  *)
(* is the k-th living position.  Neighbours in the list are linked, so     *)
(* each pair that can be merged has its entry in the heap, and the top of  *)
(* the heap, once its pair is found to be what it says, is the least of    *)
(* them all.  A merge takes one piece out, which leaves the ranks before   *)
(* it and lowers those after.                                              *)
(*                                                                         *)
(* The result.  The walk along the links, started at any position, yields  *)
(* the pieces that do not begin before it: otherwise there would be a last *)
(* position where it does not, and every link leads on.                    *)
(***************************************************************************)
EXTENDS BpeTokenizer, TLAPS, FiniteSetTheorems, SequenceTheorems, WellFoundedInduction

(* A non-empty set of numbers has a smallest element. *)
LEMMA Smallest ==
  ASSUME NEW T \in SUBSET Nat, T # {}
  PROVE  \E x \in T : \A y \in T : x <= y
<1>1. IsWellFoundedOn(OpToRel(<, Nat), Nat)
  BY NatLessThanWellFounded
<1>2. \A x, y \in Nat : <<y, x>> \in OpToRel(<, Nat) <=> y < x
  BY DEF OpToRel
<1>3. \E Less : IsWellFoundedOn(Less, Nat) /\ \A x, y \in Nat : <<y, x>> \in Less <=> y < x
  BY <1>1, <1>2, Zenon
<1>4. PICK Less : /\ IsWellFoundedOn(Less, Nat)
                  /\ \A x, y \in Nat : <<y, x>> \in Less <=> y < x
  BY <1>3
<1>5. PICK x \in T : \A y \in T : ~(<<y, x>> \in Less)
  BY <1>4, WFMin
<1>6. \A y \in T : x \in Nat /\ y \in Nat /\ ~(y < x)
  BY <1>4, <1>5
<1>7. \A y \in T : x <= y
  BY <1>6
<1>. QED  BY <1>7

(* Taking one copy of an element from a bag, and adding a set to it. *)
LEMMA BagRemove ==
  ASSUME NEW B, IsABag(B), NEW e \in BagToSet(B)
  PROVE  /\ IsABag(B (-) SetToBag({e}))
         /\ BagToSet(B (-) SetToBag({e})) \subseteq BagToSet(B)
         /\ BagToSet(B) \ {e} \subseteq BagToSet(B (-) SetToBag({e}))
<1>1. B \in [DOMAIN B -> {k \in Nat : k > 0}]
  BY DEF IsABag
<1>. DEFINE D == [x \in DOMAIN B |-> IF x \in {e} THEN B[x] - 1 ELSE B[x]]
            K == {d \in DOMAIN B : D[d] > 0}
            P == [x \in K |-> D[x]]
<1>2. B (-) SetToBag({e}) = P
  BY DEF (-), SetToBag
<1>3. \A x \in K : x \in DOMAIN B /\ D[x] \in Nat /\ D[x] > 0
  BY <1>1
<1>4. \A x \in DOMAIN B \ {e} : x \in K
  BY <1>1
<1>5. P \in [K -> {k \in Nat : k > 0}] /\ DOMAIN P = K
  BY <1>3
<1>. HIDE DEF P, K
<1>6. IsABag(P)
  BY <1>5 DEF IsABag
<1>. QED  BY <1>2, <1>3, <1>4, <1>5, <1>6 DEF BagToSet

LEMMA BagAdd ==
  ASSUME NEW B, IsABag(B), NEW S
  PROVE  /\ IsABag(B (+) SetToBag(S))
         /\ BagToSet(B (+) SetToBag(S)) = BagToSet(B) \cup S
<1>1. \A x \in DOMAIN B : B[x] \in Nat /\ B[x] > 0
  BY DEF IsABag
<1>. QED  BY <1>1 DEF IsABag, BagToSet, SetToBag, (+)

-----------------------------------------------------------------------------
LEMMA Basics ==
  ASSUME TypeOK
  PROVE  /\ n \in Nat /\ Position = 0..(n - 1) /\ Link = -1..(n - 1)
         /\ text \in Seq(Char)
         /\ \A p \in DOMAIN merges : merges[p] \in Nat
         /\ tokens \in [Position -> [string : Seq(Char), prev : Link, next : Link]]
         /\ alive \in [Position -> BOOLEAN]
BY DEF TypeOK, n, Position, Link

LEMMA EntryIs ==
  ASSUME NEW toks, NEW i, NEW j
  PROVE  Entry(toks, i, j) = IF Key(toks, i, j) \in DOMAIN merges
                             THEN {<<merges[Key(toks, i, j)], i>>} ELSE {}
BY DEF Entry

(* pop() returns an entry of the heap, the least. *)
LEMMA TopIsLeast ==
  ASSUME TypeOK, heap # EmptyBag
  PROVE  /\ Top \in BagToSet(heap) /\ Top[1] \in Nat /\ Top[2] \in Position
         /\ Top = <<Top[1], Top[2]>>
         /\ \A o \in BagToSet(heap) : Top[1] < o[1] \/ (Top[1] = o[1] /\ Top[2] <= o[2])
<1>. DEFINE E == BagToSet(heap)
<1>1. E # {} /\ E \subseteq Nat \X Position /\ Position \subseteq Nat
  <2>1. ASSUME E = {} PROVE FALSE
    <3>1. heap = [x \in {} |-> heap[x]]
      BY <2>1 DEF BagToSet, TypeOK, IsABag
    <3>2. heap = EmptyBag
      BY <3>1 DEF EmptyBag, SetToBag
    <3>. QED  BY <3>2
  <2>. QED  BY <2>1, Basics, SMTT(20) DEF TypeOK
<1>. HIDE DEF E
<1>. DEFINE Ranks == {e[1] : e \in E}
<1>2. Ranks \in SUBSET Nat /\ Ranks # {}
  BY <1>1
<1>3. PICK r \in Ranks : \A x \in Ranks : r <= x
  BY <1>2, Smallest
<1>. DEFINE Lefts == {e[2] : e \in {x \in E : x[1] = r}}
<1>4. Lefts \in SUBSET Nat /\ Lefts # {}
  BY <1>1
<1>5. PICK p \in Lefts : \A x \in Lefts : p <= x
  BY <1>4, Smallest
<1>6. PICK e \in E : e[1] = r /\ e[2] = p
  OBVIOUS
<1>7. \A o \in E : e[1] < o[1] \/ (e[1] = o[1] /\ e[2] <= o[2])
  <2>. SUFFICES ASSUME NEW o \in E PROVE e[1] < o[1] \/ (e[1] = o[1] /\ e[2] <= o[2])
    OBVIOUS
  <2>1. o[1] \in Ranks /\ o[1] \in Nat /\ r \in Nat /\ r <= o[1]
    BY <1>1, <1>3
  <2>2. o[1] = r => o[2] \in Lefts
    OBVIOUS
  <2>. QED  BY <2>1, <2>2, <1>5, <1>6
<1>8. /\ Top \in E
      /\ \A o \in E : Top[1] < o[1] \/ (Top[1] = o[1] /\ Top[2] <= o[2])
  BY <1>7 DEF Top, E
<1>. QED  BY <1>1, <1>8 DEF E

LEMMA PoppedKeeps ==
  ASSUME TypeOK, heap # EmptyBag
  PROVE  /\ IsABag(Popped)
         /\ BagToSet(Popped) \subseteq BagToSet(heap)
         /\ BagToSet(heap) \ {Top} \subseteq BagToSet(Popped)
BY TopIsLeast, BagRemove DEF Popped, TypeOK

(* A piece that is alive, with the piece it is linked to. *)
LEMMA LinkFacts ==
  ASSUME MergeInv, NEW i \in Position, alive[i], tokens[i].next # -1
  PROVE  /\ tokens[i].next \in Position /\ i < tokens[i].next
         /\ alive[tokens[i].next] /\ tokens[tokens[i].next].prev = i
         /\ tokens[i].string = SubSeq(text, i + 1, tokens[i].next)
         /\ Entry(tokens, i, tokens[i].next) \subseteq BagToSet(heap)
<1>1. tokens[i].next \in Link
  BY Basics DEF MergeInv
<1>2. tokens[i].next \in Position
  BY <1>1, Basics DEF MergeInv
<1>. QED  BY <1>2 DEF MergeInv, LinksLeadOn, HeapCoversPairs, End

-----------------------------------------------------------------------------
(* What is taken from the heap says nothing, or is pushed again. *)
LEMMA DiscardPreserves == ASSUME MergeInv, Discard PROVE MergeInv'
<1>1. /\ heap # EmptyBag /\ ~Ranked /\ heap' = Popped
      /\ UNCHANGED <<merges, text, tokens, alive>>
  BY DEF Discard
<1>2. TypeOK'
  BY <1>1, PoppedKeeps DEF MergeInv, TypeOK, n, Position, Char, Link
<1>3. LinksLeadOn'
  BY <1>1 DEF MergeInv, LinksLeadOn, End, n, Position
<1>4. ASSUME NEW i \in Position, alive[i], tokens[i].next # -1
      PROVE  Entry(tokens, i, tokens[i].next) \subseteq BagToSet(Popped)
  <2>1. Entry(tokens, i, tokens[i].next) \subseteq BagToSet(heap) /\ alive[tokens[i].next]
    BY <1>4, LinkFacts
  <2>2. Top \notin Entry(tokens, i, tokens[i].next)
    BY <1>1, <1>4, <2>1, EntryIs DEF Ranked, Lives, TopKey
  <2>. QED  BY <1>1, <2>1, <2>2, PoppedKeeps DEF MergeInv
<1>5. HeapCoversPairs'
  BY <1>1, <1>4 DEF MergeInv, HeapCoversPairs, End, n, Position, Entry, Key
<1>. QED  BY <1>2, <1>3, <1>5 DEF MergeInv

LEMMA PushAgainPreserves == ASSUME MergeInv, PushAgain PROVE MergeInv'
<1>. DEFINE e == <<merges[TopKey], Top[2]>>
<1>1. /\ heap # EmptyBag /\ Ranked /\ heap' = Popped (+) SetToBag({e})
      /\ UNCHANGED <<merges, text, tokens, alive>>
  BY DEF PushAgain
<1>2. e \in Nat \X Position
  BY <1>1, TopIsLeast, Basics DEF MergeInv, Ranked
<1>3. IsABag(heap') /\ BagToSet(heap') = BagToSet(Popped) \cup {e}
  BY <1>1, PoppedKeeps, BagAdd DEF MergeInv
<1>4. TypeOK'
  BY <1>1, <1>2, <1>3, PoppedKeeps DEF MergeInv, TypeOK, n, Position, Char, Link
<1>5. LinksLeadOn'
  BY <1>1 DEF MergeInv, LinksLeadOn, End, n, Position
<1>6. ASSUME NEW i \in Position, alive[i], tokens[i].next # -1
      PROVE  Entry(tokens, i, tokens[i].next) \subseteq BagToSet(heap')
  <2>1. Entry(tokens, i, tokens[i].next) \subseteq BagToSet(heap)
    BY <1>6, LinkFacts
  <2>2. Top \in Entry(tokens, i, tokens[i].next) => Entry(tokens, i, tokens[i].next) = {e}
    BY EntryIs DEF TopKey
  <2>. QED  BY <1>1, <1>3, <2>1, <2>2, PoppedKeeps DEF MergeInv
<1>7. HeapCoversPairs'
  <2>1. UNCHANGED <<merges, text, tokens, alive>>
    BY <1>1
  <2>. QED  BY <2>1, <1>6 DEF MergeInv, HeapCoversPairs, End, n, Position, Entry, Key
<1>. QED  BY <1>4, <1>5, <1>7 DEF MergeInv

-----------------------------------------------------------------------------
(* Two adjacent parts of a sequence make one. *)
LEMMA Adjacent ==
  ASSUME NEW S, NEW s \in Seq(S), NEW a \in 1..(Len(s) + 1), NEW b \in a..(Len(s) + 1),
         NEW c \in b..(Len(s) + 1)
  PROVE  SubSeq(s, a, b - 1) \o SubSeq(s, b, c - 1) = SubSeq(s, a, c - 1)
<1>. DEFINE x == SubSeq(s, a, b - 1)
            y == SubSeq(s, b, c - 1)
            z == SubSeq(s, a, c - 1)
<1>1. /\ x \in Seq(S) /\ Len(x) = b - a
      /\ \A k \in 1..(b - a) : x[k] = s[a + k - 1]
  BY SubSeqProperties
<1>2. /\ y \in Seq(S) /\ Len(y) = c - b
      /\ \A k \in 1..(c - b) : y[k] = s[b + k - 1]
  BY SubSeqProperties
<1>3. /\ z \in Seq(S) /\ Len(z) = c - a
      /\ \A k \in 1..(c - a) : z[k] = s[a + k - 1]
  BY SubSeqProperties
<1>. HIDE DEF x, y, z
<1>. PICK w : w = x \o y
  OBVIOUS
<1>4. /\ a \in Nat /\ b \in Nat /\ c \in Nat /\ 1 <= a /\ a <= b /\ b <= c
      /\ b - a \in Nat /\ c - b \in Nat /\ (b - a) + (c - b) = c - a
  OBVIOUS
<1>5. /\ w \in Seq(S) /\ Len(w) = Len(x) + Len(y)
      /\ \A k \in 1..(Len(x) + Len(y)) : w[k] = IF k <= Len(x) THEN x[k] ELSE y[k - Len(x)]
  BY <1>1, <1>2, ConcatProperties
<1>6. /\ w \in Seq(S) /\ Len(w) = c - a
      /\ \A k \in 1..(c - a) : w[k] = IF k <= b - a THEN x[k] ELSE y[k - (b - a)]
  BY <1>1, <1>2, <1>4, <1>5
<1>7. ASSUME NEW k \in 1..(c - a) PROVE w[k] = z[k]
  <2>1. CASE k <= b - a
    <3>1. k \in 1..(b - a)
      BY <1>4, <2>1
    <3>. QED  BY <1>1, <1>3, <1>6, <2>1, <3>1
  <2>2. CASE ~(k <= b - a)
    <3>1. k - (b - a) \in 1..(c - b) /\ b + (k - (b - a)) - 1 = a + k - 1
      BY <1>4, <2>2
    <3>2. w[k] = y[k - (b - a)] /\ z[k] = s[a + k - 1]
      BY <1>3, <1>6, <2>2
    <3>. QED  BY <1>2, <3>1, <3>2
  <2>. QED  BY <2>1, <2>2
<1>8. w = z
  <2>1. w \in [1..(c - a) -> S] /\ z \in [1..(c - a) -> S]
    BY <1>3, <1>6, LenProperties
  <2>. PICK D : D = 1..(c - a)
    OBVIOUS
  <2>2. w \in [D -> S] /\ z \in [D -> S] /\ \A k \in D : w[k] = z[k]
    BY <1>7, <2>1
  <2>3. w = [k \in D |-> w[k]] /\ z = [k \in D |-> z[k]]
    BY <2>2
  <2>. QED  BY <2>2, <2>3
<1>. QED  BY <1>8 DEF x, y, z

LEMMA TokenChange ==
  ASSUME NEW S, NEW K, NEW r \in [string : S, prev : K, next : K], NEW s \in S, NEW k \in K
  PROVE  /\ [r EXCEPT !.string = s, !.next = k] \in [string : S, prev : K, next : K]
         /\ [r EXCEPT !.string = s, !.next = k].string = s
         /\ [r EXCEPT !.string = s, !.next = k].next = k
         /\ [r EXCEPT !.string = s, !.next = k].prev = r.prev
         /\ [r EXCEPT !.prev = k] \in [string : S, prev : K, next : K]
         /\ [r EXCEPT !.prev = k].string = r.string
         /\ [r EXCEPT !.prev = k].next = r.next
         /\ [r EXCEPT !.prev = k].prev = k
OBVIOUS

(* What Merge does to the list: T and A are what the tokens and the marks  *)
(* of the living become.                                                   *)
Takes(pos, next, far, T, A) ==
  /\ pos = Top[2] /\ next = tokens[pos].next /\ far = tokens[next].next
  /\ T = tokens' /\ A = alive'
  /\ heap # EmptyBag /\ pos \in Position /\ next \in Position /\ pos < next
  /\ alive[pos] /\ alive[next] /\ tokens[next].prev = pos
  /\ far = -1 \/ (far \in Position /\ next < far /\ alive[far] /\ tokens[far].prev = next)
  /\ A = [alive EXCEPT ![next] = FALSE]
  /\ T \in [Position -> [string : Seq(Char), prev : Link, next : Link]]
  /\ \A i \in Position \ {pos} : /\ T[i].string = tokens[i].string
                                 /\ T[i].next = tokens[i].next
  /\ \A i \in Position \ {far} : T[i].prev = tokens[i].prev
  /\ far # -1 => T[far].prev = pos
  /\ T[pos].string = tokens[pos].string \o tokens[next].string
  /\ T[pos].next = far
  /\ heap' = Popped (+) SetToBag(NewPairs(T, A, pos))
  /\ UNCHANGED <<merges, text>>

LEMMA MergeFacts ==
  ASSUME MergeInv, Merge
  PROVE  \E pos, next, far, T, A : Takes(pos, next, far, T, A)
<1>. PICK pos : pos = Top[2]
  OBVIOUS
<1>. PICK next : next = tokens[pos].next
  OBVIOUS
<1>. PICK far : far = tokens[next].next
  OBVIOUS
<1>. PICK T : T = tokens'
  OBVIOUS
<1>. PICK A : A = alive'
  OBVIOUS
<1>1. /\ heap # EmptyBag /\ Ranked /\ merges[TopKey] = Top[1]
      /\ T = Linked(tokens, pos, next) /\ A = [alive EXCEPT ![next] = FALSE]
      /\ heap' = Popped (+) SetToBag(NewPairs(T, A, pos))
      /\ UNCHANGED <<merges, text>>
  BY DEF Merge
<1>2. pos \in Position /\ alive[pos] /\ next # -1
  BY <1>1, TopIsLeast DEF MergeInv, Ranked, Lives
<1>3. next \in Position /\ pos < next /\ alive[next] /\ tokens[next].prev = pos
  BY <1>2, LinkFacts
<1>4. far = -1 \/ (far \in Position /\ next < far /\ alive[far] /\ tokens[far].prev = next)
  BY <1>3, LinkFacts
<1>5. /\ tokens \in [Position -> [string : Seq(Char), prev : Link, next : Link]]
      /\ n \in Nat /\ Position = 0..(n - 1) /\ Link = -1..(n - 1)
  BY Basics DEF MergeInv
<1>6. tokens[pos].string \o tokens[next].string \in Seq(Char)
  BY <1>2, <1>3, <1>5, ConcatProperties
<1>7. /\ DOMAIN tokens = Position /\ far \in Link /\ pos \in Link
      /\ far # pos /\ far # next
  <2>1. DOMAIN tokens = Position
    BY <1>5
  <2>2. far \in Link /\ pos \in Link
    <3>1. tokens[next] \in [string : Seq(Char), prev : Link, next : Link]
      BY <1>3, <1>5
    <3>2. pos \in Link
      BY <1>2, <1>5
    <3>. QED  BY <3>1, <3>2
  <2>3. far # pos /\ far # next
    <3>1. pos \in Int /\ next \in Int /\ pos >= 0 /\ next >= 0
      BY <1>2, <1>3, <1>5
    <3>2. CASE far = -1
      BY <3>1, <3>2
    <3>3. CASE next < far /\ far \in Position
      <4>1. \A i \in 0..(n - 1) : i \in Int
        OBVIOUS
      <4>2. far \in 0..(n - 1)
        BY <3>3, <1>5, Zenon
      <4>3. far \in Int
        BY <4>1, <4>2, Zenon
      <4>. QED  BY <3>1, <3>3, <4>3, <1>3
    <3>. QED  BY <1>4, <3>2, <3>3
  <2>. QED  BY <2>1, <2>2, <2>3
<1>. DEFINE G(i) ==
       CASE i = pos -> [tokens[i] EXCEPT !.string = @ \o tokens[next].string, !.next = far]
         [] i = far -> [tokens[i] EXCEPT !.prev = pos]
         [] OTHER -> tokens[i]
<1>8. T = [i \in Position |-> G(i)]
  BY <1>1, <1>7 DEF Linked
<1>9. /\ T[pos] = [tokens[pos] EXCEPT !.string = @ \o tokens[next].string, !.next = far]
      /\ far # -1 => T[far] = [tokens[far] EXCEPT !.prev = pos]
      /\ \A i \in Position \ {pos, far} : T[i] = tokens[i]
  BY <1>2, <1>4, <1>7, <1>8
<1>. HIDE DEF G
<1>10. /\ T[pos] \in [string : Seq(Char), prev : Link, next : Link]
       /\ T[pos].prev = tokens[pos].prev
       /\ T[pos].string = tokens[pos].string \o tokens[next].string
       /\ T[pos].next = far
  <2>1. /\ tokens[pos] \in [string : Seq(Char), prev : Link, next : Link]
        /\ T[pos] = [tokens[pos] EXCEPT !.string = tokens[pos].string \o tokens[next].string,
                                        !.next = far]
    BY <1>2, <1>5, <1>9
  <2>. PICK r : r = tokens[pos]
    OBVIOUS
  <2>. PICK long : long = tokens[pos].string \o tokens[next].string
    OBVIOUS
  <2>2. /\ [r EXCEPT !.string = long, !.next = far] \in [string : Seq(Char), prev : Link, next : Link]
        /\ [r EXCEPT !.string = long, !.next = far].string = long
        /\ [r EXCEPT !.string = long, !.next = far].next = far
        /\ [r EXCEPT !.string = long, !.next = far].prev = r.prev
    BY <2>1, <1>6, <1>7, TokenChange
  <2>. QED  BY <2>1, <2>2
<1>11. far # -1 => /\ T[far] \in [string : Seq(Char), prev : Link, next : Link]
                   /\ T[far].prev = pos
                   /\ T[far].string = tokens[far].string
                   /\ T[far].next = tokens[far].next
  <2>. SUFFICES ASSUME far # -1 PROVE /\ T[far] \in [string : Seq(Char), prev : Link, next : Link]
                                      /\ T[far].prev = pos
                                      /\ T[far].string = tokens[far].string
                                      /\ T[far].next = tokens[far].next
    OBVIOUS
  <2>1. /\ tokens[far] \in [string : Seq(Char), prev : Link, next : Link]
        /\ T[far] = [tokens[far] EXCEPT !.prev = pos]
    BY <1>4, <1>5, <1>9
  <2>. PICK r : r = tokens[far]
    OBVIOUS
  <2>2. /\ [r EXCEPT !.prev = pos] \in [string : Seq(Char), prev : Link, next : Link]
        /\ [r EXCEPT !.prev = pos].string = r.string
        /\ [r EXCEPT !.prev = pos].next = r.next
        /\ [r EXCEPT !.prev = pos].prev = pos
    BY <2>1, <1>7, TokenChange
  <2>. QED  BY <2>1, <2>2
<1>12. DOMAIN T = Position
       /\ \A i \in Position : T[i] \in [string : Seq(Char), prev : Link, next : Link]
  <2>1. \A i \in Position \ {pos, far} : T[i] = tokens[i]
    BY <1>9
  <2>2. DOMAIN T = Position
    BY <1>8
  <2>3. ASSUME NEW i \in Position
        PROVE  T[i] \in [string : Seq(Char), prev : Link, next : Link]
    <3>1. CASE i = pos
      BY <1>10, <3>1
    <3>2. CASE i = far
      <4>1. i \in Int /\ i >= 0
        BY <1>5
      <4>2. far # -1
        BY <3>2, <4>1
      <4>. QED  BY <1>11, <3>2, <4>2
    <3>3. CASE i \notin {pos, far}
      BY <1>5, <2>1, <3>3
    <3>. QED  BY <3>1, <3>2, <3>3
  <2>. QED  BY <2>2, <2>3
<1>13. T \in [Position -> [string : Seq(Char), prev : Link, next : Link]]
  <2>1. T = [i \in Position |-> T[i]]
    BY <1>8
  <2>. QED  BY <1>12, <2>1
<1>14. /\ \A i \in Position \ {pos} : T[i].string = tokens[i].string /\ T[i].next = tokens[i].next
       /\ \A i \in Position \ {far} : T[i].prev = tokens[i].prev
  <2>1. \A i \in Position \ {pos, far} : T[i] = tokens[i]
    BY <1>9
  <2>2. -1 \notin Position
    BY <1>5
  <2>. QED  BY <1>10, <1>11, <2>1, <2>2
<1>15. far # -1 => T[far].prev = pos
  BY <1>11
<1>16. T[pos].string = tokens[pos].string \o tokens[next].string /\ T[pos].next = far
  BY <1>10
<1>17. /\ heap # EmptyBag /\ A = [alive EXCEPT ![next] = FALSE]
       /\ heap' = Popped (+) SetToBag(NewPairs(T, A, pos))
       /\ merges' = merges /\ text' = text
  BY <1>1
<1>18. UNCHANGED <<merges, text>>
  BY <1>17
<1>19. Takes(pos, next, far, T, A)
  BY <1>2, <1>3, <1>4, <1>13, <1>14, <1>15, <1>16, <1>17, <1>18, Zenon DEF Takes
<1>. QED  BY <1>19

LEMMA MergePreserves == ASSUME MergeInv, Merge PROVE MergeInv'
<1>a. PICK pos, next, far, T, A : Takes(pos, next, far, T, A)
  BY MergeFacts
<1>b. /\ pos \in Position /\ next \in Position /\ pos < next
      /\ alive[pos] /\ alive[next] /\ tokens[next].prev = pos
      /\ pos = Top[2] /\ next = tokens[pos].next /\ far = tokens[next].next
      /\ far = -1 \/ (far \in Position /\ next < far /\ alive[far] /\ tokens[far].prev = next)
  BY <1>a DEF Takes
<1>c. A = [alive EXCEPT ![next] = FALSE]
  BY <1>a DEF Takes
<1>d. /\ T \in [Position -> [string : Seq(Char), prev : Link, next : Link]]
      /\ \A i \in Position \ {pos} : /\ T[i].string = tokens[i].string
                                     /\ T[i].next = tokens[i].next
      /\ \A i \in Position \ {far} : T[i].prev = tokens[i].prev
      /\ far # -1 => T[far].prev = pos
      /\ T[pos].string = tokens[pos].string \o tokens[next].string
      /\ T[pos].next = far
  BY <1>a DEF Takes
<1>e. heap # EmptyBag /\ heap' = Popped (+) SetToBag(NewPairs(T, A, pos))
  BY <1>a DEF Takes
<1>f. T = tokens' /\ A = alive' /\ merges' = merges /\ text' = text
  BY <1>a DEF Takes
<1>1. /\ n \in Nat /\ Position = 0..(n - 1) /\ Link = -1..(n - 1) /\ text \in Seq(Char)
      /\ alive \in [Position -> BOOLEAN]
      /\ \A p \in DOMAIN merges : merges[p] \in Nat
  BY Basics DEF MergeInv
<1>2. /\ pos \in Nat /\ next \in Nat /\ pos < next /\ next < n
      /\ far = -1 \/ (far \in Nat /\ next < far /\ far < n)
  BY <1>1, <1>b
<1>3. n' = n /\ Position' = Position /\ Link' = Link /\ Char' = Char
  BY <1>f DEF n, Position, Link, Char
<1>4. /\ A \in [Position -> BOOLEAN] /\ ~A[next]
      /\ \A i \in Position \ {next} : A[i] = alive[i]
  BY <1>1, <1>b, <1>c
<1>. PICK new : new = NewPairs(T, A, pos)
  OBVIOUS
<1>. PICK H : H = BagToSet(heap')
  OBVIOUS
<1>5. /\ IsABag(heap') /\ H = BagToSet(Popped) \cup new
      /\ BagToSet(Popped) \subseteq BagToSet(heap)
      /\ BagToSet(heap) \ {Top} \subseteq BagToSet(Popped)
  <2>1. IsABag(Popped)
    BY <1>e, PoppedKeeps DEF MergeInv
  <2>2. heap' = Popped (+) SetToBag(new)
    BY <1>e
  <2>. QED  BY <1>e, <2>1, <2>2, PoppedKeeps, BagAdd DEF MergeInv
<1>6. \A i \in Position, j \in Position : Entry(T, i, j) \subseteq Nat \X {i}
  BY <1>1, EntryIs
<1>7. new \subseteq Nat \X Position
  <2>1. T[pos].prev \in Link /\ T[pos].next \in Link
    BY <1>b, <1>d
  <2>2. /\ T[pos].prev # -1 => T[pos].prev \in Position
        /\ T[pos].next # -1 => T[pos].next \in Position
    BY <2>1, <1>1
  <2>3. /\ T[pos].prev # -1 => Entry(T, T[pos].prev, pos) \subseteq Nat \X Position
        /\ T[pos].next # -1 => Entry(T, pos, T[pos].next) \subseteq Nat \X Position
    BY <2>2, <1>b, <1>6, SMTT(20)
  <2>. QED  BY <2>3 DEF NewPairs
<1>8. TypeOK'
  <2>1. H \subseteq Nat \X Position
    BY <1>5, <1>7 DEF MergeInv, TypeOK
  <2>. QED  BY <2>1, <1>1, <1>d, <1>f, <1>3, <1>4, <1>5 DEF TypeOK
<1>. DEFINE TEnd(i) == IF T[i].next = -1 THEN n ELSE T[i].next
<1>. PICK e : e = TEnd(pos)
  OBVIOUS
\* The link of the merged piece leads where that of the piece gone did.
<1>9. /\ e = End(next) /\ e = (IF far = -1 THEN n ELSE far)
      /\ next < e /\ e \in Int /\ e <= n
  <2>1. e = (IF far = -1 THEN n ELSE far)
    BY <1>d
  <2>2. End(next) = (IF far = -1 THEN n ELSE far)
    BY <1>b DEF End
  <2>3. n \in Nat
    BY <1>1
  <2>. QED  BY <2>1, <2>2, <2>3, <1>2
<1>10. ASSUME NEW i \in Position, i # pos PROVE TEnd(i) = End(i) /\ End(i) \in Int /\ End(i) <= n
  <2>1. T[i].next = tokens[i].next /\ T[i].next \in Link
    BY <1>d, <1>10
  <2>. QED  BY <2>1, <1>1 DEF End
<1>11. ASSUME NEW i \in Position
       PROVE  /\ i < TEnd(i)
              /\ \A j \in (i + 1)..(TEnd(i) - 1) : ~A[j]
  <2>1. CASE i = pos
    <3>1. i < TEnd(i)
      BY <1>2, <1>9, <2>1
    <3>2. ASSUME NEW j \in (pos + 1)..(e - 1) PROVE ~A[j]
      <4>1. /\ \A k \in (pos + 1)..(next - 1) : ~alive[k]
            /\ \A k \in (next + 1)..(e - 1) : ~alive[k]
        <5>1. End(pos) = next
          BY <1>b, <1>2 DEF End
        <5>. QED  BY <5>1, <1>b, <1>9 DEF MergeInv, LinksLeadOn
      <4>2. /\ j \in Int /\ pos \in Nat /\ next \in Nat /\ e \in Int /\ n \in Nat
            /\ pos + 1 <= j /\ j <= e - 1 /\ e <= n
        BY <1>1, <1>2, <1>9
      <4>3. j \in 0..(n - 1)
        BY <4>2
      <4>4. j \in (pos + 1)..(next - 1) \/ j = next \/ j \in (next + 1)..(e - 1)
        BY <4>2
      <4>. QED  BY <4>1, <4>3, <4>4, <1>1, <1>4
    <3>. QED  BY <2>1, <3>1, <3>2
  <2>2. CASE i # pos
    <3>1. TEnd(i) = End(i) /\ End(i) \in Int /\ End(i) <= n
      BY <1>10, <2>2
    <3>2. i < End(i) /\ \A j \in (i + 1)..(End(i) - 1) : ~alive[j]
      BY DEF MergeInv, LinksLeadOn
    <3>3. ASSUME NEW j \in (i + 1)..(End(i) - 1) PROVE ~A[j]
      <4>1. j \in Position /\ ~alive[j]
        BY <3>1, <3>2, <1>1
      <4>. QED  BY <4>1, <1>4
    <3>. QED  BY <3>1, <3>2, <3>3
  <2>. QED  BY <2>1, <2>2
<1>12. LinksLeadOn'
  <2>1. ASSUME n > 0 PROVE A[0]
    <3>1. alive[0] /\ 0 \in Position /\ next # 0
      BY <1>1, <1>2, <2>1 DEF MergeInv, LinksLeadOn
    <3>. QED  BY <1>4, <3>1
  <2>. HIDE DEF TEnd
  <2>2. \A i \in Position : End(i)' = TEnd(i)
    BY <1>f, <1>3 DEF End, TEnd
  <2>. QED  BY <1>11, <2>1, <2>2, <1>f, <1>3 DEF LinksLeadOn
<1>. DEFINE Covered(i) == /\ T[i].string = SubSeq(text, i + 1, TEnd(i))
                          /\ T[i].next # -1 => /\ A[T[i].next] /\ T[T[i].next].prev = i
                                               /\ Entry(T, i, T[i].next) \subseteq H
\* The merged piece spells what both spelled, and meets the one after.
<1>13. Covered(pos)
  <2>1. T[pos].string = SubSeq(text, pos + 1, e)
    <3>1. /\ tokens[pos].string = SubSeq(text, pos + 1, next)
          /\ tokens[next].string = SubSeq(text, next + 1, e)
      <4>1. next # -1
        BY <1>2
      <4>. QED  BY <4>1, <1>b, <1>9, LinkFacts DEF MergeInv, HeapCoversPairs
    <3>2. /\ pos \in Nat /\ next \in Nat /\ e \in Nat /\ pos < next /\ next < e /\ e <= Len(text)
          /\ Len(text) \in Nat
      BY <1>1, <1>2, <1>9 DEF n
    <3>3. /\ pos + 1 \in 1..(Len(text) + 1) /\ next + 1 \in (pos + 1)..(Len(text) + 1)
          /\ e + 1 \in (next + 1)..(Len(text) + 1)
          /\ (next + 1) - 1 = next /\ (e + 1) - 1 = e
      BY <3>2
    <3>4. SubSeq(text, pos + 1, next) \o SubSeq(text, next + 1, e) = SubSeq(text, pos + 1, e)
      BY <1>1, <3>3, Adjacent
    <3>. QED  BY <1>d, <3>1, <3>4
  <2>2. ASSUME far # -1
        PROVE  A[far] /\ T[far].prev = pos /\ Entry(T, pos, far) \subseteq H
    <3>1. far \in Position /\ far # next /\ alive[far]
      BY <2>2, <1>b, <1>2
    <3>2. A[far]
      BY <3>1, <1>4
    <3>3. Entry(T, pos, far) \subseteq new
      BY <2>2, <3>2, <1>d DEF NewPairs
    <3>. QED  BY <2>2, <3>2, <3>3, <1>d, <1>5
  <2>. QED  BY <1>d, <2>1, <2>2
\* Another piece is as it was; if it meets the merged one their pair is new.
<1>14. ASSUME NEW i \in Position, A[i], i # pos PROVE Covered(i)
  <2>. PICK m : m = T[i].next
    OBVIOUS
  <2>1. /\ alive[i] /\ i # next /\ m = tokens[i].next /\ T[i].string = tokens[i].string
        /\ m = -1 \/ m \in Position
    <3>1. i # next /\ alive[i] /\ m = tokens[i].next /\ T[i].string = tokens[i].string
      BY <1>b, <1>d, <1>4, <1>14
    <3>2. m \in Link
      BY <1>d
    <3>. QED  BY <3>1, <3>2, <1>1
  <2>2. T[i].string = SubSeq(text, i + 1, TEnd(i))
    <3>1. TEnd(i) = End(i)
      BY <1>10, <1>14
    <3>. QED  BY <2>1, <3>1 DEF MergeInv, HeapCoversPairs
  <2>3. ASSUME m # -1
        PROVE  A[m] /\ T[m].prev = i /\ Entry(T, i, m) \subseteq H
    <3>1. m \in Position /\ alive[m] /\ tokens[m].prev = i /\ Entry(tokens, i, m) \subseteq BagToSet(heap)
      BY <2>1, <2>3, LinkFacts
    <3>2. m # next
      BY <3>1, <1>b, <1>14
    <3>3. m # far
      BY <3>1, <2>1, <1>b, <2>3
    <3>4. A[m] /\ T[m].prev = i
      BY <3>1, <3>2, <3>3, <1>d, <1>4
    <3>5. CASE m = pos
      <4>1. T[pos].prev = i /\ i # -1
        BY <3>4, <3>5, <1>1
      <4>2. Entry(T, i, pos) \subseteq new
        BY <4>1, <1>14 DEF NewPairs
      <4>. QED  BY <3>4, <3>5, <4>2, <1>5
    <3>6. CASE m # pos
      <4>1. T[m].string = tokens[m].string
        BY <3>1, <3>6, <1>d
      <4>2. Entry(T, i, m) = Entry(tokens, i, m)
        BY <2>1, <4>1 DEF Entry, Key
      <4>3. Top \notin Entry(tokens, i, m)
        BY <1>b, <1>14, EntryIs
      <4>. QED  BY <3>1, <3>4, <4>2, <4>3, <1>5
    <3>. QED  BY <3>5, <3>6
  <2>. QED  BY <2>2, <2>3
<1>15. \A i \in Position : A[i] => Covered(i)
  BY <1>13, <1>14
<1>. HIDE DEF Covered, TEnd
<1>16. HeapCoversPairs'
  <2>1. /\ T = tokens' /\ A = alive' /\ merges' = merges /\ text' = text
    BY <1>f
  <2>. QED  BY <1>3, <2>1, <1>15 DEF HeapCoversPairs, Covered, TEnd, End, Entry, Key
<1>. QED  BY <1>8, <1>12, <1>16 DEF MergeInv

(* The part of a sequence at one position. *)
LEMMA OneOf ==
  ASSUME NEW S, NEW s \in Seq(S), NEW k \in 1..Len(s)
  PROVE  SubSeq(s, k, k) = <<s[k]>> /\ <<s[k]>> \in Seq(S)
<1>. PICK w : w = SubSeq(s, k, k)
  OBVIOUS
<1>. PICK c : c = s[k]
  OBVIOUS
<1>1. k \in Nat /\ k <= Len(s) /\ 1 <= k /\ Len(s) \in Nat /\ (k - k) + 1 = 1 /\ (k + 1) - 1 = k
  OBVIOUS
<1>2. c \in S
  OBVIOUS
<1>3. w \in Seq(S) /\ Len(w) = 1 /\ w[1] = c
  <2>1. k \in 1..(Len(s) + 1) /\ k \in (k - 1)..Len(s)
    BY <1>1
  <2>. QED  BY <1>1, <2>1, SubSeqProperties
<1>4. w = <<c>>
  <2>1. w \in [1..1 -> S]
    BY <1>3, LenProperties
  <2>2. w = [i \in 1..1 |-> w[i]] /\ \A i \in 1..1 : w[i] = c
    BY <1>3, <2>1
  <2>. QED  BY <2>2
<1>. QED  BY <1>2, <1>4

LEMMA InitEstablishes == Init => MergeInv
<1>. SUFFICES ASSUME Init PROVE MergeInv
  OBVIOUS
<1>1. /\ merges \in Table /\ text \in Text
      /\ tokens = [i \in Position |->
           [string |-> <<text[i + 1]>>, prev |-> i - 1, next |-> IF i < n - 1 THEN i + 1 ELSE -1]]
      /\ alive = [i \in Position |-> TRUE]
      /\ heap = SetToBag(UNION {Entry(tokens, i, i + 1) : i \in 0..(n - 2)})
  BY DEF Init
<1>2. /\ text \in Seq(Char) /\ n \in Nat /\ n = Len(text) /\ Position = 0..(n - 1) /\ Link = -1..(n - 1)
      /\ \A p \in DOMAIN merges : merges[p] \in Nat
  BY <1>1, TextAssumption, TableAssumption DEF n, Char, Position, Link
<1>3. ASSUME NEW i \in Position
      PROVE  /\ tokens[i].string = <<text[i + 1]>> /\ tokens[i].prev = i - 1
             /\ tokens[i].next = (IF i < n - 1 THEN i + 1 ELSE -1)
             /\ tokens[i] \in [string : Seq(Char), prev : Link, next : Link]
             /\ SubSeq(text, i + 1, i + 1) = <<text[i + 1]>>
  <2>1. i + 1 \in 1..Len(text) /\ text[i + 1] \in Char
    BY <1>2
  <2>2. SubSeq(text, i + 1, i + 1) = <<text[i + 1]>> /\ <<text[i + 1]>> \in Seq(Char)
    BY <2>1, <1>2, OneOf
  <2>3. i - 1 \in Link /\ (IF i < n - 1 THEN i + 1 ELSE -1) \in Link
    BY <1>2
  <2>. QED  BY <1>1, <2>2, <2>3
<1>4. /\ IsABag(heap) /\ BagToSet(heap) = UNION {Entry(tokens, i, i + 1) : i \in 0..(n - 2)}
  BY <1>1 DEF SetToBag, IsABag, BagToSet
<1>5. BagToSet(heap) \subseteq Nat \X Position
  <2>1. ASSUME NEW i \in 0..(n - 2) PROVE Entry(tokens, i, i + 1) \subseteq Nat \X Position
    <3>1. i \in Position
      BY <1>2
    <3>. QED  BY <3>1, <1>2, EntryIs
  <2>. QED  BY <1>4, <2>1
<1>6. TypeOK
  <2>1. tokens \in [Position -> [string : Seq(Char), prev : Link, next : Link]]
    BY <1>1, <1>3
  <2>. QED  BY <1>1, <1>2, <1>4, <1>5, <2>1 DEF TypeOK
<1>7. ASSUME NEW i \in Position
      PROVE  /\ i < End(i)
             /\ tokens[i].string = SubSeq(text, i + 1, End(i))
             /\ \A j \in (i + 1)..(End(i) - 1) : ~alive[j]
             /\ tokens[i].next # -1 =>
                  /\ alive[tokens[i].next] /\ tokens[tokens[i].next].prev = i
                  /\ Entry(tokens, i, tokens[i].next) \subseteq BagToSet(heap)
  <2>. PICK m : m = tokens[i].next
    OBVIOUS
  <2>0. /\ i \in Nat /\ n \in Nat /\ i <= n - 1 /\ m = (IF i < n - 1 THEN i + 1 ELSE -1)
        /\ End(i) = IF m = -1 THEN n ELSE m
    <3>1. m = (IF i < n - 1 THEN i + 1 ELSE -1)
      BY <1>3, Zenon
    <3>2. i \in Nat /\ n \in Nat /\ i <= n - 1
      BY <1>2
    <3>. QED  BY <3>1, <3>2 DEF End
  <2>1. End(i) = i + 1 /\ (m # -1 => m = i + 1 /\ i <= n - 2)
    BY <2>0
  <2>2. ASSUME tokens[i].next # -1
        PROVE  /\ alive[tokens[i].next] /\ tokens[tokens[i].next].prev = i
               /\ Entry(tokens, i, tokens[i].next) \subseteq BagToSet(heap)
    <3>1. tokens[i].next = i + 1 /\ i \in 0..(n - 2) /\ i + 1 \in Position /\ (i + 1) - 1 = i
      <4>1. i \in 0..(n - 2) /\ i + 1 \in 0..(n - 1) /\ (i + 1) - 1 = i
        BY <2>0, <2>1, <2>2
      <4>. QED  BY <4>1, <2>1, <2>2, <1>2
    <3>2. alive[i + 1] /\ tokens[i + 1].prev = i
      BY <3>1, <1>1, <1>3
    <3>. QED  BY <3>1, <3>2, <1>4
  <2>3. (i + 1)..(End(i) - 1) = {} /\ i < End(i)
    BY <2>0, <2>1
  <2>4. tokens[i].string = SubSeq(text, i + 1, i + 1)
    BY <1>3
  <2>. QED  BY <2>1, <2>2, <2>3, <2>4
<1>8. LinksLeadOn
  <2>1. n > 0 => alive[0]
    BY <1>1, <1>2
  <2>. QED  BY <1>7, <2>1 DEF LinksLeadOn
<1>9. HeapCoversPairs
  BY <1>7 DEF HeapCoversPairs
<1>. QED  BY <1>6, <1>8, <1>9 DEF MergeInv

LEMMA UnchangedPreserves ==
  ASSUME MergeInv, UNCHANGED <<merges, text, tokens, alive, heap>>
  PROVE  MergeInv'
<1>1. n' = n /\ Position' = Position /\ Link' = Link /\ Char' = Char
  BY DEF n, Position, Link, Char
<1>2. TypeOK'
  BY <1>1 DEF MergeInv, TypeOK
<1>3. LinksLeadOn'
  BY <1>1 DEF MergeInv, LinksLeadOn, End
<1>4. HeapCoversPairs'
  <2>. PICK H : H = BagToSet(heap)
    OBVIOUS
  <2>1. H = BagToSet(heap')
    OBVIOUS
  <2>. QED  BY <1>1, <2>1 DEF MergeInv, HeapCoversPairs, End, Entry, Key
<1>. QED  BY <1>2, <1>3, <1>4 DEF MergeInv

(* The list of pieces and the heap keep their invariant: whatever entries  *)
(* are out of date, the pair of any two neighbours that can be merged is   *)
(* in the heap under its present rank.                                     *)
THEOREM MergeInvariantHolds == Spec => []MergeInv
<1>1. MergeInv /\ [Next]_vars => MergeInv'
  <2>. SUFFICES ASSUME MergeInv, [Next]_vars PROVE MergeInv'
    OBVIOUS
  <2>1. CASE Collect
    BY <2>1, UnchangedPreserves DEF Collect
  <2>2. CASE UNCHANGED vars
    BY <2>2, UnchangedPreserves DEF vars
  <2>. QED  BY <2>1, <2>2, DiscardPreserves, PushAgainPreserves, MergePreserves DEF Next
<1>. QED  BY InitEstablishes, <1>1, PTL DEF Spec
-----------------------------------------------------------------------------
(* A finite set of integers in increasing order: the rank of one of them,  *)
(* and the one in a place.                                                 *)
UpTo(L, i) == {j \in L : j <= i}
Rank(L, i) == Cardinality(UpTo(L, i))
Place(L, k) == CHOOSE i \in L : Cardinality({j \in L : j <= i}) = k

LEMMA RanksCount ==
  ASSUME NEW L \in SUBSET Int, IsFiniteSet(L)
  PROVE  /\ Cardinality(L) \in Nat
         /\ \A i \in L : Rank(L, i) \in 1..Cardinality(L)
         /\ \A i, k \in L : i < k => Rank(L, i) < Rank(L, k)
         /\ \A r \in 1..Cardinality(L) : \E i \in L : Rank(L, i) = r
<1>. PICK m : m = Cardinality(L)
  OBVIOUS
<1>1. m \in Nat
  BY FS_CardinalityType
<1>2. ASSUME NEW i \in L
      PROVE  /\ IsFiniteSet(UpTo(L, i)) /\ i \in UpTo(L, i)
             /\ Rank(L, i) \in 1..m
  <2>1. UpTo(L, i) \in SUBSET L /\ i \in UpTo(L, i)
    BY DEF UpTo
  <2>2. IsFiniteSet(UpTo(L, i)) /\ Rank(L, i) <= m
    BY <2>1, FS_Subset DEF Rank
  <2>3. Rank(L, i) \in Nat /\ Rank(L, i) # 0
    BY <2>1, <2>2, FS_CardinalityType, FS_EmptySet DEF Rank
  <2>. QED  BY <1>1, <2>1, <2>2, <2>3
<1>3. ASSUME NEW i \in L, NEW k \in L, i < k PROVE Rank(L, i) < Rank(L, k)
  <2>1. UpTo(L, i) \in SUBSET UpTo(L, k) /\ k \in UpTo(L, k) /\ k \notin UpTo(L, i)
    <3>1. i \in Int /\ k \in Int /\ \A j \in L : j \in Int
      OBVIOUS
    <3>2. \A j \in L : j <= i => j <= k
      BY <1>3, <3>1
    <3>3. k <= k /\ ~(k <= i)
      BY <1>3, <3>1
    <3>. QED  BY <3>2, <3>3 DEF UpTo
  <2>2. UpTo(L, i) # UpTo(L, k)
    BY <2>1
  <2>3. Rank(L, i) <= Rank(L, k) /\ Rank(L, i) # Rank(L, k)
    BY <1>2, <2>1, <2>2, FS_Subset DEF Rank
  <2>4. Rank(L, i) \in 1..m /\ Rank(L, k) \in 1..m
    BY <1>2
  <2>. QED  BY <1>1, <2>3, <2>4
<1>4. \A r \in 1..m : \E i \in L : Rank(L, i) = r
  <2>. DEFINE f == [i \in L |-> Rank(L, i)]
  <2>1. f \in [L -> 1..m]
    BY <1>2
  <2>2. ASSUME NEW i \in L, NEW k \in L, f[i] = f[k] PROVE i = k
    <3>1. ~(i < k) /\ ~(k < i)
      <4>1. Rank(L, i) = Rank(L, k) /\ Rank(L, i) \in 1..m
        BY <2>2, <1>2
      <4>. QED  BY <4>1, <1>1, <1>3
    <3>. QED  BY <3>1
  <2>3. f \in Injection(L, 1..m)
    BY <2>1, <2>2 DEF Injection, IsInjective
  <2>4. IsFiniteSet(1..m) /\ Cardinality(1..m) = m
    BY <1>1, FS_Interval
  <2>5. f \in Surjection(L, 1..m)
    BY <2>3, <2>4, FS_Injection
  <2>. QED  BY <2>5 DEF Surjection
<1>. QED  BY <1>1, <1>2, <1>3, <1>4

LEMMA PlacesAre ==
  ASSUME NEW L \in SUBSET Int, IsFiniteSet(L)
  PROVE  /\ \A k \in 1..Cardinality(L) : Place(L, k) \in L /\ Rank(L, Place(L, k)) = k
         /\ \A i \in L : Place(L, Rank(L, i)) = i
         /\ \A k, l \in 1..Cardinality(L) : k < l <=> Place(L, k) < Place(L, l)
<1>. PICK m : m = Cardinality(L)
  OBVIOUS
<1>1. ASSUME NEW k \in 1..m PROVE Place(L, k) \in L /\ Rank(L, Place(L, k)) = k
  <2>1. \E i \in L : Rank(L, i) = k
    BY RanksCount
  <2>. QED  BY <2>1 DEF Place, Rank, UpTo
<1>2. ASSUME NEW i \in L PROVE Place(L, Rank(L, i)) = i
  <2>. PICK r : r = Rank(L, i)
    OBVIOUS
  <2>. PICK p : p = Place(L, r)
    OBVIOUS
  <2>1. r \in 1..m /\ m \in Nat
    BY RanksCount
  <2>2. p \in L /\ Rank(L, p) = r
    BY <2>1, <1>1
  <2>3. ~(p < i) /\ ~(i < p)
    BY <2>1, <2>2, RanksCount
  <2>. QED  BY <2>2, <2>3
<1>3. ASSUME NEW k \in 1..m, NEW l \in 1..m PROVE k < l <=> Place(L, k) < Place(L, l)
  <2>. PICK p : p = Place(L, k)
    OBVIOUS
  <2>. PICK q : q = Place(L, l)
    OBVIOUS
  <2>1. p \in L /\ Rank(L, p) = k /\ q \in L /\ Rank(L, q) = l /\ m \in Nat
    BY <1>1, RanksCount
  <2>2. (p < q => k < l) /\ (q < p => l < k)
    BY <2>1, RanksCount
  <2>3. p = q => k = l
    BY <2>1
  <2>. QED  BY <2>1, <2>2, <2>3
<1>. QED  BY <1>1, <1>2, <1>3

(* The next of the set has the next rank. *)
LEMMA NextRank ==
  ASSUME NEW L \in SUBSET Int, IsFiniteSet(L), NEW i \in L, NEW k \in L, i < k,
         \A j \in (i + 1)..(k - 1) : j \notin L
  PROVE  Rank(L, k) = Rank(L, i) + 1
<1>1. UpTo(L, k) = UpTo(L, i) \cup {k} /\ k \notin UpTo(L, i)
  <2>1. ASSUME NEW j \in L, j <= k PROVE j <= i \/ j = k
    <3>1. j \in Int /\ i \in Int /\ k \in Int
      OBVIOUS
    <3>2. j \notin (i + 1)..(k - 1)
      OBVIOUS
    <3>. QED  BY <2>1, <3>1, <3>2
  <2>2. \A j \in L : j <= k <=> (j <= i \/ j = k)
    <3>1. i \in Int /\ k \in Int /\ \A j \in L : j \in Int
      OBVIOUS
    <3>. QED  BY <2>1, <3>1
  <2>3. ~(k <= i)
    OBVIOUS
  <2>. QED  BY <2>2, <2>3 DEF UpTo
<1>2. UpTo(L, i) \in SUBSET L
  BY DEF UpTo
<1>. QED  BY <1>1, <1>2, FS_Subset, FS_AddElement DEF Rank

(* One is taken out: those after it move up. *)
LEMMA PlacesWithout ==
  ASSUME NEW L \in SUBSET Int, IsFiniteSet(L), NEW a \in 1..Cardinality(L),
         NEW M, M = L \ {Place(L, a)}
  PROVE  /\ M \in SUBSET Int /\ IsFiniteSet(M) /\ Cardinality(M) = Cardinality(L) - 1
         /\ \A k \in 1..Cardinality(M) :
              Place(M, k) = IF k < a THEN Place(L, k) ELSE Place(L, k + 1)
<1>. PICK x : x = Place(L, a)
  OBVIOUS
<1>. PICK m : m = Cardinality(L)
  OBVIOUS
<1>1. x \in L /\ Rank(L, x) = a /\ m \in Nat /\ a \in Nat /\ M = L \ {x}
  BY PlacesAre, RanksCount
<1>2. M \in SUBSET Int /\ IsFiniteSet(M) /\ Cardinality(M) = m - 1
  <2>1. IsFiniteSet(L \ {x}) /\ Cardinality(L \ {x}) = m - 1
    BY <1>1, FS_RemoveElement, Zenon
  <2>. QED  BY <1>1, <2>1
<1>3. ASSUME NEW k \in 1..(m - 1) PROVE Place(M, k) = IF k < a THEN Place(L, k) ELSE Place(L, k + 1)
  <2>. PICK l : l = IF k < a THEN k ELSE k + 1
    OBVIOUS
  <2>. PICK y : y = Place(L, l)
    OBVIOUS
  <2>1. l \in 1..m /\ l # a /\ (k < a <=> l < a)
    BY <1>1
  <2>2. y \in L /\ Rank(L, y) = l /\ y # x
    BY <1>1, <2>1, PlacesAre
  <2>3. y \in M /\ IsFiniteSet(UpTo(L, y)) /\ UpTo(M, y) = UpTo(L, y) \ {x}
    <3>1. UpTo(L, y) \in SUBSET L
      BY DEF UpTo
    <3>. QED  BY <1>1, <2>2, <3>1, FS_Subset DEF UpTo
  <2>4. x \in UpTo(L, y) <=> ~(l < a)
    <3>1. l < a <=> y < x
      BY <2>1, PlacesAre
    <3>2. x \in UpTo(L, y) <=> x <= y
      BY <1>1 DEF UpTo
    <3>3. x \in Int /\ y \in Int
      BY <1>1, <2>2
    <3>. QED  BY <3>1, <3>2, <3>3
  <2>5. Rank(M, y) = IF x \in UpTo(L, y) THEN l - 1 ELSE l
    <3>. PICK U : U = UpTo(L, y)
      OBVIOUS
    <3>1. Cardinality(U \ {x}) = IF x \in U THEN Cardinality(U) - 1 ELSE Cardinality(U)
      BY <2>3, FS_RemoveElement, Zenon
    <3>2. Cardinality(U) = l /\ Rank(M, y) = Cardinality(U \ {x})
      BY <2>2, <2>3 DEF Rank
    <3>. QED  BY <3>1, <3>2
  <2>6. Rank(M, y) = k
    BY <2>1, <2>4, <2>5
  <2>7. Place(M, k) = y
    BY <1>2, <2>3, <2>6, PlacesAre
  <2>. QED  BY <2>7
<1>. QED  BY <1>2, <1>3
-----------------------------------------------------------------------------
(* The pieces in their places. *)
LEMMA LivingIs ==
  ASSUME MergeInv
  PROVE  /\ Living \in SUBSET Int /\ IsFiniteSet(Living) /\ Cardinality(Living) \in Nat
         /\ \A k \in 1..Cardinality(Living) : At(k) = Place(Living, k)
         /\ \A i \in Living : i \in Position /\ alive[i]
<1>1. n \in Nat /\ Position = 0..(n - 1)
  BY Basics DEF MergeInv
<1>2. IsFiniteSet(Position)
  BY <1>1, FS_Interval
<1>3. Living \in SUBSET Position
  BY DEF Living
<1>4. IsFiniteSet(Living) /\ Cardinality(Living) \in Nat
  BY <1>2, <1>3, FS_Subset, FS_CardinalityType
<1>. QED  BY <1>1, <1>3, <1>4 DEF At, Place, Living

LEMMA PiecesAre ==
  ASSUME MergeInv
  PROVE  /\ Pieces \in Seq(Seq(Char)) /\ Len(Pieces) = Cardinality(Living)
         /\ \A k \in 1..Cardinality(Living) : Pieces[k] = tokens[Place(Living, k)].string
<1>. PICK m : m = Cardinality(Living)
  OBVIOUS
<1>. PICK P : P = Pieces
  OBVIOUS
<1>1. m \in Nat /\ \A k \in 1..m : At(k) \in Position /\ At(k) = Place(Living, k)
  BY LivingIs, PlacesAre
<1>2. P = [k \in 1..m |-> tokens[At(k)].string]
  BY DEF Pieces
<1>3. ASSUME NEW k \in 1..m PROVE tokens[At(k)].string \in Seq(Char)
  BY <1>1, Basics DEF MergeInv
<1>4. P \in [1..m -> Seq(Char)]
  BY <1>2, <1>3
<1>5. P \in Seq(Seq(Char)) /\ Len(P) = m
  BY <1>1, <1>4, IsASeq, LenProperties
<1>. QED  BY <1>1, <1>2, <1>5

(* What a piece is linked to is the next of the living; the last is linked *)
(* to nothing.                                                             *)
LEMMA NextPlace ==
  ASSUME MergeInv, NEW i \in Living
  PROVE  /\ tokens[i].next # -1 =>
              /\ tokens[i].next \in Living /\ i < tokens[i].next
              /\ Rank(Living, tokens[i].next) = Rank(Living, i) + 1
         /\ tokens[i].next = -1 => Rank(Living, i) = Cardinality(Living)
<1>. PICK L : L = Living
  OBVIOUS
<1>. PICK x : x = tokens[i].next
  OBVIOUS
<1>1. i \in Position /\ alive[i] /\ L \in SUBSET Int /\ IsFiniteSet(L) /\ Cardinality(L) \in Nat
  BY LivingIs
<1>2. ASSUME x # -1 PROVE x \in L /\ i < x /\ Rank(L, x) = Rank(L, i) + 1
  <2>1. x \in Position /\ i < x /\ alive[x]
    BY <1>1, <1>2, LinkFacts
  <2>2. x \in L
    BY <2>1 DEF Living
  <2>3. End(i) = x
    BY <1>2 DEF End
  <2>4. \A j \in (i + 1)..(x - 1) : j \notin L
    BY <1>1, <2>3 DEF MergeInv, LinksLeadOn, Living
  <2>. QED  BY <1>1, <2>1, <2>2, <2>4, NextRank
<1>3. ASSUME x = -1 PROVE Rank(L, i) = Cardinality(L)
  <2>1. End(i) = n
    BY <1>3 DEF End
  <2>2. \A j \in (i + 1)..(n - 1) : ~alive[j]
    BY <1>1, <2>1 DEF MergeInv, LinksLeadOn
  <2>3. \A j \in L : j <= i
    <3>1. \A j \in L : j \in 0..(n - 1) /\ alive[j]
      BY Basics, LivingIs DEF MergeInv
    <3>2. i \in Int /\ n \in Nat
      BY <1>1, Basics DEF MergeInv
    <3>3. \A j \in L : j \notin (i + 1)..(n - 1)
      BY <2>2, <3>1
    <3>. QED  BY <3>1, <3>2, <3>3
  <2>4. UpTo(L, i) = L
    BY <2>3 DEF UpTo
  <2>. QED  BY <2>4 DEF Rank
<1>. QED  BY <1>2, <1>3

(* Neighbours in the list of pieces are linked, and if they can be merged  *)
(* their entry is in the heap.                                             *)
LEMMA Neighbours ==
  ASSUME MergeInv, NEW k \in 1..(Cardinality(Living) - 1)
  PROVE  /\ Place(Living, k) \in Living
         /\ tokens[Place(Living, k)].next = Place(Living, k + 1)
         /\ Greedy!Pair(k) = Key(tokens, Place(Living, k), Place(Living, k + 1))
         /\ Greedy!Pair(k) \in DOMAIN merges =>
              <<merges[Greedy!Pair(k)], Place(Living, k)>> \in BagToSet(heap)
<1>. PICK L : L = Living
  OBVIOUS
<1>. PICK m : m = Cardinality(L)
  OBVIOUS
<1>. PICK i : i = Place(L, k)
  OBVIOUS
<1>. PICK x : x = tokens[i].next
  OBVIOUS
<1>0. L \in SUBSET Int /\ IsFiniteSet(L) /\ m \in Nat
  BY LivingIs
<1>1. k \in 1..m /\ k + 1 \in 1..m /\ k # m
  BY <1>0
<1>2. i \in L /\ Rank(L, i) = k
  BY <1>0, <1>1, PlacesAre
<1>3. x # -1 /\ x \in L /\ Rank(L, x) = k + 1
  BY <1>1, <1>2, NextPlace
<1>4. x = Place(L, k + 1)
  BY <1>0, <1>3, PlacesAre
<1>5. Greedy!Pair(k) = Key(tokens, i, x)
  BY <1>1, <1>4, PiecesAre DEF Greedy!Pair, Key
<1>6. ASSUME Key(tokens, i, x) \in DOMAIN merges
      PROVE  <<merges[Key(tokens, i, x)], i>> \in BagToSet(heap)
  <2>1. i \in Position /\ alive[i]
    BY <1>2, LivingIs
  <2>2. Entry(tokens, i, x) \subseteq BagToSet(heap)
    BY <1>3, <2>1, LinkFacts
  <2>. QED  BY <1>6, <2>2, EntryIs
<1>. QED  BY <1>2, <1>4, <1>5, <1>6
-----------------------------------------------------------------------------
(* Two sequences are one if they have the same length and elements. *)
LEMMA SameSequence ==
  ASSUME NEW S, NEW p \in Seq(S), NEW q \in Seq(S), Len(p) = Len(q),
         \A k \in 1..Len(p) : p[k] = q[k]
  PROVE  p = q
<1>. PICK D : D = 1..Len(p)
  OBVIOUS
<1>1. p \in [D -> S] /\ q \in [D -> S] /\ \A k \in D : p[k] = q[k]
  BY LenProperties
<1>2. p = [k \in D |-> p[k]] /\ q = [k \in D |-> q[k]]
  BY <1>1
<1>. QED  BY <1>1, <1>2

(* Two neighbours of a sequence are replaced by one. *)
Shorter(S, w, p, a, c) ==
  /\ w \in Seq(S) /\ Len(w) = Len(p) - 1
  /\ \A k \in 1..(Len(p) - 1) :
       w[k] = IF k < a THEN p[k] ELSE IF k = a THEN c ELSE p[k + 1]

LEMMA Contracted ==
  ASSUME NEW S, NEW p \in Seq(S), NEW a \in 1..(Len(p) - 1), NEW c \in S
  PROVE  Shorter(S, SubSeq(p, 1, a - 1) \o <<c>> \o SubSeq(p, a + 2, Len(p)), p, a, c)
<1>. PICK m : m = Len(p)
  OBVIOUS
<1>1. m \in Nat /\ a \in Nat /\ 1 <= a /\ a <= m - 1 /\ \A k \in 1..m : p[k] \in S
  OBVIOUS
<1>x. PICK x : x = SubSeq(p, 1, a - 1)
  OBVIOUS
<1>y. PICK y : y = SubSeq(p, a + 2, m)
  OBVIOUS
<1>o. PICK o : o = <<c>>
  OBVIOUS
<1>2. x \in Seq(S) /\ Len(x) = a - 1 /\ \A k \in 1..(a - 1) : x[k] = p[k]
  <2>1. 1 \in Int /\ a - 1 \in Int /\ \A k \in 1..(a - 1) : p[k] \in S
    BY <1>1
  <2>2. /\ x \in Seq(S) /\ Len(x) = IF 1 <= a - 1 THEN (a - 1) - 1 + 1 ELSE 0
        /\ \A k \in 1..((a - 1) - 1 + 1) : x[k] = p[1 + k - 1]
    BY <1>x, <2>1, SubSeqProperties
  <2>. QED  BY <2>2, <1>1
<1>3. y \in Seq(S) /\ Len(y) = m - a - 1 /\ \A k \in 1..(m - a - 1) : y[k] = p[a + 1 + k]
  <2>1. a + 2 \in Int /\ m \in Int /\ \A k \in (a + 2)..m : p[k] \in S
    BY <1>1
  <2>2. /\ y \in Seq(S) /\ Len(y) = IF a + 2 <= m THEN m - (a + 2) + 1 ELSE 0
        /\ \A k \in 1..(m - (a + 2) + 1) : y[k] = p[(a + 2) + k - 1]
    BY <1>y, <2>1, SubSeqProperties
  <2>3. m - (a + 2) + 1 = m - a - 1 /\ \A k \in Int : (a + 2) + k - 1 = a + 1 + k
    BY <1>1
  <2>4. Len(y) = m - a - 1
    BY <2>2, <1>1
  <2>5. ASSUME NEW k \in 1..(m - a - 1) PROVE y[k] = p[a + 1 + k]
    <3>1. (a + 2) + k - 1 = a + 1 + k /\ k \in 1..(m - (a + 2) + 1)
      BY <1>1, <2>3
    <3>. QED  BY <2>2, <3>1
  <2>. QED  BY <2>2, <2>4, <2>5
<1>4. o \in Seq(S) /\ Len(o) = 1 /\ o[1] = c
  BY <1>o
<1>v. PICK v : v = x \o o
  OBVIOUS
<1>5. /\ v \in Seq(S) /\ Len(v) = a
      /\ \A k \in 1..a : v[k] = IF k < a THEN p[k] ELSE c
  <2>1. /\ v \in Seq(S) /\ Len(v) = Len(x) + Len(o)
        /\ \A k \in 1..(Len(x) + Len(o)) : v[k] = IF k <= Len(x) THEN x[k] ELSE o[k - Len(x)]
    BY <1>v, <1>2, <1>4, ConcatProperties
  <2>2. Len(v) = a /\ \A k \in 1..a : v[k] = IF k <= a - 1 THEN x[k] ELSE o[k - (a - 1)]
    BY <2>1, <1>1, <1>2, <1>4
  <2>3. ASSUME NEW k \in 1..a PROVE v[k] = IF k < a THEN p[k] ELSE c
    <3>1. CASE k < a
      <4>1. k \in 1..(a - 1)
        BY <1>1, <3>1
      <4>. QED  BY <1>2, <2>2, <3>1, <4>1
    <3>2. CASE ~(k < a)
      <4>1. k = a /\ k - (a - 1) = 1 /\ ~(k <= a - 1)
        BY <1>1, <3>2
      <4>. QED  BY <1>4, <2>2, <3>2, <4>1
    <3>. QED  BY <3>1, <3>2
  <2>. QED  BY <2>1, <2>2, <2>3
<1>w. PICK w : w = v \o y
  OBVIOUS
<1>6. /\ w \in Seq(S) /\ Len(w) = m - 1
      /\ \A k \in 1..(m - 1) : w[k] = IF k <= a THEN v[k] ELSE y[k - a]
  <2>1. /\ w \in Seq(S) /\ Len(w) = Len(v) + Len(y)
        /\ \A k \in 1..(Len(v) + Len(y)) : w[k] = IF k <= Len(v) THEN v[k] ELSE y[k - Len(v)]
    <3>1. v \in Seq(S) /\ y \in Seq(S)
      BY <1>3, <1>5
    <3>. QED  BY <1>w, <3>1, ConcatProperties
  <2>2. Len(v) = a /\ Len(v) + Len(y) = m - 1
    <3>1. Len(v) = a /\ Len(y) = m - a - 1
      BY <1>3, <1>5
    <3>. QED  BY <3>1, <1>1
  <2>. QED  BY <2>1, <2>2
<1>7. ASSUME NEW k \in 1..(m - 1)
      PROVE  w[k] = IF k < a THEN p[k] ELSE IF k = a THEN c ELSE p[k + 1]
  <2>1. CASE k <= a
    <3>1. k \in 1..a /\ (k < a \/ k = a)
      BY <1>1, <2>1
    <3>2. w[k] = IF k < a THEN p[k] ELSE c
      BY <1>5, <1>6, <2>1, <3>1
    <3>. QED  BY <3>1, <3>2
  <2>2. CASE ~(k <= a)
    <3>1. k - a \in 1..(m - a - 1) /\ a + 1 + (k - a) = k + 1 /\ ~(k < a) /\ k # a
      BY <1>1, <2>2
    <3>2. w[k] = y[k - a]
      BY <1>6, <2>2
    <3>. QED  BY <1>3, <3>1, <3>2
  <2>. QED  BY <2>1, <2>2
<1>8. Shorter(S, w, p, a, c)
  BY <1>6, <1>7 DEF Shorter
<1>. QED  BY <1>x, <1>y, <1>o, <1>v, <1>w, <1>8

(* The merge from the heap is the one that byte-pair encoding asks for. *)
LEMMA MergeIsBest == ASSUME MergeInv, Merge PROVE Greedy!MergeBest
<1>1. PICK pos, next, far, T, A : Takes(pos, next, far, T, A)
  BY MergeFacts
<1>2. /\ pos \in Position /\ next \in Position /\ pos < next /\ alive[pos] /\ alive[next]
      /\ pos = Top[2] /\ next = tokens[pos].next
      /\ A = [alive EXCEPT ![next] = FALSE] /\ T = tokens' /\ A = alive'
      /\ merges' = merges /\ text' = text /\ heap # EmptyBag
  BY <1>1 DEF Takes
<1>3. /\ \A i \in Position \ {pos} : T[i].string = tokens[i].string
      /\ T[pos].string = tokens[pos].string \o tokens[next].string
  BY <1>1 DEF Takes
<1>4. /\ Ranked /\ merges[TopKey] = Top[1] /\ TopKey = Key(tokens, pos, next) /\ result' = result
  BY <1>2 DEF Merge, TopKey
<1>. PICK L : L = Living
  OBVIOUS
<1>. PICK M : M = L \ {next}
  OBVIOUS
<1>. PICK m : m = Cardinality(L)
  OBVIOUS
<1>. PICK a : a = Rank(L, pos)
  OBVIOUS
<1>. PICK P : P = Pieces
  OBVIOUS
<1>. PICK Q : Q = Pieces'
  OBVIOUS
<1>5. /\ L \in SUBSET Int /\ IsFiniteSet(L) /\ m \in Nat /\ \A i \in L : i \in Position /\ alive[i]
      /\ pos \in L /\ next \in L
  BY <1>2, LivingIs DEF Living
<1>6. /\ a \in Nat /\ a \in 1..(m - 1) /\ a + 1 \in 1..m
      /\ Place(L, a) = pos /\ Place(L, a + 1) = next
  <2>1. next # -1
    <3>1. next \in 0..(n - 1)
      BY <1>2, Basics DEF MergeInv
    <3>. QED  BY <3>1
  <2>2. Rank(L, next) = a + 1
    BY <1>2, <1>5, <2>1, NextPlace
  <2>3. a \in 1..m /\ a + 1 \in 1..m
    BY <1>5, <2>2, RanksCount
  <2>. QED  BY <1>5, <2>2, <2>3, PlacesAre
<1>7. Living' = M
  <2>1. Position' = Position
    BY <1>2 DEF Position, n
  <2>2. alive \in [Position -> BOOLEAN]
    BY Basics DEF MergeInv
  <2>3. \A i \in Position : A[i] <=> alive[i] /\ i # next
    BY <1>2, <2>2
  <2>4. Living' = {i \in Position : A[i]}
    BY <1>2, <2>1 DEF Living
  <2>. QED  BY <2>3, <2>4 DEF Living
<1>8. /\ Cardinality(M) = m - 1
      /\ \A k \in 1..(m - 1) : Place(M, k) = IF k < a + 1 THEN Place(L, k) ELSE Place(L, k + 1)
  <2>. PICK b : b = a + 1
    OBVIOUS
  <2>1. b \in 1..Cardinality(L) /\ M = L \ {Place(L, b)} /\ L \in SUBSET Int /\ IsFiniteSet(L)
    BY <1>5, <1>6
  <2>2. /\ Cardinality(M) = m - 1
        /\ \A k \in 1..(m - 1) : Place(M, k) = IF k < b THEN Place(L, k) ELSE Place(L, k + 1)
    BY <2>1, PlacesWithout
  <2>. QED  BY <2>2
<1>9. /\ P \in Seq(Seq(Char)) /\ Len(P) = m
      /\ \A k \in 1..m : P[k] = tokens[Place(L, k)].string
  BY PiecesAre
<1>10. Q = [k \in 1..(m - 1) |-> T[Place(M, k)].string]
  <2>1. Pieces' = [k \in 1..Cardinality(M) |-> T[Place(M, k)].string]
    <3>1. \A k : At(k)' = Place(M, k)
      BY <1>7 DEF At, Place
    <3>. QED  BY <1>2, <1>7, <3>1 DEF Pieces
  <2>. QED  BY <1>8, <2>1
<1>11. \A k \in 1..(m - 1) : Q[k] = IF k < a THEN P[k] ELSE IF k = a THEN P[a] \o P[a + 1] ELSE P[k + 1]
  <2>. SUFFICES ASSUME NEW k \in 1..(m - 1)
                PROVE  Q[k] = IF k < a THEN P[k] ELSE IF k = a THEN P[a] \o P[a + 1] ELSE P[k + 1]
    OBVIOUS
  <2>1. Q[k] = T[Place(M, k)].string /\ k \in 1..m /\ k + 1 \in 1..m
    BY <1>5, <1>10
  <2>2. CASE k < a
    <3>1. k < a + 1 /\ k # a
      BY <1>6, <2>2
    <3>2. Place(M, k) = Place(L, k) /\ Place(L, k) \in L /\ Rank(L, Place(L, k)) = k
      BY <1>5, <1>8, <2>1, <3>1, PlacesAre
    <3>3. Place(L, k) # pos
      BY <3>1, <3>2
    <3>. QED  BY <1>3, <1>5, <1>9, <2>1, <2>2, <3>2, <3>3
  <2>3. CASE k = a
    <3>1. k < a + 1 /\ ~(k < a)
      BY <1>6, <2>3
    <3>2. Place(M, k) = pos
      BY <1>6, <1>8, <2>3, <3>1
    <3>3. P[a] = tokens[pos].string /\ P[a + 1] = tokens[next].string
      BY <1>6, <1>9, <2>1, <2>3
    <3>. QED  BY <1>3, <2>1, <2>3, <3>1, <3>2, <3>3
  <2>4. CASE a < k
    <3>1. ~(k < a + 1) /\ ~(k < a) /\ k # a /\ k + 1 # a
      BY <1>6, <2>4
    <3>2. Place(M, k) = Place(L, k + 1) /\ Place(L, k + 1) \in L /\ Rank(L, Place(L, k + 1)) = k + 1
      BY <1>5, <1>8, <2>1, <3>1, PlacesAre
    <3>3. Place(L, k + 1) # pos
      BY <3>1, <3>2
    <3>. QED  BY <1>3, <1>5, <1>9, <2>1, <3>1, <3>2, <3>3
  <2>. QED  BY <1>6, <2>2, <2>3, <2>4
<1>12. Q = SubSeq(P, 1, a - 1) \o <<P[a] \o P[a + 1]>> \o SubSeq(P, a + 2, Len(P))
  <2>. PICK c : c = P[a] \o P[a + 1]
    OBVIOUS
  <2>. PICK S : S = Seq(Char)
    OBVIOUS
  <2>1. P[a] \in S /\ P[a + 1] \in S /\ \A k \in 1..m : P[k] \in S
    <3>1. a \in 1..m
      BY <1>5, <1>6
    <3>. QED  BY <1>6, <1>9, <3>1
  <2>2. c \in S
    BY <2>1, ConcatProperties
  <2>3. \A k \in 1..(m - 1) : Q[k] \in S
    <3>1. \A k \in 1..(m - 1) : k \in 1..m /\ k + 1 \in 1..m
      BY <1>5
    <3>. QED  BY <1>11, <2>1, <2>2, <3>1
  <2>4. Q \in [1..(m - 1) -> S]
    BY <1>10, <2>3
  <2>5. m - 1 \in Nat
    BY <1>5, <1>6
  <2>6. Q \in Seq(S) /\ Len(Q) = m - 1
    BY <2>4, <2>5, IsASeq, LenProperties
  <2>w. PICK w : w = SubSeq(P, 1, a - 1) \o <<c>> \o SubSeq(P, a + 2, Len(P))
    OBVIOUS
  <2>7. P \in Seq(S) /\ a \in 1..(Len(P) - 1)
    BY <1>6, <1>9
  <2>8. /\ w \in Seq(S) /\ Len(w) = m - 1
        /\ \A k \in 1..(m - 1) :
             w[k] = IF k < a THEN P[k] ELSE IF k = a THEN c ELSE P[k + 1]
    <3>1. /\ w \in Seq(S) /\ Len(w) = Len(P) - 1
          /\ \A k \in 1..(Len(P) - 1) :
               w[k] = IF k < a THEN P[k] ELSE IF k = a THEN c ELSE P[k + 1]
      <4>1. Shorter(S, w, P, a, c)
        BY <2>w, <2>2, <2>7, Contracted, Zenon
      <4>. QED  BY <4>1 DEF Shorter
    <3>2. Len(P) = m
      BY <1>9
    <3>. QED  BY <3>1, <3>2
  <2>9. Len(Q) = Len(w) /\ \A k \in 1..Len(Q) : Q[k] = w[k]
    BY <1>11, <2>6, <2>8
  <2>10. Q = w
    BY <2>6, <2>8, <2>9, SameSequence
  <2>. QED  BY <2>w, <2>10
<1>13. Greedy!Best(a)
  <2>1. Greedy!Pair(a) = TopKey /\ TopKey \in DOMAIN merges
    BY <1>4, <1>6, Neighbours DEF Ranked
  <2>2. a \in Greedy!Mergeable
    BY <1>6, <1>9, <2>1 DEF Greedy!Mergeable
  <2>3. ASSUME NEW j \in Greedy!Mergeable
        PROVE  \/ merges[Greedy!Pair(a)] < merges[Greedy!Pair(j)]
               \/ merges[Greedy!Pair(a)] = merges[Greedy!Pair(j)] /\ a <= j
    <3>1. j \in 1..(m - 1) /\ Greedy!Pair(j) \in DOMAIN merges
      BY <1>9 DEF Greedy!Mergeable
    <3>. PICK r : r = merges[Greedy!Pair(j)]
      OBVIOUS
    <3>. PICK i : i = Place(L, j)
      OBVIOUS
    <3>2. <<r, i>> \in BagToSet(heap)
      BY <3>1, Neighbours
    <3>3. Top[1] < r \/ (Top[1] = r /\ pos <= i)
      BY <1>2, <3>2, TopIsLeast DEF MergeInv
    <3>4. pos <= i => a <= j
      <4>1. j \in 1..m /\ a \in 1..m
        BY <1>5, <1>6, <3>1
      <4>2. j < a => i < pos
        BY <1>5, <1>6, <4>1, PlacesAre
      <4>3. i \in L
        BY <1>5, <4>1, PlacesAre
      <4>4. i \in Int /\ pos \in Int
        BY <1>5, <4>3
      <4>. QED  BY <4>1, <4>2, <4>4
    <3>. QED  BY <1>4, <2>1, <3>3, <3>4
  <2>. QED  BY <2>2, <2>3 DEF Greedy!Best
<1>14. a \in DOMAIN P
  <2>1. a \in 1..m
    BY <1>5, <1>6
  <2>. QED  BY <1>9, <2>1, LenProperties
<1>. QED  BY <1>2, <1>4, <1>12, <1>13, <1>14 DEF Greedy!MergeBest
-----------------------------------------------------------------------------
(* The walk along the links finds the pieces in order.  At position i it   *)
(* finds those that do not begin before i.                                 *)
Before(i) == {j \in Living : j < i}
Step(f, i) ==
  IF i = -1 \/ i = n THEN <<>>
  ELSE (IF alive[i] THEN <<tokens[i].string>> ELSE <<>>) \o f[tokens[i].next]
Rest(i) ==
  IF i = -1 THEN <<>> ELSE SubSeq(Pieces, Cardinality(Before(i)) + 1, Cardinality(Living))

LEMMA BeforeCounts ==
  ASSUME MergeInv, NEW i \in Position
  PROVE  /\ Cardinality(Before(i)) \in 0..Cardinality(Living)
         /\ alive[i] => /\ Cardinality(Before(i)) + 1 \in 1..Cardinality(Living)
                        /\ Pieces[Cardinality(Before(i)) + 1] = tokens[i].string
                        /\ Cardinality(Before(End(i))) = Cardinality(Before(i)) + 1
         /\ ~alive[i] => Cardinality(Before(End(i))) = Cardinality(Before(i))
<1>. PICK L : L = Living
  OBVIOUS
<1>. PICK m : m = Cardinality(L)
  OBVIOUS
<1>1. /\ L \in SUBSET Int /\ IsFiniteSet(L) /\ m \in Nat /\ i \in Int
      /\ \A j \in L : j \in Int /\ j < n /\ alive[j] /\ j \in Position
  BY LivingIs, Basics DEF MergeInv
<1>2. /\ i < End(i) /\ \A j \in (i + 1)..(End(i) - 1) : ~alive[j]
      /\ End(i) \in Int
  <2>1. i < End(i) /\ \A j \in (i + 1)..(End(i) - 1) : ~alive[j]
    BY DEF MergeInv, LinksLeadOn
  <2>2. tokens[i].next \in Link /\ n \in Nat /\ Link = -1..(n - 1)
    BY Basics DEF MergeInv
  <2>3. End(i) \in Int
    BY <2>2 DEF End
  <2>. QED  BY <2>1, <2>3
<1>3. IsFiniteSet(Before(i)) /\ Cardinality(Before(i)) \in Nat /\ Cardinality(Before(i)) <= m
  <2>1. Before(i) \in SUBSET L
    BY DEF Before
  <2>. QED  BY <1>1, <2>1, FS_Subset, FS_CardinalityType
<1>4. \A j \in L : j < End(i) <=> (j < i \/ j = i)
  <2>. SUFFICES ASSUME NEW j \in L PROVE j < End(i) <=> (j < i \/ j = i)
    OBVIOUS
  <2>1. j \in Int /\ j \notin (i + 1)..(End(i) - 1)
    BY <1>1, <1>2
  <2>. QED  BY <1>1, <1>2, <2>1
<1>5. ASSUME alive[i]
      PROVE  /\ Cardinality(Before(i)) + 1 \in 1..m
             /\ Pieces[Cardinality(Before(i)) + 1] = tokens[i].string
             /\ Cardinality(Before(End(i))) = Cardinality(Before(i)) + 1
  <2>1. i \in L
    BY <1>5 DEF Living
  <2>2. Before(End(i)) = Before(i) \cup {i} /\ i \notin Before(i)
    <3>1. ~(i < i)
      BY <1>1
    <3>2. i \notin Before(i)
      BY <3>1 DEF Before
    <3>3. Before(End(i)) = Before(i) \cup {i}
      BY <1>4, <2>1 DEF Before
    <3>. QED  BY <3>2, <3>3
  <2>3. Cardinality(Before(End(i))) = Cardinality(Before(i)) + 1
    BY <1>3, <2>2, FS_AddElement
  <2>4. UpTo(L, i) = Before(End(i))
    <3>1. \A j \in L : j <= i <=> (j < i \/ j = i)
      BY <1>1
    <3>. QED  BY <1>4, <3>1 DEF UpTo, Before
  <2>. PICK r : r = Rank(L, i)
    OBVIOUS
  <2>5. r = Cardinality(Before(i)) + 1
    BY <2>3, <2>4 DEF Rank
  <2>6. r \in 1..m /\ Place(L, r) = i
    BY <1>1, <2>1, RanksCount, PlacesAre
  <2>7. Pieces[r] = tokens[i].string
    BY <2>6, PiecesAre
  <2>. QED  BY <2>3, <2>5, <2>6, <2>7
<1>6. ASSUME ~alive[i] PROVE Cardinality(Before(End(i))) = Cardinality(Before(i))
  <2>1. i \notin L
    BY <1>1, <1>6
  <2>2. Before(End(i)) = Before(i)
    BY <1>4, <2>1 DEF Before
  <2>. QED  BY <2>2
<1>. QED  BY <1>1, <1>3, <1>5, <1>6

LEMMA RestIs ==
  ASSUME MergeInv
  PROVE  /\ n \in Nat /\ Rest(-1) = <<>> /\ Rest(n) = <<>> /\ Rest(0) = Pieces
         /\ \A i \in Position :
              Rest(i) = (IF alive[i] THEN <<tokens[i].string>> ELSE <<>>) \o Rest(tokens[i].next)
<1>. PICK m : m = Cardinality(Living)
  OBVIOUS
<1>. PICK P : P = Pieces
  OBVIOUS
<1>1. /\ n \in Nat /\ m \in Nat /\ P \in Seq(Seq(Char)) /\ Len(P) = m
      /\ Position = 0..(n - 1) /\ \A j \in Living : j \in 0..(n - 1)
  BY LivingIs, PiecesAre, Basics DEF MergeInv
<1>2. Rest(n) = <<>>
  <2>1. \A j \in Living : j < n
    BY <1>1
  <2>2. Before(n) = Living
    BY <2>1 DEF Before
  <2>3. Rest(n) = SubSeq(P, m + 1, m)
    BY <1>1, <2>2 DEF Rest
  <2>. QED  BY <1>1, <2>3, SubSeqEmpty
<1>3. Rest(0) = P
  <2>1. \A j \in Living : ~(j < 0)
    BY <1>1
  <2>2. Before(0) = {}
    BY <2>1 DEF Before
  <2>3. Rest(0) = SubSeq(P, 0 + 1, m)
    <3>1. Cardinality(Before(0)) = 0 /\ 0 # -1
      BY <2>2, FS_EmptySet
    <3>. QED  BY <3>1 DEF Rest
  <2>. QED  BY <1>1, <2>3, SubSeqFull
<1>4. ASSUME NEW i \in Position
      PROVE  Rest(i) = (IF alive[i] THEN <<tokens[i].string>> ELSE <<>>) \o Rest(tokens[i].next)
  <2>. PICK x : x = tokens[i].next
    OBVIOUS
  <2>. PICK c : c = Cardinality(Before(i))
    OBVIOUS
  <2>. PICK d : d = Cardinality(Before(End(i)))
    OBVIOUS
  <2>1. i # -1 /\ Rest(i) = SubSeq(P, c + 1, m)
    <3>1. i # -1
      BY <1>1
    <3>. QED  BY <3>1 DEF Rest
  <2>2. Rest(x) = SubSeq(P, d + 1, m)
    <3>1. CASE x = -1
      <4>1. End(i) = n
        BY <3>1 DEF End
      <4>2. n # -1
        BY <1>1
      <4>. QED  BY <3>1, <4>1, <4>2, <1>2 DEF Rest
    <3>2. CASE x # -1
      <4>1. End(i) = x
        BY <3>2 DEF End
      <4>. QED  BY <3>2, <4>1 DEF Rest
    <3>. QED  BY <3>1, <3>2
  <2>3. c \in 0..m
    BY BeforeCounts
  <2>4. CASE alive[i]
    <3>1. c + 1 \in 1..m /\ P[c + 1] = tokens[i].string /\ d = c + 1
      BY <2>4, BeforeCounts
    <3>. PICK b : b = c + 1
      OBVIOUS
    <3>2. /\ b \in 1..(Len(P) + 1) /\ b + 1 \in b..(Len(P) + 1) /\ m + 1 \in (b + 1)..(Len(P) + 1)
          /\ (b + 1) - 1 = b /\ (m + 1) - 1 = m
      BY <1>1, <3>1
    <3>3. SubSeq(P, b, b) \o SubSeq(P, b + 1, m) = SubSeq(P, b, m)
      BY <1>1, <3>2, Adjacent
    <3>4. SubSeq(P, b, b) = <<P[b]>>
      BY <1>1, <3>1, OneOf
    <3>. QED  BY <2>1, <2>2, <2>4, <3>1, <3>3, <3>4
  <2>5. CASE ~alive[i]
    <3>1. d = c
      BY <2>5, BeforeCounts
    <3>2. \A k \in (c + 1)..m : P[k] \in Seq(Char)
      BY <1>1, <2>3
    <3>3. SubSeq(P, c + 1, m) \in Seq(Seq(Char))
      BY <1>1, <2>3, <3>2, SubSeqProperties
    <3>4. <<>> \o SubSeq(P, c + 1, m) = SubSeq(P, c + 1, m)
      BY <3>3, ConcatEmptySeq
    <3>. QED  BY <2>1, <2>2, <2>5, <3>1, <3>4
  <2>. QED  BY <2>4, <2>5
<1>. QED  BY <1>1, <1>2, <1>3, <1>4 DEF Rest

LEMMA CollectedIs == ASSUME MergeInv PROVE Collected = Pieces
<1>. PICK D : D = -1..n
  OBVIOUS
<1>. PICK g : g = [i \in D |-> Rest(i)]
  OBVIOUS
<1>1. /\ n \in Nat /\ Rest(-1) = <<>> /\ Rest(n) = <<>> /\ Rest(0) = Pieces
      /\ \A i \in Position :
           Rest(i) = (IF alive[i] THEN <<tokens[i].string>> ELSE <<>>) \o Rest(tokens[i].next)
  BY RestIs
<1>2. /\ Position = 0..(n - 1) /\ -1 \in D /\ n \in D /\ 0 \in D
      /\ \A i \in D : i = -1 \/ i = n \/ i \in Position
      /\ \A i \in Position : i \in D /\ i # -1 /\ i # n /\ tokens[i].next \in D
  <2>1. Position = 0..(n - 1) /\ Link = -1..(n - 1) /\ \A i \in Position : tokens[i].next \in Link
    BY Basics DEF MergeInv
  <2>. QED  BY <1>1, <2>1
<1>3. ASSUME NEW i \in D PROVE g[i] = Step(g, i)
  <2>1. CASE i = -1 \/ i = n
    BY <1>1, <2>1 DEF Step
  <2>2. CASE i \in Position
    <3>1. i # -1 /\ i # n /\ tokens[i].next \in D
      BY <1>2, <2>2
    <3>2. g[i] = Rest(i) /\ g[tokens[i].next] = Rest(tokens[i].next)
      BY <3>1
    <3>. QED  BY <1>1, <2>2, <3>1, <3>2 DEF Step
  <2>. QED  BY <1>2, <2>1, <2>2
<1>4. g = [i \in D |-> Step(g, i)]
  BY <1>3
<1>5. ASSUME NEW f, f = [i \in D |-> Step(f, i)] PROVE f[0] = Pieces
  <2>. DEFINE Bad == {d \in Nat : d <= n /\ f[n - d] # Rest(n - d)}
  <2>1. \A i \in D : f[i] = Step(f, i)
    BY <1>5
  <2>2. f[-1] = <<>> /\ f[n] = <<>>
    BY <1>2, <2>1 DEF Step
  <2>3. ASSUME Bad # {} PROVE FALSE
    <3>1. PICK d \in Bad : \A o \in Bad : d <= o
      BY <2>3, Smallest
    <3>. PICK i : i = n - d
      OBVIOUS
    <3>. PICK x : x = tokens[i].next
      OBVIOUS
    <3>2. d \in Nat /\ d <= n /\ f[i] # Rest(i)
      BY <3>1
    <3>3. i \in Position /\ i \in Int
      <4>1. i # n
        BY <1>1, <2>2, <3>2
      <4>. QED  BY <1>1, <1>2, <3>2, <4>1
    <3>4. f[x] = Rest(x)
      <4>1. CASE x = -1
        BY <1>1, <2>2, <4>1
      <4>2. CASE x # -1
        <5>1. End(i) = x
          BY <4>2 DEF End
        <5>2. i < x
          BY <3>3, <5>1 DEF MergeInv, LinksLeadOn
        <5>3. x \in -1..n
          BY <1>2, <3>3
        <5>. PICK o : o = n - x
          OBVIOUS
        <5>4. o \in Nat /\ o <= n /\ ~(d <= o) /\ n - o = x
          BY <1>1, <3>2, <3>3, <4>2, <5>2, <5>3
        <5>5. o \notin Bad
          BY <3>1, <5>4
        <5>. QED  BY <5>4, <5>5
      <4>. QED  BY <4>1, <4>2
    <3>5. f[i] = (IF alive[i] THEN <<tokens[i].string>> ELSE <<>>) \o f[x]
      BY <1>2, <2>1, <3>3 DEF Step
    <3>. QED  BY <1>1, <3>2, <3>3, <3>4, <3>5
  <2>4. n \notin Bad
    BY <2>3
  <2>5. f[0] = Rest(0)
    <3>1. n - n = 0 /\ n <= n
      BY <1>1
    <3>. QED  BY <1>1, <2>4, <3>1
  <2>. QED  BY <1>1, <2>5
<1>6. From = CHOOSE f : f = [i \in D |-> Step(f, i)]
  BY DEF From, Step
<1>7. From = [i \in D |-> Step(From, i)]
  BY <1>4, <1>6
<1>. QED  BY <1>5, <1>7 DEF Collected

(* The function returns when no merge is left. *)
LEMMA CollectReturns == ASSUME MergeInv, Collect PROVE Greedy!Return
<1>1. /\ heap = EmptyBag /\ result = None /\ result' = Pieces
      /\ UNCHANGED <<merges, text, tokens, alive>>
  BY CollectedIs DEF Collect
<1>2. Pieces' = Pieces
  <2>1. Living' = Living
    BY <1>1 DEF Living, Position, n
  <2>2. \A k : At(k)' = At(k)
    BY <2>1 DEF At
  <2>. QED  BY <1>1, <2>1, <2>2 DEF Pieces
<1>3. BagToSet(heap) = {}
  BY <1>1 DEF BagToSet, EmptyBag, SetToBag
<1>4. Greedy!Mergeable = {}
  <2>1. ASSUME NEW k \in Greedy!Mergeable PROVE FALSE
    <3>1. k \in 1..(Cardinality(Living) - 1) /\ Greedy!Pair(k) \in DOMAIN merges
      BY PiecesAre DEF Greedy!Mergeable
    <3>. QED  BY <1>3, <3>1, Neighbours
  <2>. QED  BY <2>1
<1>. QED  BY <1>1, <1>2, <1>4 DEF Greedy!Return

LEMMA OthersStutter ==
  ASSUME UNCHANGED <<merges, text, tokens, alive, result>>
  PROVE  UNCHANGED Greedy!vars
<1>1. Living' = Living
  BY DEF Living, Position, n
<1>2. \A k : At(k)' = At(k)
  BY <1>1 DEF At
<1>3. Pieces' = Pieces
  BY <1>1, <1>2 DEF Pieces
<1>. QED  BY <1>3 DEF Greedy!vars

LEMMA InitIsGreedy == ASSUME Init PROVE Greedy!Init
<1>1. MergeInv
  BY InitEstablishes
<1>2. /\ merges \in Table /\ text \in Text /\ result = None
      /\ tokens = [i \in Position |->
           [string |-> <<text[i + 1]>>, prev |-> i - 1, next |-> IF i < n - 1 THEN i + 1 ELSE -1]]
      /\ alive = [i \in Position |-> TRUE]
  BY DEF Init
<1>. PICK L : L = Living
  OBVIOUS
<1>3. n \in Nat /\ n = Len(text) /\ Position = 0..(n - 1) /\ text \in Seq(Char)
  BY <1>1, Basics DEF MergeInv, n
<1>4. L = 0..(n - 1) /\ L \in SUBSET Int /\ IsFiniteSet(L) /\ Cardinality(L) = n
  <2>1. L = 0..(n - 1)
    BY <1>2, <1>3 DEF Living
  <2>2. IsFiniteSet(0..(n - 1)) /\ Cardinality(0..(n - 1)) = n
    <3>. PICK b : b = n - 1
      OBVIOUS
    <3>1. b \in Int /\ n \in Nat /\ (IF 0 > b THEN 0 ELSE b - 0 + 1) = n
      BY <1>3
    <3>2. IsFiniteSet(0..b) /\ Cardinality(0..b) = (IF 0 > b THEN 0 ELSE b - 0 + 1)
      BY <3>1, FS_Interval
    <3>. QED  BY <3>1, <3>2
  <2>. QED  BY <2>1, <2>2
<1>5. ASSUME NEW k \in 1..n PROVE Pieces[k] = <<text[k]>>
  <2>. PICK i : i = k - 1
    OBVIOUS
  <2>1. i \in Position /\ i \in Nat /\ i + 1 = k /\ i \in L
    BY <1>3, <1>4
  <2>2. UpTo(L, i) = 0..i
    BY <1>3, <1>4, <2>1 DEF UpTo
  <2>3. Rank(L, i) = k
    <3>1. Cardinality(0..i) = i + 1
      BY <2>1, FS_Interval
    <3>. QED  BY <2>1, <2>2, <3>1 DEF Rank
  <2>4. Place(L, k) = i
    <3>1. Place(L, Rank(L, i)) = i
      BY <1>4, <2>1, PlacesAre
    <3>. QED  BY <2>3, <3>1
  <2>5. Pieces[k] = tokens[i].string
    BY <1>1, <1>4, <2>4, PiecesAre
  <2>6. tokens[i].string = <<text[i + 1]>>
    BY <1>2, <2>1
  <2>. QED  BY <2>1, <2>5, <2>6
<1>6. Pieces = [k \in DOMAIN text |-> <<text[k]>>]
  <2>1. Pieces = [k \in 1..n |-> Pieces[k]]
    BY <1>4 DEF Pieces
  <2>2. DOMAIN text = 1..n
    BY <1>3, LenProperties
  <2>. QED  BY <1>5, <2>1, <2>2
<1>. QED  BY <1>2, <1>6 DEF Greedy!Init

(* The heap with entries that are out of date makes the merges of the      *)
(* definition, in its order: each step of bpe_encode_optimized is the      *)
(* merge of the leftmost pair of the best rank, or changes no piece, and   *)
(* what is returned is the list in which no pair can be merged.            *)
THEOREM MergesAreGreedy == Spec => MergesGreedily
<1>1. Init => Greedy!Init
  BY InitIsGreedy
<1>2. MergeInv /\ [Next]_vars => [Greedy!Next]_(Greedy!vars)
  <2>. SUFFICES ASSUME MergeInv, [Next]_vars PROVE [Greedy!Next]_(Greedy!vars)
    OBVIOUS
  <2>1. CASE Discard
    BY <2>1, OthersStutter DEF Discard
  <2>2. CASE PushAgain
    BY <2>2, OthersStutter DEF PushAgain
  <2>3. CASE Merge
    BY <2>3, MergeIsBest DEF Greedy!Next
  <2>4. CASE Collect
    BY <2>4, CollectReturns DEF Greedy!Next
  <2>5. CASE UNCHANGED vars
    BY <2>5, OthersStutter DEF vars
  <2>. QED  BY <2>1, <2>2, <2>3, <2>4, <2>5 DEF Next
<1>. QED  BY <1>1, <1>2, MergeInvariantHolds, PTL DEF Spec, MergesGreedily, Greedy!SafeSpec
=============================================================================
