-------------------------- MODULE GpuDecode_proofs --------------------------
(* Proofs about GpuDecode. *)
EXTENDS GpuDecode, TLAPS, SequenceTheorems, FiniteSetTheorems

-----------------------------------------------------------------------------
(* The layout of a layer's cache: one cell per head and position.          *)

(* A multiple of max_seq that is larger is larger by max_seq at least.     *)
LEMMA MultiplesApart ==
  ASSUME NEW g \in Nat, NEW h \in Nat, h < g
  PROVE  h * max_seq + max_seq <= g * max_seq
<1>1. max_seq \in Nat
  BY ShapeAssumption
<1>2. PICK d \in Nat : g = h + 1 + d
  <2>1. g - h - 1 \in Nat /\ g = h + 1 + (g - h - 1)
    OBVIOUS
  <2> QED  BY <2>1
<1>3. g * max_seq = h * max_seq + max_seq + d * max_seq
  BY <1>1, <1>2
<1>4. d * max_seq \in Nat
  BY <1>1
<1>5. h * max_seq \in Nat /\ g * max_seq \in Nat
  BY <1>1
<1> QED  BY <1>1, <1>3, <1>4, <1>5

(* Two positions of two heads never share a cell.                          *)
LEMMA CellsApart ==
  ASSUME NEW g \in Nat, NEW h \in Nat, NEW p \in 1..max_seq, NEW q \in 1..max_seq,
         g * max_seq + p - 1 = h * max_seq + q - 1
  PROVE  g = h /\ p = q
<1>1. max_seq \in Nat
  BY ShapeAssumption
<1>2. DEFINE a == g * max_seq  b == h * max_seq
<1>3. a \in Nat /\ b \in Nat
  BY <1>1
<1>4. (h < g => b + max_seq <= a) /\ (g < h => a + max_seq <= b)
  BY MultiplesApart
<1>5. a + p - 1 = b + q - 1
  OBVIOUS
<1>6. g = h => a = b
  OBVIOUS
<1> HIDE DEF a, b
<1> QED  BY <1>1, <1>3, <1>4, <1>5, <1>6

(* Every position of every head has a cell.                                *)
LEMMA CellExists ==
  ASSUME NEW h \in KvHead, NEW p \in 1..max_seq
  PROVE  h * max_seq + p - 1 \in Cell
<1>1. max_seq \in Nat /\ n_kv_heads \in Nat /\ h \in Nat /\ h < n_kv_heads
  BY ShapeAssumption DEF KvHead
<1>2. h * max_seq + max_seq <= n_kv_heads * max_seq
  BY <1>1, MultiplesApart
<1>3. h * max_seq \in Nat /\ n_kv_heads * max_seq \in Nat
  BY <1>1
<1> QED  BY <1>1, <1>2, <1>3 DEF Cell

(* kv_update on a cache with room: in each head the tokens land behind     *)
(* each other from `start`, and no other position changes.                 *)
LEMMA StoredInPlace ==
  ASSUME NEW mem, NEW start \in Nat, NEW toks \in Vector, start + Len(toks) <= max_seq,
         NEW h \in KvHead, NEW p \in 1..max_seq
  PROVE  Stored(mem, start, toks)[h * max_seq + p - 1] =
           IF start < p /\ p <= start + Len(toks) THEN toks[p - start]
           ELSE mem[h * max_seq + p - 1]
<1> DEFINE c == h * max_seq + p - 1
           W == Writers(c, start, Len(toks))
<1>1. c \in Cell
  BY CellExists
<1>2. max_seq \in Nat /\ Len(toks) \in Nat
  BY ShapeAssumption DEF Vector
<1>3. ASSUME NEW b \in W
      PROVE  start + b = p
  <2>1. PICK g \in KvHead : c = g * max_seq + start + b - 1
    BY DEF Writers
  <2>2. b \in 1..Len(toks)
    BY DEF Writers
  <2>3. start + b \in 1..max_seq /\ g \in Nat /\ h \in Nat
    BY <1>2, <2>2 DEF KvHead
  <2>4. g * max_seq \in Nat /\ h * max_seq \in Nat
    BY <1>2, <2>3
  <2>5. g * max_seq + (start + b) - 1 = h * max_seq + p - 1
    BY <2>1, <2>2, <2>3, <2>4
  <2> QED  BY <2>3, <2>5, CellsApart
<1>4. CASE start < p /\ p <= start + Len(toks)
  <2>1. p - start \in 1..Len(toks)
    BY <1>2, <1>4
  <2>2. c = h * max_seq + start + (p - start) - 1
    <3>1. h * max_seq \in Nat
      BY <1>2 DEF KvHead
    <3> QED  BY <1>2, <3>1
  <2>3. p - start \in W
    BY <2>1, <2>2 DEF Writers
  <2>4. \A b \in W : b = p - start
    <3>1. \A b \in W : b \in Nat
      BY <1>2 DEF Writers
    <3> QED  BY <1>2, <1>3, <3>1
  <2>5. W = {p - start}
    BY <2>3, <2>4
  <2>6. (CHOOSE b \in W : TRUE) = p - start
    BY <2>5
  <2>7. Stored(mem, start, toks)[c] = toks[CHOOSE b \in W : TRUE]
    BY <1>1, <2>3, <2>5 DEF Stored
  <2> QED  BY <1>4, <2>6, <2>7
<1>5. CASE ~(start < p /\ p <= start + Len(toks))
  <2>1. W = {}
    <3>1. \A b \in W : b \in 1..Len(toks)
      BY DEF Writers
    <3> QED  BY <1>2, <1>3, <1>5, <3>1
  <2>2. Stored(mem, start, toks)[c] = mem[c]
    BY <1>1, <2>1 DEF Stored
  <2> QED  BY <1>5, <2>2
<1> QED  BY <1>4, <1>5

(* Whatever is written, the cells hold tokens.                             *)
LEMMA StoredType ==
  ASSUME NEW mem \in [Cell -> Nat], NEW start \in Nat, NEW toks \in Vector
  PROVE  Stored(mem, start, toks) \in [Cell -> Nat]
<1> SUFFICES ASSUME NEW c \in Cell PROVE Stored(mem, start, toks)[c] \in Nat
  BY DEF Stored
<1> DEFINE W == Writers(c, start, Len(toks))
<1>1. \A b \in W : toks[b] \in Nat
  BY DEF Writers, Vector
<1>2. Stored(mem, start, toks)[c] =
        IF W = {} THEN mem[c]
        ELSE IF \E b \in W : W = {b} THEN toks[CHOOSE b \in W : TRUE]
        ELSE Blank
  BY DEF Stored
<1>3. CASE \E b \in W : W = {b}
  <2>1. (CHOOSE b \in W : TRUE) \in W
    BY <1>3
  <2> HIDE DEF W
  <2> QED  BY <1>1, <1>2, <1>3, <2>1
<1>4. CASE ~ \E b \in W : W = {b}
  <2> HIDE DEF W
  <2> QED  BY <1>2, <1>4 DEF Blank
<1> QED  BY <1>3, <1>4

(* Attention over cells that hold s in every head sees s and nothing else. *)
LEMMA RowsOfHeld ==
  ASSUME NEW mem, NEW s \in Vector, Len(s) <= max_seq,
         \A h \in KvHead : \A p \in 1..Len(s) : mem[h * max_seq + p - 1] = s[p]
  PROVE  KRows(mem, Len(s)) = {s}
<1>1. Len(s) \in Nat /\ max_seq \in Nat /\ s = [p \in 1..Len(s) |-> s[p]]
  BY ShapeAssumption DEF Vector
<1>2. ASSUME NEW h \in KvHead
      PROVE  KRow(mem, h, Len(s)) = s
  <2>1. \A p \in 1..Len(s) : h * max_seq + p - 1 \in Cell
    <3>1. \A p \in 1..Len(s) : p \in 1..max_seq
      BY <1>1
    <3> QED  BY <3>1, CellExists
  <2>2. \A p \in 1..Len(s) : mem[h * max_seq + p - 1] = s[p]
    OBVIOUS
  <2> QED  BY <1>1, <2>1, <2>2 DEF KRow
<1>3. 0 \in KvHead
  BY ShapeAssumption DEF KvHead
<1> QED  BY <1>2, <1>3 DEF KRows

(* Attention reads tokens, whatever the cells hold.                        *)
LEMMA KRowsType ==
  ASSUME NEW mem \in [Cell -> Nat], NEW k \in Nat
  PROVE  KRows(mem, k) \subseteq Vector /\ KRows(mem, k) # {}
<1>1. ASSUME NEW h \in KvHead
      PROVE  KRow(mem, h, k) \in Vector
  BY DEF KRow, Blank, Vector
<1>2. 0 \in KvHead
  BY ShapeAssumption DEF KvHead
<1> QED  BY <1>1, <1>2 DEF KRows

-----------------------------------------------------------------------------
(* Encoding and running a pass.                                            *)

(* The cached buffer of positions after encoding: every buffer keeps its   *)
(* length, only the last one is written, and it begins with the positions. *)
LEMMA WithPositionsType ==
  ASSUME rope_pos_buffer \in Seq(Vector), NEW turn \in Vector
  PROVE  LET w == WithPositions(turn) IN
         /\ w \in Seq(Vector)
         /\ Len(w) \in Nat \ {0}
         /\ Len(rope_pos_buffer) <= Len(w)
         /\ Len(turn) <= Len(w[Len(w)])
         /\ \A i \in 1..Len(turn) : w[Len(w)][i] = turn[i]
         /\ \A b \in 1..Len(rope_pos_buffer) :
              /\ Len(w[b]) = Len(rope_pos_buffer[b])
              /\ b # Len(w) => w[b] = rope_pos_buffer[b]
<1> DEFINE w == WithPositions(turn)
<1>1. CASE rope_pos_buffer = <<>> \/ Len(Current) < Len(turn)
  <2>1. w = Append(rope_pos_buffer, turn)
    BY <1>1 DEF WithPositions
  <2> QED  BY <2>1 DEF Vector
<1>2. CASE ~(rope_pos_buffer = <<>> \/ Len(Current) < Len(turn))
  <2> DEFINE k == Len(rope_pos_buffer)
             rest == SubSeq(Current, Len(turn) + 1, Len(Current))
  <2>1. k \in Nat \ {0} /\ Current \in Vector /\ Current = rope_pos_buffer[k]
    BY <1>2 DEF Current
  <2>2. Len(turn) \in Nat /\ Len(Current) \in Nat /\ Len(turn) <= Len(Current)
    BY <1>2, <2>1 DEF Vector
  <2>3. rest \in Vector /\ Len(rest) = Len(Current) - Len(turn)
    BY <2>1, <2>2 DEF Vector
  <2>4. w = [rope_pos_buffer EXCEPT ![k] = turn \o rest]
    BY <1>2, <2>1 DEF WithPositions
  <2> HIDE DEF rest
  <2>5. /\ turn \o rest \in Vector
        /\ Len(turn \o rest) = Len(Current)
        /\ \A i \in 1..Len(turn) : (turn \o rest)[i] = turn[i]
    BY <2>2, <2>3 DEF Vector
  <2>6. w \in Seq(Vector) /\ Len(w) = k
    BY <2>1, <2>4, <2>5
  <2>7. w[k] = turn \o rest /\ \A b \in 1..k : b # k => w[b] = rope_pos_buffer[b]
    BY <2>1, <2>4
  <2> HIDE DEF w, k
  <2>8. Len(w[k]) = Len(Current) /\ \A i \in 1..Len(turn) : w[k][i] = turn[i]
    BY <2>5, <2>7
  <2>9. \A b \in 1..k : Len(w[b]) = Len(rope_pos_buffer[b])
    BY <2>1, <2>7, <2>8
  <2> QED  BY <2>1, <2>2, <2>6, <2>7, <2>8, <2>9 DEF k, w
<1> QED  BY <1>1, <1>2

(* What the host encodes is a pass.                                        *)
LEMMA NewPassType ==
  ASSUME TypeOK, NEW toks \in Vector, NEW turn \in Vector
  PROVE  /\ NewPass(toks, turn) \in Pass
         /\ NewPass(toks, turn).toks = toks
         /\ NewPass(toks, turn).start = seq_len
         /\ NewPass(toks, turn).buf = Len(WithPositions(turn))
         /\ NewPass(toks, turn).conv = conv
         /\ NewPass(toks, turn).want = text \o toks
         /\ NewPass(toks, turn).turn = turn
         /\ NewPass(toks, turn).seen = {}
         /\ NewPass(toks, turn).turned = {}
<1>1. Len(WithPositions(turn)) \in Nat
  BY WithPositionsType DEF TypeOK
<1>2. text \o toks \in Vector
  BY DEF TypeOK, Vector
<1>3. seq_len \in Nat /\ conv \in Nat
  BY DEF TypeOK
<1> QED  BY <1>1, <1>2, <1>3 DEF NewPass, Pass

(* Tokens and positions are vectors.                                       *)
LEMMA VectorsType ==
  ASSUME TypeOK
  PROVE  /\ \A k \in Nat : NextTokens(k) \in Vector /\ Len(NextTokens(k)) = k
         /\ \A k \in Nat : PromptPositions(k) \in Vector /\ Len(PromptPositions(k)) = k
         /\ DecodePosition \in Vector /\ Len(DecodePosition) = 1
<1>1. fed \in Nat /\ seq_len \in Nat
  BY DEF TypeOK
<1>2. ASSUME NEW k \in Nat
      PROVE  NextTokens(k) \in Vector /\ Len(NextTokens(k)) = k
  BY <1>1, <1>2 DEF NextTokens, Vector
<1>3. ASSUME NEW k \in Nat
      PROVE  PromptPositions(k) \in Vector /\ Len(PromptPositions(k)) = k
  <2>1. \A i \in 1..k : seq_len + i - 1 \in Nat
    BY <1>1
  <2> QED  BY <2>1 DEF PromptPositions, Vector
<1>4. DecodePosition \in Vector /\ Len(DecodePosition) = 1
  BY DEF DecodePosition, Vector
<1> QED  BY <1>2, <1>3, <1>4

(* The fields of a pass.                                                   *)
LEMMA PassFields ==
  ASSUME TypeOK, NEW n \in PassNumber
  PROVE  /\ passes[n] \in Pass
         /\ passes[n].toks \in Vector /\ passes[n].want \in Vector /\ passes[n].turn \in Vector
         /\ passes[n].start \in Nat /\ passes[n].buf \in Nat /\ passes[n].conv \in Nat
         /\ passes[n].seen \subseteq Vector /\ passes[n].turned \subseteq Vector
<1>1. passes[n] \in Pass
  BY DEF TypeOK, PassNumber
<1> QED  BY <1>1 DEF Pass

(* What is used of the types again and again.                              *)
LEMMA Typing ==
  ASSUME TypeOK
  PROVE  /\ done \in Nat /\ Len(passes) \in Nat /\ done <= Len(passes)
         /\ rope_pos_buffer \in Seq(Vector)
         /\ Len(rope_pos_buffer) \in Nat /\ DOMAIN rope_pos_buffer = 1..Len(rope_pos_buffer)
         /\ pending_cbs \in Seq(PassNumber) /\ Len(pending_cbs) \in Nat
         /\ text \in Seq(Nat) /\ text \in Vector /\ Len(text) \in Nat /\ conv \in Nat /\ fed \in Nat
         /\ wiped \subseteq PassNumber /\ PassNumber \subseteq Nat \ {0}
<1>1. done \in Nat /\ Len(passes) \in Nat /\ done <= Len(passes)
  BY DEF TypeOK
<1>2. rope_pos_buffer \in Seq(Vector)
  BY DEF TypeOK
<1>3. Len(rope_pos_buffer) \in Nat /\ DOMAIN rope_pos_buffer = 1..Len(rope_pos_buffer)
  BY <1>2
<1>4. pending_cbs \in Seq(PassNumber)
  BY DEF TypeOK
<1>5. Len(pending_cbs) \in Nat
  BY <1>4
<1>6. text \in Seq(Nat) /\ conv \in Nat /\ fed \in Nat /\ wiped \subseteq PassNumber
  BY DEF TypeOK, Vector
<1>7. text \in Vector /\ Len(text) \in Nat
  BY <1>6 DEF Vector
<1>8. PassNumber \subseteq Nat \ {0}
  BY <1>1 DEF PassNumber
<1> QED  BY <1>1, <1>2, <1>3, <1>4, <1>5, <1>6, <1>7, <1>8

(* The beginning of a sequence.                                            *)
LEMMA PrefixOfSeq ==
  ASSUME NEW S, NEW v \in Seq(S), NEW k \in Nat, k <= Len(v)
  PROVE  /\ SubSeq(v, 1, k) \in Seq(S) /\ Len(SubSeq(v, 1, k)) = k
         /\ \A i \in 1..k : SubSeq(v, 1, k)[i] = v[i]
  OBVIOUS

(* The same for a vector.                                                  *)
LEMMA Prefix ==
  ASSUME NEW v \in Vector, NEW k \in Nat, k <= Len(v)
  PROVE  /\ SubSeq(v, 1, k) \in Vector /\ Len(SubSeq(v, 1, k)) = k
         /\ \A i \in 1..k : SubSeq(v, 1, k)[i] = v[i]
  BY PrefixOfSeq DEF Vector

(* One pass changes: the others stay as they are.                          *)
LEMMA PassChanged ==
  ASSUME TypeOK, NEW n \in PassNumber, NEW q \in Pass, passes' = [passes EXCEPT ![n] = q]
  PROVE  /\ passes' \in Seq(Pass) /\ Len(passes') = Len(passes) /\ passes'[n] = q
         /\ \A m \in PassNumber : m # n => passes'[m] = passes[m]
  BY DEF TypeOK, PassNumber

(* What a pass says, whatever it has found.                                *)
Says(q, p) ==
  /\ q.toks = p.toks /\ q.start = p.start /\ q.buf = p.buf /\ q.conv = p.conv
  /\ q.want = p.want /\ q.turn = p.turn

(* The KV update of a layer: the cells of the layer change, and what the   *)
(* next pass has rotated by; if the kernels run in order, it stores the    *)
(* tokens of the pass.                                                     *)
LEMMA UpdateRun ==
  ASSUME TypeOK, PositionsInPlace, NEW l \in Layer, Update(l), NEW n, n = done + 1
  PROVE  /\ n \in PassNumber
         /\ passes' \in Seq(Pass) /\ Len(passes') = Len(passes)
         /\ \A m \in PassNumber : m # n => passes'[m] = passes[m]
         /\ Says(passes'[n], passes[n]) /\ passes'[n].seen = passes[n].seen
         /\ passes'[n].turned =
              passes[n].turned
                \cup {SubSeq(rope_pos_buffer[passes[n].buf], 1, Len(passes[n].toks))}
         /\ \E mem \in [Cell -> Nat] :
              /\ kv' = [kv EXCEPT ![l] = mem]
              /\ InOrder(passes[n]) => mem = Stored(kv[l], passes[n].start, passes[n].toks)
<1> DEFINE p == passes[n]
           turned == p.turned \cup {SubSeq(rope_pos_buffer[p.buf], 1, Len(p.toks))}
           q == [p EXCEPT !.turned = turned]
<1>1. n \in PassNumber
  BY DEF TypeOK, PassNumber, Update
<1>2. /\ p \in Pass /\ p.toks \in Vector /\ p.start \in Nat /\ p.seen \subseteq Vector
      /\ p.turned \subseteq Vector
  BY <1>1, PassFields
<1>3. Len(p.toks) \in Nat /\ DOMAIN p.toks = 1..Len(p.toks)
  BY <1>2 DEF Vector
<1>4. turned \subseteq Vector
  <2>1. p.buf \in 1..Len(rope_pos_buffer) /\ Len(p.toks) <= Len(rope_pos_buffer[p.buf])
    BY <1>1, Typing DEF PositionsInPlace
  <2>2. rope_pos_buffer[p.buf] \in Vector
    BY <2>1, Typing, ElementOfSeq
  <2>3. SubSeq(rope_pos_buffer[p.buf], 1, Len(p.toks)) \in Vector
    BY <1>3, <2>1, <2>2, Prefix
  <2> QED  BY <1>2, <2>3
<1>5. passes' = [passes EXCEPT ![n] = q]
  BY DEF Update
<1>6. PICK toks \in Computed(p) : kv' = [kv EXCEPT ![l] = Stored(kv[l], p.start, toks)]
  BY DEF Update, TypeOK
<1>7. toks \in Vector
  <2>1. [i \in DOMAIN p.toks |-> Blank] \in Vector
    BY <1>3 DEF Vector, Blank
  <2> QED  BY <1>2, <1>6, <2>1 DEF Computed
<1>8. InOrder(p) => toks = p.toks
  BY <1>6 DEF Computed
<1>9. Stored(kv[l], p.start, toks) \in [Cell -> Nat]
  <2>1. kv[l] \in [Cell -> Nat]
    BY DEF TypeOK
  <2> HIDE DEF p
  <2> QED  BY <1>2, <1>7, <2>1, StoredType
<1> HIDE DEF turned
<1>10. q \in Pass /\ q.turned = turned /\ q.seen = p.seen /\ Says(q, p)
  BY <1>2, <1>4 DEF Pass, Says
<1> HIDE DEF q
<1>11. /\ passes' \in Seq(Pass) /\ Len(passes') = Len(passes) /\ passes'[n] = q
       /\ \A m \in PassNumber : m # n => passes'[m] = passes[m]
  BY <1>1, <1>5, <1>10, PassChanged
<1> QED  BY <1>1, <1>6, <1>8, <1>9, <1>10, <1>11 DEF turned

(* Attention of a layer: only what the next pass has seen changes.         *)
LEMMA AttendRun ==
  ASSUME TypeOK, NEW l \in Layer, Attend(l), NEW n, n = done + 1
  PROVE  /\ n \in PassNumber
         /\ passes' \in Seq(Pass) /\ Len(passes') = Len(passes)
         /\ \A m \in PassNumber : m # n => passes'[m] = passes[m]
         /\ Says(passes'[n], passes[n]) /\ passes'[n].turned = passes[n].turned
         /\ passes'[n].seen =
              passes[n].seen \cup KRows(kv[l], passes[n].start + Len(passes[n].toks))
<1> DEFINE p == passes[n]
           seen == p.seen \cup KRows(kv[l], p.start + Len(p.toks))
           q == [p EXCEPT !.seen = seen]
<1>1. n \in PassNumber
  BY DEF TypeOK, PassNumber, Attend
<1>2. /\ p \in Pass /\ p.toks \in Vector /\ p.start \in Nat /\ p.seen \subseteq Vector
  BY <1>1, PassFields
<1>3. Len(p.toks) \in Nat
  BY <1>2 DEF Vector
<1>4. seen \subseteq Vector
  <2>1. p.start + Len(p.toks) \in Nat
    BY <1>2, <1>3
  <2>2. kv[l] \in [Cell -> Nat]
    BY DEF TypeOK
  <2> QED  BY <1>2, <2>1, <2>2, KRowsType
<1>5. passes' = [passes EXCEPT ![n] = q]
  BY DEF Attend
<1> HIDE DEF seen
<1>6. q \in Pass /\ q.seen = seen /\ q.turned = p.turned /\ Says(q, p)
  BY <1>2, <1>4 DEF Pass, Says
<1> HIDE DEF q
<1>7. /\ passes' \in Seq(Pass) /\ Len(passes') = Len(passes) /\ passes'[n] = q
      /\ \A m \in PassNumber : m # n => passes'[m] = passes[m]
  BY <1>1, <1>5, <1>6, PassChanged
<1> QED  BY <1>1, <1>6, <1>7 DEF seen

(* Whatever the GPU runs, only what the next pass has found changes.       *)
LEMMA GpuRun ==
  ASSUME TypeOK, PositionsInPlace, RunGpu, NEW n, n = done + 1
  PROVE  /\ n \in PassNumber /\ n <= Len(passes)
         /\ passes' \in Seq(Pass) /\ Len(passes') = Len(passes)
         /\ kv' \in [Layer -> [Cell -> Nat]]
         /\ \A m \in PassNumber : Says(passes'[m], passes[m]) /\ (m # n => passes'[m] = passes[m])
         /\ passes'[n].turned \subseteq
              passes[n].turned
                \cup {SubSeq(rope_pos_buffer[passes[n].buf], 1, Len(passes[n].toks))}
         /\ stored' \subseteq Layer /\ attended' \subseteq Layer
         /\ done' = done \/ (done' = n /\ stored' = {} /\ attended' = {})
         /\ UNCHANGED <<host, history>>
<1>. stored \subseteq Layer /\ attended \subseteq Layer /\ kv \in [Layer -> [Cell -> Nat]]
  BY DEF TypeOK
<1>. \A m \in PassNumber : Says(passes[m], passes[m])
  BY DEF Says
<1>1. CASE Complete
  <2>1. n \in PassNumber /\ passes \in Seq(Pass)
    BY <1>1 DEF Complete, TypeOK, PassNumber
  <2> QED  BY <1>1, <2>1 DEF Complete, PassNumber
<1>2. ASSUME NEW l \in Layer, Update(l)
      PROVE  /\ kv' \in [Layer -> [Cell -> Nat]] /\ stored' = stored \cup {l}
             /\ UNCHANGED <<done, attended, host, history>>
  <2>1. PICK mem \in [Cell -> Nat] : kv' = [kv EXCEPT ![l] = mem]
    BY <1>2, UpdateRun
  <2> QED  BY <1>2, <2>1 DEF Update
<1>3. ASSUME NEW l \in Layer, Update(l)
      PROVE  /\ n \in PassNumber /\ n <= Len(passes)
             /\ passes' \in Seq(Pass) /\ Len(passes') = Len(passes)
             /\ \A m \in PassNumber :
                  Says(passes'[m], passes[m]) /\ (m # n => passes'[m] = passes[m])
             /\ passes'[n].turned \subseteq
                  passes[n].turned
                    \cup {SubSeq(rope_pos_buffer[passes[n].buf], 1, Len(passes[n].toks))}
  BY <1>3, UpdateRun DEF PassNumber
<1>4. ASSUME NEW l \in Layer, Attend(l)
      PROVE  UNCHANGED <<kv, done, stored, host, history>> /\ attended' = attended \cup {l}
  BY <1>4 DEF Attend
<1>5. ASSUME NEW l \in Layer, Attend(l)
      PROVE  /\ n \in PassNumber /\ n <= Len(passes)
             /\ passes' \in Seq(Pass) /\ Len(passes') = Len(passes)
             /\ \A m \in PassNumber :
                  Says(passes'[m], passes[m]) /\ (m # n => passes'[m] = passes[m])
             /\ passes'[n].turned = passes[n].turned
  BY <1>5, AttendRun DEF PassNumber
<1>6. ASSUME NEW l \in Layer, Update(l)
      PROVE  stored' \subseteq Layer /\ attended' \subseteq Layer
  BY <1>2, <1>6
<1>7. ASSUME NEW l \in Layer, Attend(l)
      PROVE  /\ stored' \subseteq Layer /\ attended' \subseteq Layer
             /\ kv' \in [Layer -> [Cell -> Nat]]
  BY <1>4, <1>7
<1> QED  BY <1>1, <1>2, <1>3, <1>4, <1>5, <1>6, <1>7 DEF RunGpu

(* A pass is committed: the others stay as they are.                       *)
LEMMA Committed ==
  ASSUME TypeOK, NEW q \in Pass, passes' = Append(passes, q)
  PROVE  /\ passes' \in Seq(Pass) /\ Len(passes') = Len(passes) + 1
         /\ \A m \in PassNumber : passes'[m] = passes[m]
         /\ passes'[Len(passes) + 1] = q
  BY DEF TypeOK, PassNumber

(* The answer of a call joins the others.                                  *)
LEMMA HandedType ==
  ASSUME NEW S, handed \in Seq(S), Return,
         cached_logits # NoPass => [pass |-> cached_logits, conv |-> conv] \in S
  PROVE  handed' \in Seq(S) /\ cached_logits' = NoPass
<1>1. cached_logits' = NoPass
  BY DEF Return
<1>2. CASE cached_logits = NoPass
  BY <1>1, <1>2 DEF Return
<1>3. CASE cached_logits # NoPass
  <2>1. handed' = Append(handed, [pass |-> cached_logits, conv |-> conv])
    BY <1>3 DEF Return
  <2> QED  BY <1>1, <1>3, <2>1, AppendProperties
<1> QED  BY <1>2, <1>3

-----------------------------------------------------------------------------
(* Type correctness.                                                       *)

(* Every step keeps the types.                                             *)
LEMMA TypeStep ==
  ASSUME TypeOK, Control, PositionsInPlace, [Next]_vars
  PROVE  TypeOK'
<1>1. CASE UNCHANGED vars
  BY <1>1 DEF TypeOK, vars, host, gpu, ran, history, PassNumber
<1>2. CASE RunGpu
  <2>1. /\ passes' \in Seq(Pass) /\ Len(passes') = Len(passes) /\ done + 1 \in PassNumber
        /\ kv' \in [Layer -> [Cell -> Nat]]
        /\ done' = done \/ done' = done + 1
        /\ stored' \subseteq Layer /\ attended' \subseteq Layer
        /\ UNCHANGED <<host, history>>
    BY <1>2, GpuRun
  <2>2. PassNumber' = PassNumber
    BY <2>1 DEF PassNumber
  <2>3. done' \in 0..Len(passes')
    BY <2>1 DEF PassNumber, TypeOK
  <2> QED  BY <2>1, <2>2, <2>3 DEF TypeOK, host, history
<1>3. CASE CallDecode
  BY <1>3 DEF CallDecode, TypeOK, gpu, ran, history, PassNumber
<1>4. CASE WaitOldest
  <2>1. pending_cbs' \in Seq(PassNumber) /\ cached_logits' \in PassNumber
    BY <1>4 DEF WaitOldest, TypeOK
  <2> QED  BY <1>4, <2>1 DEF WaitOldest, TypeOK, gpu, ran, history, PassNumber
<1>5. CASE SkipWait
  BY <1>5 DEF SkipWait, TypeOK, gpu, ran, history, PassNumber
<1>6. CASE Submit
  <2> DEFINE toks == NextTokens(1)
             q == NewPass(toks, DecodePosition)
             n == Len(passes) + 1
  <2>1. toks \in Vector /\ DecodePosition \in Vector
    BY VectorsType
  <2>2. q \in Pass
    BY <2>1, NewPassType
  <2>3. passes' = Append(passes, q)
    BY <1>6 DEF Submit
  <2>4. passes' \in Seq(Pass) /\ Len(passes') = Len(passes) + 1
    BY <2>2, <2>3, Committed
  <2>5. PassNumber \subseteq PassNumber' /\ n \in PassNumber'
    BY <2>4 DEF PassNumber, TypeOK
  <2>6. rope_pos_buffer' \in Seq(Vector)
    BY <1>6, <2>1, WithPositionsType DEF Submit, TypeOK
  <2>7. text' \in Vector
    BY <1>6, <2>1 DEF Submit, TypeOK, Vector
  <2>8. pending_cbs' \in Seq(PassNumber') /\ submitted' \in Seq(PassNumber')
    BY <1>6, <2>5, SeqMonotonic DEF Submit, TypeOK
  <2>9. handed' \in Seq([pass : PassNumber', conv : Nat]) /\ cached_logits' = NoPass
    <3>1. handed \in Seq([pass : PassNumber', conv : Nat])
      <4>1. [pass : PassNumber, conv : Nat] \subseteq [pass : PassNumber', conv : Nat]
        BY <2>5
      <4> QED  BY <4>1, SeqMonotonic DEF TypeOK
    <3>2. cached_logits # NoPass =>
          [pass |-> cached_logits, conv |-> conv] \in [pass : PassNumber', conv : Nat]
      BY <2>5 DEF TypeOK
    <3> HIDE DEF toks, q, n
    <3>3. Return
      BY <1>6 DEF Submit
    <3> QED  BY <3>1, <3>2, <3>3, HandedType
  <2>10. done' \in 0..Len(passes')
    BY <1>6, <2>4 DEF Submit, TypeOK, ran
  <2>11. wiped' \subseteq PassNumber' /\ overtaken' \subseteq PassNumber'
    BY <1>6, <2>5 DEF Submit, TypeOK
  <2>12. seq_len' \in Nat /\ fed' \in Nat /\ pc' = "idle"
    BY <1>6 DEF Submit, Return, TypeOK
  <2>13. UNCHANGED <<batch, kv, stored, attended, conv, spoiled>>
    BY <1>6 DEF Submit, ran
  <2> HIDE DEF q, toks, n
  <2> QED  BY <2>4, <2>6, <2>7, <2>8, <2>9, <2>10, <2>11, <2>12, <2>13 DEF TypeOK
<1>7. CASE SubmitFails
  <2>1. rope_pos_buffer' \in Seq(Vector)
    BY <1>7, VectorsType, WithPositionsType DEF SubmitFails, TypeOK
  <2>2. handed' \in Seq([pass : PassNumber', conv : Nat]) /\ cached_logits' = NoPass
    <3>1. PassNumber' = PassNumber
      BY <1>7 DEF SubmitFails, gpu, ran, PassNumber
    <3>2. cached_logits # NoPass =>
          [pass |-> cached_logits, conv |-> conv] \in [pass : PassNumber, conv : Nat]
      BY DEF TypeOK
    <3>3. Return /\ handed \in Seq([pass : PassNumber, conv : Nat])
      BY <1>7 DEF SubmitFails, TypeOK
    <3> QED  BY <3>1, <3>2, <3>3, HandedType
  <2>3. pc' = "idle"
    BY <1>7 DEF SubmitFails, Return
  <2>4. UNCHANGED <<seq_len, pending_cbs, batch, gpu, text, conv, fed, submitted, spoiled,
                    wiped, overtaken>>
    BY <1>7 DEF SubmitFails
  <2> QED  BY <2>1, <2>2, <2>3, <2>4 DEF TypeOK, gpu, ran, PassNumber
<1>8. ASSUME NEW k \in PromptLen, EncodePrompt(k)
      PROVE  /\ k \in Nat /\ rope_pos_buffer' \in Seq(Vector) /\ overtaken' \subseteq PassNumber
  <2>1. k \in Nat
    BY ClientAssumption
  <2>2. rope_pos_buffer' \in Seq(Vector)
    BY <1>8, <2>1, VectorsType, WithPositionsType DEF EncodePrompt, TypeOK
  <2>3. InFlight \subseteq PassNumber
    BY DEF InFlight, PassNumber, TypeOK
  <2> QED  BY <1>8, <2>1, <2>2, <2>3 DEF EncodePrompt, TypeOK
<1>9. ASSUME NEW k \in PromptLen, CallPrompt(k)
      PROVE  TypeOK'
  <2> DEFINE toks == NextTokens(k)
             q == NewPass(toks, PromptPositions(k))
  <2>1. k \in Nat /\ rope_pos_buffer' \in Seq(Vector) /\ overtaken' \subseteq PassNumber
    BY <1>8, <1>9 DEF CallPrompt
  <2>2. q \in Pass
    BY <2>1, NewPassType, VectorsType
  <2>3. passes' = Append(passes, q)
    BY <1>9 DEF CallPrompt
  <2>4. passes' \in Seq(Pass) /\ Len(passes') = Len(passes) + 1
    BY <2>2, <2>3, Committed
  <2>5. PassNumber \subseteq PassNumber'
    BY <2>4 DEF PassNumber, TypeOK
  <2>6. pending_cbs' \in Seq(PassNumber') /\ submitted' \in Seq(PassNumber')
    BY <1>9, <2>5, SeqMonotonic DEF CallPrompt, TypeOK
  <2>7. /\ handed' \in Seq([pass : PassNumber', conv : Nat])
        /\ cached_logits' \in PassNumber' \cup {NoPass}
    <3>1. [pass : PassNumber, conv : Nat] \subseteq [pass : PassNumber', conv : Nat]
      BY <2>5
    <3> QED  BY <1>9, <2>5, <3>1, SeqMonotonic DEF CallPrompt, TypeOK
  <2>8. done' \in 0..Len(passes')
    BY <1>9, <2>4 DEF CallPrompt, TypeOK, ran
  <2>9. wiped' \subseteq PassNumber' /\ overtaken' \subseteq PassNumber'
    BY <1>9, <2>1, <2>5 DEF CallPrompt, TypeOK
  <2>10. fed' \in Nat /\ pc' = "prompt"
    BY <1>9, <2>1 DEF CallPrompt, TypeOK
  <2>11. UNCHANGED <<seq_len, batch, kv, stored, attended, text, conv, spoiled>>
    BY <1>9 DEF CallPrompt, ran
  <2> HIDE DEF q, toks
  <2> QED  BY <2>1, <2>4, <2>6, <2>7, <2>8, <2>9, <2>10, <2>11 DEF TypeOK
<1>10. ASSUME NEW k \in PromptLen, CallPromptFails(k)
       PROVE  TypeOK'
  <2>1. rope_pos_buffer' \in Seq(Vector) /\ overtaken' \subseteq PassNumber
    BY <1>8, <1>10 DEF CallPromptFails
  <2> QED  BY <1>10, <2>1 DEF CallPromptFails, TypeOK, gpu, ran, PassNumber
<1>11. ASSUME NEW k \in PromptLen, CallBatch(k)
       PROVE  TypeOK'
  <2>1. k \in Nat /\ NextTokens(k) \in Vector
    BY ClientAssumption, VectorsType
  <2>2. batch' \in [toks : Vector, conv : Nat, layer : Nat, seen : SUBSET Vector]
    <3>1. batch' = [NoBatch EXCEPT !.toks = NextTokens(k), !.conv = conv + 1]
      BY <1>11 DEF CallBatch
    <3>2. NoBatch = [toks |-> <<>>, conv |-> 0, layer |-> 0, seen |-> {}]
      BY DEF NoBatch
    <3>3. batch' = [toks |-> NextTokens(k), conv |-> conv + 1, layer |-> 0, seen |-> {}]
      BY <3>1, <3>2
    <3>4. conv + 1 \in Nat
      BY DEF TypeOK
    <3> QED  BY <2>1, <3>3, <3>4
  <2>3. text' \in Vector /\ conv' \in Nat /\ fed' \in Nat /\ pc' = "batch"
    <3>1. text' = <<>> /\ conv' = conv + 1 /\ fed' = fed + k /\ pc' = "batch"
      BY <1>11 DEF CallBatch
    <3>2. <<>> \in Vector /\ k \in Nat
      BY ClientAssumption DEF Vector
    <3> QED  BY <3>1, <3>2, Typing
  <2>4. UNCHANGED <<seq_len, pending_cbs, cached_logits, rope_pos_buffer, gpu, submitted,
                    handed, spoiled, wiped, overtaken>>
    BY <1>11 DEF CallBatch
  <2> QED  BY <2>2, <2>3, <2>4 DEF TypeOK, gpu, ran, PassNumber
<1>12. CASE PromptDone
  <2>1. Len(passes) \in PassNumber
    BY <1>12 DEF PromptDone, Control, PassNumber, TypeOK
  <2>2. passes[Len(passes)].toks \in Vector
    BY <2>1, PassFields
  <2>3. seq_len' \in Nat /\ text' \in Vector
    BY <1>12, <2>2 DEF PromptDone, TypeOK, Vector
  <2> QED  BY <1>12, <2>3 DEF PromptDone, TypeOK, gpu, ran, PassNumber
<1>13. CASE Clear
  <2>1. kv' \in [Layer -> [Cell -> Nat]]
    BY <1>13 DEF Clear, Blank
  <2>2. InFlight \subseteq PassNumber
    BY DEF InFlight, PassNumber, TypeOK
  <2>3. <<>> \in Vector
    BY DEF Vector
  <2> QED  BY <1>13, <2>1, <2>2, <2>3 DEF Clear, TypeOK, PassNumber, ran
<1>14. CASE BatchWrite
  <2>1. batch.layer \in Layer /\ batch.toks \in Vector
    BY <1>14 DEF BatchWrite, Control, TypeOK
  <2>2. Fitting(batch.toks) \in Vector
    BY <2>1, ShapeAssumption DEF Fitting, Vector
  <2>3. StoredByHost(kv[batch.layer], batch.toks) \in [Cell -> Nat]
    BY <2>1, <2>2, StoredType DEF StoredByHost, TypeOK
  <2>4. kv' \in [Layer -> [Cell -> Nat]]
    BY <1>14, <2>3 DEF BatchWrite, TypeOK
  <2>5. InFlight \subseteq PassNumber
    BY DEF InFlight, PassNumber, TypeOK
  <2>6. seq_len' \in Nat
    BY <1>14, <2>1 DEF BatchWrite, Vector
  <2>7. spoiled' \subseteq Nat /\ wiped' \subseteq PassNumber /\ pc' = "attend"
    BY <1>14, <2>5 DEF BatchWrite, TypeOK
  <2>8. UNCHANGED <<pending_cbs, cached_logits, rope_pos_buffer, batch, passes, done, stored,
                    attended, text, conv, fed, submitted, handed, overtaken>>
    BY <1>14 DEF BatchWrite, ran
  <2> QED  BY <2>4, <2>6, <2>7, <2>8 DEF TypeOK, PassNumber
<1>15. CASE BatchAttend
  <2>1. batch.layer \in Layer /\ batch.toks \in Vector /\ batch.seen \subseteq Vector
    BY <1>15 DEF BatchAttend, Control, TypeOK
  <2>2. kv[batch.layer] \in [Cell -> Nat] /\ Len(batch.toks) \in Nat
    BY <2>1 DEF TypeOK, Vector
  <2>3. KRows(kv[batch.layer], Len(batch.toks)) \subseteq Vector
    BY <2>2, KRowsType
  <2>4. batch.layer + 1 \in Nat
    BY <2>1 DEF Layer
  <2>5. batch' = [batch EXCEPT !.layer = @ + 1,
                        !.seen = @ \cup KRows(kv[batch.layer], Len(batch.toks))]
    BY <1>15 DEF BatchAttend
  <2>6. batch' \in [toks : Vector, conv : Nat, layer : Nat, seen : SUBSET Vector]
    BY <2>1, <2>3, <2>4, <2>5 DEF TypeOK
  <2>7. text' \in Vector /\ pc' \in {"batch", "idle"}
    BY <1>15, <2>1 DEF BatchAttend, TypeOK
  <2>8. UNCHANGED <<seq_len, pending_cbs, cached_logits, rope_pos_buffer, gpu, conv, fed,
                    submitted, handed, spoiled, wiped, overtaken>>
    BY <1>15 DEF BatchAttend
  <2> QED  BY <2>6, <2>7, <2>8 DEF TypeOK, gpu, ran, PassNumber
<1>16. CASE BatchFails
  <2>1. batch' \in [toks : Vector, conv : Nat, layer : Nat, seen : SUBSET Vector]
    BY <1>16 DEF BatchFails, NoBatch, Vector
  <2>2. seq_len' \in Nat /\ text' \in Vector /\ spoiled' \subseteq Nat /\ pc' = "idle"
    <3>1. CASE pc = "batch"
      <4>1. seq_len' = 0 /\ UNCHANGED <<text, spoiled>> /\ pc' = "idle"
        BY <1>16, <3>1 DEF BatchFails
      <4> QED  BY <4>1 DEF TypeOK
    <3>2. CASE pc = "attend"
      <4>1. text' = batch.toks /\ pc' = "idle" /\ seq_len' = seq_len
        BY <1>16, <3>2 DEF BatchFails
      <4>2. spoiled' = IF batch.layer + 1 < n_layers THEN spoiled \cup {conv} ELSE spoiled
        BY <1>16, <3>2 DEF BatchFails
      <4> QED  BY <4>1, <4>2 DEF TypeOK
    <3> QED  BY <1>16, <3>1, <3>2 DEF BatchFails
  <2>3. UNCHANGED <<pending_cbs, cached_logits, rope_pos_buffer, gpu, conv, fed, submitted,
                    handed, wiped, overtaken>>
    BY <1>16 DEF BatchFails
  <2> QED  BY <2>1, <2>2, <2>3 DEF TypeOK, gpu, ran, PassNumber
<1> QED
  BY <1>1, <1>2, <1>3, <1>4, <1>5, <1>6, <1>7, <1>9, <1>10, <1>11, <1>12, <1>13, <1>14, <1>15, <1>16
  DEF Next, Client, HostStep

-----------------------------------------------------------------------------
(* The passes never change but for what they have found.                   *)

(* No step changes what a pass says, and at most one pass is added.        *)
LEMMA PassesKept ==
  ASSUME TypeOK, PositionsInPlace, [Next]_vars
  PROVE  /\ PassNumber \subseteq PassNumber'
         /\ \A m \in PassNumber :
              /\ passes'[m].toks = passes[m].toks /\ passes'[m].start = passes[m].start
              /\ passes'[m].buf = passes[m].buf /\ passes'[m].conv = passes[m].conv
              /\ passes'[m].want = passes[m].want /\ passes'[m].turn = passes[m].turn
              /\ ~RunGpu => passes'[m] = passes[m]
<1>1. CASE RunGpu
  BY <1>1, GpuRun DEF PassNumber, Says
<1>2. CASE Submit
  <2>1. NewPass(NextTokens(1), DecodePosition) \in Pass
    BY VectorsType, NewPassType
  <2> QED  BY <1>2, <2>1, Committed DEF Submit, PassNumber, TypeOK
<1>3. ASSUME NEW k \in PromptLen, CallPrompt(k)
      PROVE  /\ PassNumber \subseteq PassNumber'
             /\ \A m \in PassNumber : passes'[m] = passes[m]
  <2>1. NewPass(NextTokens(k), PromptPositions(k)) \in Pass
    BY ClientAssumption, VectorsType, NewPassType
  <2> QED  BY <1>3, <2>1, Committed DEF CallPrompt, PassNumber, TypeOK
<1>4. CASE ~RunGpu /\ ~Submit /\ \A k \in PromptLen : ~CallPrompt(k)
  <2>1. UNCHANGED passes
    BY <1>4 DEF Next, Client, HostStep, CallDecode, WaitOldest, SkipWait, SubmitFails,
       CallPromptFails, CallBatch, PromptDone, Clear, BatchWrite, BatchAttend, BatchFails,
       gpu, ran, vars
  <2> QED  BY <2>1 DEF PassNumber
<1> QED  BY <1>1, <1>2, <1>3, <1>4

(* A pass wants its tokens behind those of its conversation before it.     *)
Words(q) ==
  /\ Len(q.want) = q.start + Len(q.toks)
  /\ \A i \in 1..Len(q.toks) : q.want[q.start + i] = q.toks[i]

(* So does a new pass.                                                     *)
LEMMA NewWords ==
  ASSUME TypeOK, seq_len = Len(text), NEW toks \in Vector, NEW turn \in Vector
  PROVE  Words(NewPass(toks, turn))
<1>1. text \in Vector
  BY DEF TypeOK
<1>2. /\ Len(text \o toks) = Len(text) + Len(toks)
      /\ \A i \in 1..Len(toks) : (text \o toks)[Len(text) + i] = toks[i]
  BY <1>1 DEF Vector
<1> DEFINE q == NewPass(toks, turn)
<1>3. q.want = text \o toks /\ q.start = Len(text) /\ q.toks = toks
  BY NewPassType
<1> HIDE DEF q
<1>4. Words(q)
  BY <1>2, <1>3 DEF Words
<1> QED  BY <1>4 DEF q

(* What a step leaves of the words.                                        *)
LEMMA WordsKept ==
  ASSUME TypeOK, Control, PositionsInPlace, [Next]_vars, NEW n \in PassNumber
  PROVE  Words(passes'[n])
  BY PassesKept, SMTT(20) DEF Control, Words

-----------------------------------------------------------------------------
(* Where the host and the GPU are.                                         *)

(* Every step leaves the host and the GPU where the program counters say.  *)
LEMMA ControlStep ==
  ASSUME TypeOK, Control, PositionsInPlace, [Next]_vars
  PROVE  Control'
<1>1. /\ \A n \in PassNumber : Words(passes'[n])
      /\ PassNumber \subseteq PassNumber'
  BY WordsKept, PassesKept
<1>2. PassNumber' = PassNumber => \A n \in PassNumber' : Words(passes[n])'
  BY <1>1 DEF Words
<1>3. CASE UNCHANGED vars
  BY <1>3 DEF Control, vars, host, gpu, ran, history, PassNumber
<1>4. CASE RunGpu
  <2>1. /\ Len(passes') = Len(passes) /\ PassNumber' = PassNumber /\ done + 1 \in PassNumber
        /\ done' = done \/ (stored' = {} /\ attended' = {})
        /\ UNCHANGED <<host, history>>
    BY <1>4, GpuRun DEF PassNumber
  <2>2. stored' \cup attended' # {} => done' < Len(passes')
    BY <2>1 DEF PassNumber, TypeOK
  <2>3. pc = "prompt" => /\ passes' # <<>>
                         /\ passes'[Len(passes')].want = text \o passes'[Len(passes')].toks
    <3>1. Len(passes) \in PassNumber /\ Len(passes') # 0
      BY <2>1 DEF PassNumber, TypeOK
    <3>2. passes'[Len(passes)].want = passes[Len(passes)].want
          /\ passes'[Len(passes)].toks = passes[Len(passes)].toks
      BY <3>1, PassesKept
    <3> QED  BY <2>1, <3>1, <3>2 DEF Control
  <2> QED  BY <1>2, <2>1, <2>2, <2>3 DEF Control, host, history, Words
<1>5. CASE CallDecode
  BY <1>2, <1>5 DEF CallDecode, Control, gpu, ran, history, PassNumber
<1>6. CASE WaitOldest
  BY <1>2, <1>6 DEF WaitOldest, Control, gpu, ran, history, PassNumber
<1>7. CASE SkipWait
  BY <1>2, <1>7 DEF SkipWait, Control, gpu, ran, history, PassNumber
<1>8. CASE Submit
  <2> DEFINE toks == NextTokens(1)
             q == NewPass(toks, DecodePosition)
  <2>1. toks \in Vector /\ Len(toks) = 1 /\ DecodePosition \in Vector
    BY VectorsType
  <2>2. seq_len = Len(text)
    BY <1>8 DEF Submit, Control
  <2>3. q \in Pass /\ Words(q)
    BY <2>1, <2>2, NewPassType, NewWords
  <2>4. Len(passes') = Len(passes) + 1 /\ passes'[Len(passes) + 1] = q
    BY <1>8, <2>3, Committed DEF Submit
  <2>5. \A n \in PassNumber' : Words(passes'[n])
    <3>1. PassNumber' = PassNumber \cup {Len(passes) + 1}
      BY <2>4, Typing DEF PassNumber
    <3> QED  BY <1>1, <2>3, <2>4, <3>1
  <2>6. seq_len' = Len(text')
    <3>1. text' = text \o toks /\ seq_len' = seq_len + 1
      BY <1>8 DEF Submit
    <3> HIDE DEF toks
    <3>2. Len(text \o toks) = Len(text) + Len(toks)
      <4>1. text \in Seq(Nat) /\ toks \in Seq(Nat)
        BY <2>1, Typing DEF Vector
      <4> QED  BY <4>1
    <3> QED  BY <2>1, <2>2, <3>1, <3>2
  <2>7. pc' = "idle" /\ cached_logits' = NoPass /\ UNCHANGED <<batch, done, stored, attended, conv>>
    BY <1>8 DEF Submit, Return, ran
  <2>8. stored' \cup attended' # {} => done' < Len(passes')
    BY <2>4, <2>7 DEF Control, TypeOK
  <2> HIDE DEF toks, q
  <2> QED  BY <2>5, <2>6, <2>7, <2>8 DEF Control, Words
<1>9. CASE SubmitFails
  BY <1>2, <1>9 DEF SubmitFails, Return, Control, gpu, ran, PassNumber
<1>10. ASSUME NEW k \in PromptLen, CallPrompt(k)
       PROVE  Control'
  <2> DEFINE toks == NextTokens(k)
             q == NewPass(toks, PromptPositions(k))
  <2>1. toks \in Vector /\ PromptPositions(k) \in Vector
    BY VectorsType, ClientAssumption
  <2>2. pc = "idle" /\ seq_len = Len(text)
    BY <1>10 DEF CallPrompt, EncodePrompt, Control
  <2>3. q \in Pass /\ Words(q) /\ q.want = text \o toks /\ q.toks = toks
    BY <2>1, <2>2, NewPassType, NewWords
  <2>4. Len(passes') = Len(passes) + 1 /\ passes'[Len(passes) + 1] = q
    BY <1>10, <2>3, Committed DEF CallPrompt
  <2>5. \A n \in PassNumber' : Words(passes'[n])
    <3>1. PassNumber' = PassNumber \cup {Len(passes) + 1}
      BY <2>4, Typing DEF PassNumber
    <3> QED  BY <1>1, <2>3, <2>4, <3>1
  <2>6. /\ pc' = "prompt"
        /\ UNCHANGED <<seq_len, cached_logits, batch, done, stored, attended, text, conv>>
    BY <1>10 DEF CallPrompt, ran
  <2>7. stored' \cup attended' # {} => done' < Len(passes')
    BY <2>4, <2>6 DEF Control, TypeOK
  <2>8. passes' # <<>>
    BY <2>4 DEF TypeOK
  <2> HIDE DEF toks, q
  <2> QED  BY <2>2, <2>3, <2>4, <2>5, <2>6, <2>7, <2>8 DEF Control, Words
<1>11. ASSUME NEW k \in PromptLen, CallPromptFails(k)
       PROVE  Control'
  BY <1>2, <1>11 DEF CallPromptFails, EncodePrompt, Control, gpu, ran, PassNumber
<1>12. ASSUME NEW k \in PromptLen, CallBatch(k)
       PROVE  Control'
  <2>1. pc = "idle" /\ pc' = "batch" /\ text' = <<>> /\ conv' = conv + 1
        /\ UNCHANGED <<cached_logits, gpu>>
    BY <1>12 DEF CallBatch
  <2>2. batch'.conv = conv + 1 /\ batch'.layer = 0 /\ batch'.seen = {}
    BY <1>12 DEF CallBatch, NoBatch
  <2>3. 0 \in Layer
    BY ShapeAssumption DEF Layer
  <2> QED  BY <1>2, <2>1, <2>2, <2>3 DEF Control, gpu, ran, PassNumber, Words
<1>13. CASE PromptDone
  <2> DEFINE toks == passes[Len(passes)].toks
  <2>1. Len(passes) \in PassNumber
    BY <1>13 DEF PromptDone, Control, PassNumber, TypeOK
  <2>2. toks \in Vector
    BY <2>1, PassFields
  <2>3. seq_len = Len(text) /\ text' = text \o toks /\ seq_len' = seq_len + Len(toks)
    BY <1>13 DEF PromptDone, Control
  <2> HIDE DEF toks
  <2>4. seq_len' = Len(text')
    BY <2>2, <2>3 DEF TypeOK, Vector
  <2> QED  BY <1>2, <1>13, <2>4 DEF PromptDone, Control, gpu, ran, PassNumber, Words
<1>14. CASE Clear
  BY <1>2, <1>14 DEF Clear, Control, PassNumber, Words, ran
<1>15. CASE BatchWrite
  BY <1>2, <1>15 DEF BatchWrite, Control, PassNumber, Words, ran
<1>16. CASE BatchAttend
  <2>1. pc = "attend" /\ batch.layer \in Layer /\ batch.conv = conv /\ text = <<>>
        /\ seq_len = Len(batch.toks) /\ cached_logits = NoPass
    BY <1>16 DEF BatchAttend, Control
  <2>2. /\ batch'.toks = batch.toks /\ batch'.conv = batch.conv
        /\ batch'.layer = batch.layer + 1
    BY <1>16 DEF BatchAttend, TypeOK
  <2>3. UNCHANGED <<seq_len, cached_logits, gpu, conv>>
    BY <1>16 DEF BatchAttend
  <2>4. CASE batch.layer + 1 < n_layers
    <3>1. pc' = "batch" /\ text' = text
      BY <1>16, <2>4 DEF BatchAttend
    <3>2. batch'.layer \in Layer /\ batch'.layer > 0
      BY <2>1, <2>2, <2>4, ShapeAssumption DEF Layer
    <3> QED  BY <1>2, <2>1, <2>2, <2>3, <3>1, <3>2 DEF Control, gpu, ran, PassNumber, Words
  <2>5. CASE ~(batch.layer + 1 < n_layers)
    <3>1. pc' = "idle" /\ text' = batch.toks
      BY <1>16, <2>5 DEF BatchAttend
    <3> QED  BY <1>2, <2>1, <2>2, <2>3, <3>1 DEF Control, gpu, ran, PassNumber, Words
  <2> QED  BY <2>4, <2>5
<1>17. CASE BatchFails
  <2>1. pc' = "idle" /\ UNCHANGED <<cached_logits, gpu, conv>>
    BY <1>17 DEF BatchFails
  <2>2. seq_len' = Len(text')
    BY <1>17 DEF BatchFails, Control
  <2>3. cached_logits' = NoPass
    BY <1>17 DEF BatchFails, Control
  <2> QED  BY <1>2, <2>1, <2>2, <2>3 DEF Control, gpu, ran, PassNumber, Words
<1> QED
  BY <1>3, <1>4, <1>5, <1>6, <1>7, <1>8, <1>9, <1>10, <1>11, <1>12, <1>13, <1>14, <1>15, <1>16,
     <1>17 DEF Next, Client, HostStep

-----------------------------------------------------------------------------
(* The positions of the passes in flight.                                  *)

(* Writing positions into the cached buffer leaves every pass a buffer     *)
(* that is long enough.                                                    *)
LEMMA BuffersSuffice ==
  ASSUME TypeOK, PositionsInPlace, NEW turn \in Vector, NEW n \in PassNumber
  PROVE  LET w == WithPositions(turn) IN
         /\ passes[n].buf \in DOMAIN w
         /\ Len(passes[n].toks) <= Len(w[passes[n].buf])
<1> DEFINE w == WithPositions(turn)
           b == passes[n].buf
<1>1. b \in 1..Len(rope_pos_buffer) /\ Len(passes[n].toks) <= Len(rope_pos_buffer[b])
  BY Typing DEF PositionsInPlace
<1>2. w \in Seq(Vector) /\ Len(rope_pos_buffer) <= Len(w)
      /\ Len(w[b]) = Len(rope_pos_buffer[b])
  BY <1>1, Typing, WithPositionsType
<1> HIDE DEF w, b
<1>3. b \in DOMAIN w /\ Len(passes[n].toks) <= Len(w[b])
  BY <1>1, <1>2 DEF TypeOK
<1> QED  BY <1>3 DEF w, b

(* Encoding a decode pass changes nothing for the decode passes in flight. *)
LEMMA DecodeKeepsPositions ==
  ASSUME TypeOK, PositionsInPlace, NEW n \in PassNumber, passes[n].turn = DecodePosition,
         SubSeq(rope_pos_buffer[passes[n].buf], 1, Len(passes[n].toks)) = passes[n].turn
  PROVE  SubSeq(WithPositions(DecodePosition)[passes[n].buf], 1, Len(passes[n].toks))
           = passes[n].turn
<1> DEFINE w == WithPositions(DecodePosition)
           b == passes[n].buf
<1>1. Len(passes[n].toks) = 1 /\ DecodePosition \in Vector /\ Len(DecodePosition) = 1
  BY VectorsType DEF PositionsInPlace
<1>2. /\ b \in 1..Len(rope_pos_buffer)
      /\ 1 <= Len(rope_pos_buffer[b]) /\ rope_pos_buffer[b] \in Vector
  <2>1. b \in DOMAIN rope_pos_buffer /\ Len(passes[n].toks) <= Len(rope_pos_buffer[b])
    BY DEF PositionsInPlace
  <2> HIDE DEF b
  <2> QED  BY <1>1, <2>1 DEF TypeOK
<1>3. /\ w \in Seq(Vector) /\ Len(w) \in Nat /\ Len(rope_pos_buffer) <= Len(w)
      /\ Len(w[b]) = Len(rope_pos_buffer[b])
      /\ b # Len(w) => w[b] = rope_pos_buffer[b]
      /\ w[Len(w)][1] = DecodePosition[1]
  <2>1. 1 \in 1..Len(DecodePosition) /\ rope_pos_buffer \in Seq(Vector)
    BY <1>1 DEF TypeOK
  <2>2. \A i \in 1..Len(DecodePosition) : w[Len(w)][i] = DecodePosition[i]
    BY <1>1, <2>1, WithPositionsType
  <2>3. /\ w \in Seq(Vector) /\ Len(w) \in Nat \ {0} /\ Len(rope_pos_buffer) <= Len(w)
        /\ \A c \in 1..Len(rope_pos_buffer) :
             /\ Len(w[c]) = Len(rope_pos_buffer[c])
             /\ c # Len(w) => w[c] = rope_pos_buffer[c]
    BY <1>1, <2>1, WithPositionsType
  <2> HIDE DEF w, b
  <2> QED  BY <1>2, <2>1, <2>2, <2>3
<1> HIDE DEF w, b
<1>4. w[b] \in Vector /\ 1 <= Len(w[b])
  BY <1>2, <1>3
<1>5. rope_pos_buffer[b][1] = DecodePosition[1]
  BY <1>1, <1>2, Prefix DEF b
<1>6. w[b][1] = DecodePosition[1]
  BY <1>3, <1>5
<1>7. SubSeq(w[b], 1, 1) = DecodePosition
  <2>1. /\ SubSeq(w[b], 1, 1) \in Vector /\ Len(SubSeq(w[b], 1, 1)) = 1
        /\ SubSeq(w[b], 1, 1)[1] = w[b][1]
    BY <1>4, Prefix
  <2> QED  BY <1>1, <1>6, <2>1, SeqEqual DEF Vector
<1> QED  BY <1>1, <1>7 DEF w, b

(* What a pass that is encoded finds in its buffer.                        *)
LEMMA NewPositions ==
  ASSUME TypeOK, NEW turn \in Vector
  PROVE  LET w == WithPositions(turn) IN
         /\ Len(w) \in DOMAIN w /\ Len(turn) <= Len(w[Len(w)])
         /\ SubSeq(w[Len(w)], 1, Len(turn)) = turn
<1> DEFINE w == WithPositions(turn)
           v == w[Len(w)]
<1>1. /\ w \in Seq(Vector) /\ Len(w) \in Nat \ {0}
      /\ Len(turn) <= Len(v) /\ \A i \in 1..Len(turn) : v[i] = turn[i]
  BY WithPositionsType DEF TypeOK
<1> HIDE DEF w
<1>2. v \in Vector /\ Len(turn) \in Nat
  BY <1>1 DEF Vector
<1> HIDE DEF v
<1>3. SubSeq(v, 1, Len(turn)) \in Vector /\ Len(SubSeq(v, 1, Len(turn))) = Len(turn)
      /\ \A i \in 1..Len(turn) : SubSeq(v, 1, Len(turn))[i] = v[i]
  BY <1>1, <1>2, Prefix
<1>4. SubSeq(v, 1, Len(turn)) = turn
  BY <1>1, <1>3, SeqEqual DEF Vector
<1> QED  BY <1>1, <1>4 DEF v, w

(* A step that neither writes positions nor begins, runs or ends a pass.   *)
LEMMA PositionsUntouched ==
  ASSUME PositionsInPlace, UNCHANGED <<rope_pos_buffer, passes, done, overtaken>>,
         pc = "prompt" => pc' = "prompt" \/ done = Len(passes)
  PROVE  PositionsInPlace'
<1>1. InFlight' = InFlight /\ PassNumber' = PassNumber
  BY DEF InFlight, PassNumber
<1>2. pc = "prompt" /\ pc' # "prompt" => InFlight = {}
  <2>1. ASSUME done = Len(passes), NEW n \in InFlight
        PROVE  FALSE
    BY <2>1 DEF InFlight
  <2> QED  BY <2>1
<1> QED  BY <1>1, <1>2 DEF PositionsInPlace

(* A pass joins the others, which stay as they are.                        *)
LEMMA PositionsWithNew ==
  ASSUME NEW n, PassNumber' = PassNumber \cup {n}, InFlight' = InFlight \cup {n},
         \A m \in PassNumber : passes'[m] = passes[m], InFlight \subseteq PassNumber,
         Len(passes'[n].turn) = Len(passes'[n].toks),
         passes'[n].buf \in DOMAIN rope_pos_buffer',
         Len(passes'[n].toks) <= Len(rope_pos_buffer'[passes'[n].buf]),
         passes'[n].turned \subseteq {passes'[n].turn},
         SubSeq(rope_pos_buffer'[passes'[n].buf], 1, Len(passes'[n].toks)) = passes'[n].turn,
         passes'[n].turn = DecodePosition \/ (pc' = "prompt" /\ n = Len(passes')),
         \A m \in PassNumber :
           /\ Len(passes[m].turn) = Len(passes[m].toks)
           /\ passes[m].buf \in DOMAIN rope_pos_buffer'
           /\ Len(passes[m].toks) <= Len(rope_pos_buffer'[passes[m].buf])
           /\ m \notin overtaken' => passes[m].turned \subseteq {passes[m].turn},
         \A m \in InFlight :
           /\ passes[m].turn = DecodePosition
           /\ m \notin overtaken' =>
                SubSeq(rope_pos_buffer'[passes[m].buf], 1, Len(passes[m].toks)) = passes[m].turn
  PROVE  PositionsInPlace'
<1>1. ASSUME NEW m \in PassNumber'
      PROVE  /\ Len(passes'[m].turn) = Len(passes'[m].toks)
             /\ passes'[m].buf \in DOMAIN rope_pos_buffer'
             /\ Len(passes'[m].toks) <= Len(rope_pos_buffer'[passes'[m].buf])
             /\ m \notin overtaken' => passes'[m].turned \subseteq {passes'[m].turn}
  <2>1. CASE m = n
    BY <2>1
  <2>2. CASE m \in PassNumber
    BY <2>2
  <2> QED  BY <2>1, <2>2
<1>2. ASSUME NEW m \in InFlight'
      PROVE  /\ passes'[m].turn = DecodePosition \/ (pc' = "prompt" /\ m = Len(passes'))
             /\ m \notin overtaken' =>
                  SubSeq(rope_pos_buffer'[passes'[m].buf], 1, Len(passes'[m].toks))
                    = passes'[m].turn
  <2>1. CASE m = n
    BY <2>1
  <2>2. CASE m \in InFlight
    <3>1. passes'[m] = passes[m]
      BY <2>2
    <3> QED  BY <2>2, <3>1
  <2> QED  BY <2>1, <2>2
<1>3. DecodePosition' = DecodePosition
  BY DEF DecodePosition
<1> QED  BY <1>1, <1>2, <1>3 DEF PositionsInPlace

(* Every step leaves the passes in flight their positions.                 *)
LEMMA PositionsStep ==
  ASSUME TypeOK, Control, PositionsInPlace, [Next]_vars
  PROVE  PositionsInPlace'
<1>1. CASE RunGpu
  <2> DEFINE n == done + 1
  <2>1. /\ n \in PassNumber /\ Len(passes') = Len(passes)
        /\ passes'[n].turned \subseteq
             passes[n].turned
               \cup {SubSeq(rope_pos_buffer[passes[n].buf], 1, Len(passes[n].toks))}
        /\ \A m \in PassNumber : m # n => passes'[m] = passes[m]
        /\ done' = done \/ done' = n
        /\ UNCHANGED <<host, history>>
    BY <1>1, GpuRun
  <2>2. PassNumber' = PassNumber /\ InFlight' \subseteq InFlight
    BY <2>1 DEF PassNumber, InFlight, TypeOK
  <2>3. n \in InFlight
    BY <2>1 DEF InFlight, PassNumber, TypeOK
  <2>4. UNCHANGED <<pc, rope_pos_buffer, overtaken>>
    BY <2>1 DEF host, history
  <2>5. n \notin overtaken => passes'[n].turned \subseteq {passes[n].turn}
    BY <2>1, <2>3 DEF PositionsInPlace
  <2>6. \A m \in PassNumber :
          /\ passes'[m].toks = passes[m].toks /\ passes'[m].buf = passes[m].buf
          /\ passes'[m].turn = passes[m].turn
    BY PassesKept
  <2>7. \A m \in PassNumber : m \notin overtaken => passes'[m].turned \subseteq {passes[m].turn}
    BY <2>1, <2>5 DEF PositionsInPlace
  <2> HIDE DEF n
  <2>8. InFlight \subseteq PassNumber
    BY DEF InFlight, PassNumber, TypeOK
  <2>9. \A m \in InFlight' :
          /\ passes[m].turn = DecodePosition \/ (pc = "prompt" /\ m = Len(passes))
          /\ m \notin overtaken =>
               SubSeq(rope_pos_buffer[passes[m].buf], 1, Len(passes[m].toks)) = passes[m].turn
    BY <2>2 DEF PositionsInPlace
  <2>10. \A m \in InFlight' :
           /\ passes'[m].turn = DecodePosition \/ (pc' = "prompt" /\ m = Len(passes'))
           /\ m \notin overtaken' =>
                SubSeq(rope_pos_buffer'[passes'[m].buf], 1, Len(passes'[m].toks))
                  = passes'[m].turn
    <3>1. \A m \in InFlight' : m \in PassNumber
      BY <2>2, <2>8
    <3> QED  BY <2>1, <2>4, <2>6, <2>9, <3>1
  <2>11. \A m \in PassNumber' :
           /\ Len(passes'[m].turn) = Len(passes'[m].toks)
           /\ passes'[m].buf \in DOMAIN rope_pos_buffer'
           /\ Len(passes'[m].toks) <= Len(rope_pos_buffer'[passes'[m].buf])
           /\ m \notin overtaken' => passes'[m].turned \subseteq {passes'[m].turn}
    <3>1. \A m \in PassNumber :
            /\ Len(passes[m].turn) = Len(passes[m].toks)
            /\ passes[m].buf \in DOMAIN rope_pos_buffer
            /\ Len(passes[m].toks) <= Len(rope_pos_buffer[passes[m].buf])
      BY DEF PositionsInPlace
    <3> QED  BY <2>2, <2>4, <2>6, <2>7, <3>1
  <2> QED  BY <2>10, <2>11 DEF PositionsInPlace
<1>2. ASSUME NEW turn \in Vector, rope_pos_buffer' = WithPositions(turn),
             NEW n \in PassNumber
      PROVE  /\ Len(passes[n].turn) = Len(passes[n].toks)
             /\ passes[n].buf \in DOMAIN rope_pos_buffer'
             /\ Len(passes[n].toks) <= Len(rope_pos_buffer'[passes[n].buf])
             /\ n \notin overtaken => passes[n].turned \subseteq {passes[n].turn}
  BY <1>2, BuffersSuffice DEF PositionsInPlace
<1>3. ASSUME NEW turn \in Vector, rope_pos_buffer' = WithPositions(turn),
             NEW toks \in Vector, Len(toks) = Len(turn),
             passes' = Append(passes, NewPass(toks, turn)), UNCHANGED done
      PROVE  LET n == Len(passes) + 1 IN
             /\ PassNumber' = PassNumber \cup {n} /\ InFlight' = InFlight \cup {n}
             /\ \A m \in PassNumber : passes'[m] = passes[m]
             /\ passes'[n].turn = turn
             /\ Len(passes'[n].turn) = Len(passes'[n].toks)
             /\ passes'[n].buf \in DOMAIN rope_pos_buffer'
             /\ Len(passes'[n].toks) <= Len(rope_pos_buffer'[passes'[n].buf])
             /\ passes'[n].turned \subseteq {passes'[n].turn}
             /\ SubSeq(rope_pos_buffer'[passes'[n].buf], 1, Len(passes'[n].toks))
                  = passes'[n].turn
  <2> DEFINE q == NewPass(toks, turn)
  <2>1. /\ q \in Pass /\ q.toks = toks /\ q.turn = turn /\ q.turned = {}
        /\ q.buf = Len(rope_pos_buffer')
    BY <1>3, NewPassType
  <2>2. /\ Len(passes') = Len(passes) + 1 /\ passes'[Len(passes) + 1] = q
        /\ \A m \in PassNumber : passes'[m] = passes[m]
    BY <1>3, <2>1, Committed
  <2> HIDE DEF q
  <2>3. PassNumber' = PassNumber \cup {Len(passes) + 1}
    <3>1. Len(passes) \in Nat /\ Len(passes') = Len(passes) + 1
      BY <2>2 DEF TypeOK
    <3> QED  BY <3>1 DEF PassNumber
  <2>4. InFlight' = InFlight \cup {Len(passes) + 1}
    BY <1>3, <2>2 DEF InFlight, TypeOK
  <2>5. /\ Len(rope_pos_buffer') \in DOMAIN rope_pos_buffer'
        /\ Len(turn) <= Len(rope_pos_buffer'[Len(rope_pos_buffer')])
        /\ SubSeq(rope_pos_buffer'[Len(rope_pos_buffer')], 1, Len(turn)) = turn
    BY <1>3, NewPositions
  <2> QED  BY <1>3, <2>1, <2>2, <2>3, <2>4, <2>5
<1>4. InFlight \subseteq PassNumber /\ Len(passes) + 1 \notin PassNumber
  BY DEF InFlight, PassNumber, TypeOK
<1>5. CASE Submit
  <2>1. DecodePosition \in Vector /\ NextTokens(1) \in Vector
        /\ Len(NextTokens(1)) = Len(DecodePosition)
    BY VectorsType
  <2>2. /\ rope_pos_buffer' = WithPositions(DecodePosition)
        /\ passes' = Append(passes, NewPass(NextTokens(1), DecodePosition))
        /\ UNCHANGED <<done, overtaken>> /\ pc = "encode"
    BY <1>5 DEF Submit, ran
  <2>3. \A n \in InFlight :
          /\ passes[n].turn = DecodePosition
          /\ n \notin overtaken =>
               SubSeq(rope_pos_buffer'[passes[n].buf], 1, Len(passes[n].toks)) = passes[n].turn
    <3> SUFFICES ASSUME NEW n \in InFlight
                 PROVE  /\ passes[n].turn = DecodePosition
                        /\ n \notin overtaken =>
                             SubSeq(rope_pos_buffer'[passes[n].buf], 1, Len(passes[n].toks))
                               = passes[n].turn
      OBVIOUS
    <3>1. passes[n].turn = DecodePosition
      BY <2>2 DEF PositionsInPlace
    <3>2. n \notin overtaken =>
            SubSeq(rope_pos_buffer[passes[n].buf], 1, Len(passes[n].toks)) = passes[n].turn
      BY DEF PositionsInPlace
    <3> QED  BY <1>4, <2>2, <3>1, <3>2, DecodeKeepsPositions
  <2> DEFINE n == Len(passes) + 1
  <2>5. /\ PassNumber' = PassNumber \cup {n} /\ InFlight' = InFlight \cup {n}
        /\ \A m \in PassNumber : passes'[m] = passes[m]
        /\ passes'[n].turn = DecodePosition
        /\ Len(passes'[n].turn) = Len(passes'[n].toks)
        /\ passes'[n].buf \in DOMAIN rope_pos_buffer'
        /\ Len(passes'[n].toks) <= Len(rope_pos_buffer'[passes'[n].buf])
        /\ passes'[n].turned \subseteq {passes'[n].turn}
        /\ SubSeq(rope_pos_buffer'[passes'[n].buf], 1, Len(passes'[n].toks))
             = passes'[n].turn
    BY <1>3, <2>1, <2>2
  <2>6. \A m \in PassNumber :
          /\ Len(passes[m].turn) = Len(passes[m].toks)
          /\ passes[m].buf \in DOMAIN rope_pos_buffer'
          /\ Len(passes[m].toks) <= Len(rope_pos_buffer'[passes[m].buf])
          /\ m \notin overtaken => passes[m].turned \subseteq {passes[m].turn}
    BY <1>2, <2>1, <2>2
  <2> HIDE DEF n
  <2>7. overtaken' = overtaken
    BY <2>2
  <2> QED  BY <1>4, <2>3, <2>5, <2>6, <2>7, PositionsWithNew
<1>6. CASE SubmitFails
  <2>1. UNCHANGED <<passes, done, overtaken>> /\ pc = "encode"
    BY <1>6 DEF SubmitFails, gpu, ran
  <2>2. CASE rope_pos_buffer' = rope_pos_buffer
    BY <2>1, <2>2, PositionsUntouched
  <2>3. CASE rope_pos_buffer' = WithPositions(DecodePosition)
    <3>1. DecodePosition \in Vector
      BY VectorsType
    <3>2. \A n \in InFlight :
            /\ passes[n].turn = DecodePosition
            /\ n \notin overtaken =>
                 SubSeq(rope_pos_buffer'[passes[n].buf], 1, Len(passes[n].toks)) = passes[n].turn
      BY <1>4, <2>1, <2>3, DecodeKeepsPositions DEF PositionsInPlace
    <3>3. DecodePosition' = DecodePosition /\ InFlight' = InFlight /\ PassNumber' = PassNumber
      BY <2>1 DEF DecodePosition, InFlight, PassNumber
    <3> QED  BY <1>2, <2>1, <2>3, <3>1, <3>2, <3>3 DEF PositionsInPlace
  <2> QED  BY <1>6, <2>2, <2>3 DEF SubmitFails
<1>7. ASSUME NEW k \in PromptLen, EncodePrompt(k)
      PROVE  /\ PromptPositions(k) \in Vector /\ NextTokens(k) \in Vector
             /\ Len(NextTokens(k)) = Len(PromptPositions(k))
             /\ rope_pos_buffer' = WithPositions(PromptPositions(k))
             /\ pc = "idle"
             /\ \A n \in InFlight : passes[n].turn = DecodePosition /\ n \in overtaken'
             /\ overtaken \subseteq overtaken'
             /\ DecodePosition' = DecodePosition
  BY <1>7, VectorsType, ClientAssumption DEF EncodePrompt, PositionsInPlace, DecodePosition
<1>8. ASSUME NEW k \in PromptLen, CallPrompt(k)
      PROVE  PositionsInPlace'
  <2>1. /\ passes' = Append(passes, NewPass(NextTokens(k), PromptPositions(k)))
        /\ UNCHANGED done /\ EncodePrompt(k) /\ pc' = "prompt"
    BY <1>8 DEF CallPrompt, ran
  <2>2. Len(passes') = Len(passes) + 1
    BY <2>1 DEF TypeOK
  <2> DEFINE n == Len(passes) + 1
             turn == PromptPositions(k)
  <2>3. /\ turn \in Vector /\ NextTokens(k) \in Vector /\ Len(NextTokens(k)) = Len(turn)
        /\ rope_pos_buffer' = WithPositions(turn)
        /\ \A m \in InFlight : passes[m].turn = DecodePosition /\ m \in overtaken'
        /\ overtaken \subseteq overtaken'
        /\ DecodePosition' = DecodePosition
    BY <1>7, <2>1
  <2>4. /\ PassNumber' = PassNumber \cup {n} /\ InFlight' = InFlight \cup {n}
        /\ \A m \in PassNumber : passes'[m] = passes[m]
        /\ passes'[n].turn = turn
        /\ Len(passes'[n].turn) = Len(passes'[n].toks)
        /\ passes'[n].buf \in DOMAIN rope_pos_buffer'
        /\ Len(passes'[n].toks) <= Len(rope_pos_buffer'[passes'[n].buf])
        /\ passes'[n].turned \subseteq {passes'[n].turn}
        /\ SubSeq(rope_pos_buffer'[passes'[n].buf], 1, Len(passes'[n].toks))
             = passes'[n].turn
    BY <1>3, <2>1, <2>3
  <2>5. n = Len(passes')
    BY <2>2
  <2> HIDE DEF n, turn
  <2>6. \A m \in PassNumber :
          /\ Len(passes[m].turn) = Len(passes[m].toks)
          /\ passes[m].buf \in DOMAIN rope_pos_buffer'
          /\ Len(passes[m].toks) <= Len(rope_pos_buffer'[passes[m].buf])
          /\ m \notin overtaken => passes[m].turned \subseteq {passes[m].turn}
    BY <1>2, <2>3
  <2> QED  BY <1>4, <2>1, <2>3, <2>4, <2>5, <2>6, PositionsWithNew
<1>9. ASSUME NEW k \in PromptLen, CallPromptFails(k)
      PROVE  PositionsInPlace'
  <2>1. UNCHANGED <<passes, done>> /\ EncodePrompt(k)
    BY <1>9 DEF CallPromptFails, gpu, ran
  <2>2. InFlight' = InFlight /\ PassNumber' = PassNumber
    BY <2>1 DEF InFlight, PassNumber
  <2> QED  BY <1>2, <1>7, <2>1, <2>2 DEF PositionsInPlace
<1>10. CASE PromptDone
  BY <1>10, PositionsUntouched DEF PromptDone, gpu, ran
<1>11. CASE UNCHANGED vars
  BY <1>11, PositionsUntouched DEF vars, host, gpu, ran, history
<1>12. CASE CallDecode \/ WaitOldest \/ SkipWait \/ Clear
  BY <1>12, PositionsUntouched DEF CallDecode, WaitOldest, SkipWait, Clear, gpu, ran, history
<1>13. ASSUME NEW k \in PromptLen, CallBatch(k)
       PROVE  PositionsInPlace'
  BY <1>13, PositionsUntouched DEF CallBatch, gpu, ran
<1>14. CASE BatchWrite \/ BatchAttend \/ BatchFails
  <2>1. pc # "prompt" /\ UNCHANGED <<rope_pos_buffer, passes, done, overtaken>>
    BY <1>14 DEF BatchWrite, BatchAttend, BatchFails, gpu, ran
  <2> QED  BY <2>1, PositionsUntouched
<1> QED
  BY <1>1, <1>5, <1>6, <1>8, <1>9, <1>10, <1>11, <1>12, <1>13, <1>14 DEF Next, Client, HostStep

-----------------------------------------------------------------------------
(* The answers.                                                            *)

(* The pipeline is popped at the end where its oldest pass is ...          *)
LEMMA OldestPop ==
  ASSUME NEW S, NEW s \in Seq(S), s # <<>>
  PROVE  LET front == SubSeq(s, 1, Len(s) - 1) IN
         /\ front \in Seq(S)
         /\ Oldest(s) = <<s[Len(s)]>> \o Oldest(front)
<1> DEFINE front == SubSeq(s, 1, Len(s) - 1)
<1>1. Len(s) \in Nat \ {0}
  OBVIOUS
<1>2. /\ front \in Seq(S) /\ Len(front) = Len(s) - 1
      /\ \A i \in 1..(Len(s) - 1) : front[i] = s[i]
  <2>1. Len(s) - 1 \in Nat /\ Len(s) - 1 <= Len(s)
    BY <1>1
  <2> QED  BY <2>1, PrefixOfSeq
<1> HIDE DEF front
<1>3. Oldest(s) \in Seq(S) /\ Len(Oldest(s)) = Len(s)
  BY <1>1 DEF Oldest
<1>4. Oldest(front) \in Seq(S) /\ Len(Oldest(front)) = Len(s) - 1
  BY <1>1, <1>2 DEF Oldest
<1>5. \A i \in 1..(Len(s) - 1) : Oldest(front)[i] = s[Len(s) - i]
  BY <1>1, <1>2 DEF Oldest
<1>6. \A i \in 1..Len(s) : Oldest(s)[i] = s[Len(s) + 1 - i]
  BY <1>1 DEF Oldest
<1> DEFINE t == <<s[Len(s)]>> \o Oldest(front)
<1>7. t \in Seq(S) /\ Len(t) = Len(s)
  BY <1>1, <1>4
<1>8. \A i \in 1..Len(s) : t[i] = IF i = 1 THEN s[Len(s)] ELSE Oldest(front)[i - 1]
  BY <1>1, <1>4
<1>9. \A i \in 1..Len(s) : Oldest(s)[i] = t[i]
  <2> SUFFICES ASSUME NEW i \in 1..Len(s) PROVE Oldest(s)[i] = t[i]
    OBVIOUS
  <2> HIDE DEF t
  <2>1. CASE i = 1
    BY <1>1, <1>6, <1>8, <2>1
  <2>2. CASE i # 1
    <3>1. i - 1 \in 1..(Len(s) - 1) /\ Len(s) - (i - 1) = Len(s) + 1 - i
      BY <1>1, <2>2
    <3> QED  BY <1>5, <1>6, <1>8, <2>2, <3>1
  <2> QED  BY <2>1, <2>2
<1> HIDE DEF t
<1>10. Oldest(s) = t
  BY <1>3, <1>7, <1>9, SeqEqual
<1> QED  BY <1>2, <1>10 DEF t, front

(* ... and filled at the other.                                            *)
LEMMA OldestPush ==
  ASSUME NEW S, NEW s \in Seq(S), NEW x \in S
  PROVE  /\ Oldest(<<x>> \o s) = Oldest(s) \o <<x>>
         /\ Oldest(s) \in Seq(S)
<1> DEFINE u == <<x>> \o s
           t == Oldest(s) \o <<x>>
<1>1. Len(s) \in Nat
  OBVIOUS
<1>2. u \in Seq(S) /\ Len(u) = Len(s) + 1
  BY <1>1
<1>3. \A i \in 1..(Len(s) + 1) : u[i] = IF i = 1 THEN x ELSE s[i - 1]
  BY <1>1
<1>4. /\ Oldest(s) \in Seq(S) /\ Len(Oldest(s)) = Len(s)
      /\ \A i \in 1..Len(s) : Oldest(s)[i] = s[Len(s) + 1 - i]
  BY <1>1 DEF Oldest
<1>5. t \in Seq(S) /\ Len(t) = Len(s) + 1
  BY <1>1, <1>4
<1>6. \A i \in 1..(Len(s) + 1) : t[i] = IF i = Len(s) + 1 THEN x ELSE Oldest(s)[i]
  BY <1>1, <1>4
<1> HIDE DEF u, t
<1>7. /\ Oldest(u) \in Seq(S) /\ Len(Oldest(u)) = Len(s) + 1
      /\ \A i \in 1..(Len(s) + 1) : Oldest(u)[i] = u[Len(s) + 2 - i]
  BY <1>1, <1>2 DEF Oldest
<1>8. \A i \in 1..(Len(s) + 1) : Oldest(u)[i] = t[i]
  <2> SUFFICES ASSUME NEW i \in 1..(Len(s) + 1) PROVE Oldest(u)[i] = t[i]
    OBVIOUS
  <2>1. CASE i = Len(s) + 1
    <3>1. Len(s) + 2 - i = 1
      BY <1>1, <2>1
    <3> QED  BY <1>1, <1>3, <1>6, <1>7, <2>1, <3>1
  <2>2. CASE i # Len(s) + 1
    <3>1. /\ Len(s) + 2 - i \in 1..(Len(s) + 1) /\ Len(s) + 2 - i # 1 /\ i \in 1..Len(s)
          /\ Len(s) + 2 - i - 1 = Len(s) + 1 - i
      BY <1>1, <2>2
    <3>2. Oldest(u)[i] = s[Len(s) + 1 - i]
      <4> DEFINE j == Len(s) + 2 - i
      <4>1. j \in 1..(Len(s) + 1) /\ j # 1 /\ j - 1 = Len(s) + 1 - i
        BY <3>1
      <4>2. Oldest(u)[i] = u[j]
        BY <1>7
      <4> HIDE DEF j
      <4> QED  BY <1>3, <4>1, <4>2
    <3>3. t[i] = s[Len(s) + 1 - i]
      BY <1>4, <1>6, <2>2, <3>1
    <3> QED  BY <3>2, <3>3
  <2> QED  BY <2>1, <2>2
<1>9. Oldest(u) = t
  BY <1>5, <1>7, <1>8, SeqEqual
<1> QED  BY <1>4, <1>9 DEF u, t

(* Answers name passes.                                                    *)
LEMMA HandedPasses ==
  ASSUME NEW S, NEW h \in Seq([pass : S, conv : Nat])
  PROVE  /\ Len(h) \in Nat /\ DOMAIN h = 1..Len(h)
         /\ \A i \in 1..Len(h) : h[i].pass \in S
<1>1. \A i \in 1..Len(h) : h[i] \in [pass : S, conv : Nat]
  BY ElementOfSeq
<1>2. \A r \in [pass : S, conv : Nat] : r.pass \in S
  OBVIOUS
<1> QED  BY <1>1, <1>2

(* The logits held become an answer.                                       *)
LEMMA ReturnAnswers ==
  ASSUME TypeOK, Return
  PROVE  /\ Answers \in Seq(PassNumber) /\ Held \in Seq(PassNumber)
         /\ Answers' = Answers \o Held /\ Held' = <<>>
<1>1. Held' = <<>>
  BY DEF Return, Held
<1>2. /\ Len(handed) \in Nat
      /\ \A i \in 1..Len(handed) : handed[i].pass \in PassNumber
  BY HandedPasses DEF TypeOK
<1>3. /\ Answers \in Seq(PassNumber) /\ Len(Answers) = Len(handed)
      /\ \A i \in 1..Len(handed) : Answers[i] = handed[i].pass
  BY <1>2 DEF Answers
<1>4. Held \in Seq(PassNumber)
  BY DEF Held, TypeOK
<1>5. CASE cached_logits = NoPass
  <2>1. handed' = handed /\ Held = <<>>
    BY <1>5 DEF Return, Held
  <2>2. Answers' = Answers
    BY <2>1 DEF Answers
  <2> QED  BY <1>1, <1>3, <1>4, <2>1, <2>2, ConcatEmptySeq
<1>6. CASE cached_logits # NoPass
  <2> DEFINE a == [pass |-> cached_logits, conv |-> conv]
  <2>1. handed' = Append(handed, a) /\ Held = <<cached_logits>> /\ cached_logits \in PassNumber
    BY <1>6 DEF Return, Held, TypeOK
  <2>2. a.pass = cached_logits
    OBVIOUS
  <2> HIDE DEF a
  <2>3. /\ Len(handed') = Len(handed) + 1
        /\ \A i \in 1..(Len(handed) + 1) : handed'[i] = IF i = Len(handed) + 1 THEN a ELSE handed[i]
    BY <1>2, <2>1 DEF TypeOK
  <2>4. /\ Answers' \in Seq(PassNumber) /\ Len(Answers') = Len(handed) + 1
        /\ \A i \in 1..(Len(handed) + 1) : Answers'[i] = handed'[i].pass
    <3>1. \A i \in 1..(Len(handed) + 1) : handed'[i].pass \in PassNumber
      BY <1>2, <2>1, <2>2, <2>3
    <3> QED  BY <1>2, <2>3, <3>1 DEF Answers
  <2> DEFINE t == Answers \o Held
  <2>5. /\ t \in Seq(PassNumber) /\ Len(t) = Len(handed) + 1
        /\ \A i \in 1..(Len(handed) + 1) :
             t[i] = IF i = Len(handed) + 1 THEN cached_logits ELSE Answers[i]
    BY <1>2, <1>3, <2>1
  <2> HIDE DEF t
  <2>6. \A i \in 1..(Len(handed) + 1) : Answers'[i] = t[i]
    BY <1>2, <1>3, <2>2, <2>3, <2>4, <2>5
  <2>7. Answers' = t
    BY <2>4, <2>5, <2>6, SeqEqual
  <2> QED  BY <1>1, <1>3, <1>4, <2>7 DEF t
<1> QED  BY <1>5, <1>6

(* Answers are read when their pass has completed.                         *)
ReadWhenDone ==
  /\ \A i \in DOMAIN handed : handed[i].pass \in 1..done
  /\ cached_logits \in 1..done \cup {NoPass}

(* The two forms of the condition agree.                                   *)
LEMMA ReadWhenDoneEquiv ==
  ASSUME TypeOK
  PROVE  ReadWhenDone <=>
           \A n \in PassNumber :
             n \in {handed[i].pass : i \in DOMAIN handed} \/ n = cached_logits => n \in 1..done
<1>1. \A i \in DOMAIN handed : handed[i].pass \in PassNumber
  BY HandedPasses DEF TypeOK
<1>2. cached_logits \in PassNumber \cup {NoPass} /\ NoPass \notin PassNumber
  BY DEF TypeOK, NoPass, PassNumber
<1>3. 1..done \subseteq PassNumber
  BY DEF TypeOK, PassNumber
<1> QED  BY <1>1, <1>2, <1>3 DEF ReadWhenDone

(* Returning an answer keeps that.                                         *)
LEMMA ReturnReadWhenDone ==
  ASSUME TypeOK, ReadWhenDone, Return, UNCHANGED done
  PROVE  ReadWhenDone'
<1>1. cached_logits' = NoPass
  BY DEF Return
<1>2. CASE cached_logits = NoPass
  BY <1>1, <1>2 DEF Return, ReadWhenDone
<1>3. CASE cached_logits # NoPass
  <2> DEFINE a == [pass |-> cached_logits, conv |-> conv]
  <2>1. handed' = Append(handed, a) /\ a.pass \in 1..done
    BY <1>3 DEF Return, ReadWhenDone
  <2> HIDE DEF a
  <2>2. /\ Len(handed) \in Nat /\ DOMAIN handed = 1..Len(handed)
        /\ DOMAIN handed' = 1..(Len(handed) + 1)
        /\ \A i \in 1..(Len(handed) + 1) : handed'[i] = IF i = Len(handed) + 1 THEN a ELSE handed[i]
    BY <2>1 DEF TypeOK
  <2>3. \A i \in DOMAIN handed' : handed'[i].pass \in 1..done
    <3> SUFFICES ASSUME NEW i \in DOMAIN handed' PROVE handed'[i].pass \in 1..done
      OBVIOUS
    <3>1. CASE i = Len(handed) + 1
      BY <2>1, <2>2, <3>1
    <3>2. CASE i # Len(handed) + 1
      <4>1. i \in DOMAIN handed /\ handed'[i] = handed[i]
        BY <2>2, <3>2
      <4> QED  BY <4>1 DEF ReadWhenDone
    <3> QED  BY <3>1, <3>2
  <2> QED  BY <1>1, <2>3 DEF ReadWhenDone
<1> QED  BY <1>2, <1>3

(* Every step keeps the answers in order.                                  *)
LEMMA AnswersStep ==
  ASSUME TypeOK, TypeOK', Control, PositionsInPlace, AnswersInOrder, [Next]_vars
  PROVE  AnswersInOrder'
<1> DEFINE Ordered == submitted = Answers \o Held \o Oldest(pending_cbs)
<1>1. Ordered /\ ReadWhenDone
  BY ReadWhenDoneEquiv DEF AnswersInOrder
<1>2. SUFFICES Ordered' /\ ReadWhenDone'
  <2>1. ReadWhenDone' <=>
           \A n \in PassNumber' :
             n \in {handed'[i].pass : i \in DOMAIN handed'} \/ n = cached_logits' => n \in 1..done'
    <3>1. \A i \in DOMAIN handed' : handed'[i].pass \in PassNumber'
      BY HandedPasses DEF TypeOK
    <3>2. cached_logits' \in PassNumber' \cup {NoPass} /\ NoPass \notin PassNumber'
      BY DEF TypeOK, NoPass, PassNumber
    <3>3. 1..done' \subseteq PassNumber'
      BY DEF TypeOK, PassNumber
    <3> QED  BY <3>1, <3>2, <3>3 DEF ReadWhenDone, NoPass
  <2> QED  BY <2>1 DEF AnswersInOrder
<1>3. CASE UNCHANGED <<submitted, handed, cached_logits, pending_cbs>> /\ done <= done'
  <2>1. Ordered'
    BY <1>1, <1>3 DEF Answers, Held, Oldest
  <2>2. ReadWhenDone'
    <3>1. 1..done \subseteq 1..done'
      BY <1>3 DEF TypeOK
    <3> QED  BY <1>1, <1>3, <3>1 DEF ReadWhenDone
  <2> QED  BY <2>1, <2>2
<1>4. CASE WaitOldest
  <2> DEFINE n == pending_cbs[Len(pending_cbs)]
             front == SubSeq(pending_cbs, 1, Len(pending_cbs) - 1)
  <2>1. /\ pending_cbs # <<>> /\ n <= done /\ pending_cbs' = front
        /\ cached_logits' = n /\ cached_logits = NoPass /\ UNCHANGED <<handed, submitted, done>>
    BY <1>4 DEF WaitOldest, Control, gpu, ran, history
  <2>2. pending_cbs \in Seq(PassNumber) /\ n \in PassNumber
    <3>1. pending_cbs \in Seq(PassNumber) /\ Len(pending_cbs) \in Nat
      BY Typing
    <3>2. Len(pending_cbs) \in 1..Len(pending_cbs)
      BY <2>1, <3>1
    <3> QED  BY <3>1, <3>2, ElementOfSeq
  <2>3. front \in Seq(PassNumber) /\ Oldest(pending_cbs) = <<n>> \o Oldest(front)
    BY <2>1, <2>2, OldestPop
  <2>4. n # NoPass /\ n \in 1..done
    <3>1. n \in Nat \ {0} /\ n <= done /\ done \in Nat
      BY <2>1, <2>2, Typing
    <3> QED  BY <3>1 DEF NoPass
  <2>5. Held = <<>> /\ Held' = <<n>> /\ Answers' = Answers
    BY <2>1, <2>4 DEF Held, Answers
  <2>6. Answers \in Seq(PassNumber) /\ Oldest(front) \in Seq(PassNumber)
    <3>1. Answers \in Seq(PassNumber)
      <4>1. \A i \in 1..Len(handed) : handed[i].pass \in PassNumber
        BY HandedPasses DEF TypeOK
      <4> QED  BY <4>1 DEF Answers, TypeOK
    <3>2. Oldest(front) \in Seq(PassNumber)
      <4> HIDE DEF front
      <4> QED  BY <2>2, <2>3, OldestPush
    <3> QED  BY <3>1, <3>2
  <2> HIDE DEF n, front
  <2>7. Answers \o Held \o Oldest(pending_cbs) = Answers \o Held' \o Oldest(front)
    <3>1. Answers \o Held = Answers
      BY <2>5, <2>6, ConcatEmptySeq
    <3>2. <<n>> \in Seq(PassNumber)
      BY <2>2
    <3>3. (Answers \o <<n>>) \o Oldest(front) = Answers \o (<<n>> \o Oldest(front))
      BY <2>6, <3>2, ConcatAssociative
    <3> QED  BY <2>3, <2>5, <3>1, <3>3
  <2>8. Ordered'
    <3>1. Oldest(pending_cbs)' = Oldest(front)
      BY <2>1 DEF Oldest
    <3> QED  BY <1>1, <2>1, <2>5, <2>7, <3>1
  <2>9. ReadWhenDone'
    BY <1>1, <2>1, <2>4 DEF ReadWhenDone
  <2> QED  BY <2>8, <2>9
<1>5. CASE Submit
  <2> DEFINE n == Len(passes) + 1
  <2>1. /\ Return /\ pending_cbs' = <<n>> \o pending_cbs /\ submitted' = Append(submitted, n)
        /\ UNCHANGED done
    BY <1>5 DEF Submit, ran
  <2>2. PassNumber \subseteq PassNumber' /\ n \in PassNumber'
    <3>1. NewPass(NextTokens(1), DecodePosition) \in Pass
      BY VectorsType, NewPassType
    <3>2. Len(passes') = Len(passes) + 1
      BY <1>5, <3>1, Committed DEF Submit
    <3>3. Len(passes) \in Nat
      BY DEF TypeOK
    <3> QED  BY <3>2, <3>3 DEF PassNumber
  <2> HIDE DEF n
  <2>3. pending_cbs \in Seq(PassNumber') /\ submitted \in Seq(PassNumber')
    BY <2>2, SeqMonotonic DEF TypeOK
  <2>4. /\ Oldest(<<n>> \o pending_cbs) = Oldest(pending_cbs) \o <<n>>
        /\ Oldest(pending_cbs) \in Seq(PassNumber')
    BY <2>2, <2>3, OldestPush
  <2>5. Oldest(pending_cbs)' = Oldest(pending_cbs) \o <<n>>
    BY <2>1, <2>4 DEF Oldest
  <2>6. /\ Answers \o Held \in Seq(PassNumber') /\ Answers' = Answers \o Held /\ Held' = <<>>
    <3>1. /\ Answers \in Seq(PassNumber) /\ Held \in Seq(PassNumber)
          /\ Answers' = Answers \o Held /\ Held' = <<>>
      BY <2>1, ReturnAnswers
    <3>2. Answers \in Seq(PassNumber') /\ Held \in Seq(PassNumber')
      BY <2>2, <3>1, SeqMonotonic
    <3> QED  BY <3>1, <3>2, ConcatProperties
  <2>7. submitted' = submitted \o <<n>> /\ <<n>> \in Seq(PassNumber')
    BY <2>1, <2>2, <2>3, AppendIsConcat
  <2>8. Ordered'
    <3>1. ((Answers \o Held) \o Oldest(pending_cbs)) \o <<n>>
            = (Answers \o Held) \o (Oldest(pending_cbs) \o <<n>>)
      <4> DEFINE S == PassNumber'
                 u == Answers \o Held
                 v == Oldest(pending_cbs)
                 w == <<n>>
      <4>1. u \in Seq(S) /\ v \in Seq(S) /\ w \in Seq(S)
        BY <2>4, <2>6, <2>7
      <4> HIDE DEF S, u, v, w
      <4>2. (u \o v) \o w = u \o (v \o w)
        BY <4>1, ConcatAssociative
      <4> QED  BY <4>2 DEF u, v, w
    <3>2. Answers' \o Held' = Answers \o Held
      BY <2>6, ConcatEmptySeq
    <3> QED  BY <1>1, <2>5, <2>7, <3>1, <3>2
  <2> QED  BY <1>1, <2>1, <2>8, ReturnReadWhenDone
<1>6. CASE SubmitFails
  <2>1. Return /\ UNCHANGED <<pending_cbs, submitted, done>>
    BY <1>6 DEF SubmitFails, gpu, ran
  <2>2. Answers \o Held = Answers' \o Held'
    <3>1. /\ Answers \in Seq(PassNumber) /\ Held \in Seq(PassNumber)
          /\ Answers' = Answers \o Held /\ Held' = <<>>
      BY <2>1, ReturnAnswers
    <3>2. Answers \o Held \in Seq(PassNumber)
      BY <3>1, ConcatProperties
    <3> QED  BY <3>1, <3>2, ConcatEmptySeq
  <2>3. Ordered'
    <3>1. Oldest(pending_cbs)' = Oldest(pending_cbs)
      BY <2>1 DEF Oldest
    <3> QED  BY <1>1, <2>1, <2>2, <3>1
  <2> QED  BY <1>1, <2>1, <2>3, ReturnReadWhenDone
<1>7. done \in Nat
  BY DEF TypeOK
<1>8. CASE RunGpu
  <2>1. (done' = done \/ done' = done + 1) /\ UNCHANGED <<host, history>>
    BY <1>8, GpuRun
  <2> QED  BY <1>3, <1>7, <2>1 DEF host, history
<1>9. CASE ~RunGpu /\ ~WaitOldest /\ ~Submit /\ ~SubmitFails
  <2>1. UNCHANGED <<submitted, handed, cached_logits, pending_cbs, done>>
    BY <1>9 DEF Next, Client, HostStep, CallDecode, SkipWait, CallPrompt, CallPromptFails,
       CallBatch, PromptDone, Clear, BatchWrite, BatchAttend, BatchFails, vars, host, gpu, ran,
       history
  <2> QED  BY <1>3, <1>7, <2>1
<1> QED  BY <1>4, <1>5, <1>6, <1>8, <1>9

-----------------------------------------------------------------------------
(* The conversations of the passes: every step keeps them in order.        *)
LEMMA ConversationsStep ==
  ASSUME TypeOK, PositionsInPlace, ConversationsInOrder, [Next]_vars
  PROVE  ConversationsInOrder'
<1>1. \A n \in PassNumber : passes'[n].conv = passes[n].conv /\ passes[n].conv \in Nat
  BY PassesKept, PassFields
<1>2. conv \in Nat
  BY DEF TypeOK
<1>3. ASSUME PassNumber' = PassNumber,
             conv' = conv + 1 \/
               (conv' = conv /\ (pc' \in {"batch", "attend"} => pc \in {"batch", "attend"}))
      PROVE  ConversationsInOrder'
  BY <1>1, <1>2, <1>3 DEF ConversationsInOrder
<1>4. ASSUME NEW q \in Pass, passes' = Append(passes, q), q.conv = conv, conv' = conv,
             pc \notin {"batch", "attend"}, pc' \notin {"batch", "attend"}
      PROVE  ConversationsInOrder'
  <2>1. Len(passes') = Len(passes) + 1 /\ passes'[Len(passes) + 1] = q
    BY <1>4, Committed
  <2>2. PassNumber' = PassNumber \cup {Len(passes) + 1}
    <3>1. Len(passes) \in Nat
      BY DEF TypeOK
    <3> QED  BY <2>1, <3>1 DEF PassNumber
  <2> QED  BY <1>1, <1>4, <2>1, <2>2 DEF ConversationsInOrder
<1>5. CASE Submit
  <2>1. NewPass(NextTokens(1), DecodePosition) \in Pass
        /\ NewPass(NextTokens(1), DecodePosition).conv = conv
    BY VectorsType, NewPassType
  <2>2. /\ passes' = Append(passes, NewPass(NextTokens(1), DecodePosition))
        /\ conv' = conv /\ pc = "encode" /\ pc' = "idle"
    BY <1>5 DEF Submit, Return
  <2> QED  BY <1>4, <2>1, <2>2
<1>6. ASSUME NEW k \in PromptLen, CallPrompt(k)
      PROVE  ConversationsInOrder'
  <2>1. NewPass(NextTokens(k), PromptPositions(k)) \in Pass
        /\ NewPass(NextTokens(k), PromptPositions(k)).conv = conv
    BY ClientAssumption, VectorsType, NewPassType
  <2>2. /\ passes' = Append(passes, NewPass(NextTokens(k), PromptPositions(k)))
        /\ conv' = conv /\ pc = "idle" /\ pc' = "prompt"
    BY <1>6 DEF CallPrompt, EncodePrompt
  <2> QED  BY <1>4, <2>1, <2>2
<1>7. CASE RunGpu
  <2>1. PassNumber' = PassNumber /\ UNCHANGED <<host, history>>
    BY <1>7, GpuRun DEF PassNumber
  <2> QED  BY <1>3, <2>1 DEF host, history
<1>8. CASE UNCHANGED passes /\ conv' = conv /\ (pc' = pc \/ pc' \in {"idle", "wait", "encode"})
  <2>1. PassNumber' = PassNumber
    BY <1>8 DEF PassNumber
  <2> QED  BY <1>3, <1>8, <2>1
<1>9. CASE CallDecode \/ WaitOldest \/ SkipWait \/ SubmitFails \/ PromptDone \/ UNCHANGED vars
  BY <1>8, <1>9 DEF CallDecode, WaitOldest, SkipWait, SubmitFails, PromptDone, Return, vars,
     host, gpu, ran, history
<1>10. ASSUME NEW k \in PromptLen, CallPromptFails(k)
       PROVE  ConversationsInOrder'
  BY <1>8, <1>10 DEF CallPromptFails, gpu, ran
<1>11. ASSUME NEW k \in PromptLen, CallBatch(k)
       PROVE  ConversationsInOrder'
  BY <1>3, <1>11 DEF CallBatch, gpu, ran, PassNumber
<1>12. CASE Clear
  BY <1>3, <1>12 DEF Clear, PassNumber
<1>13. CASE BatchWrite \/ BatchAttend \/ BatchFails
  <2>1. UNCHANGED <<passes, conv>> /\ pc \in {"batch", "attend"}
    BY <1>13 DEF BatchWrite, BatchAttend, BatchFails, gpu, ran
  <2> QED  BY <1>3, <2>1 DEF PassNumber
<1> QED
  BY <1>5, <1>6, <1>7, <1>9, <1>10, <1>11, <1>12, <1>13 DEF Next, Client, HostStep

-----------------------------------------------------------------------------
(* What the passes find in the cache.                                      *)

(* The first k positions of every head hold s.                             *)
Holding(mem, s, k) == \A h \in KvHead : \A p \in 1..k : mem[h * max_seq + p - 1] = s[p]

(* `want` goes on with `toks` behind `start`.                              *)
GoesOn(want, start, toks) ==
  /\ Len(want) = start + Len(toks)
  /\ \A i \in 1..Len(toks) : want[start + i] = toks[i]

(* After the tokens of a pass are stored behind those of its conversation  *)
(* the cells hold both.                                                    *)
LEMMA HeldAfterStore ==
  ASSUME NEW mem, NEW start \in Nat, NEW toks \in Vector, NEW want \in Vector,
         GoesOn(want, start, toks), Len(want) <= max_seq, Holding(mem, want, start)
  PROVE  Holding(Stored(mem, start, toks), want, Len(want))
<1> SUFFICES ASSUME NEW h \in KvHead, NEW p \in 1..Len(want)
             PROVE  Stored(mem, start, toks)[h * max_seq + p - 1] = want[p]
  BY DEF Holding
<1> USE DEF GoesOn, Holding
<1>1. Len(toks) \in Nat /\ max_seq \in Nat /\ p \in 1..max_seq
  BY ShapeAssumption DEF Vector
<1>2. Stored(mem, start, toks)[h * max_seq + p - 1] =
        IF start < p /\ p <= start + Len(toks) THEN toks[p - start]
        ELSE mem[h * max_seq + p - 1]
  <2>1. start + Len(toks) <= max_seq
    OBVIOUS
  <2> QED  BY <1>1, <2>1, StoredInPlace, ZenonT(60)
<1>3. CASE start < p
  <2>1. p - start \in 1..Len(toks) /\ start + (p - start) = p
    BY <1>1, <1>3
  <2>2. want[p] = toks[p - start]
    BY <2>1
  <2> QED  BY <1>1, <1>2, <1>3, <2>2
<1>4. CASE ~(start < p)
  <2>1. p \in 1..start
    BY <1>1, <1>4
  <2> QED  BY <1>2, <1>4, <2>1
<1> QED  BY <1>3, <1>4

(* The pass that is next at a layer is in flight, or not encoded yet.      *)
LEMMA NextAtType ==
  ASSUME TypeOK, Control
  PROVE  /\ \A l \in Layer : NextAt(l) \in InFlight \cup {Len(passes) + 1}
         /\ \A n \in InFlight : n + 1 \in InFlight \cup {Len(passes) + 1}
         /\ InFlight \subseteq PassNumber
         /\ Len(passes) + 1 \notin PassNumber
<1>1. done \in Nat /\ Len(passes) \in Nat /\ done <= Len(passes)
  BY DEF TypeOK
<1>2. ASSUME NEW l \in Layer
      PROVE  NextAt(l) \in InFlight \cup {Len(passes) + 1}
  <2>1. CASE l \in stored
    <3>1. done < Len(passes)
      BY <2>1 DEF Control
    <3> QED  BY <1>1, <2>1, <3>1 DEF NextAt, InFlight
  <2>2. CASE l \notin stored
    BY <1>1, <2>2 DEF NextAt, InFlight
  <2> QED  BY <2>1, <2>2
<1>3. \A n \in InFlight : n + 1 \in InFlight \cup {Len(passes) + 1}
  BY <1>1 DEF InFlight
<1>4. InFlight \subseteq PassNumber /\ Len(passes) + 1 \notin PassNumber
  BY <1>1 DEF InFlight, PassNumber
<1> QED  BY <1>2, <1>3, <1>4

(* The host changes neither the passes nor the cache: what matters is what *)
(* the next pass would find.                                               *)
LEMMA CellsUntouched ==
  ASSUME TypeOK, Control, CellsInPlace,
         UNCHANGED <<passes, done, stored, attended, kv>>,
         spoiled \subseteq spoiled', wiped' = wiped,
         \A n \in PassNumber : passes[n].conv \in spoiled' => passes[n].conv \in spoiled,
         conv' \notin spoiled' /\ Len(Context') <= max_seq =>
           \/ conv \notin spoiled /\ Context' = Context
           \/ Context' = <<>>
           \/ InFlight = {} /\ \A l \in Layer : Holds(l, Context')
  PROVE  CellsInPlace'
<1> DEFINE N == Len(passes) + 1
<1>1. /\ InFlight' = InFlight /\ PassNumber' = PassNumber
      /\ \A l \in Layer : NextAt(l)' = NextAt(l)
      /\ N' = N
  BY DEF InFlight, PassNumber, NextAt
<1>2. /\ \A l \in Layer : NextAt(l) \in InFlight \cup {N}
      /\ \A n \in InFlight : n + 1 \in InFlight \cup {N}
      /\ InFlight \subseteq PassNumber /\ N \notin PassNumber
  BY NextAtType
<1> HIDE DEF N
<1>3. \A n \in PassNumber : Prior(n)' = Prior(n) /\ (Sound(n)' <=> Sound(n))
  BY <1>1 DEF Prior, Sound, Undisturbed
<1>4. /\ Prior(N)' = Context' /\ Prior(N) = Context
      /\ Sound(N)' <=> conv' \notin spoiled' /\ Len(Context') <= max_seq
      /\ Context' = Context /\ conv \notin spoiled /\ Sound(N)' => Sound(N)
  BY <1>1, <1>2 DEF Prior, Sound
<1>5. ASSUME NEW l \in Layer, Sound(NextAt(l))'
      PROVE  Holds(l, Prior(NextAt(l)))'
  <2>1. CASE NextAt(l) \in PassNumber
    <3> DEFINE s == Prior(NextAt(l))
    <3>1. Prior(NextAt(l))' = s /\ Sound(NextAt(l))
      BY <1>1, <1>3, <1>5, <2>1
    <3>2. Holds(l, s)
      BY <3>1 DEF CellsInPlace
    <3> HIDE DEF s
    <3> QED  BY <3>1, <3>2 DEF Holds
  <2>2. CASE NextAt(l) = N
    <3>1. Prior(NextAt(l))' = Context' /\ Sound(N)' /\ Prior(NextAt(l)) = Context
      BY <1>1, <1>4, <1>5, <2>2
    <3>2. CASE conv \notin spoiled /\ Context' = Context
      <4> DEFINE s == Prior(NextAt(l))
      <4>1. Prior(NextAt(l))' = s /\ Sound(NextAt(l))
        BY <1>4, <2>2, <3>1, <3>2
      <4>2. Holds(l, s)
        BY <4>1 DEF CellsInPlace
      <4> HIDE DEF s
      <4> QED  BY <4>1, <4>2 DEF Holds
    <3>3. CASE Context' = <<>>
      BY <3>1, <3>3 DEF Holds
    <3>4. CASE \A k \in Layer : Holds(k, Context')
      BY <3>1, <3>4 DEF Holds
    <3> QED  BY <1>4, <3>1, <3>2, <3>3, <3>4
  <2> QED  BY <1>2, <2>1, <2>2
<1>6. ASSUME NEW n \in InFlight', Sound(n + 1)'
      PROVE  Prior(n + 1)' = <<>> \/ (Sound(n)' /\ Prior(n + 1)' = passes'[n].want)
  <2>1. n \in InFlight /\ n \in PassNumber /\ passes'[n] = passes[n]
    BY <1>1, <1>2
  <2>2. Sound(n + 1) => Prior(n + 1) = <<>> \/ (Sound(n) /\ Prior(n + 1) = passes[n].want)
    BY <2>1 DEF CellsInPlace
  <2>3. Sound(n)' <=> Sound(n)
    BY <1>3, <2>1
  <2>4. CASE n + 1 \in PassNumber
    <3>1. Prior(n + 1)' = Prior(n + 1) /\ Sound(n + 1)
      BY <1>3, <1>6, <2>4
    <3> QED  BY <2>1, <2>2, <2>3, <3>1
  <2>5. CASE n + 1 = N
    <3>1. Prior(n + 1)' = Context' /\ Prior(n + 1) = Context /\ Sound(N)'
      BY <1>1, <1>4, <1>6, <2>5
    <3>2. CASE conv \notin spoiled /\ Context' = Context
      <4>1. Sound(n + 1)
        BY <1>4, <2>5, <3>1, <3>2
      <4> QED  BY <2>1, <2>2, <2>3, <3>1, <3>2, <4>1
    <3>3. CASE Context' = <<>>
      BY <3>1, <3>3
    <3>4. CASE InFlight = {}
      BY <2>1, <3>4
    <3> QED  BY <1>4, <3>1, <3>2, <3>3, <3>4
  <2> QED  BY <1>2, <2>1, <2>4, <2>5
<1>7. ASSUME NEW n \in PassNumber'
      PROVE  /\ Undisturbed(n)' => passes'[n].seen \subseteq {passes'[n].want}
             /\ n <= done' => passes'[n].seen # {}
  BY <1>1 DEF CellsInPlace, Undisturbed
<1>8. ASSUME NEW l \in stored' \ attended', Undisturbed(done + 1)'
      PROVE  Holds(l, passes[done + 1].want)'
  <2> DEFINE s == passes[done + 1].want
  <2>1. done + 1 \in PassNumber
    <3>1. l \in stored /\ done \in Nat /\ Len(passes) \in Nat
      BY <1>8, Typing
    <3>2. done < Len(passes)
      BY <3>1 DEF Control
    <3> QED  BY <3>1, <3>2 DEF PassNumber
  <2>2. Undisturbed(done + 1)
    BY <1>8, <2>1 DEF Undisturbed
  <2>3. Holds(l, s)
    BY <1>8, <2>2 DEF CellsInPlace
  <2>4. passes'[done' + 1].want = s
    OBVIOUS
  <2> HIDE DEF s
  <2> QED  BY <2>3, <2>4 DEF Holds
<1>9. attended' \subseteq stored' /\ (attended' # {} => passes'[done' + 1].seen # {})
  BY DEF CellsInPlace
<1> QED  BY <1>5, <1>6, <1>7, <1>8, <1>9 DEF CellsInPlace

(* The host writes the cache: what is in flight is written off, and the    *)
(* next pass begins a conversation.                                        *)
LEMMA CellsWiped ==
  ASSUME TypeOK, Control, CellsInPlace, UNCHANGED <<passes, done, stored, attended>>,
         spoiled \subseteq spoiled', wiped' = wiped \cup InFlight, Context' = <<>>
  PROVE  CellsInPlace'
<1> DEFINE N == Len(passes) + 1
<1>1. /\ InFlight' = InFlight /\ PassNumber' = PassNumber
      /\ \A l \in Layer : NextAt(l)' = NextAt(l)
      /\ N' = N
  BY DEF InFlight, PassNumber, NextAt
<1>2. /\ \A l \in Layer : NextAt(l) \in InFlight \cup {N}
      /\ \A n \in InFlight : n + 1 \in InFlight \cup {N}
      /\ InFlight \subseteq PassNumber /\ N \notin PassNumber
  BY NextAtType
<1> HIDE DEF N
<1>3. \A n \in InFlight : ~Sound(n)'
  BY <1>1, <1>2 DEF Sound, Undisturbed
<1>4. Prior(N)' = <<>>
  BY <1>1, <1>2 DEF Prior
<1>5. ASSUME NEW l \in Layer, Sound(NextAt(l))'
      PROVE  Holds(l, Prior(NextAt(l)))'
  <2>1. NextAt(l) = N
    BY <1>1, <1>2, <1>3, <1>5
  <2>2. Prior(NextAt(l))' = <<>>
    BY <1>1, <1>4, <2>1
  <2> QED  BY <2>2 DEF Holds
<1>6. ASSUME NEW n \in InFlight', Sound(n + 1)'
      PROVE  Prior(n + 1)' = <<>>
  BY <1>1, <1>2, <1>3, <1>4, <1>6
<1>7. ASSUME NEW n \in PassNumber'
      PROVE  /\ Undisturbed(n)' => passes'[n].seen \subseteq {passes'[n].want}
             /\ n <= done' => passes'[n].seen # {}
  BY <1>1 DEF CellsInPlace, Undisturbed
<1>8. stored' # {} => ~Undisturbed(done + 1)'
  BY DEF Control, Undisturbed, InFlight, TypeOK
<1>9. attended' \subseteq stored' /\ (attended' # {} => passes'[done' + 1].seen # {})
  BY DEF CellsInPlace
<1> QED  BY <1>5, <1>6, <1>7, <1>8, <1>9 DEF CellsInPlace

(* A pass is committed behind the others.                                  *)
LEMMA CellsCommitted ==
  ASSUME TypeOK, Control, CellsInPlace,
         UNCHANGED <<done, stored, attended, kv, spoiled, wiped, conv>>,
         NEW q \in Pass, passes' = Append(passes, q),
         q.conv = conv, q.seen = {}, q.want = Context', SubSeq(q.want, 1, q.start) = Context,
         Len(Context) <= Len(q.want), NEW N, N = Len(passes) + 1
  PROVE  CellsInPlace'
<1>a. done \in Nat /\ Len(passes) \in Nat /\ done <= Len(passes)
  BY DEF TypeOK
<1>b. /\ Len(passes') = Len(passes) + 1 /\ passes'[Len(passes) + 1] = q
      /\ \A m \in PassNumber : passes'[m] = passes[m]
  BY Committed DEF TypeOK
<1>1. /\ Len(passes) \in Nat /\ Len(passes') = N /\ passes'[N] = q
      /\ \A m \in PassNumber : passes'[m] = passes[m]
  BY <1>a, <1>b
<1>2. /\ InFlight' = InFlight \cup {N} /\ PassNumber' = PassNumber \cup {N}
      /\ \A l \in Layer : NextAt(l)' = NextAt(l)
      /\ N + 1 \notin PassNumber'
  <2>1. InFlight' = InFlight \cup {N}
    BY <1>1, <1>a DEF InFlight
  <2>2. PassNumber' = PassNumber \cup {N} /\ N + 1 \notin PassNumber'
    BY <1>1, <1>a DEF PassNumber
  <2>3. \A l \in Layer : NextAt(l)' = NextAt(l)
    BY DEF NextAt
  <2> QED  BY <2>1, <2>2, <2>3
<1>3. /\ \A l \in Layer : NextAt(l) \in InFlight \cup {N}
      /\ \A n \in InFlight : n + 1 \in InFlight \cup {N}
      /\ InFlight \subseteq PassNumber /\ N \notin PassNumber /\ N \notin wiped
      /\ done < N
  <2>1. /\ \A l \in Layer : NextAt(l) \in InFlight \cup {N}
        /\ \A n \in InFlight : n + 1 \in InFlight \cup {N}
        /\ InFlight \subseteq PassNumber /\ N \notin PassNumber
    BY NextAtType
  <2>2. N \notin wiped /\ done < N
    BY <1>1, <1>a, <2>1, Typing
  <2> QED  BY <2>1, <2>2
<1>4. \A n \in PassNumber :
        /\ Prior(n)' = Prior(n) /\ (Sound(n)' <=> Sound(n))
        /\ Undisturbed(n)' <=> Undisturbed(n)
  BY <1>1, <1>2 DEF Prior, Sound, Undisturbed
<1>5. Prior(N)' = Context /\ Prior(N) = Context
  BY <1>1, <1>2, <1>3 DEF Prior
<1>6. Sound(N)' => Sound(N)
  <2>1. Len(Context) \in Nat /\ Len(q.want) \in Nat /\ max_seq \in Nat
    <3>1. q.want \in Vector /\ text \in Vector
      BY DEF Pass, TypeOK
    <3>2. pc = "prompt" => passes[Len(passes)].want \in Vector
      <4>1. pc = "prompt" => Len(passes) \in PassNumber
        BY <1>1 DEF Control, PassNumber, TypeOK
      <4> QED  BY <4>1, PassFields
    <3>3. Context \in Vector
      BY <3>1, <3>2 DEF Context
    <3> QED  BY <3>1, <3>3, ShapeAssumption DEF Vector
  <2>2. Sound(N)' <=> Len(q.want) <= max_seq /\ conv \notin spoiled /\ N \notin wiped
    BY <1>1, <1>2 DEF Sound, Undisturbed
  <2>3. Sound(N) <=> conv \notin spoiled /\ Len(Context) <= max_seq
    BY <1>3 DEF Sound
  <2> QED  BY <2>1, <2>2, <2>3
<1>7. Sound(N + 1)' => Sound(N)' /\ Prior(N + 1)' = passes'[N].want
  <2>1. /\ Prior(N + 1)' = Context'
        /\ (Sound(N + 1)' <=> conv \notin spoiled /\ Len(Context') <= max_seq)
    BY <1>2 DEF Prior, Sound
  <2>2. Sound(N)' <=> Len(q.want) <= max_seq /\ conv \notin spoiled /\ N \notin wiped
    BY <1>1, <1>2 DEF Sound, Undisturbed
  <2> QED  BY <1>1, <1>3, <2>1, <2>2
<1>8. \A n \in PassNumber \cup {N} : Prior(n)' = Prior(n) /\ (Sound(n)' => Sound(n))
  BY <1>4, <1>5, <1>6
<1>9. ASSUME NEW l \in Layer, Sound(NextAt(l))'
      PROVE  Holds(l, Prior(NextAt(l)))'
  <2> DEFINE s == Prior(NextAt(l))
  <2>1. NextAt(l) \in PassNumber \cup {N}
    BY <1>3
  <2>2. Prior(NextAt(l))' = s /\ Sound(NextAt(l))
    BY <1>2, <1>8, <1>9, <2>1
  <2>3. Holds(l, s)
    BY <2>2 DEF CellsInPlace
  <2> HIDE DEF s
  <2> QED  BY <2>2, <2>3 DEF Holds
<1>10. ASSUME NEW n \in InFlight', Sound(n + 1)'
       PROVE  Prior(n + 1)' = <<>> \/ (Sound(n)' /\ Prior(n + 1)' = passes'[n].want)
  <2>1. CASE n = N
    BY <1>7, <1>10, <2>1
  <2>2. CASE n \in InFlight
    <3>1. n + 1 \in PassNumber \cup {N} /\ n \in PassNumber /\ passes'[n] = passes[n]
      BY <1>1, <1>3, <2>2
    <3>2. Prior(n + 1)' = Prior(n + 1) /\ Sound(n + 1) /\ (Sound(n)' <=> Sound(n))
      BY <1>4, <1>8, <1>10, <3>1
    <3>3. Prior(n + 1) = <<>> \/ (Sound(n) /\ Prior(n + 1) = passes[n].want)
      BY <2>2, <3>2 DEF CellsInPlace
    <3> QED  BY <3>1, <3>2, <3>3
  <2> QED  BY <1>2, <2>1, <2>2
<1>11. ASSUME NEW n \in PassNumber'
       PROVE  /\ Undisturbed(n)' => passes'[n].seen \subseteq {passes'[n].want}
              /\ n <= done' => passes'[n].seen # {}
  <2>1. CASE n = N
    <3>1. passes'[n].seen = {} /\ ~(n <= done')
      BY <1>1, <1>3, <2>1 DEF TypeOK
    <3> QED  BY <3>1
  <2>2. CASE n \in PassNumber
    BY <1>1, <1>4, <2>2 DEF CellsInPlace
  <2> QED  BY <1>2, <2>1, <2>2
<1>12. stored # {} => done + 1 \in PassNumber
  BY <1>a DEF Control, PassNumber
<1>13. ASSUME NEW l \in stored' \ attended', Undisturbed(done + 1)'
       PROVE  Holds(l, passes[done + 1].want)'
  <2> DEFINE s == passes[done + 1].want
  <2>1. Undisturbed(done + 1) /\ passes'[done' + 1].want = s
    BY <1>1, <1>4, <1>12, <1>13
  <2>2. Holds(l, s)
    BY <1>13, <2>1 DEF CellsInPlace
  <2> HIDE DEF s
  <2> QED  BY <2>1, <2>2 DEF Holds
<1>14. attended' \subseteq stored' /\ (attended' # {} => passes'[done' + 1].seen # {})
  <2>1. attended \subseteq stored /\ (attended # {} => passes[done + 1].seen # {})
    BY DEF CellsInPlace
  <2> QED  BY <1>1, <1>12, <2>1
<1> QED  BY <1>9, <1>10, <1>11, <1>13, <1>14 DEF CellsInPlace

(* The GPU runs: no pass finds another conversation than before it.        *)
LEMMA RunKeepsPrior ==
  ASSUME TypeOK, Control, PositionsInPlace, RunGpu, NEW n, n = done + 1
  PROVE  /\ n \in PassNumber /\ n \in InFlight /\ PassNumber' = PassNumber
         /\ InFlight' \subseteq InFlight
         /\ \A m \in PassNumber : Undisturbed(m)' <=> Undisturbed(m)
         /\ \A m \in Nat : Prior(m)' = Prior(m) /\ (Sound(m)' <=> Sound(m))
         /\ \A m \in PassNumber : passes'[m].want = passes[m].want
         /\ \A m \in PassNumber : m # n => passes'[m] = passes[m]
<1>1. /\ n \in PassNumber /\ Len(passes') = Len(passes)
      /\ \A m \in PassNumber :
           /\ passes'[m].want = passes[m].want /\ passes'[m].start = passes[m].start
           /\ passes'[m].conv = passes[m].conv /\ passes'[m].toks = passes[m].toks
           /\ m # n => passes'[m] = passes[m]
      /\ done' = done \/ done' = n
      /\ UNCHANGED <<host, history>>
  BY GpuRun DEF Says
<1>2. /\ done \in Nat /\ Len(passes) \in Nat /\ n \in InFlight /\ InFlight' \subseteq InFlight
      /\ PassNumber' = PassNumber
  BY <1>1 DEF PassNumber, InFlight, TypeOK
<1>3. UNCHANGED <<pc, text, conv, spoiled, wiped>>
  BY <1>1 DEF host, history
<1>4. \A m \in PassNumber : Undisturbed(m)' <=> Undisturbed(m)
  BY <1>1, <1>3 DEF Undisturbed
<1>5. Context' = Context
  <2>1. Len(passes) \in PassNumber
    BY <1>1, <1>2 DEF PassNumber
  <2> QED  BY <1>1, <1>3, <2>1 DEF Context
<1>6. \A m \in Nat : Prior(m)' = Prior(m) /\ (Sound(m)' <=> Sound(m))
  BY <1>1, <1>2, <1>3, <1>4, <1>5 DEF Prior, Sound
<1> QED  BY <1>1, <1>2, <1>4, <1>6

(* The chain of what the passes in flight leave to each other.             *)
LEMMA RunKeepsChain ==
  ASSUME TypeOK, Control, PositionsInPlace, CellsInPlace, RunGpu,
         NEW m \in InFlight', Sound(m + 1)'
  PROVE  Prior(m + 1)' = <<>> \/ (Sound(m)' /\ Prior(m + 1)' = passes'[m].want)
<1>1. m \in InFlight
  BY RunKeepsPrior
<1>2. m \in PassNumber /\ m \in Nat /\ m + 1 \in Nat
  BY <1>1, Typing DEF InFlight, PassNumber
<1>3. /\ Prior(m + 1)' = Prior(m + 1) /\ Sound(m + 1) /\ (Sound(m)' <=> Sound(m))
      /\ passes'[m].want = passes[m].want
  BY <1>2, RunKeepsPrior
<1>4. Prior(m + 1) = <<>> \/ (Sound(m) /\ Prior(m + 1) = passes[m].want)
  BY <1>1, <1>3 DEF CellsInPlace
<1> QED  BY <1>3, <1>4

(* A pass in flight whose KV update is next in a layer, with its words.    *)
LEMMA NextPass ==
  ASSUME TypeOK, Control, NEW n \in PassNumber
  PROVE  /\ passes[n].toks \in Vector /\ passes[n].want \in Vector /\ passes[n].start \in Nat
         /\ passes[n].seen \subseteq Vector
         /\ Len(passes[n].toks) \in Nat /\ Len(passes[n].want) \in Nat
         /\ Len(passes[n].want) = passes[n].start + Len(passes[n].toks)
         /\ GoesOn(passes[n].want, passes[n].start, passes[n].toks)
<1>1. /\ passes[n].toks \in Vector /\ passes[n].want \in Vector /\ passes[n].start \in Nat
      /\ passes[n].seen \subseteq Vector
  BY PassFields
<1>2. /\ Len(passes[n].want) = passes[n].start + Len(passes[n].toks)
      /\ \A i \in 1..Len(passes[n].toks) :
           passes[n].want[passes[n].start + i] = passes[n].toks[i]
  BY DEF Control
<1>3. Len(passes[n].toks) \in Nat /\ Len(passes[n].want) \in Nat
  BY <1>1 DEF Vector
<1> QED  BY <1>1, <1>2, <1>3 DEF GoesOn

(* The KV update of a layer leaves the conversation of the pass there,     *)
(* which is what attention of this pass and the update of the next have to *)
(* find.                                                                   *)
LEMMA CellsUpdated ==
  ASSUME TypeOK, Control, PositionsInPlace, CellsInPlace, dependency_dispatch,
         NEW k \in Layer, Update(k)
  PROVE  CellsInPlace'
<1> DEFINE n == done + 1
           want == passes[n].want
<1>1. RunGpu
  BY DEF RunGpu
<1>2. /\ n \in PassNumber /\ n \in InFlight /\ PassNumber' = PassNumber
      /\ \A m \in PassNumber : Undisturbed(m)' <=> Undisturbed(m)
      /\ \A m \in Nat : Prior(m)' = Prior(m) /\ (Sound(m)' <=> Sound(m))
      /\ \A m \in PassNumber : passes'[m].want = passes[m].want
      /\ \A m \in PassNumber : m # n => passes'[m] = passes[m]
  BY <1>1, RunKeepsPrior
<1>3. PICK mem \in [Cell -> Nat] :
        /\ kv' = [kv EXCEPT ![k] = mem]
        /\ mem = Stored(kv[k], passes[n].start, passes[n].toks)
  BY UpdateRun DEF InOrder
<1>4. /\ k \notin stored /\ stored' = stored \cup {k} /\ done' = done /\ attended' = attended
      /\ passes'[n].seen = passes[n].seen
  BY UpdateRun DEF Update
<1>5. done \in Nat /\ n \in Nat /\ n + 1 \in Nat /\ n + 1 = done + 2
  BY Typing
<1>6. /\ passes[n].toks \in Vector /\ want \in Vector /\ passes[n].start \in Nat
      /\ Len(want) = passes[n].start + Len(passes[n].toks) /\ Len(passes[n].toks) \in Nat
      /\ GoesOn(want, passes[n].start, passes[n].toks)
  BY <1>2, NextPass
<1>7. ASSUME Sound(n)
      PROVE  Holding(mem, want, Len(want))
  <2>1. Len(want) <= max_seq
    BY <1>2, <1>7 DEF Sound, Undisturbed
  <2>2. NextAt(k) = n
    BY <1>4 DEF NextAt
  <2>3. Holds(k, Prior(n))
    BY <1>7, <2>2 DEF CellsInPlace
  <2>4. Prior(n) = SubSeq(want, 1, passes[n].start)
    BY <1>2 DEF Prior
  <2>5. passes[n].start <= Len(want)
    BY <1>6
  <2>6. /\ Len(Prior(n)) = passes[n].start
        /\ \A i \in 1..passes[n].start : Prior(n)[i] = want[i]
    BY <1>6, <2>4, <2>5, Prefix
  <2>7. Holding(kv[k], want, passes[n].start)
    BY <2>3, <2>6 DEF Holds, Holding
  <2> HIDE DEF want
  <2> QED  BY <1>3, <1>6, <2>1, <2>7, HeldAfterStore
<1>8. \A l \in Layer : kv'[l] = IF l = k THEN mem ELSE kv[l]
  BY <1>3 DEF TypeOK
<1>9. Sound(n) => Holds(k, want)'
  <2>1. want' = want
    BY <1>2, <1>4
  <2> HIDE DEF want
  <2> QED  BY <1>7, <1>8, <2>1 DEF Holds, Holding
<1>10. ASSUME NEW l \in Layer, Sound(NextAt(l))'
       PROVE  Holds(l, Prior(NextAt(l)))'
  <2>1. CASE l = k
    <3>1. NextAt(l)' = n + 1
      BY <1>4, <1>5, <2>1 DEF NextAt
    <3>2. Prior(NextAt(l))' = Prior(n + 1) /\ Sound(n + 1)
      BY <1>2, <1>5, <1>10, <3>1
    <3>3. Prior(n + 1) = <<>> \/ (Sound(n) /\ Prior(n + 1) = want)
      BY <1>2, <3>2 DEF CellsInPlace
    <3>4. CASE Prior(n + 1) = <<>>
      BY <3>2, <3>4 DEF Holds
    <3>5. CASE Sound(n) /\ Prior(n + 1) = want
      <4>1. Prior(NextAt(l))' = want /\ want' = want
        BY <1>2, <1>4, <3>2, <3>5
      <4>2. Holds(k, want)'
        BY <1>9, <3>5
      <4> HIDE DEF want
      <4> QED  BY <2>1, <4>1, <4>2 DEF Holds
    <3> QED  BY <3>3, <3>4, <3>5
  <2>2. CASE l # k
    <3> DEFINE s == Prior(NextAt(l))
    <3>1. NextAt(l)' = NextAt(l) /\ NextAt(l) \in Nat
      BY <1>4, <1>5, <2>2 DEF NextAt
    <3>2. Prior(NextAt(l))' = s /\ Sound(NextAt(l))
      BY <1>2, <1>10, <3>1
    <3>3. Holds(l, s)
      BY <3>2 DEF CellsInPlace
    <3>4. kv'[l] = kv[l]
      BY <1>8, <2>2
    <3> HIDE DEF s
    <3> QED  BY <3>2, <3>3, <3>4 DEF Holds
  <2> QED  BY <2>1, <2>2
<1>11. ASSUME NEW l \in stored' \ attended', Undisturbed(done + 1)'
       PROVE  Holds(l, passes[done + 1].want)'
  <2>1. Undisturbed(n) /\ want' = want
    BY <1>2, <1>4, <1>11
  <2>2. CASE l = k
    <3>1. Sound(n)
      BY <1>2, <2>1 DEF Sound
    <3> QED  BY <1>9, <2>2, <3>1
  <2>3. CASE l # k
    <3>1. l \in stored \ attended /\ l \in Layer
      BY <1>4, <1>11, <2>3 DEF TypeOK
    <3>2. Holds(l, want) /\ kv'[l] = kv[l]
      BY <1>8, <2>1, <2>3, <3>1 DEF CellsInPlace
    <3> HIDE DEF want
    <3>3. Holds(l, want)'
      BY <2>1, <3>2 DEF Holds
    <3> QED  BY <3>3 DEF want
  <2> QED  BY <2>2, <2>3
<1>12. ASSUME NEW m \in PassNumber'
       PROVE  /\ Undisturbed(m)' => passes'[m].seen \subseteq {passes'[m].want}
              /\ m <= done' => passes'[m].seen # {}
  <2>1. passes'[m].seen = passes[m].seen /\ passes'[m].want = passes[m].want /\ m \in PassNumber
    BY <1>2, <1>4
  <2> QED  BY <1>2, <1>4, <2>1 DEF CellsInPlace
<1>13. attended' \subseteq stored' /\ (attended' # {} => passes'[done' + 1].seen # {})
  BY <1>4 DEF CellsInPlace
<1> QED  BY <1>1, <1>10, <1>11, <1>12, <1>13, RunKeepsChain DEF CellsInPlace

(* Attention of a layer sees what the KV update of the pass has left       *)
(* there.                                                                  *)
LEMMA CellsAttended ==
  ASSUME TypeOK, Control, PositionsInPlace, CellsInPlace, dependency_dispatch,
         NEW k \in Layer, Attend(k)
  PROVE  CellsInPlace'
<1> DEFINE n == done + 1
           want == passes[n].want
<1>1. RunGpu
  BY DEF RunGpu
<1>2. /\ n \in PassNumber /\ PassNumber' = PassNumber
      /\ \A m \in PassNumber : Undisturbed(m)' <=> Undisturbed(m)
      /\ \A m \in Nat : Prior(m)' = Prior(m) /\ (Sound(m)' <=> Sound(m))
      /\ \A m \in PassNumber : passes'[m].want = passes[m].want
      /\ \A m \in PassNumber : m # n => passes'[m] = passes[m]
  BY <1>1, RunKeepsPrior
<1>3. /\ k \in stored /\ k \notin attended /\ attended' = attended \cup {k}
      /\ UNCHANGED <<done, stored, kv>>
  BY DEF Attend, InOrder
<1>4. passes'[n].seen = passes[n].seen \cup KRows(kv[k], passes[n].start + Len(passes[n].toks))
  BY AttendRun
<1>5. /\ want \in Vector /\ Len(want) \in Nat /\ done \in Nat
      /\ Len(want) = passes[n].start + Len(passes[n].toks)
  BY <1>2, NextPass, Typing
<1>6. /\ Undisturbed(n) => passes'[n].seen \subseteq {want}
      /\ passes'[n].seen # {}
  <2> DEFINE mem == kv[k]
  <2>1. passes'[n].seen = passes[n].seen \cup KRows(mem, Len(want))
    BY <1>4, <1>5
  <2>2. mem \in [Cell -> Nat]
    BY DEF TypeOK
  <2>3. KRows(mem, Len(want)) # {}
    <3> HIDE DEF mem, want
    <3> QED  BY <1>5, <2>2, KRowsType
  <2>4. ASSUME Undisturbed(n)
        PROVE  passes'[n].seen \subseteq {want}
    <3>1. Holds(k, want) /\ Len(want) <= max_seq
      BY <1>3, <2>4 DEF CellsInPlace, Undisturbed
    <3>2. KRows(mem, Len(want)) = {want}
      <4>1. \A h \in KvHead : \A p \in 1..Len(want) : mem[h * max_seq + p - 1] = want[p]
        BY <3>1 DEF Holds
      <4> HIDE DEF want, mem
      <4> QED  BY <1>5, <3>1, <4>1, RowsOfHeld
    <3>3. passes[n].seen \subseteq {want}
      BY <1>2, <2>4 DEF CellsInPlace
    <3> QED  BY <2>1, <3>2, <3>3
  <2> QED  BY <2>1, <2>3, <2>4
<1>7. ASSUME NEW l \in Layer, Sound(NextAt(l))'
      PROVE  Holds(l, Prior(NextAt(l)))'
  <2> DEFINE s == Prior(NextAt(l))
  <2>1. NextAt(l)' = NextAt(l) /\ NextAt(l) \in Nat
    BY <1>3, <1>5 DEF NextAt
  <2>2. Prior(NextAt(l))' = s /\ Sound(NextAt(l))
    BY <1>2, <1>7, <2>1
  <2>3. Holds(l, s)
    BY <2>2 DEF CellsInPlace
  <2> HIDE DEF s
  <2> QED  BY <1>3, <2>2, <2>3 DEF Holds
<1>8. ASSUME NEW l \in stored' \ attended', Undisturbed(done + 1)'
      PROVE  Holds(l, passes[done + 1].want)'
  <2>1. Undisturbed(n) /\ want' = want
    BY <1>2, <1>3, <1>8
  <2>2. Holds(l, want)
    BY <1>3, <1>8, <2>1 DEF CellsInPlace
  <2> HIDE DEF want
  <2>3. Holds(l, want)'
    BY <1>3, <2>1, <2>2 DEF Holds
  <2> QED  BY <2>3 DEF want
<1>9. ASSUME NEW m \in PassNumber'
      PROVE  /\ Undisturbed(m)' => passes'[m].seen \subseteq {passes'[m].want}
             /\ m <= done' => passes'[m].seen # {}
  <2>1. CASE m = n
    BY <1>2, <1>6, <2>1
  <2>2. CASE m # n
    <3>1. m \in PassNumber /\ passes'[m] = passes[m]
      BY <1>2, <2>2
    <3> QED  BY <1>2, <1>3, <3>1 DEF CellsInPlace
  <2> QED  BY <2>1, <2>2
<1>10. attended' \subseteq stored' /\ (attended' # {} => passes'[done' + 1].seen # {})
  BY <1>3, <1>6 DEF CellsInPlace
<1> QED  BY <1>1, <1>7, <1>8, <1>9, <1>10, RunKeepsChain DEF CellsInPlace

(* The pass is complete: the next one finds what it has left.              *)
LEMMA CellsCompleted ==
  ASSUME TypeOK, Control, PositionsInPlace, CellsInPlace, Complete
  PROVE  CellsInPlace'
<1> DEFINE n == done + 1
<1>1. RunGpu
  BY DEF RunGpu
<1>2. /\ n \in PassNumber /\ PassNumber' = PassNumber
      /\ \A m \in PassNumber : Undisturbed(m)' <=> Undisturbed(m)
      /\ \A m \in Nat : Prior(m)' = Prior(m) /\ (Sound(m)' <=> Sound(m))
  BY <1>1, RunKeepsPrior
<1>3. /\ stored = Layer /\ attended = Layer /\ done' = n /\ stored' = {} /\ attended' = {}
      /\ UNCHANGED <<kv, passes>>
  BY DEF Complete
<1>4. done \in Nat
  BY Typing
<1>5. ASSUME NEW l \in Layer, Sound(NextAt(l))'
      PROVE  Holds(l, Prior(NextAt(l)))'
  <2> DEFINE s == Prior(NextAt(l))
  <2>1. NextAt(l)' = NextAt(l) /\ NextAt(l) \in Nat
    BY <1>3, <1>4 DEF NextAt
  <2>2. Prior(NextAt(l))' = s /\ Sound(NextAt(l))
    BY <1>2, <1>5, <2>1
  <2>3. Holds(l, s)
    BY <2>2 DEF CellsInPlace
  <2> HIDE DEF s
  <2> QED  BY <1>3, <2>2, <2>3 DEF Holds
<1>6. ASSUME NEW m \in PassNumber'
      PROVE  /\ Undisturbed(m)' => passes'[m].seen \subseteq {passes'[m].want}
             /\ m <= done' => passes'[m].seen # {}
  <2>1. m \in PassNumber /\ passes' = passes
    BY <1>2, <1>3
  <2>2. Undisturbed(m)' => passes[m].seen \subseteq {passes[m].want}
    BY <1>2, <2>1 DEF CellsInPlace
  <2>3. m <= done' => m <= done \/ m = n
    BY <1>3, <1>4, <2>1 DEF PassNumber
  <2>4. passes[n].seen # {}
    <3>1. 0 \in Layer
      BY ShapeAssumption DEF Layer
    <3> QED  BY <1>3, <3>1 DEF CellsInPlace
  <2>5. m <= done => passes[m].seen # {}
    BY <2>1 DEF CellsInPlace
  <2> QED  BY <2>1, <2>2, <2>3, <2>4, <2>5
<1> QED  BY <1>1, <1>3, <1>5, <1>6, RunKeepsChain DEF CellsInPlace

(* After the last layer of forward_prefill_batch every layer holds the     *)
(* prompt and nothing is in flight.                                        *)
LEMMA PromptHeld ==
  ASSUME TypeOK, Control, BatchInPlace, pc = "attend", ~(batch.layer + 1 < n_layers),
         conv \notin spoiled, Len(batch.toks) <= max_seq
  PROVE  InFlight = {} /\ \A l \in Layer : Holds(l, batch.toks)
<1>1. batch.layer \in Layer
  BY DEF Control
<1>2. \A l \in Layer : l < batch.layer \/ l = batch.layer
  BY <1>1, ShapeAssumption DEF Layer
<1>3. done = Len(passes) /\ \A l \in Layer : Holds(l, batch.toks)
  BY <1>1, <1>2 DEF BatchInPlace
<1>4. InFlight = {}
  <2>1. done \in Nat
    BY DEF TypeOK
  <2> QED  BY <1>3, <2>1 DEF InFlight
<1> QED  BY <1>3, <1>4

(* What was there before the tokens of a pass.                             *)
LEMMA TextBefore ==
  ASSUME NEW v \in Vector, NEW toks \in Vector
  PROVE  SubSeq(v \o toks, 1, Len(v)) = v /\ Len(v) <= Len(v \o toks)
<1>1. /\ v \o toks \in Seq(Nat) /\ Len(v \o toks) = Len(v) + Len(toks)
      /\ \A i \in 1..Len(v) : (v \o toks)[i] = v[i]
      /\ Len(v) \in Nat /\ Len(toks) \in Nat
  BY ConcatProperties DEF Vector
<1>2. Len(v) <= Len(v \o toks)
  BY <1>1
<1> DEFINE w == v \o toks
<1> HIDE DEF w
<1>3. /\ SubSeq(w, 1, Len(v)) \in Vector /\ Len(SubSeq(w, 1, Len(v))) = Len(v)
      /\ \A i \in 1..Len(v) : SubSeq(w, 1, Len(v))[i] = v[i]
  <2>1. w \in Vector /\ Len(v) <= Len(w) /\ \A i \in 1..Len(v) : w[i] = v[i]
    BY <1>1, <1>2 DEF w, Vector
  <2> QED  BY <1>1, <2>1, Prefix
<1>4. SubSeq(w, 1, Len(v)) = v
  BY <1>3, SeqEqual DEF Vector
<1> QED  BY <1>2, <1>4 DEF w

(* Every step leaves the passes in flight their conversation.              *)
LEMMA CellsStep ==
  ASSUME TypeOK, Control, ConversationsInOrder, PositionsInPlace, CellsInPlace, BatchInPlace,
         dependency_dispatch, [Next]_vars
  PROVE  CellsInPlace'
<1>1. CASE RunGpu
  BY <1>1, CellsUpdated, CellsAttended, CellsCompleted DEF RunGpu
<1>2. ASSUME UNCHANGED <<gpu, conv, spoiled, wiped>>, Context' = Context
      PROVE  CellsInPlace'
  <2>1. UNCHANGED <<passes, done, stored, attended, kv>>
    BY <1>2 DEF gpu, ran
  <2> QED  BY <1>2, <2>1, CellsUntouched
<1>3. CASE CallDecode \/ WaitOldest \/ SkipWait \/ SubmitFails \/ UNCHANGED vars
  <2>1. UNCHANGED <<gpu, conv, spoiled, wiped, text>> /\ (pc = "prompt" <=> pc' = "prompt")
    BY <1>3 DEF CallDecode, WaitOldest, SkipWait, SubmitFails, Return, vars, host, history
  <2>2. Context' = Context
    BY <2>1 DEF Context, gpu, ran
  <2> QED  BY <1>2, <2>1, <2>2
<1>4. ASSUME NEW k \in PromptLen, CallPromptFails(k)
      PROVE  CellsInPlace'
  <2>1. UNCHANGED <<gpu, conv, spoiled, wiped, text, pc>>
    BY <1>4 DEF CallPromptFails
  <2>2. Context' = Context
    BY <2>1 DEF Context, gpu, ran
  <2> QED  BY <1>2, <2>1, <2>2
<1>5. CASE PromptDone
  <2>1. UNCHANGED <<gpu, conv, spoiled, wiped>> /\ pc = "prompt" /\ pc' = "idle"
        /\ text' = text \o passes[Len(passes)].toks
    BY <1>5 DEF PromptDone
  <2>2. Context' = Context
    BY <2>1 DEF Context, Control
  <2> QED  BY <1>2, <2>1, <2>2
<1>6. ASSUME NEW k \in PromptLen, CallBatch(k)
      PROVE  CellsInPlace'
  <2>1. /\ UNCHANGED <<passes, done, stored, attended, kv, spoiled, wiped>>
        /\ pc' = "batch" /\ text' = <<>>
    BY <1>6 DEF CallBatch, gpu, ran
  <2>2. Context' = <<>>
    BY <2>1 DEF Context
  <2> QED  BY <2>1, <2>2, CellsUntouched
<1>7. CASE BatchAttend
  <2>1. UNCHANGED <<gpu, conv, spoiled, wiped>> /\ pc = "attend" /\ pc' \in {"batch", "idle"}
    BY <1>7 DEF BatchAttend
  <2>2. Context = text /\ Context' = text'
    BY <2>1 DEF Context
  <2>3. CASE batch.layer + 1 < n_layers
    BY <1>2, <1>7, <2>1, <2>2, <2>3 DEF BatchAttend
  <2>4. CASE ~(batch.layer + 1 < n_layers)
    <3>1. Context' = batch.toks
      BY <1>7, <2>2, <2>4 DEF BatchAttend
    <3>2. conv' \notin spoiled' /\ Len(Context') <= max_seq =>
            InFlight = {} /\ \A l \in Layer : Holds(l, Context')
      BY <2>1, <2>4, <3>1, PromptHeld
    <3>3. UNCHANGED <<passes, done, stored, attended, kv, spoiled, wiped>>
      BY <2>1 DEF gpu, ran
    <3> QED  BY <3>2, <3>3, CellsUntouched
  <2> QED  BY <2>3, <2>4
<1>8. CASE BatchFails
  <2>1. UNCHANGED <<passes, done, stored, attended, kv, conv, wiped>> /\ pc' = "idle"
    BY <1>8 DEF BatchFails, gpu, ran
  <2>2. CASE pc = "batch"
    <3>1. UNCHANGED <<text, spoiled>>
      BY <1>8, <2>2 DEF BatchFails
    <3>2. Context' = Context
      BY <2>1, <2>2, <3>1 DEF Context
    <3> QED  BY <2>1, <3>1, <3>2, CellsUntouched
  <2>3. CASE pc = "attend" /\ batch.layer + 1 < n_layers
    <3>1. spoiled' = spoiled \cup {conv}
      BY <1>8, <2>3 DEF BatchFails
    <3>2. \A n \in PassNumber : passes[n].conv # conv
      <4>1. \A n \in PassNumber : passes[n].conv < conv /\ passes[n].conv \in Nat /\ conv \in Nat
        BY <2>3, PassFields DEF ConversationsInOrder, TypeOK
      <4> QED  BY <4>1
    <3>3. conv' \in spoiled'
      BY <2>1, <3>1
    <3> QED  BY <2>1, <3>1, <3>2, <3>3, CellsUntouched
  <2>4. CASE pc = "attend" /\ ~(batch.layer + 1 < n_layers)
    <3>1. spoiled' = spoiled /\ text' = batch.toks
      BY <1>8, <2>4 DEF BatchFails
    <3>2. Context' = batch.toks
      BY <2>1, <3>1 DEF Context
    <3>3. conv' \notin spoiled' /\ Len(Context') <= max_seq =>
            InFlight = {} /\ \A l \in Layer : Holds(l, Context')
      BY <2>1, <2>4, <3>1, <3>2, PromptHeld
    <3> QED  BY <2>1, <3>1, <3>3, CellsUntouched
  <2> QED  BY <1>8, <2>2, <2>3, <2>4 DEF BatchFails
<1>9. CASE Clear
  <2>1. UNCHANGED <<passes, done, stored, attended, spoiled>> /\ wiped' = wiped \cup InFlight
        /\ pc' = "idle" /\ text' = <<>>
    BY <1>9 DEF Clear, ran
  <2>2. Context' = <<>>
    BY <2>1 DEF Context
  <2> QED  BY <2>1, <2>2, CellsWiped
<1>10. CASE BatchWrite
  <2>1. UNCHANGED <<passes, done, stored, attended, text>> /\ wiped' = wiped \cup InFlight
        /\ pc = "batch" /\ pc' = "attend" /\ spoiled \subseteq spoiled'
    BY <1>10 DEF BatchWrite, ran
  <2>2. Context' = <<>>
    BY <2>1 DEF Context, Control
  <2> QED  BY <2>1, <2>2, CellsWiped
<1>11. ASSUME NEW toks \in Vector, NEW turn \in Vector,
              passes' = Append(passes, NewPass(toks, turn)),
              UNCHANGED <<done, stored, attended, kv, spoiled, wiped, conv>>,
              pc \in {"idle", "encode"},
              Context' = text \o toks
       PROVE  CellsInPlace'
  <2> DEFINE q == NewPass(toks, turn)
  <2>1. q \in Pass /\ q.conv = conv /\ q.seen = {} /\ q.want = text \o toks /\ q.start = Len(text)
    <3>1. seq_len = Len(text)
      BY <1>11 DEF Control
    <3> QED  BY <3>1, NewPassType
  <2>2. Context = text
    BY <1>11 DEF Context
  <2>3. SubSeq(q.want, 1, q.start) = Context /\ Len(Context) <= Len(q.want)
    <3>1. text \in Vector
      BY DEF TypeOK
    <3> QED  BY <2>1, <2>2, <3>1, TextBefore
  <2> HIDE DEF q
  <2>4. passes' = Append(passes, q)
    BY <1>11 DEF q
  <2>5. q.want = Context'
    BY <1>11, <2>1
  <2> QED  BY <1>11, <2>1, <2>3, <2>4, <2>5, CellsCommitted
<1>12. CASE Submit
  <2>1. NextTokens(1) \in Vector /\ DecodePosition \in Vector
    BY VectorsType
  <2>2. /\ passes' = Append(passes, NewPass(NextTokens(1), DecodePosition))
        /\ UNCHANGED <<done, stored, attended, kv, spoiled, wiped, conv>>
        /\ pc = "encode" /\ pc' = "idle"
        /\ text' = text \o NextTokens(1)
    BY <1>12 DEF Submit, Return, ran
  <2>3. Context' = text \o NextTokens(1)
    BY <2>2 DEF Context
  <2> QED  BY <1>11, <2>1, <2>2, <2>3
<1>13. ASSUME NEW k \in PromptLen, CallPrompt(k)
       PROVE  CellsInPlace'
  <2>1. NextTokens(k) \in Vector /\ PromptPositions(k) \in Vector
    BY ClientAssumption, VectorsType
  <2>2. /\ passes' = Append(passes, NewPass(NextTokens(k), PromptPositions(k)))
        /\ UNCHANGED <<done, stored, attended, kv, spoiled, wiped, conv>>
        /\ pc = "idle" /\ pc' = "prompt"
    BY <1>13 DEF CallPrompt, EncodePrompt, ran
  <2> DEFINE q == NewPass(NextTokens(k), PromptPositions(k))
  <2>3. q \in Pass /\ q.want = text \o NextTokens(k)
    BY <2>1, NewPassType
  <2>4. passes'[Len(passes')] = q
    <3> HIDE DEF q
    <3> QED  BY <2>2, <2>3, Committed DEF q
  <2>5. Context' = text \o NextTokens(k)
    BY <2>2, <2>3, <2>4 DEF Context
  <2> QED  BY <1>11, <2>1, <2>2, <2>5
<1> QED
  BY <1>1, <1>3, <1>4, <1>5, <1>6, <1>7, <1>8, <1>9, <1>10, <1>12, <1>13 DEF Next, Client,
     HostStep

-----------------------------------------------------------------------------
(* The prompt of forward_prefill_batch.                                    *)

(* What the layers hold stays in place while the prompt is computed.       *)
LEMMA BatchStep ==
  ASSUME TypeOK, Control, PositionsInPlace, BatchInPlace, [Next]_vars
  PROVE  BatchInPlace'
<1>1. CASE pc' \notin {"batch", "attend"}
  BY <1>1 DEF BatchInPlace
<1>2. CASE UNCHANGED vars
  BY <1>2 DEF BatchInPlace, Holds, vars, host, gpu, ran, history
<1>3. CASE RunGpu
  <2>1. done + 1 \in PassNumber /\ UNCHANGED <<host, history>>
    BY <1>3, GpuRun
  <2>2. done # Len(passes) /\ UNCHANGED <<pc, batch, conv, spoiled>>
    BY <2>1 DEF PassNumber, TypeOK, host, history
  <2> QED  BY <2>1, <2>2 DEF BatchInPlace
<1>4. ASSUME NEW k \in PromptLen, CallBatch(k)
      PROVE  BatchInPlace'
  <2>1. pc' = "batch" /\ batch'.layer = 0
    BY <1>4 DEF CallBatch, NoBatch
  <2> QED  BY <2>1, ShapeAssumption DEF BatchInPlace, Layer
<1>5. CASE BatchWrite
  <2>1. /\ kv' = [kv EXCEPT ![batch.layer] = StoredByHost(@, batch.toks)]
        /\ batch.layer \in CpuGemm \/ done = Len(passes)
        /\ pc = "batch" /\ pc' = "attend" /\ UNCHANGED <<passes, done, batch, conv>>
        /\ batch.layer \in Layer
    BY <1>5 DEF BatchWrite, Control, ran
  <2>2. conv \notin spoiled' => conv \notin spoiled /\ done = Len(passes)
    <3>1. spoiled' = IF batch.layer \in CpuGemm /\ InFlight # {} THEN spoiled \cup {conv}
                     ELSE spoiled
      BY <1>5 DEF BatchWrite
    <3>2. InFlight = {} => done = Len(passes)
      <4>1. done \in Nat /\ Len(passes) \in Nat /\ done <= Len(passes)
        BY DEF TypeOK
      <4> QED  BY <4>1 DEF InFlight
    <3> QED  BY <2>1, <3>1, <3>2
  <2>3. \A l \in Layer : kv'[l] = IF l = batch.layer THEN StoredByHost(kv[l], batch.toks)
                                  ELSE kv[l]
    BY <2>1 DEF TypeOK
  <2>4. ASSUME Len(batch.toks) <= max_seq, NEW h \in KvHead, NEW p \in 1..Len(batch.toks)
        PROVE  StoredByHost(kv[batch.layer], batch.toks)[h * max_seq + p - 1] = batch.toks[p]
    <3> DEFINE toks == batch.toks
               mem == kv[batch.layer]
    <3>1. toks \in Vector /\ Len(toks) \in Nat /\ max_seq \in Nat
      BY ShapeAssumption DEF TypeOK, Vector
    <3>2. StoredByHost(mem, toks) = Stored(mem, 0, toks)
      BY <2>4 DEF StoredByHost, Fitting
    <3>3. p \in 1..max_seq /\ Len(toks) <= max_seq /\ p \in 1..Len(toks)
      BY <2>4, <3>1
    <3> HIDE DEF toks, mem
    <3>4. Stored(mem, 0, toks)[h * max_seq + p - 1] =
            IF 0 < p /\ p <= 0 + Len(toks) THEN toks[p - 0] ELSE mem[h * max_seq + p - 1]
      <4>1. 0 \in Nat /\ 0 + Len(toks) <= max_seq
        BY <3>1, <3>3
      <4> QED  BY <3>1, <3>3, <4>1, StoredInPlace, ZenonT(60)
    <3>5. 0 < p /\ p <= 0 + Len(toks) /\ p - 0 = p
      BY <3>1, <3>3
    <3>6. StoredByHost(mem, toks)[h * max_seq + p - 1] = toks[p]
      BY <3>2, <3>4, <3>5
    <3> QED  BY <3>6 DEF toks, mem
  <2>5. ASSUME conv' \notin spoiled', NEW l \in Layer,
               l < batch'.layer \/ (pc' = "attend" /\ l = batch'.layer)
        PROVE  done' = Len(passes') /\ (Len(batch'.toks) <= max_seq => Holds(l, batch.toks)')
    <3>1. done' = Len(passes') /\ conv \notin spoiled
      BY <2>1, <2>2, <2>5
    <3>2. CASE l = batch.layer
      BY <2>1, <2>3, <2>4, <3>1, <3>2 DEF Holds
    <3>3. CASE l # batch.layer
      <4>1. l < batch.layer /\ kv'[l] = kv[l]
        BY <2>1, <2>3, <2>5, <3>3
      <4>2. Len(batch.toks) <= max_seq => Holds(l, batch.toks)
        BY <2>1, <3>1, <4>1 DEF BatchInPlace
      <4> QED  BY <2>1, <3>1, <4>1, <4>2 DEF Holds
    <3> QED  BY <3>2, <3>3
  <2> QED  BY <2>5 DEF BatchInPlace
<1>6. CASE BatchAttend /\ batch.layer + 1 < n_layers
  <2>1. /\ pc = "attend" /\ pc' = "batch" /\ UNCHANGED <<kv, passes, done, conv, spoiled>>
        /\ batch'.layer = batch.layer + 1 /\ batch'.toks = batch.toks
    BY <1>6 DEF BatchAttend, gpu, ran, TypeOK
  <2>2. batch.layer \in Layer
    BY <2>1 DEF Control
  <2>3. \A l \in Layer : l < batch'.layer => l < batch.layer \/ l = batch.layer
    BY <2>1, <2>2 DEF Layer
  <2>4. conv' \notin spoiled' =>
          \A l \in Layer : l < batch'.layer =>
            done' = Len(passes') /\ (Len(batch'.toks) <= max_seq => Holds(l, batch.toks)')
    BY <2>1, <2>3 DEF BatchInPlace, Holds
  <2> QED  BY <2>1, <2>4 DEF BatchInPlace
<1>7. pc' \in {"batch", "attend"} =>
        \/ UNCHANGED vars \/ RunGpu \/ (\E k \in PromptLen : CallBatch(k)) \/ BatchWrite
        \/ (BatchAttend /\ batch.layer + 1 < n_layers)
  <2>1. CASE BatchAttend
    BY <2>1 DEF BatchAttend
  <2>2. ASSUME NEW k \in PromptLen, CallPromptFails(k)
        PROVE  pc' = "idle"
    BY <2>2 DEF CallPromptFails, EncodePrompt
  <2>3. ASSUME NEW k \in PromptLen, CallPrompt(k)
        PROVE  pc' = "prompt"
    BY <2>3 DEF CallPrompt
  <2>4. CASE CallDecode \/ WaitOldest \/ SkipWait \/ Submit \/ SubmitFails \/ PromptDone
             \/ Clear \/ BatchFails
    BY <2>4 DEF CallDecode, WaitOldest, SkipWait, Submit, SubmitFails, PromptDone, Clear,
       BatchFails, Return
  <2> QED  BY <2>1, <2>2, <2>3, <2>4 DEF Next, Client, HostStep
<1> QED  BY <1>1, <1>2, <1>3, <1>4, <1>5, <1>6, <1>7

(* Attention over the prompt sees the prompt.                              *)
LEMMA BatchSeesStep ==
  ASSUME TypeOK, Control, BatchInPlace, BatchSeesItsPrompt, [Next]_vars
  PROVE  BatchSeesItsPrompt'
<1>1. CASE batch' = batch /\ spoiled \subseteq spoiled'
  BY <1>1 DEF BatchSeesItsPrompt
<1>2. CASE batch'.seen = {}
  BY <1>2 DEF BatchSeesItsPrompt
<1>3. CASE BatchAttend
  <2>1. /\ batch'.toks = batch.toks /\ batch'.conv = batch.conv /\ spoiled' = spoiled
        /\ batch'.seen = batch.seen \cup KRows(kv[batch.layer], Len(batch.toks))
    BY <1>3 DEF BatchAttend, TypeOK
  <2>2. pc = "attend" /\ batch.conv = conv /\ batch.layer \in Layer
    BY <1>3 DEF BatchAttend, Control
  <2>3. ASSUME conv \notin spoiled, Len(batch.toks) <= max_seq
        PROVE  KRows(kv[batch.layer], Len(batch.toks)) = {batch.toks}
    <3>1. Holds(batch.layer, batch.toks)
      BY <2>2, <2>3 DEF BatchInPlace
    <3> DEFINE toks == batch.toks
               mem == kv[batch.layer]
    <3>2. /\ toks \in Vector /\ Len(toks) <= max_seq
          /\ \A h \in KvHead : \A p \in 1..Len(toks) : mem[h * max_seq + p - 1] = toks[p]
      BY <2>3, <3>1 DEF Holds, TypeOK
    <3> HIDE DEF toks, mem
    <3>3. KRows(mem, Len(toks)) = {toks}
      BY <3>2, RowsOfHeld
    <3> QED  BY <3>3 DEF toks, mem
  <2> QED  BY <2>1, <2>2, <2>3 DEF BatchSeesItsPrompt
<1>4. ASSUME NEW k \in PromptLen, CallBatch(k)
      PROVE  batch'.seen = {}
  BY <1>4 DEF CallBatch, NoBatch
<1>5. CASE BatchFails
  <2>1. batch'.seen = {}
    BY <1>5 DEF BatchFails, NoBatch
  <2> QED  BY <1>2, <2>1
<1>6. CASE BatchWrite
  BY <1>1, <1>6 DEF BatchWrite
<1>7. ASSUME NEW k \in PromptLen, CallPrompt(k) \/ CallPromptFails(k)
      PROVE  batch' = batch /\ spoiled' = spoiled
  BY <1>7 DEF CallPrompt, CallPromptFails
<1>8. CASE UNCHANGED vars \/ CallDecode \/ Clear \/ WaitOldest \/ SkipWait \/ Submit
           \/ SubmitFails \/ PromptDone \/ RunGpu
  <2>1. batch' = batch /\ spoiled' = spoiled
    BY <1>8 DEF vars, host, history, CallDecode, Clear, WaitOldest, SkipWait, Submit, SubmitFails,
       PromptDone, RunGpu, Update, Attend, Complete
  <2> QED  BY <1>1, <2>1
<1> QED  BY <1>1, <1>2, <1>3, <1>4, <1>5, <1>6, <1>7, <1>8 DEF Next, Client, HostStep

-----------------------------------------------------------------------------
(* What the pipeline leaves to the next conversation.                      *)

(* Between calls what was submitted is answered or in the pipeline.        *)
LEMMA SubmittedLength ==
  ASSUME TypeOK, Control, AnswersInOrder, pc # "encode"
  PROVE  Len(submitted) = Len(handed) + Len(pending_cbs)
<1> DEFINE old == Oldest(pending_cbs)
<1>1. Len(handed) \in Nat /\ \A i \in 1..Len(handed) : handed[i].pass \in PassNumber
  BY HandedPasses DEF TypeOK
<1>2. Answers \in Seq(PassNumber) /\ Len(Answers) = Len(handed)
  BY <1>1 DEF Answers
<1>3. old \in Seq(Nat) /\ Len(old) = Len(pending_cbs)
  BY DEF Oldest, TypeOK, PassNumber
<1>4. submitted = Answers \o Held \o old /\ Held = <<>>
  BY DEF AnswersInOrder, Control, Held
<1> HIDE DEF old
<1>5. Answers \in Seq(Nat)
  BY <1>2 DEF PassNumber
<1>6. Answers \o Held = Answers
  BY <1>4, <1>5, ConcatEmptySeq
<1>7. submitted = Answers \o old
  BY <1>4, <1>6
<1>8. Len(Answers \o old) = Len(Answers) + Len(old)
  BY <1>3, <1>5, ConcatProperties
<1> QED  BY <1>2, <1>3, <1>7, <1>8

(* An answer is the pass that was submitted in its place.                  *)
LEMMA AnswerIsSubmitted ==
  ASSUME TypeOK, AnswersInOrder, NEW i \in DOMAIN handed
  PROVE  i \in DOMAIN submitted /\ submitted[i] = handed[i].pass
<1> DEFINE rest == Held \o Oldest(pending_cbs)
<1>1. /\ Len(handed) \in Nat /\ DOMAIN handed = 1..Len(handed)
      /\ \A j \in 1..Len(handed) : handed[j].pass \in PassNumber
  BY HandedPasses DEF TypeOK
<1>2. /\ Answers \in Seq(PassNumber) /\ Len(Answers) = Len(handed)
      /\ \A j \in 1..Len(handed) : Answers[j] = handed[j].pass
  BY <1>1 DEF Answers
<1>3. Held \in Seq(PassNumber) /\ Oldest(pending_cbs) \in Seq(PassNumber)
  <2>1. Held \in Seq(PassNumber)
    BY DEF Held, TypeOK
  <2>2. Oldest(pending_cbs) \in Seq(PassNumber)
    BY DEF Oldest, TypeOK
  <2> QED  BY <2>1, <2>2
<1>4. rest \in Seq(PassNumber) /\ submitted = Answers \o rest
  <2>1. rest \in Seq(PassNumber)
    BY <1>3
  <2>2. submitted = (Answers \o Held) \o Oldest(pending_cbs)
    BY DEF AnswersInOrder
  <2>3. (Answers \o Held) \o Oldest(pending_cbs) = Answers \o rest
    <3> DEFINE a == Answers
               b == Held
               c == Oldest(pending_cbs)
    <3>1. a \in Seq(PassNumber) /\ b \in Seq(PassNumber) /\ c \in Seq(PassNumber)
      BY <1>2, <1>3
    <3> HIDE DEF a, b, c
    <3>2. (a \o b) \o c = a \o (b \o c)
      BY <3>1, ConcatAssociative, SMTT(20)
    <3> QED  BY <3>2 DEF a, b, c
  <2> QED  BY <2>1, <2>2, <2>3
<1> HIDE DEF rest
<1> QED  BY <1>1, <1>2, <1>4, ConcatProperties

(* A step that begins no conversation: what is new, handed or submitted,   *)
(* comes behind the rest.                                                  *)
LEMMA TurnOverKept ==
  ASSUME TypeOK, ConversationsInOrder, TurnOver, UNCHANGED conv,
         \A m \in PassNumber : passes'[m].conv = passes[m].conv,
         Len(handed) \in Nat, Len(handed') \in Nat, Len(handed) <= Len(handed'),
         \A i \in DOMAIN handed' :
           \/ i \in DOMAIN handed /\ handed'[i] = handed[i]
           \/ /\ i = Len(handed) + 1 /\ handed'[i].conv = conv
              /\ handed'[i].pass \in PassNumber,
         \A i \in DOMAIN submitted' :
           \/ i \in DOMAIN submitted /\ submitted'[i] = submitted[i]
           \/ passes'[submitted'[i]].conv = conv
  PROVE  /\ \A i \in DOMAIN handed' :
              passes'[handed'[i].pass].conv <= handed'[i].conv /\ handed'[i].conv <= conv'
         /\ \A c \in 0..conv' : \E s \in 0..Len(handed') :
              /\ \A i \in DOMAIN handed' : handed'[i].conv = c => i > s
              /\ \A i \in DOMAIN submitted' : passes'[submitted'[i]].conv < c => i <= s + Depth
<1>1. conv \in Nat /\ \A m \in PassNumber : passes[m].conv \in Nat /\ passes[m].conv <= conv
  <2>1. conv \in Nat /\ \A m \in PassNumber : passes[m].conv \in Nat
    BY PassFields DEF TypeOK
  <2>2. \A m \in PassNumber : passes[m].conv < conv \/ passes[m].conv = conv
    BY DEF ConversationsInOrder
  <2> QED  BY <2>1, <2>2
<1>2. \A i \in DOMAIN handed : handed[i].pass \in PassNumber
  BY HandedPasses DEF TypeOK
<1>3. \A i \in DOMAIN submitted : submitted[i] \in PassNumber
  BY DEF TypeOK
<1>4. ASSUME NEW i \in DOMAIN handed'
      PROVE  passes'[handed'[i].pass].conv <= handed'[i].conv /\ handed'[i].conv <= conv
  BY <1>1, <1>2 DEF TurnOver
<1>5. ASSUME NEW c \in 0..conv
      PROVE  \E s \in 0..Len(handed') :
               /\ \A i \in DOMAIN handed' : handed'[i].conv = c => i > s
               /\ \A i \in DOMAIN submitted' :
                    passes'[submitted'[i]].conv < c => i <= s + Depth
  <2>1. PICK s \in 0..Len(handed) :
          /\ \A i \in DOMAIN handed : handed[i].conv = c => i > s
          /\ \A i \in DOMAIN submitted : passes[submitted[i]].conv < c => i <= s + Depth
    BY DEF TurnOver
  <2>2. s \in 0..Len(handed')
    BY <2>1
  <2>3. \A i \in DOMAIN handed' : handed'[i].conv = c => i > s
    BY <2>1
  <2>4. ASSUME NEW i \in DOMAIN submitted', passes'[submitted'[i]].conv < c
        PROVE  i <= s + Depth
    <3>1. ~(passes'[submitted'[i]].conv = conv)
      BY <1>1, <2>4
    <3>2. i \in DOMAIN submitted /\ submitted'[i] = submitted[i]
      BY <3>1
    <3>3. passes[submitted[i]].conv < c
      BY <1>3, <2>4, <3>2
    <3> QED  BY <2>1, <3>2, <3>3
  <2> QED  BY <2>2, <2>3, <2>4
<1> QED  BY <1>4, <1>5

(* A conversation begins between calls: of the passes submitted so far     *)
(* only those in the pipeline are without an answer.                       *)
LEMMA TurnOverBegins ==
  ASSUME TypeOK, Control, AnswersInOrder, TurnOver, pc = "idle", conv' = conv + 1,
         UNCHANGED <<handed, submitted, passes>>
  PROVE  /\ \A i \in DOMAIN handed' :
              passes'[handed'[i].pass].conv <= handed'[i].conv /\ handed'[i].conv <= conv'
         /\ \A c \in 0..conv' : \E s \in 0..Len(handed') :
              /\ \A i \in DOMAIN handed' : handed'[i].conv = c => i > s
              /\ \A i \in DOMAIN submitted' : passes'[submitted'[i]].conv < c => i <= s + Depth
<1>1. conv \in Nat /\ Len(handed) \in Nat /\ Len(pending_cbs) \in Nat /\ Depth \in Nat
  BY ClientAssumption DEF TypeOK, Depth
<1>2. \A i \in DOMAIN handed : handed[i].conv \in Nat
  <2>1. \A i \in 1..Len(handed) : handed[i] \in [pass : PassNumber, conv : Nat]
    BY ElementOfSeq DEF TypeOK
  <2>2. \A i \in 1..Len(handed) : handed[i].conv \in Nat
    BY <2>1
  <2>3. DOMAIN handed = 1..Len(handed)
    BY DEF TypeOK
  <2> QED  BY <2>2, <2>3
<1>3. \A i \in DOMAIN handed :
        passes[handed[i].pass].conv <= handed[i].conv /\ handed[i].conv <= conv
  BY DEF TurnOver
<1>4. \A i \in DOMAIN handed : handed[i].conv <= conv + 1
  BY <1>1, <1>2, <1>3
<1>5. ASSUME NEW c \in 0..(conv + 1)
      PROVE  \E s \in 0..Len(handed) :
               /\ \A i \in DOMAIN handed : handed[i].conv = c => i > s
               /\ \A i \in DOMAIN submitted : passes[submitted[i]].conv < c => i <= s + Depth
  <2>1. CASE c \in 0..conv
    BY <2>1 DEF TurnOver
  <2>2. CASE c = conv + 1
    <3>1. \A i \in DOMAIN handed : handed[i].conv # c
      BY <1>1, <1>2, <1>3, <2>2
    <3>2. Len(submitted) <= Len(handed) + Depth
      <4>1. Len(submitted) = Len(handed) + Len(pending_cbs)
        BY SubmittedLength
      <4>2. Len(pending_cbs) <= Depth
        BY <1>1 DEF TurnOver
      <4> QED  BY <1>1, <4>1, <4>2
    <3>3. \A i \in DOMAIN submitted : i <= Len(handed) + Depth
      <4>1. DOMAIN submitted = 1..Len(submitted) /\ Len(submitted) \in Nat
        BY DEF TypeOK
      <4> QED  BY <1>1, <3>2, <4>1
    <3>4. Len(handed) \in 0..Len(handed)
      BY <1>1
    <3> QED  BY <3>1, <3>3, <3>4
  <2> QED  BY <1>1, <2>1, <2>2
<1> QED  BY <1>3, <1>4, <1>5

(* Every step keeps the number of answers that are left over small.        *)
LEMMA TurnOverStep ==
  ASSUME TypeOK, Control, ConversationsInOrder, PositionsInPlace, AnswersInOrder, TurnOver,
         [Next]_vars
  PROVE  TurnOver'
<1> DEFINE Room == Len(pending_cbs) + (IF pc = "encode" THEN 1 ELSE 0) <= Depth
           Rest == /\ \A i \in DOMAIN handed :
                        passes[handed[i].pass].conv <= handed[i].conv /\ handed[i].conv <= conv
                   /\ \A c \in 0..conv : \E s \in 0..Len(handed) :
                        /\ \A i \in DOMAIN handed : handed[i].conv = c => i > s
                        /\ \A i \in DOMAIN submitted :
                             passes[submitted[i]].conv < c => i <= s + Depth
<1>1. TurnOver' <=> Room' /\ Rest'
  BY DEF TurnOver, Depth
<1>2. /\ Len(pending_cbs) \in Nat /\ Depth \in Nat \ {0} /\ pipeline_depth \in Nat
      /\ pipeline_depth # 0 => Depth = pipeline_depth
  BY ClientAssumption DEF Depth, TypeOK
<1>3. Room /\ Len(pending_cbs) <= Depth /\ Depth' = Depth
  BY <1>2 DEF TurnOver, Depth
<1>4. \A m \in PassNumber : passes'[m].conv = passes[m].conv
  BY PassesKept
<1>5. Len(handed) \in Nat
  BY HandedPasses DEF TypeOK
<1>6. ASSUME UNCHANGED <<pending_cbs>>, pc' # "encode"
      PROVE  Room'
  BY <1>2, <1>3, <1>6
<1>7. ASSUME UNCHANGED <<handed, submitted, conv>>
      PROVE  Rest'
  BY <1>4, <1>5, <1>7, TurnOverKept
<1>8. CASE UNCHANGED vars \/ RunGpu
  <2>1. UNCHANGED <<pc, pending_cbs, handed, submitted, conv>>
    BY <1>8 DEF vars, host, history, RunGpu, Update, Attend, Complete
  <2>2. Room'
    BY <1>3, <2>1
  <2> QED  BY <1>1, <1>7, <2>1, <2>2
<1>9. CASE WaitOldest
  <2>1. pending_cbs # <<>> /\ pending_cbs' = SubSeq(pending_cbs, 1, Len(pending_cbs) - 1)
        /\ UNCHANGED <<handed, submitted, conv>>
    BY <1>9 DEF WaitOldest, history
  <2>2. Len(pending_cbs') = Len(pending_cbs) - 1
    <3>1. pending_cbs \in Seq(PassNumber)
      BY DEF TypeOK
    <3>2. Len(pending_cbs) - 1 \in Nat /\ Len(pending_cbs) - 1 <= Len(pending_cbs)
      BY <1>2, <2>1, <3>1
    <3> QED  BY <2>1, <3>1, <3>2, PrefixOfSeq
  <2>3. Room'
    BY <1>2, <1>3, <2>2
  <2> QED  BY <1>1, <1>7, <2>1, <2>3
<1>10. CASE SkipWait
  <2>1. /\ pending_cbs = <<>> \/ Len(pending_cbs) < pipeline_depth
        /\ UNCHANGED <<pending_cbs, handed, submitted, conv>>
    BY <1>10 DEF SkipWait, history
  <2>2. Len(pending_cbs) + 1 <= Depth
    BY <1>2, <2>1
  <2>3. Room'
    BY <1>2, <1>3, <2>1, <2>2
  <2> QED  BY <1>1, <1>7, <2>1, <2>3
<1>11. CASE Submit \/ SubmitFails
  <2>1. pc = "encode" /\ pc' = "idle" /\ Return /\ UNCHANGED conv
    BY <1>11 DEF Submit, SubmitFails, Return
  <2>2. Len(pending_cbs) + 1 <= Depth
    BY <1>3, <2>1
  <2>3. Room'
    <3>1. CASE Submit
      <4>1. pending_cbs' = <<Len(passes) + 1>> \o pending_cbs
        BY <3>1 DEF Submit
      <4>2. pending_cbs \in Seq(Nat) /\ Len(passes) + 1 \in Nat
        BY DEF TypeOK, PassNumber
      <4>3. Len(pending_cbs') = Len(pending_cbs) + 1
        BY <4>1, <4>2
      <4> QED  BY <1>2, <1>3, <2>1, <2>2, <4>3
    <3>2. CASE SubmitFails
      BY <1>6, <2>1, <3>2 DEF SubmitFails
    <3> QED  BY <1>11, <3>1, <3>2
  <2>4. /\ Len(handed') \in Nat /\ Len(handed) <= Len(handed')
        /\ \A i \in DOMAIN handed' :
             \/ i \in DOMAIN handed /\ handed'[i] = handed[i]
             \/ /\ i = Len(handed) + 1 /\ handed'[i].conv = conv
                /\ handed'[i].pass \in PassNumber
    <3>1. CASE cached_logits = NoPass
      BY <1>5, <2>1, <3>1 DEF Return
    <3>2. CASE cached_logits # NoPass
      <4> DEFINE a == [pass |-> cached_logits, conv |-> conv]
      <4>1. handed' = Append(handed, a) /\ a.conv = conv /\ a.pass \in PassNumber
        BY <2>1, <3>2 DEF Return, TypeOK
      <4> HIDE DEF a
      <4> QED  BY <4>1 DEF TypeOK
    <3> QED  BY <3>1, <3>2
  <2>5. \A i \in DOMAIN submitted' :
          \/ i \in DOMAIN submitted /\ submitted'[i] = submitted[i]
          \/ passes'[submitted'[i]].conv = conv
    <3>1. CASE Submit
      <4> DEFINE q == NewPass(NextTokens(1), DecodePosition)
                 n == Len(passes) + 1
      <4>1. q \in Pass /\ q.conv = conv
        BY VectorsType, NewPassType
      <4>2. passes' = Append(passes, q) /\ submitted' = Append(submitted, n)
        BY <3>1 DEF Submit
      <4> HIDE DEF q
      <4>3. passes'[n].conv = conv
        BY <4>1, <4>2, Committed
      <4> HIDE DEF n
      <4>4. \A i \in DOMAIN submitted' :
              (i \in DOMAIN submitted /\ submitted'[i] = submitted[i]) \/ submitted'[i] = n
        <5>1. submitted \in Seq(PassNumber) /\ submitted' = Append(submitted, n)
          BY <4>2 DEF TypeOK
        <5> QED  BY <5>1
      <4> QED  BY <4>3, <4>4
    <3>2. CASE SubmitFails
      BY <3>2 DEF SubmitFails
    <3> QED  BY <1>11, <3>1, <3>2
  <2>6. Rest'
    BY <1>4, <1>5, <2>1, <2>4, <2>5, TurnOverKept
  <2> QED  BY <1>1, <2>3, <2>6
<1>12. ASSUME pc = "idle", pc' # "encode", conv' = conv + 1,
              UNCHANGED <<pending_cbs, handed, submitted, passes>>
       PROVE  TurnOver'
  <2>1. Room'
    BY <1>6, <1>12
  <2>2. Rest'
    BY <1>12, TurnOverBegins
  <2> QED  BY <1>1, <2>1, <2>2
<1>13. CASE Clear
  BY <1>12, <1>13 DEF Clear
<1>14. ASSUME NEW k \in PromptLen, CallBatch(k)
       PROVE  TurnOver'
  BY <1>12, <1>14 DEF CallBatch, gpu, ran
<1>15. ASSUME UNCHANGED <<pending_cbs, handed, submitted, conv>>, pc' # "encode"
       PROVE  TurnOver'
  BY <1>1, <1>6, <1>7, <1>15
<1>16. ASSUME NEW k \in PromptLen, CallPrompt(k) \/ CallPromptFails(k)
       PROVE  TurnOver'
  BY <1>15, <1>16 DEF CallPrompt, CallPromptFails, EncodePrompt
<1>17. CASE CallDecode \/ PromptDone \/ BatchWrite \/ BatchAttend \/ BatchFails
  <2>1. UNCHANGED <<pending_cbs, handed, submitted, conv>> /\ pc' # "encode"
    BY <1>17 DEF CallDecode, PromptDone, BatchWrite, BatchAttend, BatchFails, history
  <2> QED  BY <1>15, <2>1
<1> QED
  BY <1>8, <1>9, <1>10, <1>11, <1>13, <1>14, <1>16, <1>17 DEF Next, Client, HostStep

(* The answers left over stand between two places Depth apart.             *)
LEMMA StaleAnswersBound ==
  ASSUME TypeOK, AnswersInOrder, TurnOver
  PROVE  StaleAnswersAreFew
<1> SUFFICES ASSUME NEW c \in 0..conv
             PROVE  Cardinality({i \in DOMAIN handed : handed[i].conv = c /\ Stale(i)}) <= Depth
  BY DEF StaleAnswersAreFew
<1> DEFINE T == {i \in DOMAIN handed : handed[i].conv = c /\ Stale(i)}
<1>1. Depth \in Nat /\ Len(handed) \in Nat
  BY ClientAssumption DEF Depth, TypeOK
<1>2. PICK s \in 0..Len(handed) :
        /\ \A i \in DOMAIN handed : handed[i].conv = c => i > s
        /\ \A i \in DOMAIN submitted : passes[submitted[i]].conv < c => i <= s + Depth
  BY DEF TurnOver
<1>3. s \in Nat
  BY <1>1
<1>4. ASSUME NEW i \in T
      PROVE  i \in (s + 1)..(s + Depth)
  <2>1. i \in DOMAIN handed /\ i \in Nat /\ i > s
    BY <1>2, SMTT(20) DEF TypeOK
  <2>2. i \in DOMAIN submitted /\ submitted[i] = handed[i].pass
    BY <2>1, AnswerIsSubmitted
  <2>3. passes[submitted[i]].conv < c
    <3>1. passes[handed[i].pass].conv # c /\ passes[handed[i].pass].conv <= c
      BY <2>1 DEF Stale, TurnOver
    <3>2. handed[i].pass \in PassNumber
      BY <2>1, HandedPasses DEF TypeOK
    <3>3. passes[handed[i].pass].conv \in Nat
      BY <3>2, PassFields
    <3> QED  BY <2>2, <3>1, <3>3
  <2> QED  BY <1>1, <1>2, <1>3, <2>1, <2>2, <2>3
<1>5. /\ IsFiniteSet((s + 1)..(s + Depth))
      /\ Cardinality((s + 1)..(s + Depth)) = Depth
  <2>1. /\ IsFiniteSet((s + 1)..(s + Depth))
        /\ Cardinality((s + 1)..(s + Depth)) =
             IF s + 1 > s + Depth THEN 0 ELSE (s + Depth) - (s + 1) + 1
    <3>1. s + 1 \in Int /\ s + Depth \in Int
      BY <1>1, <1>3
    <3> QED  BY <3>1, FS_Interval
  <2> QED  BY <1>1, <1>3, <2>1
<1> HIDE DEF T
<1>6. T \subseteq (s + 1)..(s + Depth)
  BY <1>4
<1>7. Cardinality(T) <= Depth
  BY <1>5, <1>6, FS_Subset
<1> QED  BY <1>7 DEF T

-----------------------------------------------------------------------------
(* The invariant.                                                          *)

(* The invariant holds at the start.                                       *)
LEMMA GpuInit ==
  ASSUME Init
  PROVE  GpuInv
<1>1. PassNumber = {} /\ InFlight = {} /\ passes = <<>> /\ Len(passes) = 0
  BY DEF Init, PassNumber, InFlight
<1>2. 0 \in Layer
  BY ShapeAssumption DEF Layer
<1>3. batch \in [toks : Vector, conv : Nat, layer : Nat, seen : SUBSET Vector]
  BY DEF Init, NoBatch, Vector
<1>4. TypeOK
  BY <1>1, <1>2, <1>3 DEF Init, TypeOK, Vector, NoPass, Blank
<1>5. Control /\ ConversationsInOrder
  BY <1>1 DEF Init, Control, ConversationsInOrder, NoPass
<1>6. AnswersInOrder
  <2>1. Answers = <<>> /\ Held = <<>> /\ Oldest(pending_cbs) = <<>>
    BY DEF Init, Answers, Held, Oldest, NoPass
  <2> QED  BY <1>1, <2>1 DEF Init, AnswersInOrder
<1>7. PositionsInPlace
  BY <1>1 DEF PositionsInPlace
<1>8. CellsInPlace
  <2>1. \A n : Prior(n) = <<>>
    BY <1>1 DEF Init, Prior, Context
  <2>2. \A l \in Layer : Holds(l, Prior(NextAt(l)))
    BY <2>1 DEF Holds
  <2> QED  BY <1>1, <2>2 DEF Init, CellsInPlace
<1>9. BatchInPlace /\ BatchSeesItsPrompt
  BY DEF Init, BatchInPlace, BatchSeesItsPrompt, NoBatch
<1>10. TurnOver
  <2>1. Depth \in Nat /\ Len(<<>>) = 0 /\ DOMAIN <<>> = {}
    BY ClientAssumption DEF Depth
  <2>2. /\ pc # "encode" /\ Len(pending_cbs) = 0 /\ Len(handed) = 0 /\ conv = 0
        /\ DOMAIN handed = {} /\ DOMAIN submitted = {}
    BY <2>1 DEF Init
  <2>3. 0 \in 0..Len(handed)
    BY <2>2
  <2> QED  BY <2>1, <2>2, <2>3 DEF TurnOver
<1> QED  BY <1>4, <1>5, <1>6, <1>7, <1>8, <1>9, <1>10 DEF GpuInv

(* A step of the host or the GPU keeps every part of the invariant.        *)
LEMMA GpuStep ==
  ASSUME GpuInv, [Next]_vars
  PROVE  GpuInv'
<1>1. /\ TypeOK /\ Control /\ ConversationsInOrder /\ AnswersInOrder /\ PositionsInPlace
      /\ dependency_dispatch => CellsInPlace
      /\ BatchInPlace /\ BatchSeesItsPrompt /\ TurnOver
  BY DEF GpuInv
<1>2. TypeOK' /\ Control' /\ ConversationsInOrder' /\ PositionsInPlace'
  BY <1>1, TypeStep, ControlStep, ConversationsStep, PositionsStep
<1>3. AnswersInOrder'
  BY <1>1, <1>2, AnswersStep
<1>4. BatchInPlace' /\ BatchSeesItsPrompt'
  BY <1>1, BatchStep, BatchSeesStep
<1>a. dependency_dispatch => CellsInPlace'
  BY <1>1, CellsStep
<1>5. TurnOver'
  BY <1>1, TurnOverStep
<1> QED  BY <1>2, <1>3, <1>4, <1>a, <1>5 DEF GpuInv

(* The buffers of positions, the pipeline, the passes in flight and the    *)
(* prompt of forward_prefill_batch always fit each other, however the      *)
(* calls of the host and the kernels of the GPU come between each other,   *)
(* in order or not; under dependency dispatch the cells of the cache fit   *)
(* them too.                                                               *)
THEOREM GpuInvariantHolds == SafeSpec => []GpuInv
<1>1. Init => GpuInv
  BY GpuInit
<1>2. GpuInv /\ [Next]_vars => GpuInv'
  BY GpuStep
<1> QED  BY <1>1, <1>2, PTL DEF SafeSpec

(* Type correctness.                                                       *)
THEOREM TypesHold == SafeSpec => []TypeOK
<1>1. GpuInv => TypeOK
  BY DEF GpuInv
<1> QED  BY <1>1, GpuInvariantHolds, PTL

(* forward_gpu_batched: no answer is lost, duplicated or out of order, and *)
(* none is read before its pass has completed, for every depth of the      *)
(* pipeline and whatever calls fail or come between.                       *)
THEOREM AnswersStayInOrder == SafeSpec => []AnswersInOrder
<1>1. GpuInv => AnswersInOrder
  BY DEF GpuInv
<1> QED  BY <1>1, GpuInvariantHolds, PTL

(* rope_neox_encode: a pass that no prompt was encoded over is rotated by  *)
(* its own positions, although all passes share one buffer of positions.   *)
THEOREM PositionsStay == SafeSpec => []RotatedAsEncoded
<1>1. GpuInv => RotatedAsEncoded
  <2> SUFFICES ASSUME GpuInv, NEW n \in 1..done, n \notin overtaken
               PROVE  passes[n].turned \subseteq {passes[n].turn}
    BY DEF RotatedAsEncoded
  <2>1. n \in PassNumber
    BY DEF GpuInv, TypeOK, PassNumber
  <2> QED  BY <2>1 DEF GpuInv, PositionsInPlace
<1> QED  BY <1>1, GpuInvariantHolds, PTL

(* kv_update and attention under dependency dispatch: an undisturbed pass  *)
(* attends, in every layer and head, to the tokens of its own conversation *)
(* and to nothing else.  (By default nothing orders the two kernels.)      *)
THEOREM PassesStayApart == SafeSpec => []PassesSeeTheirConversation
<1>1. GpuInv => PassesSeeTheirConversation
  <2> SUFFICES ASSUME GpuInv, dependency_dispatch, NEW n \in 1..done, Undisturbed(n)
               PROVE  passes[n].seen = {passes[n].want}
    BY DEF PassesSeeTheirConversation
  <2>1. n \in PassNumber /\ n <= done
    BY DEF GpuInv, TypeOK, PassNumber
  <2>2. passes[n].seen \subseteq {passes[n].want} /\ passes[n].seen # {}
    BY <2>1 DEF GpuInv, CellsInPlace
  <2> QED  BY <2>2
<1> QED  BY <1>1, GpuInvariantHolds, PTL

(* forward_gpu_batched: whatever is cleared or called while passes are in  *)
(* the pipeline, at most Depth calls of a conversation are given the       *)
(* logits of an earlier one.                                               *)
THEOREM StaleAnswersStayFew == SafeSpec => []StaleAnswersAreFew
<1>1. GpuInv => StaleAnswersAreFew
  BY StaleAnswersBound DEF GpuInv
<1> QED  BY <1>1, GpuInvariantHolds, PTL

(* forward_prefill_batch attends to the prompt and to nothing else, unless *)
(* a layer with CPU projections meets passes in flight.                    *)
THEOREM PromptsStayApart == SafeSpec => []BatchSeesItsPrompt
<1>1. GpuInv => BatchSeesItsPrompt
  BY DEF GpuInv
<1> QED  BY <1>1, GpuInvariantHolds, PTL
=============================================================================
