-------------------------- MODULE CpuForward_proofs --------------------------
(***************************************************************************)
(* A prompt on the CPU.  The KV cache of the forward pass, for every model *)
(* size, capacity and sequence of calls: KvInv is inductive, so attention  *)
(* always reads the tokens processed so far unless the tiled path was      *)
(* taken.  And the tiled products of that path, for every size of tile,    *)
(* number of threads and sequence of products: TiledInv is inductive, so   *)
(* what is stored is whole, and stored once.                               *)
(***************************************************************************)
EXTENDS KvForward, TiledMatmul, TLAPS

-----------------------------------------------------------------------------
(* The KV cache.                                                           *)

(* A slice's current token is a token. *)
LEMMA CurrentToken ==
  ASSUME TypeOK, Control, pc \in {"embed", "layers", "advance", "tiled"}
  PROVE  token \in Token
<1>1. tokens \in Seq(Token) /\ token_idx \in Nat /\ token_idx < Len(tokens)
  BY BatchAssumption DEF TypeOK, Control
<1>2. token_idx + 1 \in 1..Len(tokens)
  BY <1>1
<1> QED
  BY <1>1, <1>2 DEF token

LEMMA InitKvInv == ASSUME Init PROVE KvInv
<1>1. kv \in [Layer -> [Pos -> Cell]]
  BY DEF Init, Cell
<1>2. history \in Seq(Token) /\ Len(history) = 0
  BY DEF Init
<1>3. seq_len \in 0..max_seq /\ layer \in 0..n_layers /\ token_idx \in Nat
  BY LayersAssumption DEF Init
<1>4. TypeOK
  BY <1>1, <1>2, <1>3 DEF Init, TypeOK
<1>5. Control /\ LayersAgree /\ PanicOnlyWhenFull
  BY DEF Init, Control, LayersAgree, PanicOnlyWhenFull
<1>6. CacheHoldsHistory
  BY <1>2 DEF Init, CacheHoldsHistory
<1> QED
  BY <1>4, <1>5, <1>6 DEF KvInv

LEMMA CallTokenwiseKvInv ==
  ASSUME KvInv, NEW b \in Batch, CallTokenwise(b) PROVE KvInv'
<1> USE DEF KvInv
<1>1. b \in Seq(Token) /\ 0 < Len(b)
  BY BatchAssumption
<1>2. TypeOK'
  BY DEF TypeOK, CallTokenwise
<1>3. Control'
  BY <1>1 DEF Control, CallTokenwise
<1>4. CacheHoldsHistory' /\ LayersAgree' /\ PanicOnlyWhenFull'
  BY DEF CacheHoldsHistory, LayersAgree, PanicOnlyWhenFull, CallTokenwise
<1> QED
  BY <1>2, <1>3, <1>4

LEMMA CallTiledKvInv ==
  ASSUME KvInv, NEW b \in Batch, CallTiled(b) PROVE KvInv'
<1> USE DEF KvInv
<1>1. b \in Seq(Token) /\ 0 < Len(b)
  BY BatchAssumption
<1>2. TypeOK'
  BY LayersAssumption DEF TypeOK, CallTiled
<1>3. Control'
  BY <1>1, LayersAssumption DEF Control, CallTiled
<1>4. CacheHoldsHistory' /\ LayersAgree' /\ PanicOnlyWhenFull'
  BY DEF CacheHoldsHistory, LayersAgree, PanicOnlyWhenFull, CallTiled
<1> QED
  BY <1>2, <1>3, <1>4

LEMMA ClearKvInv == ASSUME KvInv, Clear PROVE KvInv'
<1> USE DEF KvInv
<1>1. TypeOK'
  <2>1. kv' \in [Layer -> [Pos -> Cell]]
    BY DEF Clear, Cell
  <2>2. history' \in Seq(Token)
    BY DEF Clear
  <2>3. seq_len' \in 0..max_seq
    BY LayersAssumption DEF Clear
  <2> QED
    BY <2>1, <2>2, <2>3 DEF TypeOK, Clear
<1>2. Control' /\ LayersAgree' /\ PanicOnlyWhenFull'
  BY DEF Control, LayersAgree, PanicOnlyWhenFull, Clear
<1>3. CacheHoldsHistory'
  BY DEF CacheHoldsHistory, Clear
<1> QED
  BY <1>1, <1>2, <1>3

LEMMA EmbedKvInv == ASSUME KvInv, Embed PROVE KvInv'
<1> USE DEF KvInv
<1>1. TypeOK' /\ Control'
  <2>1. CASE token \in Vocab
    BY <2>1, LayersAssumption DEF TypeOK, Control, Embed
  <2>2. CASE token \notin Vocab
    BY <2>2 DEF TypeOK, Control, Embed
  <2> QED
    BY <2>1, <2>2
<1>2. CacheHoldsHistory' /\ PanicOnlyWhenFull'
  BY DEF CacheHoldsHistory, PanicOnlyWhenFull, Embed
<1>3. LayersAgree'
  BY LayersAssumption DEF LayersAgree, Embed, Layer
<1> QED
  BY <1>1, <1>2, <1>3

(* One layer stores the token in the cell at seq_len: the cells below it   *)
(* are untouched, and this layer joins those that hold the token.          *)
LEMMA StoreKvInv == ASSUME KvInv, Store PROVE KvInv'
<1> USE DEF KvInv
<1>1. token \in Token
  BY CurrentToken DEF Store
<1>2. layer \in Layer /\ seq_len \in Pos
  BY LayersAssumption DEF TypeOK, Control, Store, Layer, Pos
<1>3. /\ kv'[layer][seq_len] = token
      /\ \A l \in Layer, p \in Pos :
           l # layer \/ p # seq_len => kv'[l][p] = kv[l][p]
  BY <1>2 DEF Store, TypeOK
<1>4. TypeOK'
  <2>1. kv' \in [Layer -> [Pos -> Cell]]
    BY <1>1, <1>2 DEF TypeOK, Store, Cell
  <2>2. layer' \in 0..n_layers
    BY <1>2, LayersAssumption DEF Store, NextLayer, Layer
  <2> QED
    BY <2>1, <2>2 DEF TypeOK, Store, NextLayer
<1>5. Control'
  BY <1>2, LayersAssumption DEF TypeOK, Control, Store, NextLayer, Layer
<1>6. CacheHoldsHistory'
  BY <1>3, <1>2, LayersAssumption DEF CacheHoldsHistory, Store, TypeOK, Pos
<1>7. LayersAgree'
  <2>1. token' = token
    BY DEF Store, token
  <2>2. ASSUME NEW l \in Layer, l < layer'
        PROVE  seq_len' < max_seq /\ kv'[l][seq_len'] = token'
    <3>1. CASE l = layer
      BY <3>1, <1>3, <2>1 DEF Store
    <3>2. CASE l # layer
      <4>1. l < layer
        BY <2>2, <3>2, <1>2, LayersAssumption DEF Store, NextLayer, Layer
      <4>2. kv[l][seq_len] = token
        BY <4>1 DEF LayersAgree, Store
      <4> QED
        BY <4>2, <3>2, <1>2, <1>3, <2>1 DEF Store
    <3> QED
      BY <3>1, <3>2
  <2> QED
    BY <2>2 DEF LayersAgree, Store, NextLayer
<1>8. PanicOnlyWhenFull'
  BY DEF PanicOnlyWhenFull, Store, NextLayer
<1> QED
  BY <1>4, <1>5, <1>6, <1>7, <1>8

LEMMA OverrunKvInv == ASSUME KvInv, Overrun PROVE KvInv'
<1> USE DEF KvInv
<1>1. TypeOK' /\ Control' /\ LayersAgree' /\ CacheHoldsHistory'
  BY DEF TypeOK, Control, LayersAgree, CacheHoldsHistory, Overrun
<1>2. PanicOnlyWhenFull'
  BY LayersAssumption DEF TypeOK, CacheHoldsHistory, PanicOnlyWhenFull, Overrun
<1> QED
  BY <1>1, <1>2

LEMMA LayerFailsKvInv == ASSUME KvInv, LayerFails PROVE KvInv'
BY DEF KvInv, TypeOK, Control, LayersAgree, CacheHoldsHistory, PanicOnlyWhenFull, LayerFails

(* The cell at seq_len becomes part of the prefix: it holds the token in   *)
(* every layer, which is what the history gains.                           *)
LEMMA AdvanceKvInv == ASSUME KvInv, Advance PROVE KvInv'
<1> USE DEF KvInv
<1>1. token \in Token
  BY CurrentToken DEF Advance
<1>2. /\ seq_len < max_seq
      /\ \A l \in Layer : kv[l][seq_len] = token
  <2>1. layer = n_layers
    BY DEF LayersAgree, Advance
  <2>2. \A l \in Layer : seq_len < max_seq /\ kv[l][seq_len] = token
    BY <2>1, LayersAssumption DEF LayersAgree, Advance, Layer
  <2>3. 0 \in Layer
    BY LayersAssumption DEF Layer
  <2> QED
    BY <2>2, <2>3
<1>3. TypeOK'
  <2>1. seq_len' \in 0..max_seq /\ token_idx' \in Nat
    BY <1>2, LayersAssumption DEF TypeOK, Advance
  <2>2. history' \in Seq(Token)
    BY <1>1 DEF TypeOK, Advance
  <2> QED
    BY <2>1, <2>2 DEF TypeOK, Advance
<1>4. Control'
  BY BatchAssumption DEF TypeOK, Control, Advance
<1>5. CacheHoldsHistory'
  <2>1. SUFFICES ASSUME ~tiled
                 PROVE /\ seq_len' = Len(history')
                       /\ \A l \in Layer : \A p \in 0..(seq_len' - 1) :
                            kv'[l][p] = history'[p + 1]
    BY DEF CacheHoldsHistory, Advance
  <2>2. seq_len = Len(history) /\ history \in Seq(Token)
    BY <2>1 DEF CacheHoldsHistory, TypeOK
  <2>3. /\ Len(history') = Len(history) + 1
        /\ history'[Len(history) + 1] = token
        /\ \A k \in 1..Len(history) : history'[k] = history[k]
    BY <2>2, <1>1 DEF Advance
  <2>4. ASSUME NEW l \in Layer, NEW p \in 0..(seq_len' - 1)
        PROVE  kv'[l][p] = history'[p + 1]
    <3>1. CASE p = seq_len
      BY <3>1, <1>2, <2>2, <2>3 DEF Advance
    <3>2. CASE p # seq_len
      <4>1. p \in 0..(seq_len - 1) /\ p + 1 \in 1..Len(history)
        BY <3>2, <2>2 DEF Advance, TypeOK
      <4> QED
        BY <4>1, <2>1, <2>3 DEF CacheHoldsHistory, Advance
    <3> QED
      BY <3>1, <3>2
  <2> QED
    BY <2>2, <2>3, <2>4 DEF Advance
<1>6. LayersAgree' /\ PanicOnlyWhenFull'
  BY DEF LayersAgree, PanicOnlyWhenFull, Advance
<1> QED
  BY <1>3, <1>4, <1>5, <1>6

LEMMA TiledStoreKvInv == ASSUME KvInv, TiledStore PROVE KvInv'
<1> USE DEF KvInv
<1>1. token \in Token /\ tokens \in Seq(Token)
  BY CurrentToken, BatchAssumption DEF TiledStore, Control
<1>2. layer \in Layer /\ seq_len \in Pos
  BY LayersAssumption DEF TypeOK, Control, TiledStore, Layer, Pos
<1>3. tiled /\ tiled' /\ pc' \in {"idle", "tiled"}
  BY DEF Control, TiledStore
<1>4. TypeOK'
  <2>1. kv' \in [Layer -> [Pos -> Cell]]
    BY <1>1, <1>2 DEF TypeOK, TiledStore, Cell
  <2>2. seq_len' \in 0..max_seq
    BY <1>2, LayersAssumption DEF TiledStore, Pos
  <2>3. layer' \in 0..n_layers /\ token_idx' \in Nat
    BY <1>2, LayersAssumption DEF TypeOK, TiledStore, Layer
  <2>4. history' \in Seq(Token)
    <3>1. history \in Seq(Token) /\ history \o tokens \in Seq(Token)
      BY <1>1 DEF TypeOK
    <3>2. history' = history \/ history' = history \o tokens
      BY DEF TiledStore
    <3> QED
      BY <3>1, <3>2
  <2> QED
    BY <2>1, <2>2, <2>3, <2>4, <1>3 DEF TypeOK, TiledStore
<1>5. Control'
  <2>1. tokens' \in Batch /\ 0 < Len(tokens)
    BY BatchAssumption DEF Control, TiledStore
  <2>2. pc' = "tiled" => token_idx' < Len(tokens) /\ layer' < n_layers
    BY <2>1, <1>2, LayersAssumption DEF TypeOK, Control, TiledStore, Layer
  <2> QED
    BY <2>1, <2>2, <1>3 DEF Control, TiledStore
<1>6. CacheHoldsHistory' /\ LayersAgree' /\ PanicOnlyWhenFull'
  BY <1>3 DEF CacheHoldsHistory, LayersAgree, PanicOnlyWhenFull
<1> QED
  BY <1>4, <1>5, <1>6

LEMMA StutterKvInv == ASSUME KvInv, UNCHANGED vars PROVE KvInv'
BY DEF KvInv, TypeOK, Control, LayersAgree, CacheHoldsHistory, PanicOnlyWhenFull, vars, token

LEMMA NextKvInv == KvInv /\ [Next]_vars => KvInv'
<1> SUFFICES ASSUME KvInv, [Next]_vars PROVE KvInv'
  OBVIOUS
<1>1. ASSUME NEW b \in Batch, CallTokenwise(b) PROVE KvInv'
  BY <1>1, CallTokenwiseKvInv
<1>2. ASSUME NEW b \in Batch, CallTiled(b) PROVE KvInv'
  BY <1>2, CallTiledKvInv
<1>3. CASE Clear
  BY <1>3, ClearKvInv
<1>4. CASE Embed
  BY <1>4, EmbedKvInv
<1>5. CASE Store
  BY <1>5, StoreKvInv
<1>6. CASE Overrun
  BY <1>6, OverrunKvInv
<1>7. CASE LayerFails
  BY <1>7, LayerFailsKvInv
<1>8. CASE Advance
  BY <1>8, AdvanceKvInv
<1>9. CASE TiledStore
  BY <1>9, TiledStoreKvInv
<1>10. CASE UNCHANGED vars
  BY <1>10, StutterKvInv
<1> QED
  BY <1>1, <1>2, <1>3, <1>4, <1>5, <1>6, <1>7, <1>8, <1>9, <1>10 DEF Next

(* The strengthened invariant of the forward pass. *)
THEOREM KvInvariantHolds == Spec => []KvInv
<1>1. Init => KvInv
  BY InitKvInv
<1>2. KvInv /\ [Next]_vars => KvInv'
  BY NextKvInv
<1> QED
  BY <1>1, <1>2, PTL DEF Spec

(* The variables keep their types; in particular seq_len never passes the  *)
(* capacity of the cache. (KVCache)                                        *)
THEOREM KvTypeCorrect == Spec => []TypeOK
<1>1. KvInv => TypeOK
  BY DEF KvInv
<1> QED
  BY <1>1, KvInvariantHolds, PTL

(* Attention always reads exactly the tokens processed since the cache was *)
(* cleared, unless the tiled path was taken. (forward, attention, advance) *)
THEOREM AttentionSeesHistory == Spec => []CacheHoldsHistory
<1>1. KvInv => CacheHoldsHistory
  BY DEF KvInv
<1> QED
  BY <1>1, KvInvariantHolds, PTL

(* All layers hold the token that advance() adds to the prefix. *)
THEOREM LayersAlwaysAgree == Spec => []LayersAgree
<1>1. KvInv => LayersAgree
  BY DEF KvInv
<1> QED
  BY <1>1, KvInvariantHolds, PTL

(* On the token-wise path the cache panics only when it is full.           *)
THEOREM NoEarlyPanic == Spec => []PanicOnlyWhenFull
<1>1. KvInv => PanicOnlyWhenFull
  BY DEF KvInv
<1> QED
  BY <1>1, KvInvariantHolds, PTL

(* A step from a state of the invariant leaves the prefix alone or clears. *)
LEMMA StepKeepsPrefix ==
  ASSUME KvInv, [Next]_vars
  PROVE  \/ /\ seq_len <= seq_len'
            /\ \A l \in Layer : \A p \in 0..(seq_len - 1) : kv'[l][p] = kv[l][p]
         \/ history' = <<>> /\ seq_len' = 0
<1> USE DEF KvInv
<1>1. CASE Clear
  BY <1>1 DEF Clear
<1>2. CASE Store \/ TiledStore
  <2>1. layer \in Layer /\ seq_len \in Pos
    BY <1>2, LayersAssumption DEF TypeOK, Control, Store, TiledStore, Layer, Pos
  <2>2. ASSUME NEW l \in Layer, NEW p \in 0..(seq_len - 1) PROVE kv'[l][p] = kv[l][p]
    <3>1. p \in Pos /\ p # seq_len
      BY <2>1, LayersAssumption DEF Pos
    <3>2. kv' = [kv EXCEPT ![layer][seq_len] = token]
      BY <1>2 DEF Store, TiledStore
    <3> QED
      BY <3>1, <3>2, <2>1 DEF TypeOK
  <2>3. seq_len <= seq_len'
    BY <1>2, <2>1 DEF Store, TiledStore, Pos
  <2> QED
    BY <2>2, <2>3
<1>3. CASE \/ Embed \/ Overrun \/ LayerFails \/ Advance \/ UNCHANGED vars
           \/ \E b \in Batch : CallTokenwise(b) \/ CallTiled(b)
  <2>1. kv' = kv /\ seq_len' \in {seq_len, seq_len + 1}
    BY <1>3 DEF Embed, Overrun, LayerFails, Advance, CallTokenwise, CallTiled, vars
  <2> QED
    BY <2>1 DEF TypeOK
<1> QED
  BY <1>1, <1>2, <1>3 DEF Next

(* What attention has read is never rewritten until the cache is cleared,  *)
(* on either path. (set_k, set_v, advance, clear)                          *)
THEOREM PrefixNeverRewritten == Spec => PrefixIsImmutable
<1>1. KvInv /\ [Next]_vars =>
        [\/ /\ seq_len <= seq_len'
            /\ \A l \in Layer : \A p \in 0..(seq_len - 1) : kv'[l][p] = kv[l][p]
         \/ history' = <<>> /\ seq_len' = 0]_vars
  BY StepKeepsPrefix
<1> QED
  BY <1>1, KvInvariantHolds, PTL DEF Spec, PrefixIsImmutable

-----------------------------------------------------------------------------
(* Division.                                                               *)

LEMMA MultiplesApart ==
  ASSUME NEW n \in Nat, NEW g \in Nat, NEW h \in Nat, h < g
  PROVE  h * n + n <= g * n
<1>1. PICK d \in Nat : g = h + 1 + d
  <2>1. g - h - 1 \in Nat /\ g = h + 1 + (g - h - 1)
    OBVIOUS
  <2> QED  BY <2>1
<1>2. g * n = h * n + n + d * n
  BY <1>1
<1>3. d * n \in Nat /\ h * n \in Nat /\ g * n \in Nat
  OBVIOUS
<1> QED  BY <1>2, <1>3

LEMMA Division ==
  ASSUME NEW n \in Nat \ {0}, NEW a \in Nat
  PROVE  /\ a \div n \in Nat /\ a % n \in 0..(n - 1)
         /\ (a \div n) * n \in Nat
         /\ a = (a \div n) * n + (a % n)
         /\ (a \div n) * n <= a /\ a < (a \div n) * n + n
<1>1. a \div n \in Nat /\ a % n \in 0..(n - 1)
  OBVIOUS
<1>2. a = n * (a \div n) + (a % n)
  OBVIOUS
<1>3. n * (a \div n) = (a \div n) * n
  BY <1>1
<1>4. (a \div n) * n \in Nat
  BY <1>1
<1> DEFINE e == (a \div n) * n  m == a % n
<1>5. e \in Nat /\ m \in 0..(n - 1) /\ a = e + m
  BY <1>1, <1>2, <1>3, <1>4
<1>6. e <= a /\ a < e + n
  <2> HIDE DEF e, m
  <2> QED  BY <1>5
<1> QED  BY <1>1, <1>2, <1>3, <1>4, <1>6

LEMMA Quotient ==
  ASSUME NEW n \in Nat \ {0}, NEW a \in Nat, NEW q \in Nat, q * n <= a, a < q * n + n
  PROVE  a \div n = q
<1> DEFINE d == a \div n
<1>1. d \in Nat /\ d * n \in Nat /\ q * n \in Nat
  BY Division
<1>2. d * n <= a /\ a < d * n + n
  BY Division
<1>3. d < q => d * n + n <= q * n
  BY <1>1, MultiplesApart
<1>4. q < d => q * n + n <= d * n
  BY <1>1, MultiplesApart
<1> HIDE DEF d
<1> SUFFICES d = q
  BY DEF d
<1>5. ~(d < q)
  BY <1>1, <1>2, <1>3
<1>6. ~(q < d)
  BY <1>1, <1>2, <1>4
<1> QED  BY <1>1, <1>5, <1>6

LEMMA SmallResidue ==
  ASSUME NEW n \in Nat \ {0}, NEW a \in Nat, a < n
  PROVE  a % n = a
<1>1. 0 * n = 0
  OBVIOUS
<1>2. a \div n = 0
  BY <1>1, Quotient
<1> QED  BY <1>1, <1>2, Division

LEMMA ResidueGap ==
  ASSUME NEW n \in Nat \ {0}, NEW a \in Nat, NEW b \in Nat, a % n = b % n, a < b
  PROVE  a + n <= b
<1> DEFINE d == a \div n  m == a % n  e == b \div n
<1>1. d \in Nat /\ m \in 0..(n - 1) /\ d * n \in Nat /\ a = d * n + m
  BY Division
<1>2. e \in Nat /\ e * n \in Nat /\ b = e * n + m
  BY Division
<1>3. d < e => d * n + n <= e * n
  BY <1>1, <1>2, MultiplesApart
<1>4. e < d => e * n + n <= d * n
  BY <1>1, <1>2, MultiplesApart
<1>5. d = e => d * n = e * n
  OBVIOUS
<1> HIDE DEF d, e, m
<1> QED  BY <1>1, <1>2, <1>3, <1>4, <1>5

(* A length rounded up: n chunks of it are enough.                         *)
LEMMA RoundedUp ==
  ASSUME NEW n \in Nat \ {0}, NEW m \in Nat
  PROVE  LET c == (m + n - 1) \div n IN
         /\ c \in Nat /\ c * n \in Nat /\ m <= c * n
         /\ m > 0 => c > 0
<1> DEFINE c == (m + n - 1) \div n
           b == (m + n - 1) % n
<1>1. m + n - 1 \in Nat
  OBVIOUS
<1>2. c \in Nat /\ b \in 0..(n - 1) /\ c * n \in Nat /\ m + n - 1 = c * n + b
  BY <1>1, Division
<1>3. c = 0 => c * n = 0
  OBVIOUS
<1> HIDE DEF c, b
<1>4. c \in Nat /\ c * n \in Nat /\ m <= c * n /\ (m > 0 => c > 0)
  BY <1>2, <1>3
<1> QED  BY <1>4 DEF c

LEMMA NextMultiple ==
  ASSUME NEW n \in Nat \ {0}, NEW a \in Nat, a % n = 0
  PROVE  (a + n) % n = 0
<1> DEFINE d == a \div n  m == a % n  s == a + n
<1>1. d \in Nat /\ m \in 0..(n - 1) /\ d * n \in Nat /\ a = d * n + m
  BY Division
<1>2. a = d * n
  BY <1>1
<1>3. (d + 1) * n = d * n + n
  BY <1>1
<1> DEFINE e == d + 1
<1>4. s \in Nat /\ s = d * n + n /\ e \in Nat /\ e * n = d * n + n /\ e * n \in Nat
  BY <1>1, <1>2, <1>3
<1> HIDE DEF d, s, e
<1>5. s \div n = e
  <2>1. e * n <= s /\ s < e * n + n
    BY <1>4
  <2> QED  BY <1>4, <2>1, Quotient
<1>6. s = (s \div n) * n + (s % n) /\ s % n \in 0..(n - 1)
  BY <1>4, Division
<1>7. s = e * n + (s % n)
  BY <1>5, <1>6
<1> DEFINE r == s % n
<1>8. r \in 0..(n - 1) /\ s = e * n + r
  BY <1>6, <1>7
<1> HIDE DEF r
<1>9. r = 0
  BY <1>4, <1>8
<1> QED  BY <1>9 DEF r, s

(* A cell of a table with rows of n, by its row and column, and back.      *)
LEMMA CellOf ==
  ASSUME NEW n \in Nat \ {0}, NEW m \in Nat, NEW i \in 0..(m - 1), NEW j \in 0..(n - 1)
  PROVE  /\ i * n + j \in 0..(m * n - 1)
         /\ (i * n + j) \div n = i /\ (i * n + j) % n = j
<1> DEFINE a == i * n + j
<1>1. i * n \in Nat /\ m * n \in Nat /\ i * n + n <= m * n
  BY MultiplesApart
<1>2. a \in Nat /\ a \in 0..(m * n - 1)
  <2> DEFINE p == i * n  q == m * n
  <2>1. p \in Nat /\ q \in Nat /\ p + n <= q
    BY <1>1
  <2> HIDE DEF p, q
  <2>2. p + j \in Nat /\ p + j \in 0..(q - 1)
    BY <2>1
  <2> QED  BY <2>2 DEF p, q
<1>3. a = i * n + j
  OBVIOUS
<1> HIDE DEF a
<1>4. a \div n = i
  BY <1>1, <1>2, <1>3, Quotient
<1>5. a = (a \div n) * n + (a % n) /\ a % n \in 0..(n - 1)
  BY <1>2, Division
<1>6. a % n = j
  BY <1>1, <1>3, <1>4, <1>5
<1> QED  BY <1>2, <1>4, <1>6 DEF a

LEMMA RowAndColumn ==
  ASSUME NEW n \in Nat \ {0}, NEW m \in Nat, NEW a \in 0..(m * n - 1)
  PROVE  /\ a \in Nat
         /\ a \div n \in 0..(m - 1) /\ a % n \in 0..(n - 1)
         /\ a = (a \div n) * n + (a % n)
<1> DEFINE q == a \div n  r == a % n
<1>1. m * n \in Nat
  OBVIOUS
<1>2. a \in Nat /\ a < m * n
  BY <1>1
<1>3. /\ q \in Nat /\ q * n \in Nat /\ q * n <= a
      /\ r \in 0..(n - 1) /\ a = q * n + r
  BY <1>2, Division
<1> HIDE DEF q, r
<1>4. m < q => m * n + n <= q * n
  BY <1>3, MultiplesApart
<1>5. m = q => m * n = q * n
  OBVIOUS
<1>6. q < m
  BY <1>1, <1>2, <1>3, <1>4, <1>5
<1>7. /\ a \in Nat /\ q \in 0..(m - 1) /\ r \in 0..(n - 1)
      /\ a = q * n + r
  BY <1>2, <1>3, <1>6
<1> QED  BY <1>7 DEF q, r

LEMMA Shares ==
  ASSUME NEW n \in Nat \ {0}, NEW k \in Nat
  PROVE  (n * k) \div n = k
<1>1. n * k = k * n /\ k * n \in Nat
  OBVIOUS
<1> QED  BY <1>1, Quotient

LEMMA ProductsGrow ==
  ASSUME NEW a \in Nat, NEW b \in Nat, NEW c \in Nat, NEW d \in Nat, a <= c, b <= d
  PROVE  a * b <= c * d /\ a * b \in Nat /\ c * d \in Nat
<1>1. a * b \in Nat /\ c * b \in Nat /\ c * d \in Nat
  OBVIOUS
<1>2. a * b <= c * b
  <2>1. PICK e \in Nat : c = a + e
    <3>1. c - a \in Nat /\ c = a + (c - a)
      OBVIOUS
    <3> QED  BY <3>1
  <2>2. c * b = a * b + e * b /\ e * b \in Nat
    BY <2>1
  <2> QED  BY <1>1, <2>2
<1>3. c * b <= c * d
  <2>1. PICK e \in Nat : d = b + e
    <3>1. d - b \in Nat /\ d = b + (d - b)
      OBVIOUS
    <3> QED  BY <3>1
  <2>2. c * d = c * b + c * e /\ c * e \in Nat
    BY <2>1
  <2> QED  BY <1>1, <2>2
<1> QED  BY <1>1, <1>2, <1>3


-----------------------------------------------------------------------------
(* The constants.                                                          *)

LEMMA Sizes ==
  /\ TILE_ROWS \in Nat \ {0} /\ MICRO \in Nat \ {0} /\ LongRead \in Nat \ {0}
  /\ ShortRead \in Nat \ {0} /\ ParallelFrom \in Nat \ {0} /\ MaxThreads \in Nat \ {0}
  /\ FewInputs \in Nat /\ ShortRead <= LongRead /\ MaxThreads < ParallelFrom
  /\ MICRO * LongRead <= TILE_ROWS /\ MICRO <= TILE_ROWS
  /\ TILE_ROWS * TILE_ROWS \in Nat
<1>1. /\ TILE_ROWS \in Nat \ {0} /\ MICRO \in Nat \ {0} /\ LongRead \in Nat \ {0}
      /\ ShortRead \in Nat \ {0} /\ ParallelFrom \in Nat \ {0} /\ MaxThreads \in Nat \ {0}
      /\ FewInputs \in Nat /\ ShortRead <= LongRead /\ MaxThreads < ParallelFrom
      /\ MICRO * LongRead <= TILE_ROWS
  BY SizesAssumption
<1>2. MICRO * 1 <= MICRO * LongRead /\ MICRO * 1 = MICRO /\ MICRO * LongRead \in Nat
  BY <1>1, ProductsGrow
<1>3. MICRO <= TILE_ROWS
  <2> DEFINE p == MICRO * LongRead
  <2>1. p \in Nat /\ MICRO <= p /\ p <= TILE_ROWS
    BY <1>1, <1>2
  <2> HIDE DEF p
  <2> QED  BY <2>1, <1>1
<1>4. TILE_ROWS * TILE_ROWS \in Nat
  BY <1>1
<1> QED  BY <1>1, <1>3, <1>4

LEMMA LesserOf ==
  ASSUME NEW a \in Int, NEW b \in Int
  PROVE  /\ Lesser(a, b) \in Int /\ Lesser(a, b) <= a /\ Lesser(a, b) <= b
         /\ Lesser(a, b) = a \/ Lesser(a, b) = b
BY DEF Lesser

-----------------------------------------------------------------------------
(* The rows of the threads.                                                *)

JobOK(j) == j \in [format : Format, m : Nat, n : Nat, nb : Nat]

(* The first row of the i-th chunk.                                        *)
ChunkLen(j) == (j.m + n_threads - 1) \div n_threads
FirstRow(j, i) == Lesser(i * ChunkLen(j), j.m)

LEMMA FirstRows ==
  ASSUME n_threads \in 1..MaxThreads, NEW j, JobOK(j), NEW i \in Nat, NEW k \in Nat, i <= k
  PROVE  /\ FirstRow(j, i) \in 0..j.m
         /\ FirstRow(j, i) <= FirstRow(j, k)
<1>1. n_threads \in Nat \ {0} /\ j.m \in Nat
  BY Sizes DEF JobOK
<1>2. ChunkLen(j) \in Nat
  BY <1>1, RoundedUp DEF ChunkLen
<1>3. i * ChunkLen(j) \in Nat /\ k * ChunkLen(j) \in Nat /\ i * ChunkLen(j) <= k * ChunkLen(j)
  BY <1>2, ProductsGrow
<1> DEFINE a == i * ChunkLen(j)  b == k * ChunkLen(j)
<1>4. FirstRow(j, i) = Lesser(a, j.m) /\ FirstRow(j, k) = Lesser(b, j.m)
  BY DEF FirstRow
<1>5. a \in Nat /\ b \in Nat /\ a <= b
  BY <1>3
<1> HIDE DEF a, b
<1> QED  BY <1>1, <1>4, <1>5 DEF Lesser

LEMMA ChunkIs ==
  ASSUME NEW j, NEW t \in Thread
  PROVE  /\ Divided(j) /\ t \in 1..n_threads =>
              Chunk(j, t) = [start |-> FirstRow(j, t - 1),
                             rows |-> FirstRow(j, t) - FirstRow(j, t - 1)]
         /\ Divided(j) /\ t \notin 1..n_threads => Chunk(j, t) = [start |-> 0, rows |-> 0]
         /\ ~Divided(j) => Chunk(j, t) = [start |-> 0, rows |-> IF t = Caller THEN j.m ELSE 0]
BY DEF Chunk, FirstRow, ChunkLen

LEMMA ChunkType ==
  ASSUME n_threads \in 1..MaxThreads, NEW j, JobOK(j), NEW t \in Thread
  PROVE  /\ Chunk(j, t) = [start |-> Chunk(j, t).start, rows |-> Chunk(j, t).rows]
         /\ Chunk(j, t).start \in Nat /\ Chunk(j, t).rows \in Nat
         /\ Chunk(j, t).start + Chunk(j, t).rows <= j.m
         /\ ~Divided(j) /\ Chunk(j, t).rows > 0 =>
              Chunk(j, t).start = 0 /\ Chunk(j, t).rows = j.m
<1>1. j.m \in Nat
  BY DEF JobOK
<1>2. CASE Divided(j) /\ t \in 1..n_threads
  <2>1. t - 1 \in Nat /\ t \in Nat /\ t - 1 <= t
    BY <1>2, Sizes
  <2>2. /\ FirstRow(j, t - 1) \in 0..j.m /\ FirstRow(j, t) \in 0..j.m
        /\ FirstRow(j, t - 1) <= FirstRow(j, t)
    BY <2>1, FirstRows
  <2> QED  BY <1>1, <1>2, <2>2, ChunkIs
<1>3. CASE Divided(j) /\ t \notin 1..n_threads
  BY <1>1, <1>3, ChunkIs
<1>4. CASE ~Divided(j)
  BY <1>1, <1>4, ChunkIs
<1> QED  BY <1>2, <1>3, <1>4

(* No row is computed by two threads.                                      *)
LEMMA ChunksApart ==
  ASSUME n_threads \in 1..MaxThreads, NEW j, JobOK(j), NEW t \in Thread, NEW u \in Thread, NEW row \in Nat,
         Chunk(j, t).start <= row, row < Chunk(j, t).start + Chunk(j, t).rows,
         Chunk(j, u).start <= row, row < Chunk(j, u).start + Chunk(j, u).rows
  PROVE  t = u
<1>1. CASE Divided(j) /\ t \in 1..n_threads /\ u \in 1..n_threads
  <2>1. ASSUME NEW v \in 1..n_threads, NEW w \in 1..n_threads, v < w
        PROVE  /\ FirstRow(j, v - 1) \in Nat /\ FirstRow(j, v) \in Nat
               /\ FirstRow(j, w - 1) \in Nat /\ FirstRow(j, w) \in Nat
               /\ FirstRow(j, v) <= FirstRow(j, w - 1)
    <3>1. v \in Nat /\ w \in Nat /\ v - 1 \in Nat /\ w - 1 \in Nat /\ v <= w - 1
      BY <2>1, Sizes
    <3> QED  BY <3>1, FirstRows
  <2>2. ASSUME NEW v \in 1..n_threads PROVE FirstRow(j, v) \in Nat /\ FirstRow(j, v - 1) \in Nat
    <3>1. v \in Nat /\ v - 1 \in Nat
      BY Sizes
    <3> QED  BY <3>1, FirstRows
  <2>3. /\ Chunk(j, t).start = FirstRow(j, t - 1)
        /\ Chunk(j, t).rows = FirstRow(j, t) - FirstRow(j, t - 1)
        /\ Chunk(j, u).start = FirstRow(j, u - 1)
        /\ Chunk(j, u).rows = FirstRow(j, u) - FirstRow(j, u - 1)
    BY <1>1, ChunkIs
  <2>4. row < FirstRow(j, t) /\ row < FirstRow(j, u)
    BY <1>1, <2>2, <2>3
  <2>5. ~(t < u)
    BY <1>1, <2>1, <2>3, <2>4
  <2>6. ~(u < t)
    BY <1>1, <2>1, <2>3, <2>4
  <2> QED  BY <2>5, <2>6, Sizes DEF Thread
<1>2. CASE Divided(j) /\ ~(t \in 1..n_threads /\ u \in 1..n_threads)
  BY <1>2, ChunkIs
<1>3. CASE ~Divided(j)
  BY <1>3, ChunkIs
<1> QED  BY <1>1, <1>2, <1>3

(* Every row is computed by a thread.                                      *)
LEMMA RowsCovered ==
  ASSUME n_threads \in 1..MaxThreads, NEW j, JobOK(j), NEW row \in Nat, row < j.m
  PROVE  \E t \in Thread : /\ Chunk(j, t).start <= row
                           /\ row < Chunk(j, t).start + Chunk(j, t).rows
<1>1. n_threads \in Nat \ {0} /\ j.m \in Nat /\ n_threads <= MaxThreads /\ MaxThreads \in Nat
  BY Sizes DEF JobOK
<1>2. CASE Divided(j)
  <2> DEFINE len == ChunkLen(j)  q == row \div len
  <2>1. len \in Nat \ {0} /\ len * n_threads \in Nat /\ j.m <= len * n_threads
    <3>1. j.m > 0
      BY <1>1
    <3>2. /\ ChunkLen(j) \in Nat /\ ChunkLen(j) * n_threads \in Nat
          /\ j.m <= ChunkLen(j) * n_threads /\ (j.m > 0 => ChunkLen(j) > 0)
      BY <1>1, RoundedUp DEF ChunkLen
    <3> QED  BY <3>1, <3>2
  <2> HIDE DEF len
  <2>2. q \in Nat /\ q * len \in Nat /\ q * len <= row /\ row < q * len + len
    BY <2>1, Division
  <2> HIDE DEF q
  <2>3. (q + 1) * len = q * len + len
    BY <2>1, <2>2
  <2>4. q < n_threads
    <3>1. len * n_threads = n_threads * len
      BY <2>1, <1>1
    <3>2. n_threads <= q => n_threads * len <= q * len
      BY <1>1, <2>1, <2>2, ProductsGrow
    <3> DEFINE a == n_threads * len  b == q * len
    <3>3. a \in Nat /\ b \in Nat /\ b <= row /\ j.m <= a /\ (n_threads <= q => a <= b)
      BY <2>1, <2>2, <3>1, <3>2
    <3> HIDE DEF a, b
    <3> QED  BY <3>3, <1>1, <2>2
  <2> DEFINE t == q + 1
  <2>5. t \in Thread /\ t \in 1..n_threads /\ t - 1 = q
    BY <1>1, <2>2, <2>4 DEF Thread
  <2>6. /\ Chunk(j, t).start = FirstRow(j, q)
        /\ Chunk(j, t).rows = FirstRow(j, q + 1) - FirstRow(j, q)
    BY <1>2, <2>5, ChunkIs
  <2>7. FirstRow(j, q) = Lesser(q * len, j.m) /\ FirstRow(j, q + 1) = Lesser((q + 1) * len, j.m)
    BY DEF FirstRow, len
  <2>8. FirstRow(j, q) <= row /\ row < FirstRow(j, q + 1) /\ FirstRow(j, q) \in Nat /\ FirstRow(j, q + 1) \in Nat
    <3> DEFINE a == q * len
    <3>1. a \in Nat /\ a <= row /\ row < a + len
          /\ FirstRow(j, q) = Lesser(a, j.m) /\ FirstRow(j, q + 1) = Lesser(a + len, j.m)
      BY <2>2, <2>3, <2>7
    <3> HIDE DEF a
    <3> QED  BY <3>1, <1>1, <2>1 DEF Lesser
  <2>9. Chunk(j, t).start <= row /\ row < Chunk(j, t).start + Chunk(j, t).rows
    BY <2>6, <2>8
  <2> HIDE DEF t
  <2> QED  BY <2>5, <2>9
<1>3. CASE ~Divided(j)
  <2>1. Caller \in Thread
    BY <1>1 DEF Thread, Caller
  <2>2. Chunk(j, Caller) = [start |-> 0, rows |-> j.m]
    BY <1>3, <2>1, ChunkIs
  <2> QED  BY <2>1, <2>2, <1>1
<1> QED  BY <1>2, <1>3

-----------------------------------------------------------------------------
(* The tile at hand.                                                       *)

LEMMA Typed ==
  ASSUME TiledTypeOK, NEW t \in Thread
  PROVE  /\ JobOK(job) /\ job.m \in Nat /\ job.n \in Nat /\ job.nb \in Nat
         /\ n_threads \in 1..MaxThreads /\ calls \in Nat
         /\ at[t].i0 \in Nat /\ at[t].j0 \in Nat /\ at[t].k0 \in Nat /\ at[t].ir0 \in Nat
         /\ chunk[t] = Chunk(job, t)
         /\ chunk[t].start \in Nat /\ chunk[t].rows \in Nat
         /\ chunk[t].start + chunk[t].rows <= job.m
         /\ chunk[t].rows > 0 => job.m > 0 /\ job.n > 0 /\ job.nb > 0
         /\ ~Divided(job) /\ chunk[t].rows > 0 => chunk[t].start = 0 /\ chunk[t].rows = job.m
<1>1. /\ job \in [format : Format, m : Nat, n : Nat, nb : Nat] /\ n_threads \in 1..MaxThreads
      /\ at \in [Thread -> [i0 : Nat, j0 : Nat, k0 : Nat, ir0 : Nat]]
      /\ chunk = [u \in Thread |-> Chunk(job, u)] /\ calls \in Nat
      /\ job.m > 0 => job.n > 0 /\ job.nb > 0
  BY DEF TiledTypeOK
<1>2. JobOK(job) /\ job.m \in Nat /\ job.n \in Nat /\ job.nb \in Nat
  BY <1>1 DEF JobOK
<1>3. at[t].i0 \in Nat /\ at[t].j0 \in Nat /\ at[t].k0 \in Nat /\ at[t].ir0 \in Nat
  BY <1>1
<1>4. chunk[t] = Chunk(job, t)
  BY <1>1
<1>5. /\ Chunk(job, t).start \in Nat /\ Chunk(job, t).rows \in Nat
      /\ Chunk(job, t).start + Chunk(job, t).rows <= job.m
      /\ ~Divided(job) /\ Chunk(job, t).rows > 0 =>
           Chunk(job, t).start = 0 /\ Chunk(job, t).rows = job.m
  BY <1>1, <1>2, ChunkType
<1>6. chunk[t].rows > 0 => job.m > 0
  BY <1>2, <1>4, <1>5
<1> QED  BY <1>1, <1>2, <1>3, <1>4, <1>5, <1>6

(* A multiple of n below n is zero.                                        *)
LEMMA FirstMultiple ==
  ASSUME NEW n \in Nat \ {0}, NEW a \in Nat, a % n = 0, NEW b \in Nat, a < b, b <= n
  PROVE  a = 0
<1>1. a < n
  BY SMT
<1> QED  BY <1>1, SmallResidue

LEMMA Tile ==
  ASSUME TiledTypeOK, NEW t \in Thread, InTile(t)
  PROVE  /\ TileRows(t) \in Nat \ {0} /\ TileCols \in Nat \ {0} /\ UnpackRows \in Nat \ {0}
         /\ tile_m(t) \in Nat \ {0} /\ tile_m(t) <= TileRows(t)
         /\ at[t].i0 + tile_m(t) <= chunk[t].rows
         /\ tile_m(t) = TileRows(t) \/ at[t].i0 + tile_m(t) = chunk[t].rows
         /\ tile_n(t) \in Nat \ {0} /\ tile_n(t) <= TileCols
         /\ at[t].j0 + tile_n(t) <= job.n
         /\ tile_n(t) = TileCols \/ at[t].j0 + tile_n(t) = job.n
         /\ job.m > 0 /\ job.n > 0 /\ job.nb > 0 /\ chunk[t].rows > 0
         /\ ~Narrow => TileRows(t) = TILE_ROWS /\ TileCols = TILE_ROWS
         /\ Narrow => tile_n(t) <= MICRO /\ UnpackRows = MICRO
         /\ UnpackRows <= TILE_ROWS /\ TileCols <= TILE_ROWS
<1>1. /\ at[t].i0 < chunk[t].rows /\ at[t].j0 < job.n
      /\ at[t].i0 \in Nat /\ at[t].j0 \in Nat /\ chunk[t].rows \in Nat /\ job.n \in Nat
      /\ job.m \in Nat /\ job.nb \in Nat /\ chunk[t].rows > 0 /\ job.m > 0 /\ job.n > 0 /\ job.nb > 0
  <2>1. at[t].i0 < chunk[t].rows /\ at[t].j0 < job.n
    BY DEF InTile
  <2>2. chunk[t].rows > 0
    BY <2>1, Typed
  <2> QED  BY <2>1, <2>2, Typed
<1>2. /\ TileRows(t) \in Nat \ {0} /\ (~Narrow => TileRows(t) = TILE_ROWS)
  BY <1>1, Sizes DEF TileRows
<1>3. /\ TileCols \in Nat \ {0} /\ (~Narrow => TileCols = TILE_ROWS)
      /\ Narrow => TileCols <= MICRO
  BY <1>1, Sizes DEF TileCols, Narrow
<1>4. UnpackRows \in Nat \ {0} /\ UnpackRows <= TILE_ROWS /\ (Narrow => UnpackRows = MICRO)
  BY Sizes DEF UnpackRows
<1> DEFINE a == chunk[t].rows - at[t].i0
           b == job.n - at[t].j0
<1>5. a \in Nat \ {0} /\ b \in Nat \ {0} /\ a = chunk[t].rows - at[t].i0 /\ b = job.n - at[t].j0
  BY <1>1
<1>6. tile_m(t) = Lesser(TileRows(t), a) /\ tile_n(t) = Lesser(TileCols, b)
  BY DEF tile_m, tile_n
<1> HIDE DEF a, b
<1>7. /\ tile_m(t) \in Nat \ {0} /\ tile_m(t) <= TileRows(t) /\ tile_m(t) <= a
      /\ tile_m(t) = TileRows(t) \/ tile_m(t) = a
  BY <1>2, <1>5, <1>6 DEF Lesser
<1>8. /\ tile_n(t) \in Nat \ {0} /\ tile_n(t) <= TileCols /\ tile_n(t) <= b
      /\ tile_n(t) = TileCols \/ tile_n(t) = b
  BY <1>3, <1>5, <1>6 DEF Lesser
<1>9. /\ at[t].i0 + tile_m(t) <= chunk[t].rows
      /\ tile_m(t) = TileRows(t) \/ at[t].i0 + tile_m(t) = chunk[t].rows
  BY <1>1, <1>5, <1>7
<1>10. /\ at[t].j0 + tile_n(t) <= job.n
       /\ tile_n(t) = TileCols \/ at[t].j0 + tile_n(t) = job.n
  BY <1>1, <1>5, <1>8
<1>11. TileCols <= TILE_ROWS /\ (Narrow => tile_n(t) <= MICRO)
  BY <1>3, <1>8, Sizes
<1> QED  BY <1>1, <1>2, <1>3, <1>4, <1>7, <1>8, <1>9, <1>10, <1>11

(* Where all the inputs, or all the weights, are unpacked together, the    *)
(* tile begins with the first of them.                                     *)
LEMMA WholeInputs ==
  ASSUME TiledTypeOK, NEW t \in Thread, InTile(t), job.n <= TileCols
  PROVE  at[t].j0 = 0 /\ tile_n(t) = job.n
<1>1. at[t].j0 < job.n /\ at[t].j0 % TileCols = 0
  BY DEF InTile
<1>2. at[t].j0 = 0
  BY <1>1, Tile, Typed, FirstMultiple
<1>3. tile_n(t) <= job.n /\ (tile_n(t) = TileCols \/ tile_n(t) = job.n)
  BY <1>2, Tile, Typed
<1> QED  BY <1>2, <1>3, Tile, Typed

LEMMA WholeWeights ==
  ASSUME TiledTypeOK, NEW t \in Thread, InTile(t), ~Divided(job), job.m <= UnpackRows
  PROVE  /\ chunk[t].start = 0 /\ at[t].i0 = 0 /\ tile_m(t) = job.m
         /\ at[t].ir0 < tile_m(t) => at[t].ir0 = 0
<1>1. /\ at[t].i0 < chunk[t].rows /\ at[t].i0 % TileRows(t) = 0 /\ at[t].ir0 % UnpackRows = 0
  BY DEF InTile
<1>2. chunk[t].start = 0 /\ chunk[t].rows = job.m
  BY Tile, Typed
<1>3. job.m <= TileRows(t)
  BY <1>2, Tile, Typed, Sizes DEF TileRows
<1>4. at[t].i0 = 0
  BY <1>1, <1>2, <1>3, Tile, Typed, FirstMultiple
<1>5. tile_m(t) = job.m
  BY <1>2, <1>3, <1>4, Tile, Typed
<1>6. ASSUME at[t].ir0 < tile_m(t) PROVE at[t].ir0 = 0
  <2>1. at[t].ir0 < job.m
    BY <1>5, <1>6
  <2> QED  BY <1>1, <2>1, Tile, Typed, FirstMultiple
<1> QED  BY <1>2, <1>4, <1>5, <1>6

(* The accumulator has a cell for each row and column of the tile.         *)
LEMMA Strides ==
  ASSUME TiledTypeOK, NEW t \in Thread, InTile(t)
  PROVE  /\ AccStride(t) \in Nat \ {0} /\ tile_n(t) <= AccStride(t)
         /\ ClearedAsUsed => AccStride(t) = tile_n(t)
         /\ ~Narrow => tile_m(t) * tile_n(t) <= TILE_ROWS * TILE_ROWS
         /\ stage[t] \in {"sum", "store"} => tile_m(t) * AccStride(t) <= TILE_ROWS * TILE_ROWS
<1>1. AccStride(t) \in Nat \ {0} /\ tile_n(t) <= AccStride(t)
  BY Tile, Sizes DEF AccStride
<1>2. ASSUME ClearedAsUsed, ~Narrow, ~RowsOutside PROVE tile_n(t) = TILE_ROWS
  <2>1. job.n % TILE_ROWS = 0 /\ at[t].j0 % TILE_ROWS = 0 /\ at[t].j0 < job.n
    BY <1>2, Tile DEF ClearedAsUsed, InTile
  <2>2. at[t].j0 + TILE_ROWS <= job.n
    BY <2>1, Typed, Sizes, ResidueGap
  <2> QED  BY <1>2, <2>2, Tile, Typed, Sizes
<1>3. ClearedAsUsed => AccStride(t) = tile_n(t)
  BY <1>2 DEF AccStride
<1>4. ~Narrow => tile_m(t) * tile_n(t) <= TILE_ROWS * TILE_ROWS
  BY Tile, Sizes, ProductsGrow
<1>5. ASSUME stage[t] \in {"sum", "store"} PROVE tile_m(t) * AccStride(t) <= TILE_ROWS * TILE_ROWS
  <2>1. tile_m(t) * tile_n(t) <= TILE_ROWS * TILE_ROWS
    BY <1>5 DEF InTile
  <2>2. CASE Narrow \/ RowsOutside
    BY <2>1, <2>2 DEF AccStride
  <2>3. CASE ~(Narrow \/ RowsOutside)
    <3>1. AccStride(t) = TILE_ROWS /\ tile_m(t) <= TILE_ROWS
      BY <2>3, Tile DEF AccStride
    <3> QED  BY <3>1, Tile, Sizes, ProductsGrow
  <2> QED  BY <2>2, <2>3
<1> QED  BY <1>1, <1>3, <1>4, <1>5

-----------------------------------------------------------------------------
(* The blocks read at a time have their slots in the workspace.            *)

LEMMA NumK ==
  ASSUME TiledTypeOK, job.nb > 0
  PROVE  /\ num_k \in Nat \ {0} /\ (Narrow => num_k <= LongRead) /\ (~Narrow => num_k = 1)
<1>1. job.nb \in Nat
  BY DEF TiledTypeOK
<1> QED  BY <1>1, Sizes DEF num_k, Lesser

LEMMA SlabsOf ==
  ASSUME TiledTypeOK, NEW t \in Thread, InTile(t), stage[t] = "sum"
  PROVE  /\ Slabs(t) \in Nat \ {0} /\ at[t].k0 + Slabs(t) <= job.nb
         /\ Slabs(t) = num_k \/ at[t].k0 + Slabs(t) = job.nb
         /\ Slabs(t) <= num_k
<1>1. at[t].k0 < job.nb /\ at[t].k0 \in Nat /\ job.nb \in Nat
  BY Typed DEF InTile
<1>2. num_k \in Nat \ {0}
  BY <1>1, NumK
<1> DEFINE a == job.nb - at[t].k0
<1>3. a \in Nat \ {0} /\ at[t].k0 + a = job.nb
  BY <1>1
<1>4. Slabs(t) = Lesser(num_k, a)
  BY DEF Slabs
<1> HIDE DEF a
<1> QED  BY <1>1, <1>2, <1>3, <1>4 DEF Lesser

LEMMA SlotOf ==
  ASSUME TiledTypeOK, NEW t \in Thread, InTile(t), stage[t] = "sum",
         NEW rows \in Nat, rows <= UnpackRows \/ rows <= tile_n(t),
         NEW i \in 0..(rows - 1), NEW s \in 0..(Slabs(t) - 1)
  PROVE  /\ i * Slabs(t) + s \in Slot
         /\ (i * Slabs(t) + s) \div Slabs(t) = i /\ (i * Slabs(t) + s) % Slabs(t) = s
<1>1. Slabs(t) \in Nat \ {0} /\ Slabs(t) <= num_k /\ num_k \in Nat
  BY SlabsOf, NumK, Tile
<1>2. rows * Slabs(t) <= TILE_ROWS /\ rows * Slabs(t) \in Nat
  <2>1. CASE Narrow
    <3>1. rows <= MICRO /\ Slabs(t) <= LongRead
      BY <1>1, <2>1, Tile, NumK, Sizes
    <3>2. rows * Slabs(t) <= MICRO * LongRead /\ rows * Slabs(t) \in Nat /\ MICRO * LongRead \in Nat
      BY <1>1, <3>1, Sizes, ProductsGrow
    <3> DEFINE a == rows * Slabs(t)  b == MICRO * LongRead
    <3>3. a \in Nat /\ b \in Nat /\ a <= b /\ b <= TILE_ROWS
      BY <3>2, Sizes
    <3> HIDE DEF a, b
    <3>4. a \in Nat /\ a <= TILE_ROWS
      BY <3>3, Sizes
    <3> QED  BY <3>4 DEF a
  <2>2. CASE ~Narrow
    <3>1. Slabs(t) = 1 /\ rows <= TILE_ROWS
      BY <1>1, <2>2, Tile, NumK, Sizes
    <3>2. rows * 1 = rows
      OBVIOUS
    <3> QED  BY <3>1, <3>2
  <2> QED  BY <2>1, <2>2
<1>3. /\ i * Slabs(t) + s \in 0..(rows * Slabs(t) - 1)
      /\ (i * Slabs(t) + s) \div Slabs(t) = i /\ (i * Slabs(t) + s) % Slabs(t) = s
  BY <1>1, CellOf
<1> DEFINE a == i * Slabs(t) + s  b == rows * Slabs(t)
<1>4. a \in 0..(b - 1) /\ b \in Nat /\ b <= TILE_ROWS
  BY <1>2, <1>3
<1> HIDE DEF a, b
<1>5. a \in Slot
  BY <1>4, Sizes DEF Slot
<1> QED  BY <1>3, <1>5 DEF a

-----------------------------------------------------------------------------
(* What a step within a call leaves as it is.                              *)

LEMMA SameCall ==
  ASSUME UNCHANGED <<n_threads, calls, job, chunk>>, NEW t \in Thread
  PROVE  /\ Narrow' = Narrow /\ Divided(job)' = Divided(job) /\ RowsOutside' = RowsOutside
         /\ num_k' = num_k /\ TileCols' = TileCols /\ UnpackRows' = UnpackRows
         /\ ClearedAsUsed' = ClearedAsUsed /\ TileRows(t)' = TileRows(t)
<1>1. Narrow' = Narrow /\ Divided(job)' = Divided(job)
  BY DEF Narrow, Divided
<1>2. RowsOutside' = RowsOutside
  BY <1>1 DEF RowsOutside
<1> QED  BY <1>1, <1>2 DEF num_k, TileCols, UnpackRows, ClearedAsUsed, TileRows

LEMMA SameTile ==
  ASSUME UNCHANGED <<n_threads, calls, job, chunk>>, NEW t \in Thread,
         at'[t].i0 = at[t].i0, at'[t].j0 = at[t].j0
  PROVE  /\ tile_m(t)' = tile_m(t) /\ tile_n(t)' = tile_n(t) /\ AccStride(t)' = AccStride(t)
<1>1. /\ Narrow' = Narrow /\ RowsOutside' = RowsOutside
      /\ TileCols' = TileCols /\ TileRows(t)' = TileRows(t)
  BY SameCall
<1>2. tile_m(t)' = tile_m(t) /\ tile_n(t)' = tile_n(t)
  BY <1>1 DEF tile_m, tile_n
<1> QED  BY <1>1, <1>2 DEF AccStride

LEMMA SameWhole ==
  ASSUME UNCHANGED <<n_threads, calls, job, chunk>>, NEW sum, NEW row, NEW col, NEW upto
  PROVE  Whole(sum, row, col, upto)' <=> Whole(sum, row, col, upto)
<1>1. /\ Divided(job)' = Divided(job) /\ TileCols' = TileCols /\ UnpackRows' = UnpackRows
  BY DEF Divided, TileCols, UnpackRows, Narrow, RowsOutside
<1> QED  BY <1>1 DEF Whole, OwnBlocks

(* A thread that does nothing stays where it is. *)
LEMMA Others ==
  ASSUME UNCHANGED <<n_threads, calls, job, chunk>>, NEW t \in Thread,
         at'[t] = at[t], stage'[t] = stage[t], ws'[t] = ws[t],
         Loops(t), InputsStay(t), SumsInProgress(t)
  PROVE  Loops(t)' /\ InputsStay(t)' /\ SumsInProgress(t)'
<1>1. /\ Narrow' = Narrow /\ Divided(job)' = Divided(job)
      /\ num_k' = num_k /\ TileCols' = TileCols /\ UnpackRows' = UnpackRows
      /\ ClearedAsUsed' = ClearedAsUsed /\ TileRows(t)' = TileRows(t)
  BY SameCall
<1>2. tile_m(t)' = tile_m(t) /\ tile_n(t)' = tile_n(t)
  BY SameTile
<1>3. Slabs(t)' = Slabs(t)
  BY <1>1 DEF Slabs
<1>4. Loops(t)'
  BY <1>1, <1>2 DEF Loops, InTile
<1>5. InputsStay(t)'
  BY <1>1, <1>3 DEF InputsStay
<1>6. ASSUME NEW i \in Int PROVE Summed(t, i)' = Summed(t, i)
  BY <1>3 DEF Summed
<1>7. SumsInProgress(t)'
  BY <1>1, <1>2, <1>3, SameWhole, SMTT(20) DEF SumsInProgress, Whole, OwnBlocks, Summed
<1> QED  BY <1>4, <1>5, <1>7

(* No cell outside the rows of a thread is stored by it.                   *)
LEMMA OthersStored ==
  ASSUME UNCHANGED <<n_threads, calls, job, chunk>>, NEW t \in Thread,
         at'[t] = at[t], stage'[t] = stage[t], StoredSoFar(t),
         DOMAIN dst' = DOMAIN dst,
         \A c \in DOMAIN dst :
           c \div job.n - chunk[t].start \in 0..(chunk[t].rows - 1) => dst'[c] = dst[c]
  PROVE  StoredSoFar(t)'
<1>1. RowsOutside' = RowsOutside
  BY SameCall
<1>2. tile_m(t)' = tile_m(t) /\ tile_n(t)' = tile_n(t)
  BY SameTile
<1>3. ASSUME NEW i \in Int, NEW j \in Int PROVE Before(t, i, j)' = Before(t, i, j)
  BY <1>1, <1>2 DEF Before
<1> QED  BY <1>1, <1>2 DEF StoredSoFar, Before

-----------------------------------------------------------------------------
(* The first state, and a new call.                                        *)

LEMMA NewWorkspaceOK == NewWorkspace \in Workspace
BY DEF NewWorkspace, Workspace, Slot, Block, AccCell

LEMMA Start ==
  ASSUME TiledInit
  PROVE  TiledInv
<1>1. /\ n_threads \in 1..MaxThreads /\ calls = 0
      /\ job = [format |-> "Q4_K", m |-> 0, n |-> 0, nb |-> 0]
      /\ stage = [t \in Thread |-> "idle"]
      /\ chunk = [t \in Thread |-> [start |-> 0, rows |-> 0]]
      /\ at = [t \in Thread |-> [i0 |-> 0, j0 |-> 0, k0 |-> 0, ir0 |-> 0]]
      /\ ws = [t \in Thread |-> NewWorkspace]
      /\ dst = <<>>
  BY DEF TiledInit
<1>2. DOMAIN dst = {}
  BY <1>1
<1>3. ~Divided(job)
  BY <1>1, Sizes DEF Divided
<1>4. chunk = [t \in Thread |-> Chunk(job, t)]
  <2>1. ASSUME NEW t \in Thread PROVE Chunk(job, t) = [start |-> 0, rows |-> 0]
    BY <1>1, <1>3, ChunkIs
  <2> QED  BY <1>1, <2>1
<1>5. dst \in [0..(job.m * job.n - 1) -> Seq(Seq(Product))]
  <2>1. 0..(job.m * job.n - 1) = {}
    BY <1>1
  <2> QED  BY <1>1, <2>1
<1>6. ws \in [Thread -> Workspace]
  BY <1>1, NewWorkspaceOK
<1>7. TiledTypeOK
  BY <1>1, <1>4, <1>5, <1>6 DEF TiledTypeOK, Format
<1>8. ASSUME NEW t \in Thread PROVE Loops(t) /\ InputsStay(t) /\ SumsInProgress(t) /\ StoredSoFar(t)
  BY <1>1, <1>2 DEF Loops, InputsStay, SumsInProgress, StoredSoFar
<1>9. SumsAreWhole
  BY <1>2 DEF SumsAreWhole
<1> QED  BY <1>7, <1>8, <1>9 DEF TiledInv

LEMMA CallKeeps ==
  ASSUME TiledInv, NEW format \in Format, NEW s \in Shape, Call(format, s)
  PROVE  TiledInv'
<1> DEFINE j == [format |-> format, m |-> s[1], n |-> s[2], nb |-> s[3]]
           parts == [t \in Thread |-> Chunk(j, t)]
<1>1. /\ calls' = calls + 1 /\ job' = j /\ chunk' = parts
      /\ stage' = [t \in Thread |-> IF parts[t].rows > 0 THEN "clear" ELSE "idle"]
      /\ at' = [t \in Thread |-> [i0 |-> 0, j0 |-> 0, k0 |-> 0, ir0 |-> 0]]
      /\ ws' = [t \in Thread |-> IF t = Caller THEN ws[t] ELSE NewWorkspace]
      /\ dst' = [c \in 0..(j.m * j.n - 1) |-> <<>>]
      /\ n_threads' = n_threads
  BY DEF Call
<1>2. /\ n_threads \in 1..MaxThreads /\ calls \in Nat
      /\ ws \in [Thread -> Workspace]
  BY DEF TiledInv, TiledTypeOK
<1>3. s[1] \in Nat \ {0} /\ s[2] \in Nat \ {0} /\ s[3] \in Nat \ {0}
  BY ShapeAssumption
<1>4. /\ j \in [format : Format, m : Nat, n : Nat, nb : Nat] /\ j.m > 0 /\ j.n > 0 /\ j.nb > 0
      /\ JobOK(j)
  BY <1>3 DEF JobOK
<1> HIDE DEF j
<1>5. ASSUME NEW t \in Thread PROVE Chunk(job, t)' = Chunk(j, t)
  BY <1>1 DEF Chunk, Divided
<1>6. chunk' = [t \in Thread |-> Chunk(job, t)']
  BY <1>1, <1>5
<1>7. ASSUME NEW t \in Thread
      PROVE  /\ chunk'[t].rows \in Nat /\ chunk'[t].start \in Nat
             /\ stage'[t] = IF chunk'[t].rows > 0 THEN "clear" ELSE "idle"
             /\ at'[t] = [i0 |-> 0, j0 |-> 0, k0 |-> 0, ir0 |-> 0]
  BY <1>1, <1>2, <1>4, ChunkType
<1>8. TiledTypeOK'
  <2>1. calls' \in Nat /\ n_threads' \in 1..MaxThreads
    BY <1>1, <1>2
  <2>2. /\ job' \in [format : Format, m : Nat, n : Nat, nb : Nat]
        /\ job'.m > 0 => job'.n > 0 /\ job'.nb > 0
    BY <1>1, <1>4
  <2>3. stage' \in [Thread -> {"idle", "clear", "sum", "store", "panicked"}]
    BY <1>1
  <2>4. at' \in [Thread -> [i0 : Nat, j0 : Nat, k0 : Nat, ir0 : Nat]]
    BY <1>1
  <2>5. ws' \in [Thread -> Workspace]
    BY <1>1, <1>2, NewWorkspaceOK
  <2>6. dst' \in [0..(job'.m * job'.n - 1) -> Seq(Seq(Product))]
    BY <1>1
  <2> QED  BY <1>6, <2>1, <2>2, <2>3, <2>4, <2>5, <2>6 DEF TiledTypeOK
<1>9. ASSUME NEW t \in Thread PROVE Loops(t)'
  <2>1. /\ TileRows(t)' \in Nat \ {0} \/ chunk'[t].rows = 0
        /\ TileCols' \in Nat \ {0} /\ UnpackRows' \in Nat \ {0}
    BY <1>1, <1>4, <1>7, Sizes DEF TileRows, TileCols, UnpackRows
  <2>2. ASSUME NEW n \in Nat \ {0} PROVE 0 % n = 0
    BY SmallResidue
  <2> QED  BY <1>1, <1>4, <1>7, <2>1, <2>2 DEF Loops, InTile
<1>10. ASSUME NEW t \in Thread PROVE InputsStay(t)' /\ SumsInProgress(t)'
  BY <1>7 DEF InputsStay, SumsInProgress
<1>11. ASSUME NEW t \in Thread PROVE StoredSoFar(t)'
  <2>0. job'.n \in Nat \ {0}
    BY <1>1, <1>4
  <2>1. ASSUME NEW c \in Nat, NEW i \in Nat, i <= chunk'[t].rows - 1
        PROVE  stage'[t] # "idle" /\ ~Before(t, i, c % job.n)'
    <3>1. c % job'.n \in Nat
      BY <2>0, Division
    <3> QED  BY <1>7, <2>1, <3>1 DEF Before
  <2>2. ASSUME NEW c, c \in DOMAIN dst'
        PROVE  c \in Nat /\ c \div job'.n \in Nat /\ dst'[c] = <<>> /\ Len(dst'[c]) = 0
    <3>1. j.m * j.n \in Nat
      BY <1>4
    <3>2. c \in Nat
      BY <1>1, <2>2, <3>1
    <3>3. c \div job'.n \in Nat
      BY <2>0, <3>2, Division
    <3> QED  BY <1>1, <2>2, <3>2, <3>3
  <2>3. chunk'[t].rows \in Nat /\ chunk'[t].start \in Nat
    BY <1>7
  <2> QED  BY <2>1, <2>2, <2>3 DEF StoredSoFar
<1>12. SumsAreWhole'
  BY <1>1 DEF SumsAreWhole
<1> QED  BY <1>8, <1>9, <1>10, <1>11, <1>12 DEF TiledInv

-----------------------------------------------------------------------------
(* A step of a thread within its tile.                                     *)

LEMMA SameChunks ==
  ASSUME UNCHANGED <<n_threads, calls, job, chunk>>
  PROVE  \A u \in Thread : Chunk(job, u)' = Chunk(job, u)
BY DEF Chunk, Divided

LEMMA Apart ==
  ASSUME TiledInv, NEW t \in Thread, UNCHANGED <<n_threads, calls, job, chunk>>,
         \A u \in Thread \ {t} : at'[u] = at[u] /\ stage'[u] = stage[u] /\ ws'[u] = ws[u],
         TiledTypeOK', SumsAreWhole',
         Loops(t)', InputsStay(t)', SumsInProgress(t)',
         \A u \in Thread : StoredSoFar(u)'
  PROVE  TiledInv'
<1>1. ASSUME NEW u \in Thread \ {t} PROVE Loops(u)' /\ InputsStay(u)' /\ SumsInProgress(u)'
  BY Others DEF TiledInv
<1> QED  BY <1>1 DEF TiledInv

LEMMA WithinTile ==
  ASSUME TiledInv, NEW t \in Thread, UNCHANGED <<n_threads, calls, job, chunk, dst>>,
         at'[t].i0 = at[t].i0, at'[t].j0 = at[t].j0,
         stage[t] # "idle", stage'[t] # "idle",
         \A u \in Thread \ {t} : at'[u] = at[u] /\ stage'[u] = stage[u]
  PROVE  SumsAreWhole' /\ \A u \in Thread : StoredSoFar(u)'
<1>1. ClearedAsUsed' = ClearedAsUsed /\ TileCols' = TileCols /\ Divided(job)' = Divided(job)
      /\ UnpackRows' = UnpackRows /\ RowsOutside' = RowsOutside
  BY SameCall
<1>2. SumsAreWhole'
  <2>1. SumsAreWhole
    BY DEF TiledInv
  <2>2. dst' = dst /\ job' = job /\ calls' = calls
    OBVIOUS
  <2>3. ASSUME NEW c \in DOMAIN dst, NEW s \in 1..Len(dst[c]), ClearedAsUsed
        PROVE  Whole(dst[c][s], c \div job.n, c % job.n, job.nb)'
    <3>1. Whole(dst[c][s], c \div job.n, c % job.n, job.nb)
      BY <2>1, <2>3 DEF SumsAreWhole
    <3> QED  BY <1>1, <2>2, <3>1 DEF Whole, OwnBlocks
  <2> QED  BY <1>1, <2>2, <2>3 DEF SumsAreWhole
<1>3. ASSUME NEW u \in Thread PROVE StoredSoFar(u)'
  <2>1. StoredSoFar(u)
    BY DEF TiledInv
  <2>2. CASE u = t
    <3>1. tile_m(t)' = tile_m(t) /\ tile_n(t)' = tile_n(t)
      BY SameTile
    <3> QED  BY <1>1, <2>1, <2>2, <3>1 DEF StoredSoFar, Before
  <2>3. CASE u # t
    BY <2>1, <2>3, OthersStored
  <2> QED  BY <2>2, <2>3
<1> QED  BY <1>2, <1>3

LEMMA ClearAccKeeps ==
  ASSUME TiledInv, NEW t \in Thread, ClearAcc(t)
  PROVE  TiledInv'
<1> DEFINE cells == tile_m(t) * tile_n(t)
<1>1. /\ stage[t] = "clear" /\ UNCHANGED <<n_threads, calls, job, chunk, at, dst>>
      /\ IF cells > TILE_ROWS * TILE_ROWS
         THEN stage' = [stage EXCEPT ![t] = "panicked"] /\ UNCHANGED ws
         ELSE /\ ws' = [ws EXCEPT ![t].acc = [a \in DOMAIN @ |-> IF a < cells THEN <<>> ELSE @[a]]]
              /\ stage' = [stage EXCEPT ![t] = "sum"]
  BY DEF ClearAcc
<1>2. /\ TiledTypeOK /\ Loops(t)
      /\ stage \in [Thread -> {"idle", "clear", "sum", "store", "panicked"}]
      /\ ws \in [Thread -> Workspace]
  BY DEF TiledInv, TiledTypeOK
<1>3. InTile(t) /\ at[t].k0 = 0 /\ at[t].ir0 = 0
  BY <1>1, <1>2 DEF Loops, InTile
<1>4. /\ at[t].i0 < chunk[t].rows /\ at[t].i0 % TileRows(t) = 0
      /\ at[t].j0 < job.n /\ at[t].j0 % TileCols = 0 /\ at[t].ir0 % UnpackRows = 0
  BY <1>3 DEF InTile
<1>5. /\ tile_m(t) \in Nat \ {0} /\ tile_n(t) \in Nat \ {0} /\ cells \in Nat
      /\ TILE_ROWS * TILE_ROWS \in Nat
  BY <1>2, <1>3, Tile, Sizes
<1>6. /\ TileRows(t)' = TileRows(t) /\ TileCols' = TileCols /\ UnpackRows' = UnpackRows
      /\ Narrow' = Narrow /\ tile_m(t)' = tile_m(t) /\ tile_n(t)' = tile_n(t)
  BY <1>1, SameCall, SameTile
<1>7. \A u \in Thread \ {t} : at'[u] = at[u] /\ stage'[u] = stage[u] /\ ws'[u] = ws[u]
  BY <1>1, <1>2
<1>8. \A u \in Thread : Chunk(job, u)' = Chunk(job, u)
  BY <1>1, SameChunks
<1>9. CASE cells > TILE_ROWS * TILE_ROWS
  <2>1. stage' = [stage EXCEPT ![t] = "panicked"] /\ ws' = ws
    BY <1>1, <1>9
  <2>2. stage'[t] = "panicked"
    BY <2>1, <1>2
  <2>3. Narrow /\ chunk[t].rows * job.n > TILE_ROWS * TILE_ROWS
    <3>1. Narrow
      BY <1>2, <1>3, <1>5, <1>9, Strides
    <3>2. tile_m(t) <= chunk[t].rows /\ tile_n(t) <= job.n
      <4>1. /\ at[t].i0 + tile_m(t) <= chunk[t].rows /\ at[t].j0 + tile_n(t) <= job.n
            /\ tile_m(t) \in Nat /\ tile_n(t) \in Nat
        BY <1>2, <1>3, Tile
      <4>2. at[t].i0 \in Nat /\ at[t].j0 \in Nat /\ chunk[t].rows \in Nat /\ job.n \in Nat
        BY <1>2, Typed
      <4> QED  BY <4>1, <4>2
    <3>3. cells <= chunk[t].rows * job.n /\ chunk[t].rows * job.n \in Nat
      BY <1>2, <1>5, <3>2, Typed, ProductsGrow
    <3> DEFINE b == chunk[t].rows * job.n
    <3> HIDE DEF cells, b
    <3>4. b > TILE_ROWS * TILE_ROWS
      BY <1>5, <1>9, <3>3 DEF b
    <3> QED  BY <3>1, <3>4 DEF b
  <2>4. TiledTypeOK'
    BY <1>1, <1>2, <1>8, <2>1 DEF TiledTypeOK
  <2>5. Loops(t)'
    BY <1>1, <1>4, <1>6, <2>2, <2>3 DEF Loops, InTile
  <2>6. InputsStay(t)' /\ SumsInProgress(t)'
    BY <2>2 DEF InputsStay, SumsInProgress
  <2>7. SumsAreWhole' /\ \A u \in Thread : StoredSoFar(u)'
    BY <1>1, <1>7, <2>2, WithinTile
  <2> QED  BY <1>1, <1>7, <2>4, <2>5, <2>6, <2>7, Apart
<1>10. CASE ~(cells > TILE_ROWS * TILE_ROWS)
  <2>1. /\ ws' = [ws EXCEPT ![t].acc = [a \in DOMAIN @ |-> IF a < cells THEN <<>> ELSE @[a]]]
        /\ stage' = [stage EXCEPT ![t] = "sum"]
    BY <1>1, <1>10
  <2>2. stage'[t] = "sum"
    BY <2>1, <1>2
  <2>3. cells <= TILE_ROWS * TILE_ROWS
    BY <1>5, <1>10
  <2> DEFINE acc == [a \in AccCell |-> IF a < cells THEN <<>> ELSE ws[t].acc[a]]
  <2>4. DOMAIN ws[t].acc = AccCell /\ ws[t].acc \in [AccCell -> Seq(Product)]
    BY <1>2 DEF Workspace
  <2>5. ws'[t] = [ws[t] EXCEPT !.acc = acc]
    BY <1>2, <2>1, <2>4
  <2>6. acc \in [AccCell -> Seq(Product)]
    BY <2>4
  <2>7. ws' = [ws EXCEPT ![t] = [ws[t] EXCEPT !.acc = acc]]
    BY <1>2, <2>1, <2>4
  <2>8. ws' \in [Thread -> Workspace]
    <3> HIDE DEF acc
    <3> QED  BY <1>2, <2>6, <2>7 DEF Workspace
  <2>9. TiledTypeOK'
    BY <1>1, <1>2, <1>8, <2>1, <2>8 DEF TiledTypeOK
  <2>10. Loops(t)'
    <3>1. at[t].k0 < job.nb /\ at[t].ir0 < tile_m(t)
      BY <1>2, <1>3, <1>5, Tile
    <3> QED  BY <1>1, <1>4, <1>6, <2>2, <2>3, <3>1 DEF Loops, InTile
  <2>11. InputsStay(t)'
    BY <1>1, <1>3 DEF InputsStay
  <2>12. SumsInProgress(t)'
    <3>1. ASSUME NEW a \in 0..(cells - 1)
          PROVE  /\ ws'[t].acc[a] = <<>> /\ Len(ws'[t].acc[a]) = 0
                 /\ Summed(t, a \div tile_n(t))' = 0
      <4>1. a \in Nat /\ a < cells /\ a \in AccCell
        <5> HIDE DEF cells
        <5> QED  BY <1>5, <2>3, <3>1 DEF AccCell
      <4>2. acc[a] = <<>>
        BY <4>1
      <4>3. ws'[t].acc[a] = <<>>
        BY <2>5, <1>2, <4>2 DEF Workspace
      <4>4. a \div tile_n(t) \in Nat
        BY <1>5, <4>1, Division
      <4>5. Summed(t, a \div tile_n(t))' = 0
        BY <1>1, <1>3, <1>6, <2>2, <4>4 DEF Summed
      <4> QED  BY <4>3, <4>5
    <3>2. stage'[t] # "store"
      BY <2>2
    <3> QED  BY <1>6, <3>1, <3>2 DEF SumsInProgress, Whole, Summed
  <2>13. SumsAreWhole' /\ \A u \in Thread : StoredSoFar(u)'
    BY <1>1, <1>7, <2>2, WithinTile
  <2> QED  BY <1>1, <1>7, <2>9, <2>10, <2>11, <2>12, <2>13, Apart
<1> QED  BY <1>9, <1>10

-----------------------------------------------------------------------------
(* What a step of the sums reads, by name.                                 *)

NSrc0(t) == Lesser(UnpackRows, tile_m(t) - at[t].ir0)
TopRow(t) == chunk[t].start + at[t].i0 + at[t].ir0
Weights(t) == Unpacked(ws[t].src0, job.m * job.nb, TopRow(t), NSrc0(t), at[t].k0, Slabs(t))
Inputs(t) == IF at[t].ir0 = 0
             THEN Unpacked(ws[t].src1, job.n * job.nb, at[t].j0, tile_n(t), at[t].k0, Slabs(t))
             ELSE ws[t].src1
Rests(t) == UnpackedRest(ws[t].rest, job.m * job.nb, TopRow(t), NSrc0(t), at[t].k0, Slabs(t))
From(t, p, i, j) == Blocks(Weights(t), Rests(t), Inputs(t), Slabs(t), p - 1, i, j)
ProductsOf(t, i, j) ==
  [p \in 1..Slabs(t) |->
     [call |-> calls, row |-> TopRow(t) + i, col |-> at[t].j0 + j, k |-> at[t].k0 + p - 1,
      from |-> From(t, p, i, j)]]
AddedTo(t, a) == LET i == a \div AccStride(t) - at[t].ir0
                     j == a % AccStride(t) IN
                 IF i \in 0..(NSrc0(t) - 1) /\ j < tile_n(t) THEN ProductsOf(t, i, j) ELSE <<>>

LEMMA SumIs ==
  ASSUME NEW t \in Thread, Sum(t), t \in DOMAIN ws
  PROVE  /\ stage[t] = "sum"
         /\ ws' = [ws EXCEPT ![t] = [src0 |-> Weights(t), rest |-> Rests(t), src1 |-> Inputs(t),
                                     acc |-> [a \in DOMAIN ws[t].acc |-> ws[t].acc[a] \o AddedTo(t, a)]]]
         /\ IF at[t].ir0 + UnpackRows < tile_m(t)
            THEN at' = [at EXCEPT ![t].ir0 = @ + UnpackRows] /\ UNCHANGED stage
            ELSE /\ at' = [at EXCEPT ![t].ir0 = 0, ![t].k0 = @ + num_k]
                 /\ stage' = [stage EXCEPT ![t] = IF at[t].k0 + num_k < job.nb THEN "sum" ELSE "store"]
         /\ UNCHANGED <<n_threads, calls, job, chunk, dst>>
BY DEF Sum, NSrc0, TopRow, Weights, Rests, Inputs, From, ProductsOf, AddedTo, Slabs

LEMMA NSrc0Of ==
  ASSUME TiledTypeOK, NEW t \in Thread, InTile(t), stage[t] = "sum"
  PROVE  /\ NSrc0(t) \in Nat \ {0} /\ NSrc0(t) <= UnpackRows
         /\ at[t].ir0 + NSrc0(t) <= tile_m(t)
         /\ NSrc0(t) = UnpackRows \/ at[t].ir0 + NSrc0(t) = tile_m(t)
         /\ TopRow(t) \in Nat
<1>1. at[t].ir0 < tile_m(t) /\ at[t].ir0 \in Nat /\ tile_m(t) \in Nat
  BY Typed, Tile DEF InTile
<1>2. UnpackRows \in Nat \ {0}
  BY Tile
<1> DEFINE a == tile_m(t) - at[t].ir0
<1>3. a \in Nat \ {0} /\ at[t].ir0 + a = tile_m(t)
  BY <1>1
<1>4. NSrc0(t) = Lesser(UnpackRows, a)
  BY DEF NSrc0
<1>5. TopRow(t) \in Nat
  BY Typed DEF TopRow
<1> HIDE DEF a
<1> QED  BY <1>1, <1>2, <1>3, <1>4, <1>5 DEF Lesser

LEMMA BlockForType ==
  ASSUME NEW s \in Slot, NEW len \in Nat, NEW row_start \in Nat, NEW n_rows \in Nat \ {0},
         NEW k0 \in Nat, NEW num \in Nat \ {0}, calls \in Nat
  PROVE  BlockFor(s, len, row_start, n_rows, k0, num) \in Block
<1> DEFINE nb == len \div n_rows  r == s \div num  x == s % num
<1>1. nb \in Nat
  BY Division
<1>2. s \in Nat
  BY Sizes DEF Slot
<1>3. r \in Nat /\ x \in Nat
  <2>1. s \div num \in Nat /\ s % num \in 0..(num - 1)
    BY <1>2, Division
  <2> QED  BY <2>1
<1> DEFINE b == (row_start + r) * nb + k0 + x
<1>4. b \in Nat
  <2> HIDE DEF nb, r, x
  <2>1. (row_start + r) * nb \in Nat
    BY <1>1, <1>3
  <2> QED  BY <1>3, <2>1
<1>5. BlockFor(s, len, row_start, n_rows, k0, num) = IF r < n_rows /\ b < len THEN <<calls, b>> ELSE None
  BY DEF BlockFor
<1> HIDE DEF b, r
<1> QED  BY <1>4, <1>5 DEF Block

LEMMA UnpackedType ==
  ASSUME NEW slots \in [Slot -> Block], NEW len \in Nat, NEW row_start \in Nat, NEW n_rows \in Nat \ {0},
         NEW k0 \in Nat, NEW num \in Nat \ {0}, calls \in Nat
  PROVE  Unpacked(slots, len, row_start, n_rows, k0, num) \in [Slot -> Block]
BY BlockForType DEF Unpacked

LEMMA UnpackedRestType ==
  ASSUME NEW rest \in [Slot -> SUBSET Block], NEW len \in Nat, NEW row_start \in Nat,
         NEW n_rows \in Nat \ {0}, NEW k0 \in Nat, NEW num \in Nat \ {0}, calls \in Nat
  PROVE  UnpackedRest(rest, len, row_start, n_rows, k0, num) \in [Slot -> SUBSET Block]
BY BlockForType DEF UnpackedRest

(* If all n rows of nb blocks are unpacked, each slot has its block.       *)
HasItsBlock(n, nb, k0, num, r, s) ==
  BlockFor(r * num + s, n * nb, 0, n, k0, num) = <<calls, r * nb + k0 + s>>

LEMMA UnpackedAt ==
  ASSUME NEW n \in Nat \ {0}, NEW nb \in Nat, NEW k0 \in Nat,
         NEW num \in Nat \ {0}, k0 + num <= nb,
         NEW r \in 0..(n - 1), NEW s \in 0..(num - 1)
  PROVE  HasItsBlock(n, nb, k0, num, r, s)
<1> DEFINE a == r * num + s  len == n * nb  b == r * nb + k0 + s
<1>1. a \div num = r /\ a % num = s
  BY CellOf
<1>2. len \div n = nb
  BY Shares
<1>3. b < len
  <2>1. nb \in Nat \ {0} /\ k0 + s \in 0..(nb - 1)
    OBVIOUS
  <2>2. r * nb + (k0 + s) \in 0..(n * nb - 1)
    BY <2>1, CellOf
  <2>3. r * nb \in Nat /\ n * nb \in Nat
    BY <2>1
  <2> DEFINE p == r * nb
  <2> HIDE DEF p
  <2>4. p + (k0 + s) = p + k0 + s
    BY <2>3 DEF p
  <2> HIDE DEF len
  <2>5. p + (k0 + s) \in 0..(len - 1) /\ len \in Nat
    BY <2>2, <2>3 DEF p, len
  <2>6. p + k0 + s < len
    BY <2>4, <2>5
  <2> QED  BY <2>6 DEF p
<1> HIDE DEF a, len
<1>4. BlockFor(a, len, 0, n, k0, num)
        = IF r < n /\ (0 + r) * nb + k0 + s < len THEN <<calls, (0 + r) * nb + k0 + s>> ELSE None
  BY <1>1, <1>2 DEF BlockFor
<1>5. 0 + r = r /\ r < n
  OBVIOUS
<1>6. BlockFor(a, len, 0, n, k0, num) = <<calls, b>>
  BY <1>3, <1>4, <1>5
<1> QED  BY <1>6 DEF a, len, HasItsBlock

(* A slot for which there is a block holds it.                             *)
LEMMA UnpackedIn ==
  ASSUME NEW slots \in [Slot -> Block], NEW a \in Slot, NEW b \in Nat, calls \in Nat,
         NEW len, NEW row_start, NEW n_rows, NEW k0, NEW num,
         BlockFor(a, len, row_start, n_rows, k0, num) = <<calls, b>>
  PROVE  Unpacked(slots, len, row_start, n_rows, k0, num)[a] = <<calls, b>>
<1>1. <<calls, b>> # None
  BY NoneAssumption
<1> QED  BY <1>1 DEF Unpacked

LEMMA RestUnpackedIn ==
  ASSUME NEW rest \in [Slot -> SUBSET Block], NEW a \in Slot, NEW b \in Nat, calls \in Nat,
         NEW len, NEW row_start, NEW n_rows, NEW k0, NEW num, job.format = "Q6_K",
         BlockFor(a, len, row_start, n_rows, k0, num) = <<calls, b>>
  PROVE  UnpackedRest(rest, len, row_start, n_rows, k0, num)[a] = {<<calls, b>>}
<1>1. <<calls, b>> # None
  BY NoneAssumption
<1> QED  BY <1>1 DEF UnpackedRest

(* The inputs of the microtile, read now or for the first microtile.       *)
LEMMA InputsRead ==
  ASSUME TiledTypeOK, NEW t \in Thread, InTile(t), stage[t] = "sum", InputsStay(t), job.n <= TileCols,
         NEW j \in 0..(job.n - 1), NEW s \in 0..(Slabs(t) - 1)
  PROVE  Inputs(t)[j * Slabs(t) + s] = <<calls, j * job.nb + at[t].k0 + s>>
<1>1. at[t].j0 = 0 /\ tile_n(t) = job.n
  BY WholeInputs
<1>2. CASE at[t].ir0 = 0
  <2>1. Inputs(t) = Unpacked(ws[t].src1, job.n * job.nb, 0, job.n, at[t].k0, Slabs(t))
    BY <1>1, <1>2 DEF Inputs
  <2>2. ws[t].src1 \in [Slot -> Block] /\ calls \in Nat
    BY DEF TiledTypeOK, Workspace
  <2>3. job.n \in Nat \ {0} /\ job.nb \in Nat /\ at[t].k0 \in Nat
    BY Typed, Tile
  <2>4. Slabs(t) \in Nat \ {0} /\ at[t].k0 + Slabs(t) <= job.nb
    BY SlabsOf
  <2>5. j * Slabs(t) + s \in Slot
    BY <1>1, <2>3, SlotOf
  <2> DEFINE n == job.n  nb == job.nb  num == Slabs(t)  k == at[t].k0  slots == ws[t].src1
  <2>6. /\ slots \in [Slot -> Block] /\ n \in Nat \ {0} /\ nb \in Nat /\ k \in Nat
        /\ num \in Nat \ {0} /\ k + num <= nb /\ j \in 0..(n - 1) /\ s \in 0..(num - 1)
        /\ j * num + s \in Slot
    BY <2>2, <2>3, <2>4, <2>5
  <2> HIDE DEF n, nb, num, k, slots
  <2>7. HasItsBlock(n, nb, k, num, j, s)
    BY <2>6, UnpackedAt
  <2>8. j * nb + k + s \in Nat
    <3>1. j * nb \in Nat
      BY <2>6
    <3> QED  BY <2>6, <3>1
  <2>9. Unpacked(slots, n * nb, 0, n, k, num)[j * num + s] = <<calls, j * nb + k + s>>
    BY <2>2, <2>6, <2>7, <2>8, UnpackedIn DEF HasItsBlock
  <2> QED  BY <2>1, <2>9 DEF n, nb, num, k, slots
<1>3. CASE at[t].ir0 # 0
  <2>1. at[t].ir0 > 0
    BY <1>3, Typed
  <2>2. Inputs(t) = ws[t].src1
    BY <1>3 DEF Inputs
  <2> QED  BY <2>1, <2>2 DEF InputsStay
<1> QED  BY <1>2, <1>3

LEMMA WeightsRead ==
  ASSUME TiledTypeOK, NEW t \in Thread, InTile(t), stage[t] = "sum", ~Divided(job), job.m <= UnpackRows,
         NEW i \in 0..(NSrc0(t) - 1), NEW s \in 0..(Slabs(t) - 1)
  PROVE  /\ TopRow(t) = 0
         /\ Weights(t)[i * Slabs(t) + s] = <<calls, i * job.nb + at[t].k0 + s>>
         /\ job.format = "Q6_K" => Rests(t)[i * Slabs(t) + s] = {<<calls, i * job.nb + at[t].k0 + s>>}
<1>1. /\ chunk[t].start = 0 /\ at[t].i0 = 0 /\ tile_m(t) = job.m /\ at[t].ir0 = 0
  BY WholeWeights DEF InTile
<1>2. TopRow(t) = 0
  BY <1>1 DEF TopRow
<1>3. job.m \in Nat \ {0} /\ job.nb \in Nat /\ at[t].k0 \in Nat /\ UnpackRows \in Nat
  BY Typed, Tile
<1>4. NSrc0(t) = job.m
  BY <1>1, <1>3, NSrc0Of
<1>5. Weights(t) = Unpacked(ws[t].src0, job.m * job.nb, 0, job.m, at[t].k0, Slabs(t))
  BY <1>2, <1>4 DEF Weights
<1>6. ws[t].src0 \in [Slot -> Block] /\ ws[t].rest \in [Slot -> SUBSET Block] /\ calls \in Nat
  BY DEF TiledTypeOK, Workspace
<1>7. Slabs(t) \in Nat \ {0} /\ at[t].k0 + Slabs(t) <= job.nb
  BY SlabsOf
<1>8. i * Slabs(t) + s \in Slot
  BY <1>3, <1>4, SlotOf
<1>9. i \in 0..(job.m - 1)
  BY <1>4
<1>12. Rests(t) = UnpackedRest(ws[t].rest, job.m * job.nb, 0, job.m, at[t].k0, Slabs(t))
  BY <1>2, <1>4 DEF Rests
<1> DEFINE n == job.m  nb == job.nb  num == Slabs(t)  k == at[t].k0
           slots == ws[t].src0  rest == ws[t].rest
<1>10. /\ slots \in [Slot -> Block] /\ rest \in [Slot -> SUBSET Block]
       /\ n \in Nat \ {0} /\ nb \in Nat /\ k \in Nat
       /\ num \in Nat \ {0} /\ k + num <= nb /\ i \in 0..(n - 1) /\ s \in 0..(num - 1)
       /\ i * num + s \in Slot
  BY <1>3, <1>6, <1>7, <1>8, <1>9
<1> HIDE DEF n, nb, num, k, slots, rest
<1>11. HasItsBlock(n, nb, k, num, i, s)
  BY <1>10, UnpackedAt
<1>13. i * nb + k + s \in Nat
  <2>1. i * nb \in Nat
    BY <1>10
  <2> QED  BY <1>10, <2>1
<1>14. Unpacked(slots, n * nb, 0, n, k, num)[i * num + s] = <<calls, i * nb + k + s>>
  BY <1>6, <1>10, <1>11, <1>13, UnpackedIn DEF HasItsBlock
<1>15. job.format = "Q6_K" =>
         UnpackedRest(rest, n * nb, 0, n, k, num)[i * num + s] = {<<calls, i * nb + k + s>>}
  BY <1>6, <1>10, <1>11, <1>13, RestUnpackedIn DEF HasItsBlock
<1> QED  BY <1>2, <1>5, <1>12, <1>14, <1>15 DEF n, nb, num, k, slots, rest

LEMMA ReadTypes ==
  ASSUME TiledTypeOK, NEW t \in Thread, InTile(t), stage[t] = "sum"
  PROVE  /\ Weights(t) \in [Slot -> Block] /\ Inputs(t) \in [Slot -> Block]
         /\ Rests(t) \in [Slot -> SUBSET Block]
<1>1. /\ ws[t].src0 \in [Slot -> Block] /\ ws[t].src1 \in [Slot -> Block]
      /\ ws[t].rest \in [Slot -> SUBSET Block] /\ calls \in Nat
  BY DEF TiledTypeOK, Workspace
<1>2. /\ job.m * job.nb \in Nat /\ job.n * job.nb \in Nat /\ at[t].k0 \in Nat /\ at[t].j0 \in Nat
      /\ TopRow(t) \in Nat /\ NSrc0(t) \in Nat \ {0} /\ tile_n(t) \in Nat \ {0}
      /\ Slabs(t) \in Nat \ {0}
  BY Typed, Tile, NSrc0Of, SlabsOf
<1>3. Weights(t) \in [Slot -> Block]
  BY <1>1, <1>2, UnpackedType DEF Weights
<1>4. Inputs(t) \in [Slot -> Block]
  BY <1>1, <1>2, UnpackedType DEF Inputs
<1>5. Rests(t) \in [Slot -> SUBSET Block]
  BY <1>1, <1>2, UnpackedRestType DEF Rests
<1> QED  BY <1>3, <1>4, <1>5

(* The cells of the block sums that are read are cells of src1_bsums.      *)
LEMMA SumsHaveSlots ==
  ASSUME TiledTypeOK, NEW t \in Thread, InTile(t), stage[t] = "sum",
         NEW slab \in 0..(Slabs(t) - 1), NEW x \in 0..(MICRO - 1), NEW j \in 0..(tile_n(t) - 1)
  PROVE  /\ SumCell(Slabs(t), slab, x, j) \div MICRO \in Slot
         /\ SumCell(Slabs(t), slab, x, j) % MICRO \in Nat
<1>1. /\ MICRO \in Nat \ {0} /\ TILE_ROWS \in Nat \ {0} /\ tile_n(t) \in Nat \ {0}
      /\ Slabs(t) \in Nat \ {0} /\ tile_n(t) <= TILE_ROWS
  BY Sizes, Tile, SlabsOf
<1> DEFINE cell == SumCell(Slabs(t), slab, x, j)
<1>2. cell \in 0..(TILE_ROWS * MICRO - 1)
  <2>1. CASE Slabs(t) = 1
    <3>1. slab = 0 /\ j \in 0..(TILE_ROWS - 1)
      BY <1>1, <2>1
    <3>2. cell = x * TILE_ROWS + j
      BY <1>1, <2>1, <3>1 DEF SumCell
    <3>3. x * TILE_ROWS + j \in 0..(MICRO * TILE_ROWS - 1)
      BY <1>1, <3>1, CellOf
    <3>4. MICRO * TILE_ROWS = TILE_ROWS * MICRO
      BY <1>1
    <3> QED  BY <3>2, <3>3, <3>4
  <2>2. CASE Slabs(t) # 1
    <3>1. Narrow /\ Slabs(t) <= LongRead /\ tile_n(t) <= MICRO
      <4>1. Slabs(t) <= num_k /\ job.nb > 0 /\ num_k \in Nat
        BY SlabsOf, NumK, Typed, Tile DEF InTile
      <4>2. Narrow
        BY <1>1, <2>2, <4>1, NumK
      <4> QED  BY <1>1, <4>1, <4>2, NumK, Tile, Sizes
    <3>2. j \in 0..(MICRO - 1)
      BY <1>1, <3>1
    <3> DEFINE top == slab * MICRO + x
    <3>3. top \in 0..(Slabs(t) * MICRO - 1)
      BY <1>1, CellOf
    <3>4. Slabs(t) * MICRO \in Nat /\ Slabs(t) * MICRO <= TILE_ROWS
      <4>1. Slabs(t) * MICRO <= LongRead * MICRO /\ LongRead * MICRO \in Nat /\ Slabs(t) * MICRO \in Nat
        BY <1>1, <3>1, Sizes, ProductsGrow
      <4>2. LongRead * MICRO = MICRO * LongRead /\ MICRO * LongRead <= TILE_ROWS
        BY <1>1, Sizes
      <4> DEFINE a == Slabs(t) * MICRO  b == LongRead * MICRO
      <4>3. a \in Nat /\ b \in Nat /\ a <= b /\ b <= TILE_ROWS
        BY <4>1, <4>2
      <4> HIDE DEF a, b
      <4>4. a \in Nat /\ a <= TILE_ROWS
        BY <1>1, <4>3
      <4> QED  BY <4>4 DEF a
    <3>5. top \in 0..(TILE_ROWS - 1)
      <4> DEFINE a == Slabs(t) * MICRO
      <4>1. top \in 0..(a - 1) /\ a \in Nat /\ a <= TILE_ROWS
        BY <3>3, <3>4
      <4> HIDE DEF a, top
      <4> QED  BY <1>1, <4>1
    <3>6. cell = top * MICRO + j
      BY <2>2 DEF SumCell
    <3> HIDE DEF top
    <3>7. top * MICRO + j \in 0..(TILE_ROWS * MICRO - 1)
      BY <1>1, <3>2, <3>5, CellOf
    <3> QED  BY <3>6, <3>7
  <2> QED  BY <2>1, <2>2
<1> HIDE DEF cell
<1>3. cell \in Nat /\ cell \div MICRO \in Nat /\ cell % MICRO \in 0..(MICRO - 1)
  <2>1. cell \in Nat
    <3> DEFINE n == TILE_ROWS * MICRO
    <3>1. n \in Nat /\ cell \in 0..(n - 1)
      BY <1>1, <1>2
    <3> HIDE DEF n
    <3> QED  BY <3>1
  <2> QED  BY <1>1, <2>1, Division
<1>4. cell \div MICRO < TILE_ROWS
  <2> DEFINE q == cell \div MICRO
  <2>1. q * MICRO <= cell /\ q \in Nat
    BY <1>1, <1>3, Division
  <2>2. TILE_ROWS <= q => TILE_ROWS * MICRO <= q * MICRO /\ q * MICRO \in Nat
    BY <1>1, <2>1, ProductsGrow
  <2> DEFINE n == TILE_ROWS * MICRO  c == q * MICRO
  <2>3. n \in Nat /\ c <= cell /\ cell \in 0..(n - 1) /\ (TILE_ROWS <= q => n <= c /\ c \in Nat)
    BY <1>1, <1>2, <2>1, <2>2
  <2> HIDE DEF q, n, c
  <2>4. q < TILE_ROWS
    BY <1>1, <2>1, <2>3
  <2> QED  BY <2>4 DEF q
<1> QED  BY <1>1, <1>3, <1>4 DEF Slot, cell

(* What a product is computed from. *)
LEMMA FromIs ==
  ASSUME TiledTypeOK, NEW t \in Thread, InTile(t), stage[t] = "sum",
         NEW i \in 0..(NSrc0(t) - 1), NEW j \in 0..(tile_n(t) - 1), NEW p \in 1..Slabs(t)
  PROVE  /\ From(t, p, i, j) \in Source
         /\ From(t, p, i, j).weight = Weights(t)[i * Slabs(t) + (p - 1)]
         /\ From(t, p, i, j).rest = Rests(t)[i * Slabs(t) + (p - 1)]
         /\ From(t, p, i, j).input = Inputs(t)[j * Slabs(t) + (p - 1)]
<1>1. /\ NSrc0(t) \in Nat \ {0} /\ NSrc0(t) <= UnpackRows /\ tile_n(t) \in Nat \ {0}
      /\ Slabs(t) \in Nat \ {0} /\ MICRO \in Nat \ {0}
  BY Sizes, Tile, NSrc0Of, SlabsOf
<1>2. p - 1 \in 0..(Slabs(t) - 1)
  BY <1>1
<1>3. i * Slabs(t) + (p - 1) \in Slot /\ j * Slabs(t) + (p - 1) \in Slot
  <2> DEFINE s == p - 1  rows == NSrc0(t)  cols == tile_n(t)
  <2>1. s \in 0..(Slabs(t) - 1) /\ rows \in Nat /\ cols \in Nat
        /\ rows <= UnpackRows /\ cols <= tile_n(t) /\ i \in 0..(rows - 1) /\ j \in 0..(cols - 1)
    BY <1>1, <1>2
  <2> HIDE DEF s, rows, cols
  <2>2. i * Slabs(t) + s \in Slot
    BY <2>1, SlotOf
  <2>3. j * Slabs(t) + s \in Slot
    BY <2>1, SlotOf
  <2> QED  BY <2>2, <2>3 DEF s
<1> DEFINE w == Weights(t)[i * Slabs(t) + (p - 1)]
           r == Rests(t)[i * Slabs(t) + (p - 1)]
           x == Inputs(t)[j * Slabs(t) + (p - 1)]
           used == IF job.format = "Q6_K" THEN 0 ELSE MICRO
           CellRead(n) == SumCell(Slabs(t), p - 1, n - 1, j)
           sums == [n \in 1..used |-> <<Inputs(t)[CellRead(n) \div MICRO], CellRead(n) % MICRO>>]
<1>4. w \in Block /\ r \in SUBSET Block /\ x \in Block
  BY <1>3, ReadTypes
<1>5. sums \in Seq(Block \X Nat)
  <2>1. used \in Nat /\ used <= MICRO
    BY <1>1
  <2>2. ASSUME NEW n \in 1..used
        PROVE  Inputs(t)[CellRead(n) \div MICRO] \in Block /\ CellRead(n) % MICRO \in Nat
    <3>1. n - 1 \in 0..(MICRO - 1)
      BY <1>1, <2>1
    <3>2. CellRead(n) \div MICRO \in Slot /\ CellRead(n) % MICRO \in Nat
      BY <1>2, <3>1, SumsHaveSlots
    <3> QED  BY <3>2, ReadTypes
  <2> HIDE DEF CellRead, used
  <2>3. \A n \in 1..used : sums[n] \in Block \X Nat
    BY <2>2
  <2> QED  BY <2>1, <2>3
<1>6. From(t, p, i, j) = [weight |-> w, rest |-> r, input |-> x, sums |-> sums]
  BY DEF From, Blocks
<1> HIDE DEF w, r, x, sums
<1>7. /\ From(t, p, i, j) \in Source
      /\ From(t, p, i, j).weight = w /\ From(t, p, i, j).rest = r /\ From(t, p, i, j).input = x
  BY <1>4, <1>5, <1>6 DEF Source
<1> QED  BY <1>7 DEF w, r, x

LEMMA ProductsAre ==
  ASSUME TiledTypeOK, NEW t \in Thread, InTile(t), stage[t] = "sum",
         NEW i \in 0..(NSrc0(t) - 1), NEW j \in 0..(tile_n(t) - 1)
  PROVE  /\ ProductsOf(t, i, j) \in Seq(Product) /\ Len(ProductsOf(t, i, j)) = Slabs(t)
         /\ \A p \in 1..Slabs(t) :
              ProductsOf(t, i, j)[p] =
                [call |-> calls, row |-> TopRow(t) + i, col |-> at[t].j0 + j, k |-> at[t].k0 + p - 1,
                 from |-> From(t, p, i, j)]
<1>1. /\ TopRow(t) \in Nat /\ NSrc0(t) \in Nat \ {0} /\ NSrc0(t) <= UnpackRows /\ tile_n(t) \in Nat \ {0}
      /\ Slabs(t) \in Nat \ {0} /\ calls \in Nat /\ at[t].j0 \in Nat /\ at[t].k0 \in Nat
  BY Typed, Tile, NSrc0Of, SlabsOf
<1>2. ASSUME NEW p \in 1..Slabs(t)
      PROVE  [call |-> calls, row |-> TopRow(t) + i, col |-> at[t].j0 + j, k |-> at[t].k0 + p - 1,
              from |-> From(t, p, i, j)] \in Product
  <2>1. From(t, p, i, j) \in Source
    BY FromIs
  <2>2. TopRow(t) + i \in Nat /\ at[t].j0 + j \in Nat /\ at[t].k0 + p - 1 \in Nat
    BY <1>1
  <2> QED  BY <1>1, <2>1, <2>2 DEF Product
<1>3. \A p \in 1..Slabs(t) :
        ProductsOf(t, i, j)[p] =
          [call |-> calls, row |-> TopRow(t) + i, col |-> at[t].j0 + j, k |-> at[t].k0 + p - 1,
           from |-> From(t, p, i, j)]
  BY DEF ProductsOf
<1>4. DOMAIN ProductsOf(t, i, j) = 1..Slabs(t)
  BY DEF ProductsOf
<1>5. ProductsOf(t, i, j) = [p \in 1..Slabs(t) |-> ProductsOf(t, i, j)[p]]
  BY DEF ProductsOf
<1>6. \A p \in 1..Slabs(t) : ProductsOf(t, i, j)[p] \in Product
  BY <1>2, <1>3
<1>7. ProductsOf(t, i, j) \in Seq(Product) /\ Len(ProductsOf(t, i, j)) = Slabs(t)
  BY <1>1, <1>4, <1>5, <1>6
<1> QED  BY <1>3, <1>7

LEMMA AddedType ==
  ASSUME TiledTypeOK, NEW t \in Thread, InTile(t), stage[t] = "sum", NEW a \in AccCell
  PROVE  AddedTo(t, a) \in Seq(Product)
<1> DEFINE i == a \div AccStride(t) - at[t].ir0
           j == a % AccStride(t)
<1>1. j \in Nat /\ tile_n(t) \in Nat
  <2>1. AccStride(t) \in Nat \ {0} /\ a \in Nat /\ tile_n(t) \in Nat
    BY Strides, Sizes, Tile DEF AccCell
  <2>2. a % AccStride(t) \in 0..(AccStride(t) - 1)
    BY <2>1, Division
  <2> QED  BY <2>1, <2>2
<1>2. AddedTo(t, a) = IF i \in 0..(NSrc0(t) - 1) /\ j < tile_n(t) THEN ProductsOf(t, i, j) ELSE <<>>
  BY DEF AddedTo
<1> HIDE DEF i, j
<1>3. CASE i \in 0..(NSrc0(t) - 1) /\ j < tile_n(t)
  <2>1. j \in 0..(tile_n(t) - 1)
    BY <1>1, <1>3
  <2> QED  BY <1>2, <1>3, <2>1, ProductsAre
<1>4. CASE ~(i \in 0..(NSrc0(t) - 1) /\ j < tile_n(t))
  BY <1>2, <1>4
<1> QED  BY <1>3, <1>4

(* Cells of the accumulator are rows and columns of the tile.              *)
LEMMA AccCellOf ==
  ASSUME TiledTypeOK, NEW t \in Thread, InTile(t), stage[t] \in {"sum", "store"},
         NEW a \in 0..(tile_m(t) * tile_n(t) - 1)
  PROVE  /\ a \in AccCell /\ a \in Nat
         /\ a \div tile_n(t) \in 0..(tile_m(t) - 1) /\ a % tile_n(t) \in 0..(tile_n(t) - 1)
<1>1. tile_m(t) \in Nat /\ tile_n(t) \in Nat \ {0}
  BY Tile
<1>2. a \in Nat /\ a \div tile_n(t) \in 0..(tile_m(t) - 1) /\ a % tile_n(t) \in 0..(tile_n(t) - 1)
  BY <1>1, RowAndColumn
<1>3. a \in AccCell
  <2> DEFINE p == tile_m(t) * tile_n(t)  q == TILE_ROWS * TILE_ROWS
  <2>1. p \in Nat /\ q \in Nat /\ p <= q /\ a \in 0..(p - 1)
    BY <1>1, Sizes DEF InTile
  <2> HIDE DEF p, q
  <2>2. a \in 0..(q - 1)
    BY <2>1
  <2> QED  BY <2>2 DEF q, AccCell
<1> QED  BY <1>2, <1>3

LEMMA AddedIs ==
  ASSUME TiledTypeOK, NEW t \in Thread, InTile(t), stage[t] = "sum", ClearedAsUsed,
         NEW a \in 0..(tile_m(t) * tile_n(t) - 1)
  PROVE  LET i == a \div tile_n(t) IN
         AddedTo(t, a) = IF at[t].ir0 <= i /\ i < at[t].ir0 + NSrc0(t)
                         THEN ProductsOf(t, i - at[t].ir0, a % tile_n(t)) ELSE <<>>
<1> DEFINE i == a \div tile_n(t)  j == a % tile_n(t)
<1>1. i \in Nat /\ j \in 0..(tile_n(t) - 1) /\ tile_n(t) \in Nat
  BY AccCellOf, Tile
<1>2. AccStride(t) = tile_n(t)
  BY Strides
<1>3. AddedTo(t, a) = IF i - at[t].ir0 \in 0..(NSrc0(t) - 1) /\ j < tile_n(t)
                      THEN ProductsOf(t, i - at[t].ir0, j) ELSE <<>>
  BY <1>2 DEF AddedTo
<1>4. at[t].ir0 \in Nat /\ NSrc0(t) \in Nat
  BY Typed, NSrc0Of
<1> HIDE DEF i, j
<1>5. j < tile_n(t)
  BY <1>1
<1>6. i - at[t].ir0 \in 0..(NSrc0(t) - 1) <=> at[t].ir0 <= i /\ i < at[t].ir0 + NSrc0(t)
  BY <1>1, <1>4
<1>7. AddedTo(t, a) = IF at[t].ir0 <= i /\ i < at[t].ir0 + NSrc0(t)
                      THEN ProductsOf(t, i - at[t].ir0, j) ELSE <<>>
  BY <1>3, <1>5, <1>6
<1> QED  BY <1>7 DEF i, j

(* The products that follow. *)
Following(new, row, col, k0, len) ==
  /\ new \in Seq(Product) /\ Len(new) = len
  /\ \A p \in 1..len :
       /\ new[p].call = calls /\ new[p].row = row /\ new[p].col = col /\ new[p].k = k0 + p - 1
       /\ OwnBlocks(new[p].from, row, col, k0 + p - 1)

LEMMA AppendWhole ==
  ASSUME NEW sum \in Seq(Product), NEW row \in Nat, NEW col \in Nat, NEW k0 \in Nat, Whole(sum, row, col, k0),
         NEW len \in Nat, NEW new, Following(new, row, col, k0, len)
  PROVE  Whole(sum \o new, row, col, k0 + len)
<1>1. new \in Seq(Product) /\ Len(new) = len /\ Len(sum) = k0
  BY DEF Following, Whole
<1>2. Len(sum \o new) = k0 + len
  BY <1>1
<1>3. \A p \in 1..(k0 + len) :
        (sum \o new)[p] = IF p <= k0 THEN sum[p] ELSE new[p - k0]
  BY <1>1
<1>4. ASSUME NEW p \in 1..(k0 + len)
      PROVE  LET x == (sum \o new)[p] IN
             /\ x.call = calls /\ x.row = row /\ x.col = col /\ x.k = p - 1
             /\ OwnBlocks(x.from, row, col, p - 1)
  <2> DEFINE both == sum \o new
  <2>0. both[p] = IF p <= k0 THEN sum[p] ELSE new[p - k0]
    BY <1>3
  <2> HIDE DEF both
  <2> SUFFICES /\ both[p].call = calls /\ both[p].row = row /\ both[p].col = col /\ both[p].k = p - 1
               /\ OwnBlocks(both[p].from, row, col, p - 1)
    BY DEF both
  <2>1. CASE p <= k0
    <3>1. p \in 1..k0 /\ both[p] = sum[p]
      BY <2>0, <2>1
    <3> QED  BY <3>1 DEF Whole
  <2>2. CASE ~(p <= k0)
    <3>1. PICK q \in 1..len : both[p] = new[q] /\ k0 + q - 1 = p - 1
      <4>1. p - k0 \in 1..len /\ k0 + (p - k0) - 1 = p - 1
        BY <2>2
      <4> QED  BY <2>0, <2>2, <4>1
    <3>2. /\ new[q].call = calls /\ new[q].row = row /\ new[q].col = col /\ new[q].k = k0 + q - 1
          /\ OwnBlocks(new[q].from, row, col, k0 + q - 1)
      BY DEF Following
    <3> QED  BY <3>1, <3>2
  <2> QED  BY <2>1, <2>2
<1> QED  BY <1>2, <1>4 DEF Whole

LEMMA OwnBlocksRead ==
  ASSUME TiledTypeOK, NEW t \in Thread, InTile(t), stage[t] = "sum", InputsStay(t),
         NEW i \in 0..(NSrc0(t) - 1), NEW j \in 0..(tile_n(t) - 1), NEW p \in 1..Slabs(t)
  PROVE  OwnBlocks(From(t, p, i, j), TopRow(t) + i, at[t].j0 + j, at[t].k0 + p - 1)
<1> DEFINE from == From(t, p, i, j)  nb == job.nb  k0 == at[t].k0
<1>1. /\ from.weight = Weights(t)[i * Slabs(t) + (p - 1)]
      /\ from.rest = Rests(t)[i * Slabs(t) + (p - 1)]
      /\ from.input = Inputs(t)[j * Slabs(t) + (p - 1)]
  BY FromIs
<1>2. Slabs(t) \in Nat /\ nb \in Nat /\ k0 \in Nat /\ i \in Nat /\ j \in Nat /\ NSrc0(t) \in Nat
  BY SlabsOf, Typed, Tile, NSrc0Of
<1>3. p - 1 \in 0..(Slabs(t) - 1)
  BY <1>2
<1>4. ASSUME NEW r \in Nat PROVE r * nb + k0 + (p - 1) = r * nb + (k0 + p - 1)
  <2> DEFINE x == r * nb
  <2>1. x \in Nat
    BY <1>2
  <2> HIDE DEF x, k0
  <2>2. x + k0 + (p - 1) = x + (k0 + p - 1)
    BY <1>2, <2>1
  <2> QED  BY <2>2 DEF x
<1>5. ASSUME job.n <= TileCols
      PROVE  from.input = <<calls, (at[t].j0 + j) * nb + (k0 + p - 1)>>
  <2>1. at[t].j0 = 0 /\ tile_n(t) = job.n
    BY <1>5, WholeInputs
  <2>2. j \in 0..(job.n - 1)
    BY <2>1
  <2>3. Inputs(t)[j * Slabs(t) + (p - 1)] = <<calls, j * nb + k0 + (p - 1)>>
    BY <1>3, <1>5, <2>2, InputsRead
  <2>4. at[t].j0 + j = j
    BY <2>1, <1>2
  <2> HIDE DEF from, nb, k0
  <2> QED  BY <1>1, <1>2, <1>4, <2>3, <2>4
<1>6. ASSUME ~Divided(job), job.m <= UnpackRows
      PROVE  /\ from.weight = <<calls, (TopRow(t) + i) * nb + (k0 + p - 1)>>
             /\ job.format = "Q6_K" => from.rest = {from.weight}
  <2>1. /\ TopRow(t) = 0 /\ Weights(t)[i * Slabs(t) + (p - 1)] = <<calls, i * nb + k0 + (p - 1)>>
        /\ job.format = "Q6_K" => Rests(t)[i * Slabs(t) + (p - 1)] = {<<calls, i * nb + k0 + (p - 1)>>}
    BY <1>3, <1>6, WeightsRead
  <2>2. TopRow(t) + i = i
    BY <2>1, <1>2
  <2> HIDE DEF from, nb, k0
  <2> QED  BY <1>1, <1>2, <1>4, <2>1, <2>2
<1> QED  BY <1>5, <1>6 DEF OwnBlocks

LEMMA ProductsFollow ==
  ASSUME TiledTypeOK, NEW t \in Thread, InTile(t), stage[t] = "sum", InputsStay(t),
         NEW i \in 0..(NSrc0(t) - 1), NEW j \in 0..(tile_n(t) - 1)
  PROVE  Following(ProductsOf(t, i, j), TopRow(t) + i, at[t].j0 + j, at[t].k0, Slabs(t))
<1> DEFINE new == ProductsOf(t, i, j)  k0 == at[t].k0
<1>1. new \in Seq(Product) /\ Len(new) = Slabs(t)
  BY ProductsAre
<1>2. ASSUME NEW p \in 1..Slabs(t)
      PROVE  /\ new[p].call = calls /\ new[p].row = TopRow(t) + i /\ new[p].col = at[t].j0 + j
             /\ new[p].k = k0 + p - 1
             /\ OwnBlocks(new[p].from, TopRow(t) + i, at[t].j0 + j, k0 + p - 1)
  <2>1. new[p] = [call |-> calls, row |-> TopRow(t) + i, col |-> at[t].j0 + j, k |-> k0 + p - 1,
                  from |-> From(t, p, i, j)]
    BY ProductsAre
  <2>2. OwnBlocks(From(t, p, i, j), TopRow(t) + i, at[t].j0 + j, k0 + p - 1)
    BY OwnBlocksRead
  <2> HIDE DEF new, k0
  <2> QED  BY <2>1, <2>2
<1> HIDE DEF new
<1> QED  BY <1>1, <1>2 DEF Following, new

LEMMA SumKeeps ==
  ASSUME TiledInv, NEW t \in Thread, Sum(t)
  PROVE  TiledInv'
<1> DEFINE More == at[t].ir0 + UnpackRows < tile_m(t)
           new == [src0 |-> Weights(t), rest |-> Rests(t), src1 |-> Inputs(t),
                   acc |-> [a \in AccCell |-> ws[t].acc[a] \o AddedTo(t, a)]]
           Upto(i) == IF i < at[t].ir0 + NSrc0(t) THEN at[t].k0 + Slabs(t) ELSE at[t].k0
<1>1. /\ TiledTypeOK /\ Loops(t) /\ InputsStay(t) /\ SumsInProgress(t)
      /\ stage \in [Thread -> {"idle", "clear", "sum", "store", "panicked"}]
      /\ at \in [Thread -> [i0 : Nat, j0 : Nat, k0 : Nat, ir0 : Nat]]
      /\ ws \in [Thread -> Workspace]
  BY DEF TiledInv, TiledTypeOK
<1>2. /\ stage[t] = "sum" /\ ws' = [ws EXCEPT ![t] = new]
      /\ IF More
         THEN at' = [at EXCEPT ![t].ir0 = @ + UnpackRows] /\ UNCHANGED stage
         ELSE /\ at' = [at EXCEPT ![t].ir0 = 0, ![t].k0 = @ + num_k]
              /\ stage' = [stage EXCEPT ![t] = IF at[t].k0 + num_k < job.nb THEN "sum" ELSE "store"]
      /\ UNCHANGED <<n_threads, calls, job, chunk, dst>>
  <2>1. DOMAIN ws[t].acc = AccCell /\ t \in DOMAIN ws
    BY <1>1 DEF Workspace
  <2> QED  BY <2>1, SumIs
<1>3. InTile(t)
  BY <1>1, <1>2 DEF Loops
<1>4. /\ at[t].i0 < chunk[t].rows /\ at[t].i0 % TileRows(t) = 0
      /\ at[t].j0 < job.n /\ at[t].j0 % TileCols = 0 /\ at[t].ir0 % UnpackRows = 0
      /\ at[t].k0 < job.nb /\ at[t].ir0 < tile_m(t)
      /\ tile_m(t) * tile_n(t) <= TILE_ROWS * TILE_ROWS
  BY <1>2, <1>3 DEF InTile
<1>5. /\ at[t].i0 \in Nat /\ at[t].j0 \in Nat /\ at[t].k0 \in Nat /\ at[t].ir0 \in Nat
      /\ tile_m(t) \in Nat \ {0} /\ tile_n(t) \in Nat \ {0} /\ UnpackRows \in Nat \ {0}
      /\ job.nb \in Nat /\ num_k \in Nat \ {0}
  BY <1>1, <1>3, Typed, Tile, NumK
<1>6. ASSUME More
      PROVE  /\ at'[t] = [at[t] EXCEPT !.ir0 = at[t].ir0 + UnpackRows]
             /\ at'[t].i0 = at[t].i0 /\ at'[t].j0 = at[t].j0 /\ at'[t].k0 = at[t].k0
             /\ at'[t].ir0 = at[t].ir0 + UnpackRows
             /\ stage'[t] = "sum"
  BY <1>1, <1>2, <1>6
<1>7. ASSUME ~More
      PROVE  /\ at'[t].i0 = at[t].i0 /\ at'[t].j0 = at[t].j0 /\ at'[t].k0 = at[t].k0 + num_k
             /\ at'[t].ir0 = 0
             /\ stage'[t] = IF at[t].k0 + num_k < job.nb THEN "sum" ELSE "store"
  BY <1>1, <1>2, <1>7
<1>8. /\ at'[t].i0 = at[t].i0 /\ at'[t].j0 = at[t].j0
      /\ stage'[t] \in {"sum", "store"} /\ at' \in [Thread -> [i0 : Nat, j0 : Nat, k0 : Nat, ir0 : Nat]]
  <2>1. CASE More
    <3>1. at' = [at EXCEPT ![t].ir0 = @ + UnpackRows] /\ at[t].ir0 + UnpackRows \in Nat
      BY <1>2, <1>5, <2>1
    <3>2. at' \in [Thread -> [i0 : Nat, j0 : Nat, k0 : Nat, ir0 : Nat]]
      BY <1>1, <3>1
    <3> QED  BY <1>6, <2>1, <3>2
  <2>2. CASE ~More
    <3>1. at' = [at EXCEPT ![t].ir0 = 0, ![t].k0 = @ + num_k]
      BY <1>2, <2>2
    <3>2. at[t].k0 + num_k \in Nat
      BY <1>5
    <3>3. at' \in [Thread -> [i0 : Nat, j0 : Nat, k0 : Nat, ir0 : Nat]]
      BY <1>1, <3>1, <3>2
    <3> QED  BY <1>7, <2>2, <3>3
  <2> QED  BY <2>1, <2>2
<1>9. /\ TileRows(t)' = TileRows(t) /\ TileCols' = TileCols /\ UnpackRows' = UnpackRows
      /\ num_k' = num_k /\ ClearedAsUsed' = ClearedAsUsed
      /\ tile_m(t)' = tile_m(t) /\ tile_n(t)' = tile_n(t)
  BY <1>2, <1>8, SameCall, SameTile
<1>10. \A u \in Thread \ {t} : at'[u] = at[u] /\ stage'[u] = stage[u] /\ ws'[u] = ws[u]
  BY <1>1, <1>2
<1>11. new \in Workspace
  <2>1. /\ Weights(t) \in [Slot -> Block] /\ Inputs(t) \in [Slot -> Block]
        /\ Rests(t) \in [Slot -> SUBSET Block]
    BY <1>1, <1>2, <1>3, ReadTypes
  <2>2. ASSUME NEW a \in AccCell PROVE ws[t].acc[a] \o AddedTo(t, a) \in Seq(Product)
    <3>1. ws[t].acc[a] \in Seq(Product) /\ AddedTo(t, a) \in Seq(Product)
      BY <1>1, <1>2, <1>3, AddedType DEF Workspace
    <3> QED  BY <3>1
  <2> QED  BY <2>1, <2>2 DEF Workspace
<1>12. TiledTypeOK'
  <2>1. stage' \in [Thread -> {"idle", "clear", "sum", "store", "panicked"}]
    BY <1>1, <1>2
  <2>2. ws' \in [Thread -> Workspace]
    <3> HIDE DEF new
    <3> QED  BY <1>1, <1>2, <1>11
  <2>3. \A u \in Thread : Chunk(job, u)' = Chunk(job, u)
    BY <1>2, SameChunks
  <2> QED  BY <1>1, <1>2, <1>8, <2>1, <2>2, <2>3 DEF TiledTypeOK
<1>13. ws'[t] = new
  <2> HIDE DEF new
  <2> QED  BY <1>1, <1>2
<1>14. Loops(t)'
  <2>1. /\ (at[t].ir0 + UnpackRows) % UnpackRows = 0 /\ 0 % UnpackRows = 0
    BY <1>4, <1>5, NextMultiple, SmallResidue
  <2>2. CASE More
    BY <1>2, <1>4, <1>6, <1>9, <2>1, <2>2 DEF Loops, InTile
  <2>3. CASE ~More
    <3>1. at'[t].ir0 = 0 /\ 0 < tile_m(t) /\ (stage'[t] = "sum" => at'[t].k0 < job.nb)
      BY <1>5, <1>7, <2>3
    <3> QED  BY <1>2, <1>4, <1>8, <1>9, <2>1, <3>1 DEF Loops, InTile
  <2> QED  BY <2>2, <2>3
<1>15. InputsStay(t)'
  <2>1. CASE More
    <3>1. Slabs(t)' = Slabs(t)
      BY <1>2, <1>6, <1>9, <2>1 DEF Slabs
    <3>2. ws'[t].src1 = Inputs(t)
      BY <1>13
    <3>3. job.n <= TileCols =>
            \A j \in 0..(job.n - 1), s \in 0..(Slabs(t) - 1) :
              Inputs(t)[j * Slabs(t) + s] = <<calls, j * job.nb + at[t].k0 + s>>
      BY <1>1, <1>2, <1>3, InputsRead
    <3> QED  BY <1>2, <1>6, <1>9, <2>1, <3>1, <3>2, <3>3 DEF InputsStay
  <2>2. CASE ~More
    BY <1>7, <2>2 DEF InputsStay
  <2> QED  BY <2>1, <2>2
<1>16. ASSUME NEW i \in 0..(tile_m(t) - 1) PROVE Summed(t, i)' = Upto(i)
  <2>1. /\ NSrc0(t) \in Nat /\ (NSrc0(t) = UnpackRows \/ at[t].ir0 + NSrc0(t) = tile_m(t))
        /\ NSrc0(t) <= UnpackRows /\ at[t].ir0 + NSrc0(t) <= tile_m(t)
    BY <1>1, <1>2, <1>3, NSrc0Of
  <2>2. /\ Slabs(t) \in Nat /\ at[t].k0 + Slabs(t) <= job.nb /\ Slabs(t) <= num_k
        /\ Slabs(t) = num_k \/ at[t].k0 + Slabs(t) = job.nb
    BY <1>1, <1>2, <1>3, SlabsOf
  <2>3. CASE More
    <3>1. Slabs(t)' = Slabs(t)
      BY <1>2, <1>6, <1>9, <2>3 DEF Slabs
    <3>2. NSrc0(t) = UnpackRows
      BY <1>5, <2>1, <2>3
    <3> QED  BY <1>6, <2>3, <3>1, <3>2 DEF Summed
  <2>4. CASE ~More
    <3>1. i < at[t].ir0 + NSrc0(t)
      BY <1>5, <2>1, <2>4
    <3>2. Upto(i) = at[t].k0 + Slabs(t)
      BY <3>1
    <3>3. CASE at[t].k0 + num_k < job.nb
      <4>1. Slabs(t) = num_k
        BY <1>5, <2>2, <3>3
      <4>2. stage'[t] = "sum" /\ at'[t].k0 = at[t].k0 + num_k /\ at'[t].ir0 = 0 /\ ~(i < 0)
        BY <1>7, <2>4, <3>3
      <4> QED  BY <3>2, <4>1, <4>2 DEF Summed
    <3>4. CASE ~(at[t].k0 + num_k < job.nb)
      <4>1. at[t].k0 + Slabs(t) = job.nb
        BY <1>5, <2>2, <3>4
      <4>2. stage'[t] = "store" /\ job' = job /\ at'[t].ir0 = 0 /\ ~(i < 0)
        BY <1>2, <1>7, <2>4, <3>4
      <4> QED  BY <3>2, <4>1, <4>2 DEF Summed
    <3> QED  BY <3>3, <3>4
  <2> QED  BY <2>3, <2>4
<1>17. ASSUME ClearedAsUsed, NEW a \in 0..(tile_m(t) * tile_n(t) - 1)
       PROVE  LET i == a \div tile_n(t)
                  j == a % tile_n(t)
              IN Whole(new.acc[a], chunk[t].start + at[t].i0 + i, at[t].j0 + j, Upto(i))
  <2> DEFINE i == a \div tile_n(t)  j == a % tile_n(t)
             row == chunk[t].start + at[t].i0 + i  col == at[t].j0 + j
  <2>1. a \in AccCell /\ i \in 0..(tile_m(t) - 1) /\ j \in 0..(tile_n(t) - 1)
    BY <1>1, <1>2, <1>3, AccCellOf
  <2>2. Whole(ws[t].acc[a], row, col, Summed(t, i))
    BY <1>1, <1>2, <1>17 DEF SumsInProgress
  <2>3. AddedTo(t, a) = IF at[t].ir0 <= i /\ i < at[t].ir0 + NSrc0(t)
                        THEN ProductsOf(t, i - at[t].ir0, j) ELSE <<>>
    BY <1>1, <1>2, <1>3, <1>17, AddedIs
  <2>4. new.acc[a] = ws[t].acc[a] \o AddedTo(t, a) /\ ws[t].acc[a] \in Seq(Product)
    BY <1>1, <2>1 DEF Workspace
  <2>5. NSrc0(t) \in Nat \ {0} /\ Slabs(t) \in Nat /\ TopRow(t) \in Nat /\ chunk[t].start \in Nat
    BY <1>1, <1>2, <1>3, NSrc0Of, SlabsOf, Typed
  <2> HIDE DEF i, j, new
  <2>6. row \in Nat /\ col \in Nat /\ i \in Nat
    BY <1>5, <2>1, <2>5
  <2>7. CASE at[t].ir0 <= i /\ i < at[t].ir0 + NSrc0(t)
    <3>1. Summed(t, i) = at[t].k0 /\ Upto(i) = at[t].k0 + Slabs(t)
      BY <1>2, <1>5, <2>6, <2>7 DEF Summed
    <3> DEFINE x == i - at[t].ir0
    <3>2. x \in 0..(NSrc0(t) - 1) /\ TopRow(t) + x = row
      BY <1>5, <2>5, <2>6, <2>7 DEF TopRow
    <3>3. Following(ProductsOf(t, x, j), TopRow(t) + x, at[t].j0 + j, at[t].k0, Slabs(t))
      <4> HIDE DEF x
      <4> QED  BY <1>1, <1>2, <1>3, <2>1, <3>2, ProductsFollow
    <3>4. Following(AddedTo(t, a), row, col, at[t].k0, Slabs(t))
      BY <2>3, <2>7, <3>2, <3>3
    <3> HIDE DEF row, col, Upto
    <3>5. Whole(ws[t].acc[a] \o AddedTo(t, a), row, col, at[t].k0 + Slabs(t))
      BY <1>5, <2>2, <2>4, <2>5, <2>6, <3>1, <3>4, AppendWhole
    <3>6. Whole(new.acc[a], row, col, Upto(i))
      BY <2>4, <3>1, <3>5
    <3> QED  BY <3>6 DEF i, j, row, col
  <2>8. CASE ~(at[t].ir0 <= i /\ i < at[t].ir0 + NSrc0(t))
    <3>1. AddedTo(t, a) = <<>>
      BY <2>3, <2>8
    <3>2. new.acc[a] = ws[t].acc[a]
      BY <2>4, <3>1
    <3>3. Summed(t, i) = Upto(i)
      BY <1>2, <1>5, <2>5, <2>6, <2>8 DEF Summed
    <3>4. Whole(new.acc[a], row, col, Upto(i))
      BY <2>2, <3>2, <3>3
    <3> QED  BY <3>4 DEF i, j
  <2> QED  BY <2>7, <2>8
<1>18. SumsInProgress(t)'
  <2>1. ASSUME NEW a \in 0..(tile_m(t) * tile_n(t) - 1) PROVE a \div tile_n(t) \in 0..(tile_m(t) - 1)
    BY <1>1, <1>2, <1>3, AccCellOf
  <2> HIDE DEF new, Upto
  <2> QED  BY <1>2, <1>8, <1>9, <1>13, <1>16, <1>17, <2>1, SameWhole DEF SumsInProgress
<1>19. SumsAreWhole' /\ \A u \in Thread : StoredSoFar(u)'
  BY <1>2, <1>8, <1>10, WithinTile
<1> QED  BY <1>2, <1>10, <1>12, <1>14, <1>15, <1>18, <1>19, Apart

-----------------------------------------------------------------------------
(* The next tile, and the cells that are stored.                           *)

InThisTile(t, i, j) == /\ at[t].i0 <= i /\ i < at[t].i0 + tile_m(t)
                       /\ at[t].j0 <= j /\ j < at[t].j0 + tile_n(t)

(* The tiles follow each other: the cells before the next one are those    *)
(* before this one and its own.                                            *)
LEMMA NextTileFollows ==
  ASSUME TiledInv, NEW t \in Thread, stage[t] = "store", NextTile(t),
         UNCHANGED <<n_threads, calls, job, chunk>>
  PROVE  /\ at' \in [Thread -> [i0 : Nat, j0 : Nat, k0 : Nat, ir0 : Nat]]
         /\ stage' \in [Thread -> {"idle", "clear", "sum", "store", "panicked"}]
         /\ \A u \in Thread \ {t} : at'[u] = at[u] /\ stage'[u] = stage[u]
         /\ stage'[t] \in {"clear", "idle"} /\ Loops(t)'
         /\ \A i \in 0..(chunk[t].rows - 1), j \in 0..(job.n - 1) :
              /\ (stage'[t] = "idle" \/ Before(t, i, j)') <=> Before(t, i, j) \/ InThisTile(t, i, j)
              /\ ~(Before(t, i, j) /\ InThisTile(t, i, j))
<1> DEFINE down == at[t].i0 + TileRows(t)
           right == at[t].j0 + TileCols
           To(i, j) == /\ at' = [at EXCEPT ![t] = [i0 |-> i, j0 |-> j, k0 |-> 0, ir0 |-> 0]]
                       /\ stage' = [stage EXCEPT ![t] = "clear"]
           A == right < job.n /\ (RowsOutside \/ down >= chunk[t].rows)
           B == down < chunk[t].rows /\ (~RowsOutside \/ right >= job.n)
<1>1. /\ TiledTypeOK /\ Loops(t)
      /\ stage \in [Thread -> {"idle", "clear", "sum", "store", "panicked"}]
      /\ at \in [Thread -> [i0 : Nat, j0 : Nat, k0 : Nat, ir0 : Nat]]
  BY DEF TiledInv, TiledTypeOK
<1>2. InTile(t)
  BY <1>1 DEF Loops
<1>3. /\ at[t].i0 < chunk[t].rows /\ at[t].i0 % TileRows(t) = 0
      /\ at[t].j0 < job.n /\ at[t].j0 % TileCols = 0
  BY <1>2 DEF InTile
<1>4. /\ at[t].i0 \in Nat /\ at[t].j0 \in Nat /\ chunk[t].rows \in Nat /\ job.n \in Nat
      /\ TileRows(t) \in Nat \ {0} /\ TileCols \in Nat \ {0} /\ UnpackRows \in Nat \ {0}
      /\ tile_m(t) \in Nat \ {0} /\ tile_m(t) <= TileRows(t)
      /\ at[t].i0 + tile_m(t) <= chunk[t].rows
      /\ tile_m(t) = TileRows(t) \/ at[t].i0 + tile_m(t) = chunk[t].rows
      /\ tile_n(t) \in Nat \ {0} /\ tile_n(t) <= TileCols
      /\ at[t].j0 + tile_n(t) <= job.n
      /\ tile_n(t) = TileCols \/ at[t].j0 + tile_n(t) = job.n
  BY <1>1, <1>2, Typed, Tile
<1>5. /\ TileRows(t)' = TileRows(t) /\ TileCols' = TileCols /\ UnpackRows' = UnpackRows
      /\ RowsOutside' = RowsOutside
  BY SameCall
<1>6. down \in Nat /\ right \in Nat
  BY <1>4
<1>7. (CASE A -> To(IF RowsOutside THEN at[t].i0 ELSE 0, right)
         [] B -> To(down, IF RowsOutside THEN 0 ELSE at[t].j0)
         [] OTHER -> stage' = [stage EXCEPT ![t] = "idle"] /\ UNCHANGED at)
  BY DEF NextTile
<1>8. ~(A /\ B)
  BY <1>4, <1>6
<1>9. /\ 0 % TileRows(t) = 0 /\ 0 % TileCols = 0 /\ 0 % UnpackRows = 0
      /\ down % TileRows(t) = 0 /\ right % TileCols = 0
  BY <1>3, <1>4, SmallResidue, NextMultiple
<1>10. ASSUME NEW i \in Nat, NEW j \in Nat, To(i, j),
              i < chunk[t].rows, i % TileRows(t) = 0, j < job.n, j % TileCols = 0
       PROVE  /\ at' \in [Thread -> [i0 : Nat, j0 : Nat, k0 : Nat, ir0 : Nat]]
              /\ stage' \in [Thread -> {"idle", "clear", "sum", "store", "panicked"}]
              /\ \A u \in Thread \ {t} : at'[u] = at[u] /\ stage'[u] = stage[u]
              /\ stage'[t] = "clear" /\ Loops(t)'
              /\ at'[t].i0 = i /\ at'[t].j0 = j
  <2>1. /\ at'[t] = [i0 |-> i, j0 |-> j, k0 |-> 0, ir0 |-> 0] /\ stage'[t] = "clear"
        /\ \A u \in Thread \ {t} : at'[u] = at[u] /\ stage'[u] = stage[u]
    BY <1>1, <1>10
  <2>2. /\ at' \in [Thread -> [i0 : Nat, j0 : Nat, k0 : Nat, ir0 : Nat]]
        /\ stage' \in [Thread -> {"idle", "clear", "sum", "store", "panicked"}]
    BY <1>1, <1>10
  <2>3. Loops(t)'
    BY <1>5, <1>9, <1>10, <2>1 DEF Loops, InTile
  <2> QED  BY <2>1, <2>2, <2>3
<1> DEFINE Goal(i, j) ==
      /\ (stage'[t] = "idle" \/ Before(t, i, j)') <=> Before(t, i, j) \/ InThisTile(t, i, j)
      /\ ~(Before(t, i, j) /\ InThisTile(t, i, j))
<1>11. CASE A
  <2> DEFINE i0 == IF RowsOutside THEN at[t].i0 ELSE 0
  <2>1. To(i0, right)
    BY <1>7, <1>8, <1>11
  <2>2. i0 \in Nat /\ i0 < chunk[t].rows /\ i0 % TileRows(t) = 0 /\ right < job.n
    BY <1>3, <1>4, <1>9, <1>11
  <2> HIDE DEF i0, To
  <2>3. /\ at' \in [Thread -> [i0 : Nat, j0 : Nat, k0 : Nat, ir0 : Nat]]
        /\ stage' \in [Thread -> {"idle", "clear", "sum", "store", "panicked"}]
        /\ \A u \in Thread \ {t} : at'[u] = at[u] /\ stage'[u] = stage[u]
        /\ stage'[t] = "clear" /\ Loops(t)'
        /\ at'[t].i0 = i0 /\ at'[t].j0 = right
    BY <1>6, <1>9, <1>10, <2>1, <2>2
  <2>4. ASSUME NEW i \in 0..(chunk[t].rows - 1), NEW j \in 0..(job.n - 1) PROVE Goal(i, j)
    <3>1. tile_n(t) = TileCols
      BY <1>4, <1>11
    <3>2. CASE RowsOutside
      <4>1. tile_m(t)' = tile_m(t) /\ at'[t].i0 = at[t].i0
        BY <1>5, <2>3, <3>2 DEF tile_m, i0
      <4> QED  BY <1>4, <1>5, <2>3, <3>1, <3>2, <4>1 DEF Before, InThisTile
    <3>3. CASE ~RowsOutside
      <4>1. at'[t].i0 = 0 /\ at[t].i0 + tile_m(t) = chunk[t].rows
        BY <1>4, <1>11, <2>3, <3>3 DEF i0
      <4> QED  BY <1>4, <1>5, <2>3, <3>1, <3>3, <4>1 DEF Before, InThisTile
    <3> QED  BY <3>2, <3>3
  <2> QED  BY <2>3, <2>4
<1>12. CASE ~A /\ B
  <2> DEFINE j0 == IF RowsOutside THEN 0 ELSE at[t].j0
  <2>1. To(down, j0)
    BY <1>7, <1>8, <1>12
  <2>2. j0 \in Nat /\ j0 < job.n /\ j0 % TileCols = 0 /\ down < chunk[t].rows
    BY <1>3, <1>4, <1>9, <1>12
  <2> HIDE DEF j0, To
  <2>3. /\ at' \in [Thread -> [i0 : Nat, j0 : Nat, k0 : Nat, ir0 : Nat]]
        /\ stage' \in [Thread -> {"idle", "clear", "sum", "store", "panicked"}]
        /\ \A u \in Thread \ {t} : at'[u] = at[u] /\ stage'[u] = stage[u]
        /\ stage'[t] = "clear" /\ Loops(t)'
        /\ at'[t].i0 = down /\ at'[t].j0 = j0
    BY <1>6, <1>9, <1>10, <2>1, <2>2
  <2>4. ASSUME NEW i \in 0..(chunk[t].rows - 1), NEW j \in 0..(job.n - 1) PROVE Goal(i, j)
    <3>1. tile_m(t) = TileRows(t)
      BY <1>4, <1>12
    <3>2. CASE RowsOutside
      <4>1. at'[t].j0 = 0 /\ at[t].j0 + tile_n(t) = job.n
        <5>1. right >= job.n
          BY <1>12, <3>2
        <5>2. at[t].j0 + tile_n(t) = job.n
          BY <1>4, <5>1
        <5> QED  BY <2>3, <3>2, <5>2 DEF j0
      <4> QED  BY <1>4, <1>5, <2>3, <3>1, <3>2, <4>1 DEF Before, InThisTile
    <3>3. CASE ~RowsOutside
      <4>1. tile_n(t)' = tile_n(t) /\ at'[t].j0 = at[t].j0
        BY <1>5, <2>3, <3>3 DEF tile_n, j0
      <4> QED  BY <1>4, <1>5, <2>3, <3>1, <3>3, <4>1 DEF Before, InThisTile
    <3> QED  BY <3>2, <3>3
  <2> QED  BY <2>3, <2>4
<1>13. CASE ~A /\ ~B
  <2>1. stage' = [stage EXCEPT ![t] = "idle"] /\ at' = at
    BY <1>7, <1>13
  <2>2. /\ stage'[t] = "idle"
        /\ \A u \in Thread \ {t} : at'[u] = at[u] /\ stage'[u] = stage[u]
        /\ stage' \in [Thread -> {"idle", "clear", "sum", "store", "panicked"}]
        /\ at' \in [Thread -> [i0 : Nat, j0 : Nat, k0 : Nat, ir0 : Nat]]
    BY <1>1, <2>1
  <2>3. Loops(t)'
    BY <2>2 DEF Loops
  <2>4. at[t].i0 + tile_m(t) = chunk[t].rows /\ at[t].j0 + tile_n(t) = job.n
    BY <1>4, <1>13
  <2>5. ASSUME NEW i \in 0..(chunk[t].rows - 1), NEW j \in 0..(job.n - 1) PROVE Goal(i, j)
    BY <1>4, <2>2, <2>4 DEF Before, InThisTile
  <2> QED  BY <2>2, <2>3, <2>5
<1> QED  BY <1>11, <1>12, <1>13

LEMMA StoreTileKeeps ==
  ASSUME TiledInv, NEW t \in Thread, StoreTile(t)
  PROVE  TiledInv'
<1> DEFINE Row(c) == c \div job.n
           Col(c) == c % job.n
           In(c) == InThisTile(t, Row(c) - chunk[t].start, Col(c))
           a(c) == (Row(c) - (chunk[t].start + at[t].i0)) * AccStride(t) + (Col(c) - at[t].j0)
<1>1. /\ stage[t] = "store" /\ NextTile(t)
      /\ UNCHANGED <<n_threads, calls, job, chunk, ws>>
      /\ dst' = [c \in DOMAIN dst |->
           LET i == c \div job.n - (chunk[t].start + at[t].i0)
               j == (c % job.n) - at[t].j0 IN
           IF i \in 0..(tile_m(t) - 1) /\ j \in 0..(tile_n(t) - 1)
           THEN Append(dst[c], ws[t].acc[i * AccStride(t) + j])
           ELSE dst[c]]
  BY DEF StoreTile
<1>2. /\ TiledTypeOK /\ Loops(t) /\ SumsAreWhole
      /\ \A u \in Thread : SumsInProgress(u) /\ StoredSoFar(u)
      /\ ws \in [Thread -> Workspace]
      /\ dst \in [0..(job.m * job.n - 1) -> Seq(Seq(Product))]
      /\ chunk = [u \in Thread |-> Chunk(job, u)]
  BY DEF TiledInv, TiledTypeOK
<1>3. InTile(t) /\ t \in DOMAIN ws
  BY <1>1, <1>2 DEF Loops
<1>4. /\ chunk[t].start \in Nat /\ chunk[t].rows \in Nat /\ at[t].i0 \in Nat /\ at[t].j0 \in Nat
      /\ job.m \in Nat /\ job.n \in Nat \ {0} /\ JobOK(job) /\ n_threads \in 1..MaxThreads
      /\ tile_m(t) \in Nat \ {0} /\ tile_n(t) \in Nat \ {0}
      /\ at[t].i0 + tile_m(t) <= chunk[t].rows /\ at[t].j0 + tile_n(t) <= job.n
      /\ AccStride(t) \in Nat \ {0} /\ tile_n(t) <= AccStride(t)
  BY <1>2, <1>3, Typed, Tile, Strides
<1>5. /\ at' \in [Thread -> [i0 : Nat, j0 : Nat, k0 : Nat, ir0 : Nat]]
      /\ stage' \in [Thread -> {"idle", "clear", "sum", "store", "panicked"}]
      /\ \A u \in Thread \ {t} : at'[u] = at[u] /\ stage'[u] = stage[u]
      /\ stage'[t] \in {"clear", "idle"} /\ Loops(t)'
      /\ \A i \in 0..(chunk[t].rows - 1), j \in 0..(job.n - 1) :
           /\ (stage'[t] = "idle" \/ Before(t, i, j)') <=> Before(t, i, j) \/ InThisTile(t, i, j)
           /\ ~(Before(t, i, j) /\ InThisTile(t, i, j))
  BY <1>1, NextTileFollows
<1>6. ASSUME NEW c \in DOMAIN dst
      PROVE  /\ c \in Nat /\ Row(c) \in 0..(job.m - 1) /\ Col(c) \in 0..(job.n - 1)
             /\ dst[c] \in Seq(Seq(Product))
             /\ dst'[c] = IF In(c) THEN Append(dst[c], ws[t].acc[a(c)]) ELSE dst[c]
             /\ In(c) => /\ a(c) \in AccCell /\ ws[t].acc[a(c)] \in Seq(Product)
                         /\ Row(c) - (chunk[t].start + at[t].i0) \in 0..(tile_m(t) - 1)
                         /\ Col(c) - at[t].j0 \in 0..(tile_n(t) - 1)
                         /\ Row(c) - chunk[t].start \in 0..(chunk[t].rows - 1)
  <2> DEFINE i == Row(c) - (chunk[t].start + at[t].i0)
             j == Col(c) - at[t].j0
  <2>1. c \in 0..(job.m * job.n - 1) /\ dst[c] \in Seq(Seq(Product))
    BY <1>2
  <2>2. c \in Nat /\ Row(c) \in 0..(job.m - 1) /\ Col(c) \in 0..(job.n - 1)
    BY <1>4, <2>1, RowAndColumn
  <2>3. dst'[c] = IF i \in 0..(tile_m(t) - 1) /\ j \in 0..(tile_n(t) - 1)
                  THEN Append(dst[c], ws[t].acc[a(c)]) ELSE dst[c]
    BY <1>1
  <2>4. In(c) <=> i \in 0..(tile_m(t) - 1) /\ j \in 0..(tile_n(t) - 1)
    <3> HIDE DEF Row, Col
    <3> QED  BY <1>4, <2>2 DEF InThisTile
  <2>5. ASSUME In(c) PROVE a(c) \in AccCell /\ Row(c) - chunk[t].start \in 0..(chunk[t].rows - 1)
    <3>1. i \in 0..(tile_m(t) - 1) /\ j \in 0..(AccStride(t) - 1)
      <4> HIDE DEF i
      <4> QED  BY <1>4, <2>4, <2>5, <2>2
    <3>2. a(c) \in 0..(tile_m(t) * AccStride(t) - 1)
      <4> HIDE DEF i, j
      <4>1. i * AccStride(t) + j \in 0..(tile_m(t) * AccStride(t) - 1)
        BY <1>4, <3>1, CellOf
      <4> QED  BY <4>1 DEF i, j
    <3>3. tile_m(t) * AccStride(t) <= TILE_ROWS * TILE_ROWS
      BY <1>1, <1>2, <1>3, Strides
    <3>4. a(c) \in AccCell
      <4> DEFINE p == tile_m(t) * AccStride(t)  q == TILE_ROWS * TILE_ROWS
      <4>1. p \in Nat /\ q \in Nat /\ p <= q /\ a(c) \in 0..(p - 1)
        BY <1>4, <3>2, <3>3, Sizes
      <4> HIDE DEF p, q, a
      <4>2. a(c) \in 0..(q - 1)
        BY <4>1
      <4> QED  BY <4>2 DEF q, AccCell
    <3>5. Row(c) - chunk[t].start \in 0..(chunk[t].rows - 1)
      <4> HIDE DEF Row, Col
      <4> QED  BY <1>4, <2>2, <2>5 DEF InThisTile
    <3> QED  BY <3>4, <3>5
  <2>6. ws[t].acc \in [AccCell -> Seq(Product)]
    BY <1>2, <1>3 DEF Workspace
  <2> HIDE DEF Row, Col, a, In
  <2> QED  BY <2>1, <2>2, <2>3, <2>4, <2>5, <2>6 DEF i, j
<1>7. DOMAIN dst' = DOMAIN dst
  BY <1>1
<1> HIDE DEF Row, Col, In, a
<1>8. dst' \in [0..(job.m * job.n - 1) -> Seq(Seq(Product))]
  <2>1. ASSUME NEW c \in DOMAIN dst PROVE dst'[c] \in Seq(Seq(Product))
    <3>1. CASE In(c)
      <4>1. dst'[c] = Append(dst[c], ws[t].acc[a(c)]) /\ dst[c] \in Seq(Seq(Product))
            /\ ws[t].acc[a(c)] \in Seq(Product)
        BY <1>6, <3>1
      <4> QED  BY <4>1
    <3>2. CASE ~In(c)
      BY <1>6, <3>2
    <3> QED  BY <3>1, <3>2
  <2>2. dst' = [c \in DOMAIN dst |-> dst'[c]] /\ DOMAIN dst = 0..(job.m * job.n - 1)
    BY <1>1, <1>2
  <2> QED  BY <2>1, <2>2
<1>9. TiledTypeOK'
  <2>1. \A u \in Thread : Chunk(job, u)' = Chunk(job, u)
    BY <1>1, SameChunks
  <2> QED  BY <1>1, <1>2, <1>5, <1>8, <2>1 DEF TiledTypeOK
<1>10. InputsStay(t)' /\ SumsInProgress(t)'
  BY <1>5 DEF InputsStay, SumsInProgress
<1>11. SumsAreWhole'
  <2>1. ClearedAsUsed' = ClearedAsUsed
    BY <1>1, SameCall
  <2>2. ASSUME ClearedAsUsed, NEW c \in DOMAIN dst, In(c)
        PROVE  Whole(ws[t].acc[a(c)], Row(c), Col(c), job.nb)
    <3> DEFINE i == Row(c) - (chunk[t].start + at[t].i0)
               j == Col(c) - at[t].j0
    <3>1. i \in 0..(tile_m(t) - 1) /\ j \in 0..(tile_n(t) - 1) /\ AccStride(t) = tile_n(t)
      BY <1>2, <1>3, <1>6, <2>2, Strides
    <3>2. Row(c) \in Nat /\ Col(c) \in Nat
      BY <1>6
    <3>3. chunk[t].start + at[t].i0 + i = Row(c) /\ at[t].j0 + j = Col(c)
      BY <1>4, <3>2
    <3>4. a(c) = i * tile_n(t) + j
      BY <3>1 DEF a
    <3> HIDE DEF i, j
    <3>5. /\ a(c) \in 0..(tile_m(t) * tile_n(t) - 1)
          /\ a(c) \div tile_n(t) = i /\ a(c) % tile_n(t) = j
      <4>1. tile_m(t) \in Nat /\ tile_n(t) \in Nat \ {0}
        BY <1>4
      <4>2. /\ i * tile_n(t) + j \in 0..(tile_m(t) * tile_n(t) - 1)
            /\ (i * tile_n(t) + j) \div tile_n(t) = i /\ (i * tile_n(t) + j) % tile_n(t) = j
        BY <3>1, <4>1, CellOf
      <4> QED  BY <3>4, <4>2
    <3> DEFINE q == a(c) \div tile_n(t)  r == a(c) % tile_n(t)
    <3>6. Whole(ws[t].acc[a(c)], chunk[t].start + at[t].i0 + q, at[t].j0 + r, Summed(t, q))
      BY <1>1, <1>2, <2>2, <3>5 DEF SumsInProgress
    <3>8. q = i /\ r = j
      BY <3>5
    <3> HIDE DEF q, r
    <3>7. Summed(t, i) = job.nb
      <4>1. at[t].ir0 \in Nat /\ stage[t] = "store"
        BY <1>1, <1>2, Typed
      <4> QED  BY <4>1 DEF Summed
    <3>9. /\ chunk[t].start + at[t].i0 + q = Row(c) /\ at[t].j0 + r = Col(c)
          /\ Summed(t, q) = job.nb
      BY <3>3, <3>7, <3>8
    <3> QED  BY <3>6, <3>9
  <2>3. ASSUME NEW c \in DOMAIN dst, NEW s \in 1..Len(dst'[c]), ClearedAsUsed
        PROVE  Whole(dst'[c][s], Row(c), Col(c), job.nb)
    <3>1. \A r \in 1..Len(dst[c]) : Whole(dst[c][r], Row(c), Col(c), job.nb)
      BY <1>2, <2>3 DEF SumsAreWhole, Row, Col
    <3>2. dst[c] \in Seq(Seq(Product))
      BY <1>6
    <3>3. CASE In(c)
      <4> DEFINE sum == ws[t].acc[a(c)]
      <4>1. dst'[c] = Append(dst[c], sum) /\ sum \in Seq(Product) /\ Whole(sum, Row(c), Col(c), job.nb)
        BY <1>6, <2>2, <2>3, <3>3
      <4> HIDE DEF sum
      <4>2. \/ s \in 1..Len(dst[c]) /\ dst'[c][s] = dst[c][s]
            \/ dst'[c][s] = sum
        BY <2>3, <3>2, <4>1
      <4> QED  BY <3>1, <4>1, <4>2
    <3>4. CASE ~In(c)
      <4>1. dst'[c] = dst[c]
        BY <1>6, <3>4
      <4> QED  BY <2>3, <3>1, <4>1
    <3> QED  BY <3>3, <3>4
  <2>4. ASSUME NEW c \in DOMAIN dst, NEW s \in 1..Len(dst'[c]), ClearedAsUsed
        PROVE  Whole(dst'[c][s], c \div job.n, c % job.n, job.nb)
    BY <2>3, <2>4 DEF Row, Col
  <2>5. job' = job
    BY <1>1
  <2> QED  BY <1>1, <1>7, <2>1, <2>4, <2>5, SameWhole DEF SumsAreWhole
<1>12. ASSUME NEW u \in Thread PROVE StoredSoFar(u)'
  <2>1. CASE u = t
    <3>1. ASSUME NEW c \in DOMAIN dst, NEW i \in 0..(chunk[t].rows - 1), NEW j,
                 i = Row(c) - chunk[t].start, j = Col(c)
          PROVE  Len(dst'[c]) = IF stage'[t] = "idle" \/ Before(t, i, j)' THEN 1 ELSE 0
      <4>1. j \in 0..(job.n - 1) /\ dst[c] \in Seq(Seq(Product))
        BY <1>6, <3>1
      <4>2. Len(dst[c]) = IF Before(t, i, j) THEN 1 ELSE 0
        BY <1>1, <1>2, <3>1 DEF StoredSoFar, Row, Col
      <4>3. dst'[c] = IF InThisTile(t, i, j) THEN Append(dst[c], ws[t].acc[a(c)]) ELSE dst[c]
        BY <1>6, <3>1 DEF In
      <4>4. /\ (stage'[t] = "idle" \/ Before(t, i, j)') <=> Before(t, i, j) \/ InThisTile(t, i, j)
            /\ ~(Before(t, i, j) /\ InThisTile(t, i, j))
        BY <1>5, <4>1
      <4>5. /\ InThisTile(t, i, j) => Len(dst'[c]) = Len(dst[c]) + 1
            /\ ~InThisTile(t, i, j) => Len(dst'[c]) = Len(dst[c])
        <5>1. ws[t].acc[a(c)] \in Seq(Product) \/ ~InThisTile(t, i, j)
          BY <1>6, <3>1 DEF In
        <5> QED  BY <4>1, <4>3, <5>1
      <4>6. CASE InThisTile(t, i, j)
        <5>1. (stage'[t] = "idle" \/ Before(t, i, j)') /\ ~Before(t, i, j)
          BY <4>4, <4>6
        <5>2. Len(dst[c]) = 0
          BY <4>2, <5>1
        <5>3. Len(dst'[c]) = 1
          BY <4>5, <4>6, <5>2
        <5> QED  BY <5>1, <5>3
      <4>7. CASE ~InThisTile(t, i, j)
        BY <4>2, <4>4, <4>5, <4>7
      <4> QED  BY <4>6, <4>7
    <3> QED  BY <1>1, <1>7, <2>1, <3>1 DEF StoredSoFar, Before, Row, Col
  <2>2. CASE u # t
    <3>1. \A c \in DOMAIN dst :
            c \div job.n - chunk[u].start \in 0..(chunk[u].rows - 1) => dst'[c] = dst[c]
      <4> SUFFICES ASSUME NEW c \in DOMAIN dst, Row(c) - chunk[u].start \in 0..(chunk[u].rows - 1)
                   PROVE  ~In(c)
        BY <1>6 DEF Row
      <4>1. /\ chunk[t] = Chunk(job, t) /\ chunk[u] = Chunk(job, u)
            /\ chunk[u].start \in Nat /\ chunk[u].rows \in Nat
        BY <1>2, Typed
      <4>2. SUFFICES ASSUME In(c) PROVE FALSE
        OBVIOUS
      <4>3. Row(c) \in Nat /\ Row(c) - chunk[t].start \in 0..(chunk[t].rows - 1)
        BY <1>6, <4>2
      <4>4. /\ chunk[t].start <= Row(c) /\ Row(c) < chunk[t].start + chunk[t].rows
            /\ chunk[u].start <= Row(c) /\ Row(c) < chunk[u].start + chunk[u].rows
        BY <1>4, <4>1, <4>3
      <4>5. t = u
        BY <1>4, <4>1, <4>3, <4>4, ChunksApart
      <4> QED  BY <2>2, <4>5
    <3> QED  BY <1>1, <1>2, <1>5, <1>7, <2>2, <3>1, OthersStored
  <2> QED  BY <2>1, <2>2
<1> QED  BY <1>1, <1>5, <1>9, <1>10, <1>11, <1>12, Apart

-----------------------------------------------------------------------------
(* The theorems.                                                           *)

LEMMA TiledStutter ==
  ASSUME TiledInv, UNCHANGED tiledVars
  PROVE  TiledInv'
<1>1. UNCHANGED <<n_threads, calls, job, chunk, stage, at, ws, dst>>
  BY DEF tiledVars
<1>2. TiledTypeOK'
  <2>1. \A u \in Thread : Chunk(job, u)' = Chunk(job, u)
    BY <1>1, SameChunks
  <2> QED  BY <1>1, <2>1 DEF TiledInv, TiledTypeOK
<1>3. SumsAreWhole'
  <2>1. ClearedAsUsed' = ClearedAsUsed
    BY <1>1, SameCall DEF ClearedAsUsed, Narrow, RowsOutside, Divided
  <2>2. SumsAreWhole
    BY DEF TiledInv
  <2>3. ASSUME NEW c \in DOMAIN dst, NEW s \in 1..Len(dst[c]), ClearedAsUsed
        PROVE  Whole(dst[c][s], c \div job.n, c % job.n, job.nb)
    BY <2>2, <2>3 DEF SumsAreWhole
  <2> QED  BY <1>1, <2>1, <2>3, SameWhole DEF SumsAreWhole
<1>4. ASSUME NEW u \in Thread PROVE Loops(u)' /\ InputsStay(u)' /\ SumsInProgress(u)' /\ StoredSoFar(u)'
  <2>1. Loops(u) /\ InputsStay(u) /\ SumsInProgress(u) /\ StoredSoFar(u)
    BY DEF TiledInv
  <2>2. Loops(u)' /\ InputsStay(u)' /\ SumsInProgress(u)'
    BY <1>1, <2>1, Others
  <2>3. StoredSoFar(u)'
    BY <1>1, <2>1, OthersStored
  <2> QED  BY <2>2, <2>3
<1> QED  BY <1>2, <1>3, <1>4 DEF TiledInv

(* TiledInv holds for every size of tile, number of threads and sequence   *)
(* of products: the loops of matmul_*_tiled are where they should be, the  *)
(* accumulator holds what is summed so far, and the cells that are stored  *)
(* are those of the tiles before.                                          *)
THEOREM TiledInvariantHolds == TiledSpec => []TiledInv
<1>1. TiledInit => TiledInv
  BY Start
<1>2. TiledInv /\ [TiledNext]_tiledVars => TiledInv'
  <2> SUFFICES ASSUME TiledInv, [TiledNext]_tiledVars PROVE TiledInv'
    OBVIOUS
  <2>1. ASSUME NEW format \in Format, NEW s \in Shape, Call(format, s) PROVE TiledInv'
    BY <2>1, CallKeeps
  <2>2. ASSUME NEW t \in Thread, ThreadStep(t) PROVE TiledInv'
    BY <2>2, ClearAccKeeps, SumKeeps, StoreTileKeeps DEF ThreadStep
  <2>3. CASE UNCHANGED tiledVars
    BY <2>3, TiledStutter
  <2> QED  BY <2>1, <2>2, <2>3 DEF TiledNext
<1> QED  BY <1>1, <1>2, PTL DEF TiledSpec, TiledSafeSpec

(* Whatever the accumulator was used for before, and whatever is left over *)
(* of the rows, the inputs and the blocks, a sum that StoreTile stores is  *)
(* that of its own row and column, each block once and in order.  In the   *)
(* unpackings that fit in the workspace each product is made of its own    *)
(* block of the input and of the weights: of all its weights in a product  *)
(* of Q6_K, of the half that is unpacked in one of Q4_K or Q5_K.  The      *)
(* block sums that those use are not claimed to be the input's.            *)
THEOREM SumsStayWhole == TiledSpec => []SumsAreWhole
<1>1. TiledInv => SumsAreWhole
  BY DEF TiledInv
<1> QED  BY <1>1, TiledInvariantHolds, PTL

(* The chunks of parallel_chunks are apart and cover the rows, and so do   *)
(* the tiles of a chunk: the raw pointer is written at most once at each   *)
(* cell, and exactly once when every thread is done.                       *)
THEOREM CellsAreStoredOnce == TiledSpec => []StoredOnce
<1>1. TiledInv => StoredOnce
  <2> SUFFICES ASSUME TiledInv, NEW c \in DOMAIN dst
               PROVE  Len(dst[c]) <= 1 /\ (Idle => Len(dst[c]) = 1)
    BY DEF StoredOnce
  <2>1. /\ TiledTypeOK /\ dst \in [0..(job.m * job.n - 1) -> Seq(Seq(Product))]
        /\ job \in [format : Format, m : Nat, n : Nat, nb : Nat] /\ JobOK(job)
        /\ n_threads \in 1..MaxThreads /\ chunk = [u \in Thread |-> Chunk(job, u)]
        /\ job.m > 0 => job.n > 0
    BY DEF TiledInv, TiledTypeOK, JobOK
  <2>2. c \in 0..(job.m * job.n - 1) /\ job.m \in Nat /\ job.n \in Nat
    BY <2>1
  <2>3. job.n # 0
    <3>1. job.n = 0 => job.m * job.n = 0
      BY <2>2
    <3> QED  BY <2>2, <3>1
  <2> DEFINE row == c \div job.n
  <2>4. row \in 0..(job.m - 1)
    BY <2>2, <2>3, RowAndColumn
  <2>5. PICK t \in Thread : /\ Chunk(job, t).start <= row
                            /\ row < Chunk(job, t).start + Chunk(job, t).rows
    <3> HIDE DEF row
    <3> QED  BY <2>1, <2>2, <2>4, RowsCovered
  <2>6. /\ chunk[t].start \in Nat /\ chunk[t].rows \in Nat
        /\ chunk[t].start <= row /\ row < chunk[t].start + chunk[t].rows
    BY <2>1, <2>5, Typed
  <2>7. row - chunk[t].start \in 0..(chunk[t].rows - 1)
    <3> HIDE DEF row
    <3> QED  BY <2>4, <2>6
  <2>8. Len(dst[c]) = IF stage[t] = "idle" \/ Before(t, row - chunk[t].start, c % job.n) THEN 1 ELSE 0
    BY <2>7 DEF TiledInv, StoredSoFar
  <2> QED  BY <2>8 DEF Idle
<1> QED  BY <1>1, TiledInvariantHolds, PTL
=============================================================================
