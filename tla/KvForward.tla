------------------------------ MODULE KvForward ------------------------------
(***************************************************************************)
(* The CPU forward pass and its KV cache (model/llama.rs, cpu/             *)
(* flash_attention.rs, inference/kv_cache.rs).  A cache has one row per    *)
(* layer and one cell per position; set_k and set_v write the cell of the  *)
(* cache's own seq_len, and attention then reads the cells 0..seq_len of   *)
(* its layer.  A cell is abstracted to the token it was computed from.     *)
(*                                                                         *)
(* Two paths fill the cache.  The token-wise path runs every layer on a    *)
(* token and then advances the cache; the tiled path of forward_pooled     *)
(* runs every token through a layer before the next layer, and advances    *)
(* the cache inside that loop.                                             *)
(***************************************************************************)
EXTENDS Integers, Sequences

CONSTANTS
  Token,
  Vocab,            \* tokens with a row in the embedding table
  Batch,            \* the token slices callers feed
  n_layers,
  max_seq,          \* capacity of the cache
  TILED_THRESHOLD,  \* length from which forward_pooled takes the tiled path
  Zero              \* content of a cleared cell

Layer == 0..(n_layers - 1)
Pos == 0..(max_seq - 1)

ASSUME LayersAssumption == n_layers \in Nat \ {0} /\ max_seq \in Nat
ASSUME BatchAssumption == Batch \subseteq Seq(Token) \ {<<>>} /\ Vocab \subseteq Token
ASSUME ThresholdAssumption == TILED_THRESHOLD \in Nat

VARIABLES
  kv,        \* k_cache and v_cache: [Layer -> [Pos -> token or Zero]]
  seq_len,   \* KVCacheF32.seq_len
  pc,        \* where the forward pass is; "idle" between calls
  tokens,    \* argument of the call in progress
  token_idx, \* loop variable
  layer      \* loop variable

VARIABLES
  history,   \* history: the tokens the model has processed since the last clear
  tiled,     \* history: the tiled path was taken since the last clear
  failed     \* history: a call returned None half way since the last clear

vars == <<kv, seq_len, pc, tokens, token_idx, layer, history, tiled, failed>>

token == tokens[token_idx + 1]

Init ==
  /\ kv = [l \in Layer |-> [p \in Pos |-> Zero]]
  /\ seq_len = 0
  /\ pc = "idle"
  /\ tokens = <<>>
  /\ token_idx = 0
  /\ layer = 0
  /\ history = <<>>
  /\ tiled = FALSE
  /\ failed = FALSE

-----------------------------------------------------------------------------
(* The caller *)

(* forward(), and forward_pooled() with a short slice or an MLA model *)
CallTokenwise(b) ==
  /\ pc = "idle"
  /\ pc' = "embed"
  /\ tokens' = b
  /\ token_idx' = 0
  /\ UNCHANGED <<kv, seq_len, layer, history, tiled, failed>>

(* forward_pooled() with a long slice: every embedding is looked up first, *)
(* so an unknown token returns None before anything is touched.            *)
CallTiled(b) ==
  /\ pc = "idle"
  /\ Len(b) >= TILED_THRESHOLD
  /\ \A k \in DOMAIN b : b[k] \in Vocab
  /\ pc' = "tiled"
  /\ tokens' = b
  /\ token_idx' = 0
  /\ layer' = 0
  /\ tiled' = TRUE
  /\ UNCHANGED <<kv, seq_len, history, failed>>

(* Seeded variant: the cells are cleared and the length is not. *)
ClearKeepsLength ==
  /\ pc = "idle"
  /\ kv' = [l \in Layer |-> [p \in Pos |-> Zero]]
  /\ history' = <<>>
  /\ tiled' = FALSE
  /\ failed' = FALSE
  /\ UNCHANGED <<seq_len, pc, tokens, token_idx, layer>>

(* KVCacheBase::clear *)
Clear ==
  /\ pc = "idle"
  /\ kv' = [l \in Layer |-> [p \in Pos |-> Zero]]
  /\ seq_len' = 0
  /\ history' = <<>>
  /\ tiled' = FALSE
  /\ failed' = FALSE
  /\ UNCHANGED <<pc, tokens, token_idx, layer>>

-----------------------------------------------------------------------------
(* The token-wise path *)

(* embedding_lookup_impl, embedding_lookup_into *)
Embed ==
  /\ pc = "embed"
  /\ \/ token \in Vocab /\ pc' = "layers" /\ layer' = 0 /\ UNCHANGED failed
     \/ token \notin Vocab /\ pc' = "idle" /\ failed' = TRUE /\ UNCHANGED layer
  /\ UNCHANGED <<kv, seq_len, tokens, token_idx, history, tiled>>

NextLayer ==
  /\ layer' = layer + 1
  /\ pc' = IF layer + 1 = n_layers THEN "advance" ELSE "layers"

(* Seeded variant: the new cell overwrites the last one. *)
StoreOverLast ==
  /\ pc = "layers"
  /\ seq_len < max_seq
  /\ kv' = [kv EXCEPT ![layer][IF seq_len = 0 THEN 0 ELSE seq_len - 1] = token]
  /\ NextLayer
  /\ UNCHANGED <<seq_len, tokens, token_idx, history, tiled, failed>>

(* Seeded variant: a full cache drops the cell, as KVCacheGPU does. *)
StoreUnchecked ==
  /\ pc = "layers"
  /\ kv' = [l \in Layer |-> [p \in Pos |->
              IF l = layer /\ p = seq_len THEN token ELSE kv[l][p]]]
  /\ NextLayer
  /\ UNCHANGED <<seq_len, tokens, token_idx, history, tiled, failed>>

(* One layer: set_k and set_v, then attention over 0..seq_len *)
Store ==
  /\ pc = "layers"
  /\ seq_len < max_seq
  /\ kv' = [kv EXCEPT ![layer][seq_len] = token]
  /\ NextLayer
  /\ UNCHANGED <<seq_len, tokens, token_idx, history, tiled, failed>>

(* k_cache[layer][head][seq_len] is out of bounds. *)
Overrun ==
  /\ pc \in {"layers", "tiled"}
  /\ seq_len >= max_seq
  /\ pc' = "panicked"
  /\ UNCHANGED <<kv, seq_len, tokens, token_idx, layer, history, tiled, failed>>

(* A layer returns None, before or after it has stored its cell. *)
LayerFails ==
  /\ pc \in {"layers", "advance", "tiled"}
  /\ pc' = "idle"
  /\ failed' = TRUE
  /\ UNCHANGED <<kv, seq_len, tokens, token_idx, layer, history, tiled>>

(* kv_cache.advance(), after the last layer *)
Advance ==
  /\ pc = "advance"
  /\ seq_len' = seq_len + 1
  /\ history' = Append(history, token)
  /\ token_idx' = token_idx + 1
  /\ pc' = IF token_idx + 1 = Len(tokens) THEN "idle" ELSE "embed"
  /\ UNCHANGED <<kv, tokens, layer, tiled, failed>>

-----------------------------------------------------------------------------
(* The tiled path: store, attend and advance for each token of each layer. *)
TiledStore ==
  /\ pc = "tiled"
  /\ seq_len < max_seq
  /\ kv' = [kv EXCEPT ![layer][seq_len] = token]
  /\ seq_len' = seq_len + 1
  /\ UNCHANGED <<tokens, tiled, failed>>
  /\ \/ /\ token_idx + 1 < Len(tokens)
        /\ token_idx' = token_idx + 1
        /\ UNCHANGED <<pc, layer, history>>
     \/ /\ token_idx + 1 = Len(tokens)
        /\ layer + 1 < n_layers
        /\ layer' = layer + 1
        /\ token_idx' = 0
        /\ UNCHANGED <<pc, history>>
     \/ /\ token_idx + 1 = Len(tokens)
        /\ layer + 1 = n_layers
        /\ pc' = "idle"
        /\ history' = history \o tokens
        /\ UNCHANGED <<token_idx, layer>>

-----------------------------------------------------------------------------
Next ==
  \/ \E b \in Batch : CallTokenwise(b) \/ CallTiled(b)
  \/ Clear
  \/ Embed \/ Store \/ Overrun \/ LayerFails \/ Advance
  \/ TiledStore

Spec == Init /\ [][Next]_vars

-----------------------------------------------------------------------------
Cell == Token \cup {Zero}

TypeOK ==
  /\ kv \in [Layer -> [Pos -> Cell]]
  /\ seq_len \in 0..max_seq
  /\ pc \in {"idle", "embed", "layers", "advance", "tiled", "panicked"}
  /\ tokens \in Batch \cup {<<>>}
  /\ token_idx \in Nat
  /\ layer \in 0..n_layers
  /\ history \in Seq(Token)
  /\ tiled \in BOOLEAN
  /\ failed \in BOOLEAN

(* Attention sees the whole past and nothing else: as long as the tiled    *)
(* path is not taken, seq_len counts the tokens processed, and in every    *)
(* layer the cells below it hold exactly those tokens in order, whatever   *)
(* calls failed half way. (forward, forward_pooled, attention, advance,    *)
(* clear)                                                                  *)
CacheHoldsHistory ==
  ~tiled =>
    /\ seq_len = Len(history)
    /\ \A l \in Layer : \A p \in 0..(seq_len - 1) : kv[l][p] = history[p + 1]

(* The layers of one token agree: while a token goes through the layers,   *)
(* each layer that has run holds it in the cell that advance() will add,   *)
(* and when the cache advances they all do, stale cells of a call that     *)
(* failed half way included. (the layer loop of forward, then advance)     *)
LayersAgree ==
  /\ pc \in {"layers", "advance"} =>
       \A l \in Layer : l < layer => seq_len < max_seq /\ kv[l][seq_len] = token
  /\ pc = "advance" => layer = n_layers

(* On the token-wise path a panic means that the capacity given to         *)
(* KVCache::new is used up: no sequence of failed calls, retries and       *)
(* clears wastes a cell. (set_k, set_v)                                    *)
PanicOnlyWhenFull ==
  pc = "panicked" /\ ~tiled => Len(history) = max_seq

(* What attention has read once does not change: cells below seq_len are   *)
(* never written again until the cache is cleared, on either path.         *)
(* (set_k, set_v, advance, clear)                                          *)
PrefixIsImmutable ==
  [][\/ /\ seq_len <= seq_len'
        /\ \A l \in Layer : \A p \in 0..(seq_len - 1) : kv'[l][p] = kv[l][p]
     \/ history' = <<>> /\ seq_len' = 0]_vars

(* Where the loops are. *)
Control ==
  /\ pc \in {"embed", "layers", "advance", "tiled"} =>
       tokens \in Batch /\ token_idx < Len(tokens)
  /\ pc \in {"layers", "tiled"} => layer < n_layers
  /\ pc = "tiled" => tiled

(* The inductive invariant: the cache, the layers and the panic together. *)
KvInv == TypeOK /\ Control /\ CacheHoldsHistory /\ LayersAgree /\ PanicOnlyWhenFull

(* "Get current sequence length" (inference/kv_cache.rs): between calls    *)
(* that all succeeded, seq_len() is the number of tokens in the cache.     *)
SeqLenCountsTokens == pc = "idle" /\ ~failed => seq_len = Len(history)
=============================================================================
