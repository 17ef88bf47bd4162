------------------------------ MODULE ComputeDag ------------------------------
(***************************************************************************)
(* The DAG of a forward pass (dag/builder.rs).  A node names the tensors   *)
(* it looks up (needs), the optional weights it looks up (weights), the    *)
(* kernels it encodes, the tensors it then registers (outputs) and the     *)
(* nodes it comes after (dependencies).                                    *)
(*                                                                         *)
(* A kernel is what the GPU sees of it: the buffers it reads and writes.   *)
(* Every output buffer of a pass is fresh and every tensor has one         *)
(* producer, so a buffer goes by the name of its tensor; the K and V       *)
(* buffers of a layer belong to the cache.  Weight buffers are only ever   *)
(* read and are left out of the kernels.  Nodes are numbered from 1.       *)
(***************************************************************************)
EXTENDS Naturals, Sequences

Embed == <<0, "embed">>
Logits == <<0, "logits">>

\* Operation::{RoPE, SiLU, Mul, Add}, and with a weight {RmsNorm, Gemv}
Compute(inputs, weights, output, deps) ==
  [needs |-> inputs, weights |-> weights, outputs |-> {output}, dependencies |-> deps,
   kernels |-> <<[reads |-> inputs, writes |-> {output}]>>]

\* Placeholders: nothing is looked up, nothing is encoded
NoOp(deps) ==
  [needs |-> {}, weights |-> {}, outputs |-> {}, dependencies |-> deps, kernels |-> <<>>]

\* The merged projection: one product into a buffer of its own, then a split
FusedQKVWeight(l, deps) ==
  LET out == {<<l, "q">>, <<l, "k">>, <<l, "v">>} IN
  [needs |-> {<<l, "normed">>}, weights |-> {}, outputs |-> out, dependencies |-> deps,
   kernels |-> <<[reads |-> {<<l, "normed">>}, writes |-> {<<l, "qkv">>}],
                 [reads |-> {<<l, "qkv">>}, writes |-> out]>>]

\* Writes the current position of the K or V buffer; tracked as the whole
\* buffer
KVCacheUpdate(input, buffer, deps) ==
  [needs |-> {input}, weights |-> {}, outputs |-> {}, dependencies |-> deps,
   kernels |-> <<[reads |-> {input}, writes |-> {buffer}]>>]

\* Attention looks up q only; K and V come from the cache
FlashAttention(l, q_rope, k_cache, v_cache) ==
  [needs |-> {<<l, "q_rope">>}, weights |-> {}, outputs |-> {<<l, "attn">>},
   dependencies |-> {q_rope, k_cache, v_cache},
   kernels |-> <<[reads |-> {<<l, "q_rope">>, <<l, "K">>, <<l, "V">>},
                  writes |-> {<<l, "attn">>}]>>]

\* The nodes of the Q, K and V projections.  wq, wk, wv and attn_qkv are
\* bound whenever their branch is taken.  "mla" stands for every layer
\* without them: three placeholders, and tensors that nothing produces.
Projections(kind, l, norm) ==
  CASE kind = "fused" -> <<FusedQKVWeight(l, {norm})>>
    [] kind = "separate" ->
         [i \in 1..3 |-> Compute({<<l, "normed">>}, {}, <<l, <<"q", "k", "v">>[i]>>, {norm})]
    [] kind = "mla" -> [i \in 1..3 |-> NoOp({norm})]

\* From RoPE to the second residual; at is the number of the first node,
\* q, k and v those of the projections.
AfterProjections(l, input, at, q, k, v) ==
  LET T(name) == <<l, name>> IN
  << Compute({T("q")}, {}, T("q_rope"), {q}),
     Compute({T("k")}, {}, T("k_rope"), {k}),
     KVCacheUpdate(T("k_rope"), T("K"), {at + 1}),
     KVCacheUpdate(T("v"), T("V"), {v}),
     FlashAttention(l, at, at + 2, at + 3),
     Compute({T("attn")}, {T("wo")}, T("wo_out"), {at + 4}),
     Compute({input, T("wo_out")}, {}, T("residual"), {at + 5}),
     Compute({T("residual")}, {T("ffn_norm")}, T("ffn_normed"), {at + 6}),
     Compute({T("ffn_normed")}, {T("w1")}, T("gate"), {at + 7}),
     Compute({T("ffn_normed")}, {T("w3")}, T("up"), {at + 7}),
     Compute({T("up")}, {}, T("silu"), {at + 9}),
     Compute({T("gate"), T("silu")}, {}, T("ffn_hidden"), {at + 8, at + 10}),
     Compute({T("ffn_hidden")}, {T("w2")}, T("ffn_out"), {at + 11}),
     Compute({T("residual"), T("ffn_out")}, {}, T("output"), {at + 6, at + 12}) >>

\* A layer appended to a DAG; its last node is the last of the DAG.
AddLayer(dag, kind, l) ==
  LET norm == Len(dag) + 1
      input == IF l = 1 THEN Embed ELSE <<l - 1, "output">>
      proj == Projections(kind, l, norm)
      node(i) == norm + (IF Len(proj) = 1 THEN 1 ELSE i)
  IN dag \o <<Compute({input}, {<<l, "attention_norm">>}, <<l, "normed">>, {Len(dag)})>>
         \o proj
         \o AfterProjections(l, input, norm + Len(proj) + 1, node(1), node(2), node(3))

\* The kinds of layers, by the nodes of their projections
LayerKind == {"fused", "separate", "mla"}

\* The DAG after each layer.  The embedding is looked up before the pass; its
\* node is a placeholder.
Layers(kinds) ==
  LET upto[l \in 0..Len(kinds)] ==
        IF l = 0 THEN <<NoOp({})>> ELSE AddLayer(upto[l - 1], kinds[l], l)
  IN upto

\* The last node is the exit point.
BuildModelDag(kinds) ==
  LET layers == Layers(kinds)[Len(kinds)]
      last == Len(layers)
      output == IF kinds = <<>> THEN Embed ELSE <<Len(kinds), "output">>
  IN layers \o <<Compute({output}, {<<0, "norm">>}, <<0, "normed">>, {last}),
                 Compute({<<0, "normed">>}, {<<0, "output">>}, Logits, {last + 1})>>

\* The weights a model may lack
OptionalWeights(dag) == UNION {dag[n].weights : n \in DOMAIN dag}
=============================================================================
