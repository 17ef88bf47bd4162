------------------------------ MODULE GpuDecode ------------------------------
(***************************************************************************)
(* The GPU side of InferenceContext (inference.rs): one thread of the host *)
(* encodes forward passes and commits them to a Metal queue, the GPU runs  *)
(* them later.  A decode call returns the logits of an earlier call, and   *)
(* up to pipeline_depth passes are in flight while the host goes on        *)
(* changing what they use: the KV cache in shared memory, its seq_len, and *)
(* the buffer of RoPE positions that all passes share.                     *)
(*                                                                         *)
(* A fed token is the number of tokens fed up to it, so that no two are    *)
(* alike; K and V go together.  The buffers of a pass itself come from a   *)
(* pool made for that pass alone and are left out.  External: the queue    *)
(* runs committed passes one after the other (executor.rs says so).        *)
(*                                                                         *)
(* The kernels of one pass are another matter.  A prompt is encoded by a   *)
(* serial encoder, which runs them in order.  A decoded token is encoded   *)
(* by a concurrent one, and only INFER_DEPENDENCY_DISPATCH puts barriers   *)
(* between its kernels (DagDispatch shows that these are enough); by       *)
(* default nothing orders them.                                            *)
(***************************************************************************)
EXTENDS Integers, Sequences, FiniteSets

CONSTANTS
  n_layers,
  n_kv_heads,
  max_seq,
  pipeline_depth,   \* INFER_PIPELINE_DEPTH
  dependency_dispatch, \* INFER_DEPENDENCY_DISPATCH, FALSE by default
  CpuGemm,          \* the layers whose projections gemm_batch computes on the CPU
  PromptLen,        \* lengths of the prompts
  MaxFed,           \* bound on the tokens fed
  MaxConv           \* bound on the conversations begun after the first

ASSUME ShapeAssumption ==
  /\ n_layers \in Nat \ {0} /\ n_kv_heads \in Nat \ {0} /\ max_seq \in Nat \ {0}
  /\ CpuGemm \subseteq 0..(n_layers - 1)
ASSUME ClientAssumption ==
  /\ pipeline_depth \in Nat /\ dependency_dispatch \in BOOLEAN
  /\ PromptLen \subseteq Nat \ {0, 1} /\ MaxFed \in Nat /\ MaxConv \in Nat

Layer == 0..(n_layers - 1)
KvHead == 0..(n_kv_heads - 1)
Cell == 0..(n_kv_heads * max_seq - 1)   \* [n_kv_heads, max_seq], as one vector
Token == 1..MaxFed
Blank == 0                              \* zero, or bytes nobody can name

NoPass == 0
Vector == Seq(Nat)

(* A committed pass: what its command buffer says (the tokens, the first   *)
(* position, which buffer of positions), what the client means by it (the  *)
(* conversation, its tokens so far, the positions to rotate by), and what  *)
(* the GPU found when it ran: the rows of K that it attended to and the    *)
(* positions that it rotated by.                                           *)
Pass == [toks : Vector, start : Nat, buf : Nat,
         conv : Nat, want : Vector, turn : Vector,
         seen : SUBSET Vector, turned : SUBSET Vector]

VARIABLES           \* the host
  pc,
  seq_len,          \* KVCacheGPU.seq_len
  pending_cbs,      \* Vec<AsyncCommandBuffer>, as the numbers of the passes, newest first
  cached_logits,    \* the pass whose logits are held, or NoPass
  rope_pos_buffer,  \* every buffer made for it; the last one is the current one
  batch             \* the locals of forward_prefill_batch

VARIABLES           \* shared memory and the queue
  kv,               \* k_buffers and v_buffers: for each layer, the token in each cell
  passes,           \* the command buffers committed so far, in order
  done,             \* how many of them have completed
  stored,           \* the layers whose RoPE and KV update the next one has run
  attended          \* the layers whose attention it has run

VARIABLES           \* history
  text,             \* the tokens of the conversation
  conv,             \* its number
  fed,              \* tokens fed
  submitted,        \* the passes of the decode calls, in order
  handed,           \* the answers of the decode calls: pass, and the caller's conversation
  spoiled,          \* conversations whose prompt was written under a pass in flight by a layer
                    \* with CPU projections, or failed after a layer that was not the last
  wiped,            \* passes in flight while the host wrote the cache
  overtaken         \* passes in flight while a prompt was encoded

host == <<pc, seq_len, pending_cbs, cached_logits, rope_pos_buffer, batch>>
ran == <<done, stored, attended>>
gpu == <<kv, passes, ran>>
history == <<text, conv, fed, submitted, handed, spoiled, wiped, overtaken>>
vars == <<host, gpu, history>>

NoBatch == [toks |-> <<>>, conv |-> 0, layer |-> 0, seen |-> {}]

Init ==
  /\ pc = "idle"
  /\ seq_len = 0
  /\ pending_cbs = <<>>
  /\ cached_logits = NoPass
  /\ rope_pos_buffer = <<>>
  /\ batch = NoBatch
  /\ kv = [l \in Layer |-> [c \in Cell |-> Blank]]
  /\ passes = <<>>
  /\ done = 0
  /\ stored = {}
  /\ attended = {}
  /\ text = <<>>
  /\ conv = 0
  /\ fed = 0
  /\ submitted = <<>>
  /\ handed = <<>>
  /\ spoiled = {}
  /\ wiped = {}
  /\ overtaken = {}

InFlight == (done + 1)..Len(passes)

NextTokens(k) == [i \in 1..k |-> fed + i]

-----------------------------------------------------------------------------
(* The GPU runs the kernels of the next pass.                              *)

(* Which of k tokens the kernel writes to cell c: for each head h and      *)
(* token b, the cell h * max_seq + start + b, whatever that exceeds.       *)
Writers(c, start, k) ==
  {b \in 1..k : \E h \in KvHead : c = h * max_seq + start + b - 1}

(* kv_update: when two tokens race for a cell, nobody knows the outcome.   *)
Stored(mem, start, toks) ==
  [c \in Cell |->
     LET W == Writers(c, start, Len(toks)) IN
     IF W = {} THEN mem[c]
     ELSE IF \E b \in W : W = {b} THEN toks[CHOOSE b \in W : TRUE]
     ELSE Blank]

(* The first n positions of a head, as attention reads them.               *)
KRow(mem, h, n) ==
  [p \in 1..n |-> IF h * max_seq + p - 1 \in Cell THEN mem[h * max_seq + p - 1] ELSE Blank]

KRows(mem, n) == {KRow(mem, h, n) : h \in KvHead}

(* Are the kernels of the pass kept in order?                              *)
InOrder(p) == dependency_dispatch \/ Len(p.toks) > 1

(* What its KV update may write: if nothing makes it wait for the kernels  *)
(* that compute K and V, they may not be there.                            *)
Computed(p) == {p.toks} \cup IF InOrder(p) THEN {} ELSE {[i \in DOMAIN p.toks |-> Blank]}

(* Seeded variant: no barrier between the KV update and attention. *)
AttendAnytime(l) ==
  LET n == done + 1
      p == passes[n] IN
  /\ n <= Len(passes) /\ l \notin attended
  /\ InOrder(p) => 0..(l - 1) \subseteq attended
  /\ passes' = [passes EXCEPT ![n].seen = @ \cup KRows(kv[l], p.start + Len(p.toks))]
  /\ attended' = attended \cup {l}
  /\ UNCHANGED <<kv, done, stored, host, history>>

(* RoPE and the KV update of a layer.                                      *)
Update(l) ==
  LET n == done + 1
      p == passes[n] IN
  /\ n <= Len(passes) /\ l \notin stored
  /\ InOrder(p) => 0..(l - 1) \subseteq attended
  /\ \E toks \in Computed(p) : kv' = [kv EXCEPT ![l] = Stored(@, p.start, toks)]
  /\ passes' = [passes EXCEPT
       ![n].turned = @ \cup {SubSeq(rope_pos_buffer[p.buf], 1, Len(p.toks))}]
  /\ stored' = stored \cup {l}
  /\ UNCHANGED <<done, attended, host, history>>

(* Attention of a layer.                                                   *)
Attend(l) ==
  LET n == done + 1
      p == passes[n] IN
  /\ n <= Len(passes) /\ l \notin attended
  /\ InOrder(p) => l \in stored
  /\ passes' = [passes EXCEPT ![n].seen = @ \cup KRows(kv[l], p.start + Len(p.toks))]
  /\ attended' = attended \cup {l}
  /\ UNCHANGED <<kv, done, stored, host, history>>

(* All the kernels of the pass have run.                                   *)
Complete ==
  /\ done < Len(passes) /\ stored = Layer /\ attended = Layer
  /\ done' = done + 1
  /\ stored' = {}
  /\ attended' = {}
  /\ UNCHANGED <<kv, passes, host, history>>

RunGpu == Complete \/ \E l \in Layer : Update(l) \/ Attend(l)

-----------------------------------------------------------------------------
(* Encoding a pass *)

(* rope_neox_encode: the cached buffer of positions is overwritten if it   *)
(* is long enough, whoever may still have to read it.                      *)
Current == rope_pos_buffer[Len(rope_pos_buffer)]
WithPositions(turn) ==
  IF rope_pos_buffer = <<>> \/ Len(Current) < Len(turn)
  THEN Append(rope_pos_buffer, turn)
  ELSE [rope_pos_buffer EXCEPT ![Len(rope_pos_buffer)] =
          turn \o SubSeq(@, Len(turn) + 1, Len(@))]

NewPass(toks, turn) ==
  [toks |-> toks, start |-> seq_len, buf |-> Len(WithPositions(turn)),
   conv |-> conv, want |-> text \o toks, turn |-> turn,
   seen |-> {}, turned |-> {}]

(* Seeded variant: a DAG pass rotates by its own position. *)
DecodeAtSeqLen == <<seq_len>>

(* The positions that a DAG pass rotates by: ExecutionContext.position,    *)
(* which forward_dag_async leaves at 0.                                    *)
DecodePosition == <<0>>

PromptPositions(k) == [i \in 1..k |-> seq_len + i - 1]

-----------------------------------------------------------------------------
(* forward_gpu_batched, and forward_gpu_native with one token *)

CallDecode ==
  /\ pc = "idle"
  /\ fed < MaxFed
  /\ pc' = "wait"
  /\ UNCHANGED <<seq_len, pending_cbs, cached_logits, rope_pos_buffer, batch, gpu, history>>

(* Seeded variant: the newest pass is taken. *)
WaitNewest ==
  /\ pc = "wait"
  /\ pending_cbs # <<>>
  /\ Len(pending_cbs) >= pipeline_depth
  /\ Head(pending_cbs) <= done
  /\ pending_cbs' = Tail(pending_cbs)
  /\ cached_logits' = Head(pending_cbs)
  /\ pc' = "encode"
  /\ UNCHANGED <<seq_len, rope_pos_buffer, batch, gpu, history>>

(* Seeded variant: the oldest pass is left in the pipeline. *)
WaitOldestPeeks ==
  LET n == pending_cbs[Len(pending_cbs)] IN
  /\ pc = "wait"
  /\ pending_cbs # <<>>
  /\ Len(pending_cbs) >= pipeline_depth
  /\ n <= done
  /\ cached_logits' = n
  /\ pc' = "encode"
  /\ UNCHANGED <<seq_len, pending_cbs, rope_pos_buffer, batch, gpu, history>>

(* The pipeline is full: wait for its oldest pass and take its logits.     *)
WaitOldest ==
  LET n == pending_cbs[Len(pending_cbs)] IN
  /\ pc = "wait"
  /\ pending_cbs # <<>>
  /\ Len(pending_cbs) >= pipeline_depth
  /\ n <= done
  /\ pending_cbs' = SubSeq(pending_cbs, 1, Len(pending_cbs) - 1)
  /\ cached_logits' = n
  /\ pc' = "encode"
  /\ UNCHANGED <<seq_len, rope_pos_buffer, batch, gpu, history>>

SkipWait ==
  /\ pc = "wait"
  /\ pending_cbs = <<>> \/ Len(pending_cbs) < pipeline_depth
  /\ pc' = "encode"
  /\ UNCHANGED <<seq_len, pending_cbs, cached_logits, rope_pos_buffer, batch, gpu, history>>

(* self.cached_logits.take(), to the caller *)
Return ==
  /\ cached_logits' = NoPass
  /\ handed' = IF cached_logits = NoPass THEN handed
               ELSE Append(handed, [pass |-> cached_logits, conv |-> conv])
  /\ pc' = "idle"

(* Seeded variant: the command buffer is not committed. *)
SubmitDoesNotCommit ==
  LET n == Len(passes) + 1
      toks == NextTokens(1) IN
  /\ pc = "encode"
  /\ rope_pos_buffer' = WithPositions(DecodePosition)
  /\ seq_len' = seq_len + 1
  /\ pending_cbs' = <<n>> \o pending_cbs
  /\ Return
  /\ text' = text \o toks
  /\ fed' = fed + 1
  /\ submitted' = Append(submitted, n)
  /\ UNCHANGED <<batch, gpu, conv, spoiled, wiped, overtaken>>

(* forward_dag_async: encode at seq_len, advance, commit.                  *)
Submit ==
  LET n == Len(passes) + 1
      toks == NextTokens(1) IN
  /\ pc = "encode"
  /\ rope_pos_buffer' = WithPositions(DecodePosition)
  /\ passes' = Append(passes, NewPass(toks, DecodePosition))
  /\ seq_len' = seq_len + 1
  /\ pending_cbs' = <<n>> \o pending_cbs
  /\ Return
  /\ text' = text \o toks
  /\ fed' = fed + 1
  /\ submitted' = Append(submitted, n)
  /\ UNCHANGED <<batch, kv, ran, conv, spoiled, wiped, overtaken>>

(* The pass cannot be encoded, before or after its first RoPE: nothing is  *)
(* committed, and the caller gets the older logits all the same.           *)
SubmitFails ==
  /\ pc = "encode"
  /\ rope_pos_buffer' \in {rope_pos_buffer, WithPositions(DecodePosition)}
  /\ Return
  /\ UNCHANGED <<seq_len, pending_cbs, batch, gpu, text, conv, fed, submitted, spoiled, wiped,
                 overtaken>>

-----------------------------------------------------------------------------
(* forward_gpu_native with a prompt: one pass for all its tokens, and the  *)
(* call waits for it.                                                      *)
EncodePrompt(k) ==
  /\ pc = "idle"
  /\ fed + k <= MaxFed
  /\ rope_pos_buffer' = WithPositions(PromptPositions(k))
  /\ overtaken' = overtaken \cup InFlight

CallPrompt(k) ==
  /\ EncodePrompt(k)
  /\ passes' = Append(passes, NewPass(NextTokens(k), PromptPositions(k)))
  /\ fed' = fed + k
  /\ pc' = "prompt"
  /\ UNCHANGED <<seq_len, pending_cbs, cached_logits, batch, kv, ran, text, conv,
                 submitted, handed, spoiled, wiped>>

(* An early `?` after the first layer was encoded. *)
CallPromptFails(k) ==
  /\ EncodePrompt(k)
  /\ UNCHANGED <<pc, seq_len, pending_cbs, cached_logits, batch, gpu, text, conv, fed,
                 submitted, handed, spoiled, wiped>>

(* wait_until_completed, then advance() once per token *)
PromptDone ==
  LET toks == passes[Len(passes)].toks IN
  /\ pc = "prompt"
  /\ done = Len(passes)
  /\ seq_len' = seq_len + Len(toks)
  /\ text' = text \o toks
  /\ pc' = "idle"
  /\ UNCHANGED <<pending_cbs, cached_logits, rope_pos_buffer, batch, gpu, conv, fed, submitted,
                 handed, spoiled, wiped, overtaken>>

-----------------------------------------------------------------------------
(* KVCacheGPU::clear, called by the client between two calls *)
Clear ==
  /\ pc = "idle"
  /\ conv < MaxConv
  /\ seq_len' = 0
  /\ kv' = [l \in Layer |-> [c \in Cell |-> Blank]]
  /\ text' = <<>>
  /\ conv' = conv + 1
  /\ wiped' = wiped \cup InFlight
  /\ UNCHANGED <<pc, pending_cbs, cached_logits, rope_pos_buffer, batch, passes, ran,
                 fed, submitted, handed, spoiled, overtaken>>

-----------------------------------------------------------------------------
(* forward_prefill_batch: the prompt layer by layer on the host, from      *)
(* position 0 whatever the cache held.                                     *)
CallBatch(k) ==
  /\ pc = "idle"
  /\ fed + k <= MaxFed
  /\ conv < MaxConv
  /\ batch' = [NoBatch EXCEPT !.toks = NextTokens(k), !.conv = conv + 1]
  /\ text' = <<>>
  /\ conv' = conv + 1
  /\ fed' = fed + k
  /\ pc' = "batch"
  /\ UNCHANGED <<seq_len, pending_cbs, cached_logits, rope_pos_buffer, gpu, submitted, handed,
                 spoiled, wiped, overtaken>>

(* set_k and set_v drop the tokens that do not fit. *)
Fitting(toks) == IF Len(toks) <= max_seq THEN toks ELSE SubSeq(toks, 1, max_seq)
StoredByHost(mem, toks) == Stored(mem, 0, Fitting(toks))

(* Seeded variant: the projections on the GPU are not waited for. *)
BatchWriteTooEarly ==
  /\ pc = "batch"
  /\ kv' = [kv EXCEPT ![batch.layer] = StoredByHost(@, batch.toks)]
  /\ seq_len' = Len(batch.toks)
  /\ wiped' = wiped \cup InFlight
  /\ spoiled' = IF batch.layer \in CpuGemm /\ InFlight # {} THEN spoiled \cup {conv} ELSE spoiled
  /\ pc' = "attend"
  /\ UNCHANGED <<pending_cbs, cached_logits, rope_pos_buffer, batch, passes, ran, text,
                 conv, fed, submitted, handed, overtaken>>

(* reset_seq_len(); the projections, which wait for the queue if they run  *)
(* on the GPU; then set_k, set_v and advance() for each token.             *)
BatchWrite ==
  /\ pc = "batch"
  /\ batch.layer \in CpuGemm \/ done = Len(passes)
  /\ kv' = [kv EXCEPT ![batch.layer] = StoredByHost(@, batch.toks)]
  /\ seq_len' = Len(batch.toks)
  /\ wiped' = wiped \cup InFlight
  /\ spoiled' = IF batch.layer \in CpuGemm /\ InFlight # {} THEN spoiled \cup {conv} ELSE spoiled
  /\ pc' = "attend"
  /\ UNCHANGED <<pending_cbs, cached_logits, rope_pos_buffer, batch, passes, ran, text,
                 conv, fed, submitted, handed, overtaken>>

(* flash_attention_prefill, then the rest of the layer; after the last     *)
(* layer the logits are returned.                                          *)
BatchAttend ==
  /\ pc = "attend"
  /\ batch' = [batch EXCEPT
       !.layer = @ + 1,
       !.seen = @ \cup KRows(kv[batch.layer], Len(batch.toks))]
  /\ IF batch.layer + 1 < n_layers
     THEN pc' = "batch" /\ UNCHANGED text
     ELSE pc' = "idle" /\ text' = batch.toks
  /\ UNCHANGED <<seq_len, pending_cbs, cached_logits, rope_pos_buffer, gpu, conv, fed, submitted,
                 handed, spoiled, wiped, overtaken>>

(* A `?` right after reset_seq_len(), or between the cache update of a     *)
(* layer and the next one: the positions stay as they are.                 *)
BatchFails ==
  /\ \/ /\ pc = "batch"
        /\ seq_len' = 0
        /\ UNCHANGED <<text, spoiled>>
     \/ /\ pc = "attend"
        /\ text' = batch.toks
        /\ spoiled' = IF batch.layer + 1 < n_layers THEN spoiled \cup {conv} ELSE spoiled
        /\ UNCHANGED seq_len
  /\ batch' = NoBatch
  /\ pc' = "idle"
  /\ UNCHANGED <<pending_cbs, cached_logits, rope_pos_buffer, gpu, conv, fed, submitted, handed,
                 wiped, overtaken>>

-----------------------------------------------------------------------------
Client ==
  \/ CallDecode \/ Clear
  \/ \E k \in PromptLen : CallPrompt(k) \/ CallPromptFails(k) \/ CallBatch(k)

HostStep ==
  \/ WaitOldest \/ SkipWait \/ Submit \/ SubmitFails
  \/ PromptDone
  \/ BatchWrite \/ BatchAttend \/ BatchFails

Next == Client \/ HostStep \/ RunGpu

(* The GPU runs what is committed, and a call goes on when it can.         *)
SafeSpec == Init /\ [][Next]_vars
Spec == SafeSpec /\ WF_vars(RunGpu) /\ WF_vars(HostStep)
-----------------------------------------------------------------------------
PassNumber == 1..Len(passes)

TypeOK ==
  /\ pc \in {"idle", "wait", "encode", "prompt", "batch", "attend"}
  /\ seq_len \in Nat
  /\ pending_cbs \in Seq(PassNumber)
  /\ cached_logits \in PassNumber \cup {NoPass}
  /\ rope_pos_buffer \in Seq(Vector)
  /\ batch \in [toks : Vector, conv : Nat, layer : Nat, seen : SUBSET Vector]
  /\ kv \in [Layer -> [Cell -> Nat]]
  /\ passes \in Seq(Pass)
  /\ done \in 0..Len(passes)
  /\ stored \subseteq Layer /\ attended \subseteq Layer
  /\ text \in Vector
  /\ conv \in Nat
  /\ fed \in Nat
  /\ submitted \in Seq(PassNumber)
  /\ handed \in Seq([pass : PassNumber, conv : Nat])
  /\ spoiled \subseteq Nat
  /\ wiped \subseteq PassNumber
  /\ overtaken \subseteq PassNumber

(* No answer is lost, duplicated or out of order: the answers given, the   *)
(* logits held and the passes in the pipeline are the decode passes, in    *)
(* the order of the calls, although calls fail, prompts come between them  *)
(* and the pipeline is popped at one end and filled at the other; and an   *)
(* answer is read only when its pass has completed. (forward_gpu_batched)  *)
Oldest(s) == [i \in 1..Len(s) |-> s[Len(s) + 1 - i]]
Answers == [i \in 1..Len(handed) |-> handed[i].pass]
Held == IF cached_logits = NoPass THEN <<>> ELSE <<cached_logits>>
AnswersInOrder ==
  /\ submitted = Answers \o Held \o Oldest(pending_cbs)
  /\ \A n \in PassNumber : n \in {handed[i].pass : i \in DOMAIN handed} \/ n = cached_logits =>
       n \in 1..done

(* A pass attends, in every layer and head, to the tokens of its own       *)
(* conversation and to nothing else: whatever is in flight when a pass is  *)
(* encoded, when the cache is cleared or a prompt replaces it, and however *)
(* late the passes of an earlier conversation write.  This takes           *)
(* dependency dispatch: by default attention need not wait for the KV      *)
(* update of its own pass.  The conversation must fit in the cache, and    *)
(* the host must not have written the cache while the pass was in flight.  *)
(* (forward_dag_async, check_memory_and_barrier, kv_update, clear)         *)
Undisturbed(n) ==
  /\ Len(passes[n].want) <= max_seq
  /\ passes[n].conv \notin spoiled
  /\ n \notin wiped
PassesSeeTheirConversation ==
  dependency_dispatch =>
    \A n \in 1..done : Undisturbed(n) => passes[n].seen = {passes[n].want}

(* forward_prefill_batch attends to the prompt and to nothing else,        *)
(* although passes of the conversation before may be in flight when it is  *)
(* called: the projections that run on the GPU wait for them, and only a   *)
(* layer whose projections run on the CPU can meet them.                   *)
BatchSeesItsPrompt ==
  batch.conv \notin spoiled /\ Len(batch.toks) <= max_seq => batch.seen \subseteq {batch.toks}

(* The logits of a conversation that has ended are given to at most        *)
(* pipeline_depth calls of the next one. (nothing drains pending_cbs)      *)
Depth == IF pipeline_depth = 0 THEN 1 ELSE pipeline_depth
Stale(i) == passes[handed[i].pass].conv # handed[i].conv
StaleAnswersAreFew ==
  \A c \in 0..conv :
    Cardinality({i \in DOMAIN handed : handed[i].conv = c /\ Stale(i)}) <= Depth

(* The GPU rotates a pass by the positions it was encoded with, although   *)
(* all passes share one buffer of positions: only a prompt encoded while   *)
(* the pass is in flight changes them. (rope_neox_encode)                  *)
RotatedAsEncoded ==
  \A n \in 1..done : n \notin overtaken => passes[n].turned \subseteq {passes[n].turn}

(* A call returns: no call waits for a pass that was not committed, or for *)
(* one behind a pass that cannot complete.                                 *)
EveryCallReturns == (pc # "idle") ~> (pc = "idle")

-----------------------------------------------------------------------------
(* The inductive invariant: what the properties above rest on.             *)

Control ==
  /\ stored \cup attended # {} => done < Len(passes)
  /\ pc \in {"batch", "attend"} =>
       /\ batch.layer \in Layer /\ batch.conv = conv /\ text = <<>>
       /\ batch.seen # {} => batch.layer > 0
  /\ pc = "attend" => seq_len = Len(batch.toks)
  /\ pc = "prompt" => passes # <<>> /\ passes[Len(passes)].want = text \o passes[Len(passes)].toks
  /\ pc \notin {"batch", "attend"} => seq_len = Len(text)
  /\ pc # "encode" => cached_logits = NoPass
  /\ \A n \in PassNumber :
       /\ Len(passes[n].want) = passes[n].start + Len(passes[n].toks)
       /\ \A i \in 1..Len(passes[n].toks) : passes[n].want[passes[n].start + i] = passes[n].toks[i]

(* No pass is of a later conversation, or of the one whose prompt          *)
(* forward_prefill_batch is computing.                                     *)
ConversationsInOrder ==
  \A n \in PassNumber :
    passes[n].conv < conv \/ (passes[n].conv = conv /\ pc \notin {"batch", "attend"})

(* The buffers of positions: a pass in flight that was not overtaken finds *)
(* what it was encoded with, because all the passes in flight but a prompt *)
(* were encoded with the same position.                                    *)
PositionsInPlace ==
  /\ \A n \in PassNumber :
       /\ Len(passes[n].turn) = Len(passes[n].toks)
       /\ passes[n].buf \in DOMAIN rope_pos_buffer
       /\ Len(passes[n].toks) <= Len(rope_pos_buffer[passes[n].buf])
       /\ n \notin overtaken => passes[n].turned \subseteq {passes[n].turn}
  /\ \A n \in InFlight :
       /\ passes[n].turn = DecodePosition \/ (pc = "prompt" /\ n = Len(passes))
       /\ n \notin overtaken =>
            SubSeq(rope_pos_buffer[passes[n].buf], 1, Len(passes[n].toks)) = passes[n].turn

(* The cells of a layer hold a sequence of tokens, in every head.          *)
Holds(l, s) == \A h \in KvHead : \A p \in 1..Len(s) : kv[l][h * max_seq + p - 1] = s[p]

(* What a pass finds in the cache: the conversation before it.  The pass   *)
(* number Len(passes) + 1 is the one that the host would encode next.      *)
Context == IF pc = "prompt" THEN passes[Len(passes)].want ELSE text
Prior(n) == IF n \in PassNumber THEN SubSeq(passes[n].want, 1, passes[n].start) ELSE Context
Sound(n) == IF n \in PassNumber THEN Undisturbed(n)
            ELSE conv \notin spoiled /\ Len(Context) <= max_seq

(* Whoever updates layer l next finds its conversation there; a pass that  *)
(* has updated a layer and not attended to it finds its own; and each pass *)
(* in flight will leave behind what the next one has to find.              *)
NextAt(l) == IF l \in stored THEN done + 2 ELSE done + 1
CellsInPlace ==
  /\ attended \subseteq stored
  /\ \A l \in Layer : Sound(NextAt(l)) => Holds(l, Prior(NextAt(l)))
  /\ \A l \in stored \ attended : Undisturbed(done + 1) => Holds(l, passes[done + 1].want)
  /\ \A n \in InFlight :
       Sound(n + 1) => Prior(n + 1) = <<>> \/ (Sound(n) /\ Prior(n + 1) = passes[n].want)
  /\ \A n \in PassNumber :
       /\ Undisturbed(n) => passes[n].seen \subseteq {passes[n].want}
       /\ n <= done => passes[n].seen # {}
  /\ attended # {} => passes[done + 1].seen # {}

(* The layers that forward_prefill_batch has written hold the prompt.      *)
BatchInPlace ==
  pc \in {"batch", "attend"} /\ conv \notin spoiled =>
    \A l \in Layer :
      l < batch.layer \/ (pc = "attend" /\ l = batch.layer) =>
        /\ done = Len(passes)
        /\ Len(batch.toks) <= max_seq => Holds(l, batch.toks)

(* When a conversation begins, s answers were given and at most Depth      *)
(* passes are in the pipeline: they alone are of earlier conversations.    *)
TurnOver ==
  /\ Len(pending_cbs) + (IF pc = "encode" THEN 1 ELSE 0) <= Depth
  /\ \A i \in DOMAIN handed :
       passes[handed[i].pass].conv <= handed[i].conv /\ handed[i].conv <= conv
  /\ \A c \in 0..conv : \E s \in 0..Len(handed) :
       /\ \A i \in DOMAIN handed : handed[i].conv = c => i > s
       /\ \A i \in DOMAIN submitted : passes[submitted[i]].conv < c => i <= s + Depth

(* The cache, the buffers of positions and the passes in flight always fit *)
(* each other, whatever the host has called; the prompt of                 *)
(* forward_prefill_batch is attended to and nothing else; and what is left *)
(* of an earlier conversation is what the pipeline held.  What is in the   *)
(* cells is claimed for dependency dispatch, everything else for both.     *)
GpuInv ==
  /\ TypeOK /\ Control /\ ConversationsInOrder /\ AnswersInOrder /\ PositionsInPlace
  /\ dependency_dispatch => CellsInPlace
  /\ BatchInPlace /\ BatchSeesItsPrompt /\ TurnOver
=============================================================================
