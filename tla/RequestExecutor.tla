--------------------------- MODULE RequestExecutor ---------------------------
(***************************************************************************)
(* RequestExecutor::run (inference/request_executor.rs): one request, its  *)
(* KV cache and the pool of work buffers.  run() owns all of them, so its  *)
(* three phases are sequential; each action is one call of step().  A step *)
(* that returns None early drops the buffer it took instead of releasing   *)
(* it, and run() ignores that None.                                        *)
(***************************************************************************)
EXTENDS Request

CONSTANT Preallocated   \* buffers in the pool at first (4 in the code)

VARIABLES
  request,
  kv_cache,   \* [max_seq, tokens fed so far]
  free,       \* buffers in CpuWorkBuffersPool.free
  pc          \* "prefill", "first", "decode", "done" or "panicked"

vars == <<request, kv_cache, free, pc>>

(* run() is called with a new request. *)
Init ==
  /\ \E s \in Submission :
       /\ request = NewRequest(s)
       /\ kv_cache = [max_seq |-> Len(s.prompt_tokens) + s.max_tokens, fed |-> <<>>]
  /\ free = Preallocated
  /\ pc = "prefill"

(* allocate() makes a buffer when none is free; release() keeps it. *)
Dropped == IF free = 0 THEN 0 ELSE free - 1
Released == IF free = 0 THEN 1 ELSE free

(* generated_tokens.last()? has a token, and the model knows the token.    *)
HasInput ==
  /\ ~IsPrefillComplete(request) \/ request.generated_tokens # <<>>
  /\ NextInput(request) \in Token

CacheFull == Len(kv_cache.fed) >= kv_cache.max_seq

StepFails ==
  /\ ~HasInput
  /\ free' = Dropped
  /\ UNCHANGED <<request, kv_cache>>

StepOverruns ==
  /\ HasInput
  /\ CacheFull
  /\ pc' = "panicked"
  /\ UNCHANGED <<request, kv_cache, free>>

(* A step feeds the cache and gives the buffer back. *)
StepFeeds ==
  /\ HasInput
  /\ ~CacheFull
  /\ kv_cache' = [kv_cache EXCEPT !.fed = Append(@, NextInput(request))]
  /\ free' = Released

(* The request after a step that returned `token`. *)
After(token) ==
  IF IsPrefillComplete(request) THEN AddGeneratedToken(request, token)
                                ELSE AdvancePrompt(request)

StepSucceeds == StepFeeds /\ \E token \in Token : request' = After(token)

(* while !request.is_prefill_complete() { step() } *)
Prefill ==
  /\ pc = "prefill"
  /\ ~IsPrefillComplete(request)
  /\ \/ (StepFails \/ StepSucceeds) /\ UNCHANGED pc
     \/ StepOverruns

EndPrefill ==
  /\ pc = "prefill"
  /\ IsPrefillComplete(request)
  /\ pc' = "first"
  /\ UNCHANGED <<request, kv_cache, free>>

(* if let Some(first_token) = step() { add_generated_token(first_token) }: *)
(* a step that succeeds here has added the token already.                  *)
First ==
  /\ pc = "first"
  /\ \/ StepFails /\ pc' = "decode"
     \/ StepOverruns
     \/ /\ StepFeeds
        /\ \E token \in Token : request' = AddGeneratedToken(After(token), token)
        /\ pc' = "decode"

(* while !request.is_complete() { step() } *)
Decode ==
  /\ pc = "decode"
  /\ ~IsComplete(request)
  /\ \/ (StepFails \/ StepSucceeds) /\ UNCHANGED pc
     \/ StepOverruns

Return ==
  /\ pc = "decode"
  /\ IsComplete(request)
  /\ pc' = "done"
  /\ UNCHANGED <<request, kv_cache, free>>

Next == Prefill \/ EndPrefill \/ First \/ Decode \/ Return

(* run() is a loop on one thread: it keeps stepping. *)
Spec == Init /\ [][Next]_vars /\ WF_vars(Next)

-----------------------------------------------------------------------------
(* "Run a request to completion.  This processes all prompt tokens and     *)
(* generates max_tokens." (inference/request_executor.rs)                  *)
RunGeneratesMaxTokens ==
  <>(pc = "done" /\ Len(request.generated_tokens) = request.max_tokens)
=============================================================================
