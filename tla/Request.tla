------------------------------- MODULE Request -------------------------------
(***************************************************************************)
(* RequestContext (inference/request.rs): the data of one request and the  *)
(* questions the schedulers ask of it.  A token is a number; the embedding *)
(* table has rows for the tokens below VocabSize, and a forward pass over  *)
(* any other token returns None (embedding_lookup_impl).                   *)
(***************************************************************************)
EXTENDS Integers, Sequences

CONSTANTS
  VocabSize,    \* rows of the embedding table, entries of the logits
  Bos,          \* config.bos_token_id
  Submission    \* the requests a client may make: [prompt, max_tokens, priority]

Token == 0..(VocabSize - 1)
Priority == 0..3     \* Low, Normal, High, RealTime

ASSUME VocabAssumption == VocabSize \in Nat \ {0} /\ Bos \in Token
ASSUME SubmissionAssumption ==
  Submission \subseteq [prompt_tokens : Seq(Nat), max_tokens : Nat, priority : Priority]

(* The state Preempted of the enum is assigned nowhere. *)
RequestState == {"Waiting", "Running", "Finished"}

RequestContext ==
  [prompt_tokens : Seq(Nat), prompt_pos : Nat, generated_tokens : Seq(Token),
   max_tokens : Nat, priority : Priority, state : RequestState]

(* RequestContext::new *)
NewRequest(s) ==
  [prompt_tokens |-> s.prompt_tokens, prompt_pos |-> 0, generated_tokens |-> <<>>,
   max_tokens |-> s.max_tokens, priority |-> s.priority, state |-> "Waiting"]

IsPrefillComplete(r) == r.prompt_pos >= Len(r.prompt_tokens)

(* Seeded variant: complete one token after the budget is spent. *)
IsCompleteLate(r) == r.state = "Finished" \/ Len(r.generated_tokens) > r.max_tokens

IsComplete(r) == r.state = "Finished" \/ Len(r.generated_tokens) >= r.max_tokens

AdvancePrompt(r) ==
  IF IsPrefillComplete(r) THEN r ELSE [r EXCEPT !.prompt_pos = @ + 1]

AddGeneratedToken(r, token) == [r EXCEPT !.generated_tokens = Append(@, token)]

(* The token the batcher feeds next: a prompt token, then the last token   *)
(* generated, and the BOS token when nothing has been generated yet.       *)
NextInput(r) ==
  IF ~IsPrefillComplete(r) THEN r.prompt_tokens[r.prompt_pos + 1]
  ELSE IF r.generated_tokens = <<>> THEN Bos
  ELSE r.generated_tokens[Len(r.generated_tokens)]
=============================================================================
