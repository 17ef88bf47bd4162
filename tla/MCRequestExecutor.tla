--------------------------- MODULE MCRequestExecutor ---------------------------
EXTENDS RequestExecutor

(* A prompt of two known tokens and a budget of two. *)
MCSubmission == {[prompt_tokens |-> <<1, 0>>, max_tokens |-> 2, priority |-> 1]}
=============================================================================
