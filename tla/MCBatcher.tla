------------------------------ MODULE MCBatcher ------------------------------
EXTENDS ContinuousBatcher

(* Prompts of zero, one and two tokens, one of which is not in the         *)
(* vocabulary; budgets of zero, one and two tokens; two priorities.        *)
MCSubmission ==
  { [prompt_tokens |-> <<>>,     max_tokens |-> 1, priority |-> 1],
    [prompt_tokens |-> <<1>>,    max_tokens |-> 2, priority |-> 3],
    [prompt_tokens |-> <<1>>,    max_tokens |-> 0, priority |-> 1],
    [prompt_tokens |-> <<0, 2>>, max_tokens |-> 1, priority |-> 1] }
=============================================================================
