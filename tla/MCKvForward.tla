----------------------------- MODULE MCKvForward -----------------------------
EXTENDS KvForward

CONSTANTS a, b, unknown

(* One token, a short prompt, a prompt long enough for the tiled path, and *)
(* a prompt whose second token is not in the vocabulary.                   *)
MCBatch == {<<a>>, <<b, a>>, <<a, b, b>>, <<b, unknown>>}
=============================================================================
