--------------------------- MODULE MCBpeTokenizer ---------------------------
EXTENDS BpeTokenizer, SequencesExt

CONSTANTS MaxMerges, MaxText

(* Pairs that overlap in a text, that build on each other, and of which    *)
(* two spell the same piece.                                               *)
MCPair ==
  {<<<<"a">>, <<"a">>>>, <<<<"a">>, <<"b">>>>, <<<<"b">>, <<"a">>>>,
   <<<<"a", "b">>, <<"a">>>>, <<<<"a">>, <<"b", "a">>>>, <<<<"a", "a">>, <<"a", "a">>>>}

(* Every order of every few of them. *)
MCTable ==
  UNION {{[p \in S |-> CHOOSE r \in 0..MaxMerges : r < Cardinality(S) /\ order[r + 1] = p] :
            order \in SetToSeqs(S)} :
         S \in {T \in SUBSET MCPair : Cardinality(T) <= MaxMerges}}

MCText == UNION {[1..k -> {"a", "b"}] : k \in 0..MaxText}
=============================================================================
