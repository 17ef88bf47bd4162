----------------------- MODULE ContinuousBatcher_proofs -----------------------
(***************************************************************************)
(* The continuous batcher, for every set of requests, vocabulary, batch    *)
(* size and order of calls: BatchInv is inductive.  The first lemmas are   *)
(* about one request: what its history is after a prompt token and after a *)
(* generated token was processed.  Then one lemma per action, and the      *)
(* refinement of RequestLifecycle.                                         *)
(***************************************************************************)
EXTENDS ContinuousBatcher, SequenceTheorems, FiniteSetTheorems, TLAPS

-----------------------------------------------------------------------------
(* One request *)

LEMMA RequestFields ==
  ASSUME NEW r \in RequestContext
  PROVE  /\ r.prompt_tokens \in Seq(Nat) /\ Len(r.prompt_tokens) \in Nat
         /\ r.prompt_pos \in Nat
         /\ r.generated_tokens \in Seq(Token) /\ r.generated_tokens \in Seq(Nat)
         /\ Len(r.generated_tokens) \in Nat
         /\ r.max_tokens \in Nat
<1>1. r.prompt_tokens \in Seq(Nat) /\ r.prompt_pos \in Nat /\ r.max_tokens \in Nat
  BY DEF RequestContext
<1>2. r.generated_tokens \in Seq(Token)
  BY DEF RequestContext
<1>3. Token \subseteq Nat
  BY VocabAssumption DEF Token
<1>4. r.generated_tokens \in Seq(Nat)
  BY <1>2, <1>3, SeqMonotonic
<1> QED
  BY <1>1, <1>2, <1>4, LenProperties

LEMMA ConcatRegroups ==
  ASSUME NEW s \in Seq(Nat), NEW t \in Seq(Nat), NEW u \in Seq(Nat)
  PROVE  (s \o t) \o u = s \o (t \o u)
BY ConcatAssociative, SMTT(20)

(* A prefix that is one element longer. *)
LEMMA PrefixGrows ==
  ASSUME NEW s \in Seq(Nat), NEW k \in Nat, k + 1 \in 1..Len(s)
  PROVE  SubSeq(s, 1, k + 1) = SubSeq(s, 1, k) \o <<s[k + 1]>>
<1>1. Len(s) \in Nat
  BY LenProperties
<1>2. 1 \in 1..Len(s) /\ k + 1 \in 1..Len(s)
  BY <1>1
<1>3. SubSeq(s, 1, k + 1) = SubSeq(s, 1, (k + 1) - 1) \o <<s[k + 1]>>
  BY <1>2, SubSeqRecursiveSecond
<1>4. (k + 1) - 1 = k
  OBVIOUS
<1> QED
  BY <1>3, <1>4

(* The two parts of a history and their lengths. *)
Processed(r) == SubSeq(r.prompt_tokens, 1, r.prompt_pos)
FedBack(r) ==
  IF r.generated_tokens = <<>> THEN <<>>
  ELSE <<Bos>> \o SubSeq(r.generated_tokens, 1, Len(r.generated_tokens) - 1)

LEMMA HistoryParts ==
  ASSUME NEW r \in RequestContext, WithinBounds(r)
  PROVE  /\ History(r) = Processed(r) \o FedBack(r)
         /\ Processed(r) \in Seq(Nat) /\ Len(Processed(r)) = r.prompt_pos
         /\ FedBack(r) \in Seq(Nat) /\ Len(FedBack(r)) = Len(r.generated_tokens)
<1> USE RequestFields
<1>1. Processed(r) \in Seq(Nat) /\ Len(Processed(r)) = r.prompt_pos
  <2>1. \A k \in 1..r.prompt_pos : r.prompt_tokens[k] \in Nat
    BY ElementOfSeq DEF WithinBounds
  <2> QED
    BY <2>1, SubSeqProperties DEF Processed
<1>2. FedBack(r) \in Seq(Nat) /\ Len(FedBack(r)) = Len(r.generated_tokens)
  <2>1. CASE r.generated_tokens = <<>>
    BY <2>1, EmptySeq DEF FedBack
  <2>2. CASE r.generated_tokens # <<>>
    <3> DEFINE n == Len(r.generated_tokens)
               past == SubSeq(r.generated_tokens, 1, n - 1)
    <3>1. n \in Nat \ {0}
      BY <2>2, EmptySeq
    <3>2. \A k \in 1..(n - 1) : r.generated_tokens[k] \in Nat
      BY <3>1, ElementOfSeq
    <3>3. past \in Seq(Nat) /\ Len(past) = n - 1
      BY <3>1, <3>2, SubSeqProperties
    <3>4. <<Bos>> \in Seq(Nat) /\ Len(<<Bos>>) = 1
      BY VocabAssumption DEF Token
    <3>5. <<Bos>> \o past \in Seq(Nat) /\ Len(<<Bos>> \o past) = 1 + (n - 1)
      BY <3>3, <3>4, ConcatProperties
    <3> QED
      BY <2>2, <3>1, <3>5 DEF FedBack
  <2> QED
    BY <2>1, <2>2
<1> QED
  BY <1>1, <1>2 DEF History, Processed, FedBack

LEMMA HistoryLength ==
  ASSUME NEW r \in RequestContext, WithinBounds(r)
  PROVE  Len(History(r)) = r.prompt_pos + Len(r.generated_tokens)
BY HistoryParts, ConcatProperties

LEMMA FreshHistory ==
  ASSUME NEW r \in RequestContext, r.prompt_pos = 0, r.generated_tokens = <<>>
  PROVE  History(r) = <<>>
<1>1. Processed(r) = <<>>
  BY SubSeqEmpty DEF Processed
<1>2. FedBack(r) = <<>>
  BY DEF FedBack
<1> QED
  BY <1>1, <1>2, ConcatEmptySeq, EmptySeq DEF History, Processed, FedBack

(* The history does not depend on the state of the request. *)
LEMMA HistoryIgnoresState ==
  ASSUME NEW r \in RequestContext, NEW s \in RequestState
  PROVE  /\ [r EXCEPT !.state = s] \in RequestContext
         /\ History([r EXCEPT !.state = s]) = History(r)
BY DEF RequestContext, History

(* A prompt token was processed. *)
LEMMA PrefillHistory ==
  ASSUME NEW r \in RequestContext, WithinBounds(r), ~IsPrefillComplete(r)
  PROVE  /\ AdvancePrompt(r) \in RequestContext
         /\ WithinBounds(AdvancePrompt(r))
         /\ r.generated_tokens = <<>>
         /\ History(AdvancePrompt(r)) = Append(History(r), NextInput(r))
<1> DEFINE q == AdvancePrompt(r)
           p == r.prompt_pos
<1> USE RequestFields
<1>1. /\ q \in RequestContext
      /\ q.prompt_tokens = r.prompt_tokens /\ q.prompt_pos = p + 1
      /\ q.generated_tokens = r.generated_tokens
  <2>1. p + 1 \in Nat
    OBVIOUS
  <2> QED
    BY <2>1 DEF RequestContext, AdvancePrompt, IsPrefillComplete
<1>2. p + 1 \in 1..Len(r.prompt_tokens)
  BY DEF IsPrefillComplete
<1>3. r.generated_tokens = <<>>
  BY DEF WithinBounds
<1>4. WithinBounds(q)
  BY <1>1, <1>2, <1>3 DEF WithinBounds
<1>5. Processed(q) = Processed(r) \o <<r.prompt_tokens[p + 1]>>
  <2>1. SubSeq(r.prompt_tokens, 1, p + 1) =
          SubSeq(r.prompt_tokens, 1, p) \o <<r.prompt_tokens[p + 1]>>
    BY <1>2, PrefixGrows
  <2> QED
    BY <2>1, <1>1 DEF Processed
<1>6. r.prompt_tokens[p + 1] \in Nat
  BY <1>2, ElementOfSeq
<1>7. Processed(q) = Append(Processed(r), r.prompt_tokens[p + 1])
  BY <1>5, <1>6, HistoryParts, AppendIsConcat
<1>8. History(r) = Processed(r) /\ History(q) = Processed(q)
  <2>1. FedBack(r) = <<>> /\ FedBack(q) = <<>>
    BY <1>1, <1>3 DEF FedBack
  <2>2. History(r) = Processed(r) \o <<>> /\ Processed(r) \in Seq(Nat)
    BY <2>1, HistoryParts
  <2>3. History(q) = Processed(q) \o <<>> /\ Processed(q) \in Seq(Nat)
    BY <2>1, <1>1, <1>4, HistoryParts
  <2> QED
    BY <2>2, <2>3, ConcatEmptySeq
<1> QED
  BY <1>1, <1>3, <1>4, <1>7, <1>8 DEF NextInput

(* A generated token, or BOS, was processed and another one sampled. *)
LEMMA DecodeHistory ==
  ASSUME NEW r \in RequestContext, WithinBounds(r), IsPrefillComplete(r), NEW t \in Token
  PROVE  /\ AddGeneratedToken(r, t) \in RequestContext
         /\ WithinBounds(AddGeneratedToken(r, t))
         /\ Len(AddGeneratedToken(r, t).generated_tokens) = Len(r.generated_tokens) + 1
         /\ History(AddGeneratedToken(r, t)) = Append(History(r), NextInput(r))
<1> DEFINE q == AddGeneratedToken(r, t)
           g == r.generated_tokens
           n == Len(g)
           past == SubSeq(g, 1, n - 1)
           input == NextInput(r)
<1> USE RequestFields
<1>1. /\ Append(g, t) \in Seq(Token) /\ Len(Append(g, t)) = n + 1
      /\ \A k \in 1..n : Append(g, t)[k] = g[k]
      /\ Append(g, t) # <<>>
  <2>1. g \in Seq(Token)
    OBVIOUS
  <2> HIDE DEF g, n
  <2>2. n = Len(g)
    BY DEF n
  <2> QED
    BY ONLY <2>1, <2>2, AppendProperties
<1>2. /\ q \in RequestContext
      /\ q.prompt_tokens = r.prompt_tokens /\ q.prompt_pos = r.prompt_pos
      /\ q.generated_tokens = Append(g, t)
  BY <1>1 DEF RequestContext, AddGeneratedToken
<1>3. WithinBounds(q)
  BY <1>2 DEF WithinBounds, IsPrefillComplete
<1>4. Processed(q) = Processed(r)
  BY <1>2 DEF Processed
<1>5. FedBack(q) = <<Bos>> \o SubSeq(Append(g, t), 1, n)
  <2>1. Len(q.generated_tokens) - 1 = n
    BY <1>1, <1>2
  <2> QED
    BY <2>1, <1>1, <1>2 DEF FedBack
<1>6. SubSeq(Append(g, t), 1, n) = g
  <2>1. \A k \in 1..n : Append(g, t)[k] \in Token
    BY <1>1, ElementOfSeq
  <2>2. /\ SubSeq(Append(g, t), 1, n) \in Seq(Token)
        /\ Len(SubSeq(Append(g, t), 1, n)) = n
        /\ \A k \in 1..n : SubSeq(Append(g, t), 1, n)[k] = Append(g, t)[k]
    BY <2>1, SubSeqProperties
  <2> QED
    BY <2>2, <1>1, SeqEqual
<1>7. Bos \in Nat /\ <<Bos>> \in Seq(Nat)
  BY VocabAssumption DEF Token
<1>8. input \in Nat /\ FedBack(q) = Append(FedBack(r), input)
  <2>1. CASE g = <<>>
    <3>1. input = Bos /\ FedBack(r) = <<>>
      BY <2>1 DEF NextInput, FedBack
    <3>2. FedBack(q) = <<Bos>>
      BY <2>1, <1>5, <1>6, <1>7, ConcatEmptySeq
    <3> QED
      BY <3>1, <3>2, <1>7
  <2>2. CASE g # <<>>
    <3>1. n \in 1..n
      BY <2>2, EmptySeq
    <3>2. input = g[n] /\ g[n] \in Nat
      BY <2>2, <3>1, ElementOfSeq DEF NextInput
    <3>3. past \in Seq(Nat)
      BY <3>1, ElementOfSeq, SubSeqProperties
    <3>4. g = past \o <<g[n]>>
      BY <3>1, SubSeqRecursiveSecond, SubSeqFull
    <3>5. <<g[n]>> \in Seq(Nat)
      BY <3>2
    <3>6. <<Bos>> \o g = (<<Bos>> \o past) \o <<g[n]>>
      <4>1. (<<Bos>> \o past) \o <<g[n]>> = <<Bos>> \o (past \o <<g[n]>>)
        BY <3>3, <3>5, <1>7, ConcatRegroups
      <4> QED
        BY <4>1, <3>4
    <3>7. FedBack(r) = <<Bos>> \o past /\ FedBack(r) \in Seq(Nat)
      BY <2>2, HistoryParts DEF FedBack
    <3> QED
      BY <3>2, <3>6, <3>7, <1>5, <1>6, AppendIsConcat
  <2> QED
    BY <2>1, <2>2
<1>9. Processed(r) \o Append(FedBack(r), input) = Append(Processed(r) \o FedBack(r), input)
  <2>1. Processed(r) \in Seq(Nat) /\ FedBack(r) \in Seq(Nat) /\ <<input>> \in Seq(Nat)
    BY HistoryParts, <1>8
  <2>2. /\ Append(FedBack(r), input) = FedBack(r) \o <<input>>
        /\ Append(Processed(r) \o FedBack(r), input) = (Processed(r) \o FedBack(r)) \o <<input>>
    BY <2>1, <1>8, ConcatProperties, AppendIsConcat
  <2> QED
    BY <2>1, <2>2, ConcatAssociative
<1>10. History(q) = Append(History(r), input)
  BY <1>2, <1>3, <1>4, <1>8, <1>9, HistoryParts
<1> QED
  BY <1>1, <1>2, <1>3, <1>10

-----------------------------------------------------------------------------
(* The waiting queue *)

Elems(w) == {w[k] : k \in DOMAIN w}
Distinct(w) == \A j, k \in DOMAIN w : w[j] = w[k] => j = k

LEMMA QueueGrows ==
  ASSUME NEW w \in Seq(Id), NEW i \in Id, i \notin Elems(w), Distinct(w)
  PROVE  /\ Append(w, i) \in Seq(Id)
         /\ Elems(Append(w, i)) = Elems(w) \cup {i}
         /\ Distinct(Append(w, i))
<1> DEFINE a == Append(w, i)
<1>1. Len(w) \in Nat /\ DOMAIN w = 1..Len(w)
  BY LenProperties
<1>2. /\ a \in Seq(Id) /\ Len(a) = Len(w) + 1
      /\ \A k \in 1..Len(w) : a[k] = w[k]
      /\ a[Len(w) + 1] = i
  BY AppendProperties
<1>3. DOMAIN a = 1..(Len(w) + 1)
  BY <1>2, LenProperties
<1> HIDE DEF a
<1>4. Elems(a) = Elems(w) \cup {i}
  BY <1>1, <1>2, <1>3 DEF Elems
<1>5. Distinct(a)
  <2>1. ASSUME NEW j \in DOMAIN a, NEW k \in DOMAIN a, a[j] = a[k] PROVE j = k
    <3>1. CASE j = Len(w) + 1 \/ k = Len(w) + 1
      BY <2>1, <3>1, <1>1, <1>2, <1>3 DEF Elems
    <3>2. CASE j # Len(w) + 1 /\ k # Len(w) + 1
      BY <2>1, <3>2, <1>1, <1>2, <1>3 DEF Distinct
    <3> QED
      BY <3>1, <3>2
  <2> QED
    BY <2>1 DEF Distinct
<1> QED
  BY <1>2, <1>4, <1>5 DEF a

LEMMA QueueShrinks ==
  ASSUME NEW w \in Seq(Id), w # <<>>, Distinct(w)
  PROVE  /\ Tail(w) \in Seq(Id)
         /\ Head(w) \in Elems(w)
         /\ Elems(Tail(w)) = Elems(w) \ {Head(w)}
         /\ Distinct(Tail(w))
<1> DEFINE t == Tail(w)
<1>1. Len(w) \in Nat \ {0} /\ DOMAIN w = 1..Len(w)
  BY LenProperties, EmptySeq
<1>2. /\ t \in Seq(Id) /\ Len(t) = Len(w) - 1
      /\ \A k \in 1..Len(t) : t[k] = w[k + 1]
  BY HeadTailProperties
<1>3. DOMAIN t = 1..(Len(w) - 1)
  BY <1>2, LenProperties
<1>4. Head(w) = w[1] /\ 1 \in DOMAIN w
  BY <1>1
<1> HIDE DEF t
<1>5. Elems(t) = Elems(w) \ {Head(w)}
  <2>1. ASSUME NEW k \in DOMAIN t PROVE t[k] \in Elems(w) \ {Head(w)}
    <3>1. k + 1 \in DOMAIN w /\ k + 1 # 1 /\ t[k] = w[k + 1]
      BY <1>1, <1>2, <1>3
    <3> QED
      BY <3>1, <1>4 DEF Elems, Distinct
  <2>2. ASSUME NEW k \in DOMAIN w, w[k] # Head(w) PROVE w[k] \in Elems(t)
    <3>1. k - 1 \in DOMAIN t /\ t[k - 1] = w[(k - 1) + 1] /\ (k - 1) + 1 = k
      BY <2>2, <1>1, <1>2, <1>3, <1>4
    <3> QED
      BY <3>1 DEF Elems
  <2> QED
    BY <2>1, <2>2 DEF Elems
<1>6. Distinct(t)
  <2>1. ASSUME NEW j \in DOMAIN t, NEW k \in DOMAIN t, t[j] = t[k] PROVE j = k
    <3>1. j + 1 \in DOMAIN w /\ k + 1 \in DOMAIN w /\ w[j + 1] = w[k + 1]
      BY <2>1, <1>1, <1>2, <1>3
    <3>2. j + 1 = k + 1
      BY <3>1 DEF Distinct
    <3> QED
      BY <3>2, <1>1, <1>3
  <2> QED
    BY <2>1 DEF Distinct
<1> QED
  BY <1>2, <1>4, <1>5, <1>6 DEF t, Elems

(* The queue's elements, in the words of the module. *)
LEMMA QueueFacts ==
  ASSUME BatchInv
  PROVE  Waiting = Elems(waiting) /\ waiting \in Seq(Id) /\ Distinct(waiting)
BY DEF BatchInv, TypeOK, EachRequestInOnePlace, NeverInTwoPlaces, Waiting, Elems, Distinct

LEMMA EntryTypes ==
  ASSUME TypeOK, NEW i \in Id
  PROVE  /\ requests[i] # Absent => requests[i] \in RequestContext
         /\ kv_caches[i] # Absent => kv_caches[i] \in KVCache
BY DEF TypeOK

LEMMA RunningFacts ==
  ASSUME BatchInv, NEW i \in running
  PROVE  /\ i \in Id /\ i \in Known
         /\ requests[i] \in RequestContext /\ WithinBounds(requests[i])
         /\ kv_caches[i] \in KVCache
         /\ kv_caches[i].fed = History(requests[i])
         /\ kv_caches[i].max_seq = Len(requests[i].prompt_tokens) + requests[i].max_tokens
<1>1. i \in Id /\ i \in Known /\ kv_caches[i] # Absent
  BY DEF BatchInv, TypeOK, CachesAreIsolated
<1>2. requests[i] \in RequestContext /\ kv_caches[i] \in KVCache
  BY <1>1, EntryTypes DEF BatchInv, Known
<1> QED
  BY <1>1, <1>2 DEF BatchInv, CachesAreIsolated, RequestsAdvance, Capacity

-----------------------------------------------------------------------------
(* Steps that leave the requests, the queues and the caches alone *)

LEMMA DataUnchanged ==
  ASSUME BatchInv,
         UNCHANGED <<requests, kv_caches, running, waiting, completed, submitted, misused>>
  PROVE  /\ OnlySubmitted' /\ QueueIsKnown' /\ EachRequestInOnePlace'
         /\ CachesAreIsolated' /\ Capacity' /\ WithinBudget'
         /\ Known' = Known /\ Waiting' = Waiting
<1>1. Known' = Known /\ Waiting' = Waiting /\ submitted' = submitted
  BY DEF Known, Waiting
<1>2. OnlySubmitted' /\ QueueIsKnown' /\ EachRequestInOnePlace' /\ Capacity' /\ WithinBudget'
  BY <1>1 DEF BatchInv, OnlySubmitted, QueueIsKnown, EachRequestInOnePlace, NoRequestLost,
              NeverInTwoPlaces, Capacity, WithinBudget
<1>3. CachesAreIsolated'
  BY <1>1 DEF BatchInv, CachesAreIsolated
<1> QED
  BY <1>1, <1>2, <1>3

LEMMA BeginStepInv == ASSUME BatchInv, BeginStep PROVE BatchInv'
<1>1. UNCHANGED <<requests, kv_caches, running, waiting, completed, submitted, misused>>
  BY DEF BeginStep
<1>2. /\ OnlySubmitted' /\ QueueIsKnown' /\ EachRequestInOnePlace' /\ CachesAreIsolated'
      /\ Capacity' /\ WithinBudget' /\ Known' = Known /\ Waiting' = Waiting
  BY <1>1, DataUnchanged
<1>3. TypeOK' /\ StepControl' /\ PanicNeedsMisuse'
  BY DEF BatchInv, TypeOK, StepControl, PanicNeedsMisuse, BeginStep
<1>4. RequestsAdvance'
  BY <1>2 DEF BatchInv, RequestsAdvance, BeginStep
<1> QED
  BY <1>2, <1>3, <1>4 DEF BatchInv

LEMMA AdmitUnknownInv == ASSUME BatchInv, AdmitUnknown PROVE BatchInv'
<1>1. UNCHANGED <<requests, kv_caches, running, waiting, completed, submitted, misused>>
  BY DEF AdmitUnknown, Panic
<1>2. /\ OnlySubmitted' /\ QueueIsKnown' /\ EachRequestInOnePlace' /\ CachesAreIsolated'
      /\ Capacity' /\ WithinBudget' /\ Known' = Known /\ Waiting' = Waiting
  BY <1>1, DataUnchanged
<1>3. TypeOK' /\ StepControl'
  BY DEF BatchInv, TypeOK, StepControl, AdmitUnknown, Panic
<1>4. RequestsAdvance'
  BY <1>2 DEF BatchInv, RequestsAdvance, AdmitUnknown, Panic
<1>5. PanicNeedsMisuse'
  <2>1. Head(waiting) \in Waiting \ Known
    BY QueueFacts, QueueShrinks DEF AdmitUnknown
  <2>2. misused
    BY <2>1 DEF BatchInv, QueueIsKnown
  <2> QED
    BY <2>2 DEF AdmitUnknown, Panic, PanicNeedsMisuse
<1> QED
  BY <1>2, <1>3, <1>4, <1>5 DEF BatchInv

LEMMA EndScheduleInv == ASSUME BatchInv, EndSchedule PROVE BatchInv'
<1>1. UNCHANGED <<requests, kv_caches, running, waiting, completed, submitted, misused>>
  BY DEF EndSchedule
<1>2. /\ OnlySubmitted' /\ QueueIsKnown' /\ EachRequestInOnePlace' /\ CachesAreIsolated'
      /\ Capacity' /\ WithinBudget' /\ Known' = Known /\ Waiting' = Waiting
  BY <1>1, DataUnchanged
<1>3. TypeOK' /\ StepControl' /\ PanicNeedsMisuse'
  BY DEF BatchInv, TypeOK, StepControl, PanicNeedsMisuse, EndSchedule
<1>4. RequestsAdvance'
  BY <1>2 DEF BatchInv, RequestsAdvance, EndSchedule
<1> QED
  BY <1>2, <1>3, <1>4 DEF BatchInv

LEMMA ForwardFailsInv == ASSUME BatchInv, NEW i \in Id, ForwardFails(i) PROVE BatchInv'
<1>1. UNCHANGED <<requests, kv_caches, running, waiting, completed, submitted, misused>>
  BY DEF ForwardFails
<1>2. /\ OnlySubmitted' /\ QueueIsKnown' /\ EachRequestInOnePlace' /\ CachesAreIsolated'
      /\ Capacity' /\ WithinBudget' /\ Known' = Known /\ Waiting' = Waiting
  BY <1>1, DataUnchanged
<1>3. TypeOK' /\ StepControl' /\ PanicNeedsMisuse'
  BY DEF BatchInv, TypeOK, StepControl, PanicNeedsMisuse, ForwardFails
<1>4. RequestsAdvance'
  BY <1>2 DEF BatchInv, RequestsAdvance, ForwardFails
<1> QED
  BY <1>2, <1>3, <1>4 DEF BatchInv

(* The arithmetic of the cache: a request that still has a token to feed   *)
(* has room for it, unless it asked for no tokens at all.                  *)
LEMMA RoomToFeed ==
  ASSUME BatchInv, NEW i \in todo, CacheFull(i)
  PROVE  requests[i].max_tokens = 0 /\ IsPrefillComplete(requests[i])
<1> DEFINE r == requests[i]
<1>1. i \in running /\ i \in running \ to_complete
  BY DEF BatchInv, StepControl
<1>2. /\ r \in RequestContext /\ WithinBounds(r)
      /\ Len(kv_caches[i].fed) = r.prompt_pos + Len(r.generated_tokens)
      /\ kv_caches[i].max_seq = Len(r.prompt_tokens) + r.max_tokens
  BY <1>1, RunningFacts, HistoryLength
<1>3. /\ Len(r.prompt_tokens) \in Nat /\ r.prompt_pos \in Nat
      /\ Len(r.generated_tokens) \in Nat /\ r.max_tokens \in Nat
  BY <1>2, RequestFields
<1>4. Len(r.prompt_tokens) + r.max_tokens <= r.prompt_pos + Len(r.generated_tokens)
  BY <1>2, <1>3 DEF CacheFull
<1>5. r.prompt_pos <= Len(r.prompt_tokens)
  BY <1>2 DEF WithinBounds
<1>6. r.max_tokens = 0 \/ Len(r.generated_tokens) < r.max_tokens
  BY <1>1 DEF BatchInv, RequestsAdvance
<1>7. Len(r.generated_tokens) <= r.max_tokens
  BY <1>1, RunningFacts DEF BatchInv, WithinBudget
<1> HIDE DEF r
<1>8. r.max_tokens = 0 /\ r.prompt_pos >= Len(r.prompt_tokens)
  BY <1>3, <1>4, <1>5, <1>6, <1>7
<1> QED
  BY <1>8 DEF r, IsPrefillComplete

LEMMA ForwardOverrunsInv == ASSUME BatchInv, NEW i \in Id, ForwardOverruns(i) PROVE BatchInv'
<1>1. UNCHANGED <<requests, kv_caches, running, waiting, completed, submitted, misused>>
  BY DEF ForwardOverruns, Panic
<1>2. /\ OnlySubmitted' /\ QueueIsKnown' /\ EachRequestInOnePlace' /\ CachesAreIsolated'
      /\ Capacity' /\ WithinBudget' /\ Known' = Known /\ Waiting' = Waiting
  BY <1>1, DataUnchanged
<1>3. TypeOK' /\ StepControl'
  BY DEF BatchInv, TypeOK, StepControl, ForwardOverruns, Panic
<1>4. RequestsAdvance'
  BY <1>2 DEF BatchInv, RequestsAdvance, ForwardOverruns, Panic
<1>5. PanicNeedsMisuse'
  <2>1. i \in running /\ requests[i].max_tokens = 0
    BY RoomToFeed DEF ForwardOverruns, BatchInv, StepControl
  <2> QED
    BY <2>1, <1>1 DEF PanicNeedsMisuse
<1> QED
  BY <1>2, <1>3, <1>4, <1>5 DEF BatchInv

LEMMA StutterInv == ASSUME BatchInv, UNCHANGED vars PROVE BatchInv'
<1>1. /\ OnlySubmitted' /\ QueueIsKnown' /\ EachRequestInOnePlace' /\ CachesAreIsolated'
      /\ Capacity' /\ WithinBudget' /\ Known' = Known /\ Waiting' = Waiting
  BY DataUnchanged DEF vars
<1>2. TypeOK' /\ StepControl' /\ PanicNeedsMisuse'
  BY DEF BatchInv, TypeOK, StepControl, PanicNeedsMisuse, vars
<1>3. RequestsAdvance'
  BY <1>1 DEF BatchInv, RequestsAdvance, vars
<1> QED
  BY <1>1, <1>2, <1>3 DEF BatchInv

LEMMA InitInv == Init => BatchInv
<1> SUFFICES ASSUME Init PROVE BatchInv
  OBVIOUS
<1>1. Known = {} /\ Waiting = {}
  BY DEF Init, Known, Waiting
<1>2. TypeOK /\ StepControl
  BY EmptySeq DEF Init, TypeOK, StepControl
<1>3. Cardinality(running) <= max_batch_size
  BY FS_EmptySet, BatchAssumption DEF Init
<1>4. CachesAreIsolated
  BY <1>3 DEF Init, CachesAreIsolated
<1> QED
  BY <1>1, <1>2, <1>4
     DEF Init, BatchInv, OnlySubmitted, QueueIsKnown, EachRequestInOnePlace, NoRequestLost,
         NeverInTwoPlaces, Capacity, RequestsAdvance, WithinBudget, PanicNeedsMisuse

-----------------------------------------------------------------------------
(* The client's calls *)

LEMMA FewerRunning ==
  ASSUME BatchInv, NEW R, R \subseteq running
  PROVE  Cardinality(R) <= max_batch_size
<1>1. IsFiniteSet(running)
  BY IdAssumption, FS_Subset DEF BatchInv, TypeOK
<1>2. IsFiniteSet(R) /\ Cardinality(R) <= Cardinality(running)
  BY <1>1, FS_Subset
<1>3. Cardinality(R) \in Nat /\ Cardinality(running) \in Nat
  BY <1>1, <1>2, FS_CardinalityType
<1>4. Cardinality(running) <= max_batch_size
  BY DEF BatchInv, CachesAreIsolated
<1> QED
  BY <1>2, <1>3, <1>4, BatchAssumption

(* The requests and caches of the ids in Gone are dropped, and with them   *)
(* their places in the batch and in `completed`: remove_request and        *)
(* clear_completed.                                                        *)
LEMMA ForgetInv ==
  ASSUME BatchInv, NEW Gone \in SUBSET Id, pc = "idle",
         requests' = [i \in Id |-> IF i \in Gone THEN Absent ELSE requests[i]],
         kv_caches' = [i \in Id |-> IF i \in Gone THEN Absent ELSE kv_caches[i]],
         running' = running \ Gone,
         completed' \subseteq completed, completed \ completed' \subseteq Gone,
         misused' = (misused \/ Gone \cap Waiting # {}),
         UNCHANGED <<waiting, pc, todo, to_complete, submitted>>
  PROVE  BatchInv'
<1>1. /\ Known' = Known \ Gone /\ Waiting' = Waiting /\ submitted' = submitted
      /\ \A i \in Id \ Gone : requests'[i] = requests[i] /\ kv_caches'[i] = kv_caches[i]
      /\ \A i \in Gone : kv_caches'[i] = Absent
  BY DEF Known, Waiting
<1>2. TypeOK'
  BY DEF BatchInv, TypeOK
<1>3. StepControl'
  BY DEF BatchInv, StepControl
<1>4. OnlySubmitted' /\ QueueIsKnown'
  BY <1>1 DEF BatchInv, OnlySubmitted, QueueIsKnown
<1>5. EachRequestInOnePlace'
  BY <1>1 DEF BatchInv, EachRequestInOnePlace, NoRequestLost, NeverInTwoPlaces
<1>6. CachesAreIsolated'
  <2>1. Cardinality(running') <= max_batch_size
    BY FewerRunning
  <2>2. ASSUME NEW i \in running'
        PROVE  /\ i \in Known' /\ kv_caches'[i] # Absent
               /\ kv_caches'[i].fed = History(requests'[i])
               /\ Len(kv_caches'[i].fed) <= kv_caches'[i].max_seq
    BY <2>2, <1>1 DEF BatchInv, CachesAreIsolated, TypeOK
  <2>3. ASSUME NEW i \in Id, kv_caches'[i] # Absent PROVE i \in Known' \ Waiting'
    BY <2>3, <1>1 DEF BatchInv, CachesAreIsolated
  <2> QED
    BY <2>1, <2>2, <2>3 DEF CachesAreIsolated
<1>7. Capacity'
  BY <1>1 DEF BatchInv, Capacity, TypeOK
<1>8. RequestsAdvance'
  BY <1>1 DEF BatchInv, RequestsAdvance, Known, TypeOK
<1>9. WithinBudget' /\ PanicNeedsMisuse'
  BY <1>1 DEF BatchInv, WithinBudget, PanicNeedsMisuse, Known
<1> QED
  BY <1>2, <1>3, <1>4, <1>5, <1>6, <1>7, <1>8, <1>9 DEF BatchInv

LEMMA RemoveRequestInv == ASSUME BatchInv, NEW i \in Id, RemoveRequest(i) PROVE BatchInv'
<1>1. /\ requests' = [j \in Id |-> IF j \in {i} THEN Absent ELSE requests[j]]
      /\ kv_caches' = [j \in Id |-> IF j \in {i} THEN Absent ELSE kv_caches[j]]
  BY DEF BatchInv, TypeOK, RemoveRequest
<1>2. misused' = (misused \/ {i} \cap Waiting # {})
  BY DEF RemoveRequest
<1> QED
  BY <1>1, <1>2, ForgetInv DEF RemoveRequest

LEMMA ClearCompletedInv == ASSUME BatchInv, ClearCompleted PROVE BatchInv'
<1>1. running \ completed = running /\ completed \cap Waiting = {} /\ completed \subseteq Id
  BY DEF BatchInv, TypeOK, EachRequestInOnePlace, NeverInTwoPlaces
<1>2. misused' = (misused \/ completed \cap Waiting # {})
  BY <1>1 DEF ClearCompleted, BatchInv, TypeOK
<1> QED
  BY <1>1, <1>2, ForgetInv DEF ClearCompleted

LEMMA AddRequestInv ==
  ASSUME BatchInv, NEW i \in Id, NEW s \in Submission, AddRequest(i, s) PROVE BatchInv'
<1> DEFINE r == NewRequest(s)
<1>1. /\ r \in RequestContext /\ r.prompt_pos = 0 /\ r.generated_tokens = <<>>
      /\ Len(r.prompt_tokens) \in Nat /\ r.max_tokens \in Nat
  <2>1. /\ s.prompt_tokens \in Seq(Nat) /\ s.max_tokens \in Nat /\ s.priority \in Priority
    BY SubmissionAssumption
  <2>2. r \in RequestContext
    BY <2>1, EmptySeq DEF NewRequest, RequestContext, RequestState
  <2> QED
    BY <2>2, RequestFields DEF NewRequest
<1>2. i \notin submitted /\ i \notin Known /\ i \notin Waiting /\ i \notin running
      /\ i \notin completed
  BY DEF AddRequest, BatchInv, OnlySubmitted
<1>4. submitted' = submitted \cup {i}
  BY DEF AddRequest
<1>5. /\ waiting' \in Seq(Id) /\ Waiting' = Waiting \cup {i} /\ Distinct(waiting')
  <2>1. Waiting' = Elems(waiting')
    BY DEF Waiting, Elems
  <2> QED
    BY <2>1, <1>2, QueueFacts, QueueGrows DEF AddRequest
<1>6. /\ requests'[i] = r
      /\ \A j \in Id \ {i} : requests'[j] = requests[j]
      /\ Known' = Known \cup {i}
  BY <1>1, IdAssumption DEF AddRequest, BatchInv, TypeOK, Known
<1>7. TypeOK'
  <2>1. requests' \in [Id -> RequestContext \cup {Absent}]
    BY <1>1 DEF AddRequest, BatchInv, TypeOK
  <2>2. submitted' \subseteq Id
    BY <1>4 DEF BatchInv, TypeOK
  <2> QED
    BY <2>1, <2>2, <1>5 DEF AddRequest, BatchInv, TypeOK
<1> HIDE DEF r
<1>8. StepControl' /\ PanicNeedsMisuse'
  BY DEF AddRequest, BatchInv, StepControl, PanicNeedsMisuse
<1>9. OnlySubmitted' /\ QueueIsKnown'
  BY <1>4, <1>5, <1>6 DEF AddRequest, BatchInv, OnlySubmitted, QueueIsKnown
<1>10. EachRequestInOnePlace'
  BY <1>2, <1>5, <1>6
     DEF AddRequest, BatchInv, EachRequestInOnePlace, NoRequestLost, NeverInTwoPlaces, Distinct
<1>11. CachesAreIsolated'
  <2>1. ASSUME NEW j \in running'
        PROVE  /\ j \in Known' /\ kv_caches'[j] # Absent
               /\ kv_caches'[j].fed = History(requests'[j])
               /\ Len(kv_caches'[j].fed) <= kv_caches'[j].max_seq
    BY <2>1, <1>2, <1>6 DEF AddRequest, BatchInv, CachesAreIsolated, TypeOK
  <2>2. ASSUME NEW j \in Id, kv_caches'[j] # Absent PROVE j \in Known' \ Waiting'
    BY <2>2, <1>2, <1>5, <1>6 DEF AddRequest, BatchInv, CachesAreIsolated
  <2> QED
    BY <2>1, <2>2 DEF AddRequest, BatchInv, CachesAreIsolated
<1>12. Capacity'
  BY <1>2, <1>6 DEF AddRequest, BatchInv, Capacity, TypeOK
<1>13. RequestsAdvance'
  <2>1. WithinBounds(r)
    BY <1>1 DEF WithinBounds
  <2>2. \A j \in Known' : WithinBounds(requests'[j])
    BY <2>1, <1>6 DEF BatchInv, RequestsAdvance, Known
  <2>3. \A j \in Known' \cap Waiting' :
          requests'[j].prompt_pos = 0 /\ requests'[j].generated_tokens = <<>>
    BY <1>1, <1>5, <1>6 DEF BatchInv, RequestsAdvance, Known
  <2>4. \A j \in running' \ to_complete' :
          requests'[j].max_tokens = 0
          \/ Len(requests'[j].generated_tokens) < requests'[j].max_tokens
    BY <1>2, <1>6 DEF AddRequest, BatchInv, RequestsAdvance, TypeOK
  <2> QED
    BY <2>2, <2>3, <2>4 DEF RequestsAdvance
<1>14. WithinBudget'
  <2>1. Len(r.generated_tokens) = 0
    BY <1>1, EmptySeq
  <2> QED
    BY <2>1, <1>1, <1>6 DEF BatchInv, WithinBudget, Known
<1> QED
  BY <1>7, <1>8, <1>9, <1>10, <1>11, <1>12, <1>13, <1>14 DEF BatchInv

-----------------------------------------------------------------------------
(* A request moves from the queue into the batch. *)
LEMMA AdmitInv == ASSUME BatchInv, Admit PROVE BatchInv'
<1> DEFINE i == Head(waiting)
           r == requests[i]
           q == [r EXCEPT !.state = "Running"]
<1>1. /\ waiting # <<>> /\ i \in Known /\ i \in Waiting /\ i \in Id
      /\ i \notin running /\ i \notin completed /\ pc = "schedule"
  BY QueueFacts, QueueShrinks
     DEF Admit, BatchInv, EachRequestInOnePlace, NeverInTwoPlaces, Known
<1>2. /\ r \in RequestContext /\ q \in RequestContext
      /\ r.prompt_pos = 0 /\ r.generated_tokens = <<>>
      /\ History(q) = <<>>
  <2>1. r \in RequestContext
    BY <1>1, EntryTypes DEF BatchInv, Known
  <2>2. r.prompt_pos = 0 /\ r.generated_tokens = <<>>
    BY <1>1 DEF BatchInv, RequestsAdvance
  <2>3. "Running" \in RequestState
    BY DEF RequestState
  <2> QED
    BY <2>1, <2>2, <2>3, FreshHistory, HistoryIgnoresState
<1>3. /\ q.prompt_tokens = r.prompt_tokens /\ q.prompt_pos = r.prompt_pos
      /\ q.generated_tokens = r.generated_tokens /\ q.max_tokens = r.max_tokens
  BY <1>2 DEF RequestContext
<1>4. kv_caches[i] = Absent
  BY <1>1 DEF BatchInv, CachesAreIsolated
<1>5. /\ waiting' \in Seq(Id) /\ Distinct(waiting') /\ Waiting' = Waiting \ {i}
  <2>1. Waiting' = Elems(waiting')
    BY DEF Waiting, Elems
  <2> QED
    BY <2>1, <1>1, QueueFacts, QueueShrinks DEF Admit
<1>6. /\ requests' = [requests EXCEPT ![i] = q]
      /\ kv_caches' = [kv_caches EXCEPT ![i] = NewCache(r)]
  BY <1>1, <1>4 DEF Admit, BatchInv, TypeOK
<1>7. /\ NewCache(r) \in KVCache /\ NewCache(r).fed = <<>>
      /\ NewCache(r).max_seq = Len(r.prompt_tokens) + r.max_tokens
  BY <1>2, RequestFields, EmptySeq DEF NewCache, KVCache
<1>8. /\ requests'[i] = q /\ kv_caches'[i] = NewCache(r)
      /\ \A j \in Id \ {i} : requests'[j] = requests[j] /\ kv_caches'[j] = kv_caches[j]
  BY <1>1, <1>6 DEF BatchInv, TypeOK
<1>9. running' = running \cup {i} /\ Known' = Known /\ submitted' = submitted
  BY <1>1, <1>2, <1>8, IdAssumption DEF Admit, Known
<1>10. UNCHANGED <<completed, pc, todo, to_complete, submitted, misused>>
  BY DEF Admit
<1>11. TypeOK'
  <2>1. requests' \in [Id -> RequestContext \cup {Absent}]
    BY <1>2, <1>6 DEF BatchInv, TypeOK
  <2>2. kv_caches' \in [Id -> KVCache \cup {Absent}]
    BY <1>6, <1>7 DEF BatchInv, TypeOK
  <2> QED
    BY <2>1, <2>2, <1>1, <1>5, <1>9, <1>10 DEF BatchInv, TypeOK
<1> HIDE DEF q, r, i
<1>12. StepControl' /\ PanicNeedsMisuse'
  BY <1>1, <1>9, <1>10 DEF BatchInv, StepControl, PanicNeedsMisuse
<1>13. OnlySubmitted' /\ QueueIsKnown'
  BY <1>1, <1>5, <1>9, <1>10 DEF BatchInv, OnlySubmitted, QueueIsKnown
<1>14. EachRequestInOnePlace'
  BY <1>1, <1>5, <1>9, <1>10
     DEF BatchInv, EachRequestInOnePlace, NoRequestLost, NeverInTwoPlaces, Distinct
<1>15. CachesAreIsolated'
  <2>1. Cardinality(running') <= max_batch_size
    <3>1. IsFiniteSet(running)
      BY IdAssumption, FS_Subset DEF BatchInv, TypeOK
    <3>2. Cardinality(running') = Cardinality(running) + 1 /\ Cardinality(running) \in Nat
      BY <3>1, <1>1, <1>9, FS_AddElement, FS_CardinalityType
    <3>3. Cardinality(running) < max_batch_size
      BY DEF Admit, HasRoom
    <3> QED
      BY <3>2, <3>3, BatchAssumption
  <2>2. ASSUME NEW j \in running'
        PROVE  /\ j \in Known' /\ kv_caches'[j] # Absent
               /\ kv_caches'[j].fed = History(requests'[j])
               /\ Len(kv_caches'[j].fed) <= kv_caches'[j].max_seq
    <3>1. CASE j = i
      <4>1. Len(<<>>) <= Len(r.prompt_tokens) + r.max_tokens
        BY <1>2, RequestFields
      <4> QED
        BY <3>1, <4>1, <1>1, <1>2, <1>7, <1>8, <1>9, IdAssumption
    <3>2. CASE j # i
      BY <3>2, <2>2, <1>8, <1>9 DEF BatchInv, CachesAreIsolated, TypeOK
    <3> QED
      BY <3>1, <3>2
  <2>3. ASSUME NEW j \in Id, kv_caches'[j] # Absent PROVE j \in Known' \ Waiting'
    BY <2>3, <1>1, <1>5, <1>8, <1>9 DEF BatchInv, CachesAreIsolated
  <2> QED
    BY <2>1, <2>2, <2>3 DEF CachesAreIsolated
<1>16. Capacity'
  BY <1>3, <1>7, <1>8, <1>9 DEF BatchInv, Capacity, TypeOK
<1>17. RequestsAdvance'
  <2>1. WithinBounds(q)
    BY <1>2, <1>3, RequestFields DEF WithinBounds
  <2>2. \A j \in Known' : WithinBounds(requests'[j])
    BY <2>1, <1>8, <1>9 DEF BatchInv, RequestsAdvance, Known
  <2>3. \A j \in Known' \cap Waiting' :
          requests'[j].prompt_pos = 0 /\ requests'[j].generated_tokens = <<>>
    BY <1>5, <1>8, <1>9 DEF BatchInv, RequestsAdvance, Known
  <2>4. Len(q.generated_tokens) = 0 /\ q.max_tokens \in Nat
    BY <1>2, <1>3, EmptySeq, RequestFields
  <2>5. ASSUME NEW j \in running' \ to_complete'
        PROVE  \/ requests'[j].max_tokens = 0
               \/ Len(requests'[j].generated_tokens) < requests'[j].max_tokens
    <3>1. CASE j = i
      BY <3>1, <2>4, <1>8
    <3>2. CASE j # i
      BY <3>2, <1>8, <1>9, <1>10 DEF BatchInv, RequestsAdvance, TypeOK
    <3> QED
      BY <3>1, <3>2
  <2> QED
    BY <2>2, <2>3, <2>5 DEF RequestsAdvance
<1>18. WithinBudget'
  <2>1. Len(q.generated_tokens) = 0 /\ q.max_tokens \in Nat
    BY <1>2, <1>3, EmptySeq, RequestFields
  <2> QED
    BY <2>1, <1>8, <1>9 DEF BatchInv, WithinBudget, Known
<1> QED
  BY <1>11, <1>12, <1>13, <1>14, <1>15, <1>16, <1>17, <1>18 DEF BatchInv

-----------------------------------------------------------------------------
(* An iteration of the batch loop replaces one request and extends its     *)
(* cache; Fed(i, q) is what is common to a prompt token and a decode.      *)
Fed(i, q) ==
  /\ pc = "batch" /\ i \in todo
  /\ ~CacheFull(i)
  /\ kv_caches' = Feed(i)
  /\ requests' = [requests EXCEPT ![i] = q]
  /\ todo' = todo \ {i}
  /\ to_complete' \in {to_complete, to_complete \cup {i}}
  /\ UNCHANGED <<running, waiting, completed, pc, submitted, misused>>

LEMMA FedInv ==
  ASSUME BatchInv, NEW i \in Id, NEW q \in RequestContext, Fed(i, q),
         NextInput(requests[i]) \in Token,
         WithinBounds(q),
         History(q) = Append(History(requests[i]), NextInput(requests[i])),
         q.prompt_tokens = requests[i].prompt_tokens,
         q.max_tokens = requests[i].max_tokens,
         Len(q.generated_tokens) <= q.max_tokens,
         \/ i \in to_complete'
         \/ q.max_tokens = 0
         \/ Len(q.generated_tokens) < q.max_tokens
  PROVE  BatchInv'
<1> DEFINE c == kv_caches[i]
           d == [c EXCEPT !.fed = Append(@, NextInput(requests[i]))]
<1>1. /\ i \in running /\ i \in Known /\ i \notin to_complete
      /\ c \in KVCache /\ c.fed = History(requests[i])
      /\ c.max_seq = Len(requests[i].prompt_tokens) + requests[i].max_tokens
  <2>1. i \in running /\ i \notin to_complete
    BY DEF Fed, BatchInv, StepControl
  <2> QED
    BY <2>1, RunningFacts
<1>2. i \notin Waiting /\ i \notin completed
  BY <1>1 DEF BatchInv, EachRequestInOnePlace, NeverInTwoPlaces
<1>3. /\ d \in KVCache /\ d.max_seq = c.max_seq
      /\ d.fed = Append(c.fed, NextInput(requests[i]))
      /\ Len(d.fed) <= d.max_seq
  <2>1. /\ c.fed \in Seq(Token) /\ c.max_seq \in Nat /\ Len(c.fed) \in Nat
    BY <1>1, LenProperties DEF KVCache
  <2>2. /\ Append(c.fed, NextInput(requests[i])) \in Seq(Token)
        /\ Len(Append(c.fed, NextInput(requests[i]))) = Len(c.fed) + 1
    BY <2>1, AppendProperties
  <2>3. ~(Len(c.fed) >= c.max_seq)
    BY DEF Fed, CacheFull
  <2>4. /\ d \in KVCache /\ d.max_seq = c.max_seq
        /\ d.fed = Append(c.fed, NextInput(requests[i]))
    BY <1>1, <2>2 DEF KVCache
  <2> QED
    BY <2>1, <2>2, <2>3, <2>4
<1>4. /\ requests' = [requests EXCEPT ![i] = q] /\ kv_caches' = [kv_caches EXCEPT ![i] = d]
  BY DEF Fed, Feed
<1>5. /\ requests'[i] = q /\ kv_caches'[i] = d
      /\ \A j \in Id \ {i} : requests'[j] = requests[j] /\ kv_caches'[j] = kv_caches[j]
  BY <1>4 DEF BatchInv, TypeOK
<1>6. /\ UNCHANGED <<running, waiting, completed, pc, submitted, misused>>
      /\ Known' = Known /\ Waiting' = Waiting /\ submitted' = submitted
  BY <1>1, <1>5, IdAssumption DEF Fed, Known, Waiting
<1>7. TypeOK'
  <2>1. requests' \in [Id -> RequestContext \cup {Absent}]
    BY <1>4 DEF BatchInv, TypeOK
  <2>2. kv_caches' \in [Id -> KVCache \cup {Absent}]
    BY <1>3, <1>4 DEF BatchInv, TypeOK
  <2> QED
    BY <2>1, <2>2, <1>6 DEF BatchInv, TypeOK, Fed
<1> HIDE DEF c, d
<1>8. StepControl'
  BY <1>1, <1>6 DEF BatchInv, StepControl, Fed
<1>9. PanicNeedsMisuse'
  BY <1>6 DEF PanicNeedsMisuse, Fed
<1>10. OnlySubmitted' /\ QueueIsKnown' /\ EachRequestInOnePlace'
  BY <1>6 DEF BatchInv, OnlySubmitted, QueueIsKnown, EachRequestInOnePlace, NoRequestLost,
              NeverInTwoPlaces
<1>11. CachesAreIsolated'
  <2>1. ASSUME NEW j \in running'
        PROVE  /\ j \in Known' /\ kv_caches'[j] # Absent
               /\ kv_caches'[j].fed = History(requests'[j])
               /\ Len(kv_caches'[j].fed) <= kv_caches'[j].max_seq
    <3>1. CASE j = i
      BY <3>1, <1>1, <1>3, <1>5, <1>6, IdAssumption
    <3>2. CASE j # i
      BY <3>2, <1>5, <1>6 DEF BatchInv, CachesAreIsolated, TypeOK
    <3> QED
      BY <3>1, <3>2
  <2>2. ASSUME NEW j \in Id, kv_caches'[j] # Absent PROVE j \in Known' \ Waiting'
    BY <2>2, <1>1, <1>2, <1>5, <1>6 DEF BatchInv, CachesAreIsolated
  <2>3. Cardinality(running') <= max_batch_size
    BY <1>6 DEF BatchInv, CachesAreIsolated
  <2> QED
    BY <2>1, <2>2, <2>3 DEF CachesAreIsolated
<1>12. Capacity'
  BY <1>1, <1>3, <1>5, <1>6 DEF BatchInv, Capacity, TypeOK
<1>13. RequestsAdvance'
  <2>1. \A j \in Known' : WithinBounds(requests'[j])
    BY <1>5, <1>6 DEF BatchInv, RequestsAdvance, Known
  <2>2. \A j \in Known' \cap Waiting' :
          requests'[j].prompt_pos = 0 /\ requests'[j].generated_tokens = <<>>
    BY <1>2, <1>5, <1>6 DEF BatchInv, RequestsAdvance, Known
  <2>3. ASSUME NEW j \in running' \ to_complete'
        PROVE  \/ requests'[j].max_tokens = 0
               \/ Len(requests'[j].generated_tokens) < requests'[j].max_tokens
    <3>1. CASE j = i
      BY <3>1, <2>3, <1>5
    <3>2. CASE j # i
      BY <3>2, <2>3, <1>5, <1>6 DEF BatchInv, RequestsAdvance, TypeOK, Fed
    <3> QED
      BY <3>1, <3>2
  <2> QED
    BY <2>1, <2>2, <2>3 DEF RequestsAdvance
<1>14. WithinBudget'
  BY <1>5, <1>6 DEF BatchInv, WithinBudget, Known
<1> QED
  BY <1>7, <1>8, <1>9, <1>10, <1>11, <1>12, <1>13, <1>14 DEF BatchInv

LEMMA PrefillInv == ASSUME BatchInv, NEW i \in Id, Prefill(i) PROVE BatchInv'
<1> DEFINE r == requests[i]
           q == AdvancePrompt(r)
<1>1. i \in running \ to_complete
  BY DEF Prefill, BatchInv, StepControl
<1>2. r \in RequestContext /\ WithinBounds(r) /\ i \in Known
  BY <1>1, RunningFacts
<1>3. ~IsPrefillComplete(r) /\ NextInput(r) \in Token
  BY DEF Prefill
<1>4. /\ q \in RequestContext /\ WithinBounds(q)
      /\ History(q) = Append(History(r), NextInput(r))
  BY <1>2, <1>3, PrefillHistory
<1>5. /\ q.prompt_tokens = r.prompt_tokens /\ q.max_tokens = r.max_tokens
      /\ q.generated_tokens = r.generated_tokens
  BY <1>2, <1>3 DEF AdvancePrompt, RequestContext
<1>6. /\ Len(r.generated_tokens) <= r.max_tokens
      /\ r.max_tokens = 0 \/ Len(r.generated_tokens) < r.max_tokens
  BY <1>1, <1>2 DEF BatchInv, WithinBudget, RequestsAdvance
<1>7. Fed(i, q)
  BY DEF Prefill, Fed, BatchInv, TypeOK
<1> HIDE DEF q
<1> QED
  BY <1>3, <1>4, <1>5, <1>6, <1>7, FedInv

(* A request that is decoded has tokens left to ask for: with none it      *)
(* would not have had room in its cache.                                   *)
LEMMA BudgetLeft ==
  ASSUME BatchInv, NEW i \in Id, NEW t \in Token, Decode(i, t)
  PROVE  Len(requests[i].generated_tokens) < requests[i].max_tokens
<1> DEFINE r == requests[i]
<1>1. i \in running \ to_complete
  BY DEF Decode, BatchInv, StepControl
<1>2. r.max_tokens # 0
  <2>1. /\ r \in RequestContext /\ WithinBounds(r)
        /\ kv_caches[i].fed = History(r)
        /\ kv_caches[i].max_seq = Len(r.prompt_tokens) + r.max_tokens
    BY <1>1, RunningFacts
  <2>2. Len(kv_caches[i].fed) = r.prompt_pos + Len(r.generated_tokens)
    BY <2>1, HistoryLength
  <2>3. ~(r.prompt_pos + Len(r.generated_tokens) >= Len(r.prompt_tokens) + r.max_tokens)
    BY <2>1, <2>2 DEF Decode, CacheFull
  <2>4. /\ r.prompt_pos >= Len(r.prompt_tokens) /\ r.prompt_pos \in Nat
        /\ Len(r.prompt_tokens) \in Nat /\ Len(r.generated_tokens) \in Nat
        /\ r.max_tokens \in Nat
    BY <2>1, RequestFields DEF Decode, IsPrefillComplete
  <2> HIDE DEF r
  <2> QED
    BY <2>3, <2>4
<1> QED
  BY <1>1, <1>2 DEF BatchInv, RequestsAdvance

LEMMA DecodeInv ==
  ASSUME BatchInv, NEW i \in Id, NEW t \in Token, Decode(i, t) PROVE BatchInv'
<1> DEFINE r == requests[i]
           g == AddGeneratedToken(r, t)
           f == [g EXCEPT !.state = "Finished"]
           q == IF IsComplete(g) THEN f ELSE g
<1>1. i \in todo /\ i \in running \ to_complete
  BY DEF Decode, BatchInv, StepControl
<1>2. r \in RequestContext /\ WithinBounds(r) /\ i \in Known
  BY <1>1, RunningFacts
<1>3. IsPrefillComplete(r) /\ NextInput(r) \in Token
  BY DEF Decode
<1>4. /\ g \in RequestContext /\ WithinBounds(g)
      /\ Len(g.generated_tokens) = Len(r.generated_tokens) + 1
      /\ History(g) = Append(History(r), NextInput(r))
  BY <1>2, <1>3, DecodeHistory
<1>5. g.prompt_tokens = r.prompt_tokens /\ g.max_tokens = r.max_tokens
  BY <1>2 DEF AddGeneratedToken, RequestContext
<1>6. /\ f \in RequestContext /\ History(f) = History(g)
      /\ f.prompt_tokens = g.prompt_tokens /\ f.max_tokens = g.max_tokens
      /\ f.prompt_pos = g.prompt_pos /\ f.generated_tokens = g.generated_tokens
  <2>1. "Finished" \in RequestState
    BY DEF RequestState
  <2>2. f \in RequestContext /\ History(f) = History(g)
    BY <2>1, <1>4, HistoryIgnoresState
  <2>3. /\ f.prompt_tokens = g.prompt_tokens /\ f.max_tokens = g.max_tokens
        /\ f.prompt_pos = g.prompt_pos /\ f.generated_tokens = g.generated_tokens
    BY <1>4 DEF RequestContext
  <2> QED
    BY <2>2, <2>3
<1>7. WithinBounds(f)
  BY <1>4, <1>6 DEF WithinBounds, IsPrefillComplete
<1>8. Len(r.generated_tokens) < r.max_tokens
  BY BudgetLeft
<1>9. /\ q \in RequestContext /\ WithinBounds(q)
      /\ History(q) = Append(History(r), NextInput(r))
      /\ q.prompt_tokens = r.prompt_tokens /\ q.max_tokens = r.max_tokens
      /\ q.generated_tokens = g.generated_tokens
  BY <1>4, <1>5, <1>6, <1>7
<1>10. Len(q.generated_tokens) <= q.max_tokens
  <2>1. /\ Len(r.generated_tokens) \in Nat /\ r.max_tokens \in Nat
    BY <1>2, RequestFields
  <2>2. /\ Len(q.generated_tokens) = Len(r.generated_tokens) + 1
        /\ q.max_tokens = r.max_tokens
    BY <1>4, <1>9
  <2> HIDE DEF q, r
  <2> QED
    BY <2>1, <2>2, <1>8
<1>11. i \in to_complete' \/ Len(q.generated_tokens) < q.max_tokens
  <2>1. CASE IsComplete(g)
    BY <2>1 DEF Decode
  <2>2. CASE ~IsComplete(g)
    <3>1. ~(Len(g.generated_tokens) >= g.max_tokens)
      BY <2>2 DEF IsComplete
    <3>2. Len(g.generated_tokens) \in Nat /\ g.max_tokens \in Nat
      BY <1>4, RequestFields
    <3>3. q.generated_tokens = g.generated_tokens /\ q.max_tokens = g.max_tokens
      BY <1>5, <1>9
    <3> HIDE DEF q, g
    <3> QED
      BY <3>1, <3>2, <3>3
  <2> QED
    BY <2>1, <2>2
<1>12. Fed(i, q)
  BY DEF Decode, Fed, BatchInv, TypeOK
<1> HIDE DEF q
<1> QED
  BY <1>3, <1>9, <1>10, <1>11, <1>12, FedInv

-----------------------------------------------------------------------------
LEMMA EndStepInv == ASSUME BatchInv, EndStep PROVE BatchInv'
<1>1. /\ running' \subseteq running /\ running' \cup completed' = running \cup completed
      /\ running' \cap completed' = {}
      /\ to_complete \subseteq running /\ to_complete' = {} /\ todo' = {}
  BY DEF EndStep, BatchInv, StepControl, EachRequestInOnePlace, NeverInTwoPlaces
<1>2. Known' = Known /\ Waiting' = Waiting /\ submitted' = submitted
  BY DEF EndStep, Known, Waiting
<1>3. TypeOK' /\ StepControl' /\ PanicNeedsMisuse'
  BY <1>1 DEF EndStep, BatchInv, TypeOK, StepControl, PanicNeedsMisuse
<1>4. OnlySubmitted' /\ QueueIsKnown'
  BY <1>1, <1>2 DEF EndStep, BatchInv, OnlySubmitted, QueueIsKnown
<1>5. EachRequestInOnePlace'
  BY <1>1, <1>2 DEF EndStep, BatchInv, EachRequestInOnePlace, NoRequestLost, NeverInTwoPlaces
<1>6. CachesAreIsolated'
  <2>1. Cardinality(running') <= max_batch_size
    BY <1>1, FewerRunning
  <2> QED
    BY <2>1, <1>1, <1>2 DEF EndStep, BatchInv, CachesAreIsolated
<1>7. Capacity' /\ WithinBudget'
  BY <1>1, <1>2 DEF EndStep, BatchInv, Capacity, WithinBudget
<1>8. RequestsAdvance'
  BY <1>1, <1>2 DEF EndStep, BatchInv, RequestsAdvance
<1> QED
  BY <1>3, <1>4, <1>5, <1>6, <1>7, <1>8 DEF BatchInv

LEMMA NextInv == BatchInv /\ [Next]_vars => BatchInv'
<1> SUFFICES ASSUME BatchInv, [Next]_vars PROVE BatchInv'
  OBVIOUS
<1>1. CASE Client
  BY <1>1, AddRequestInv, RemoveRequestInv, ClearCompletedInv DEF Client
<1>2. CASE Step
  BY <1>2, BeginStepInv, AdmitInv, AdmitUnknownInv, EndScheduleInv, EndStepInv,
     ForwardFailsInv, ForwardOverrunsInv, PrefillInv, DecodeInv DEF Step
<1>3. CASE UNCHANGED vars
  BY <1>3, StutterInv
<1> QED
  BY <1>1, <1>2, <1>3 DEF Next

-----------------------------------------------------------------------------
(* The strengthened invariant holds of every run of the batcher: every     *)
(* order of add_request, remove_request, clear_completed and step, with    *)
(* every outcome of the forward passes.                                    *)
THEOREM BatchInvariantHolds == SafeSpec => []BatchInv
BY InitInv, NextInv, PTL DEF SafeSpec

(* Every variable keeps its type (struct ContinuousBatcher).               *)
THEOREM BatcherTypeCorrect == SafeSpec => []TypeOK
<1>1. BatchInv => TypeOK
  BY DEF BatchInv
<1> QED
  BY <1>1, BatchInvariantHolds, PTL

(* The queue, the batch and the completed list partition the requests:     *)
(* none is lost and none is in two places (schedule, the end of step,      *)
(* remove_request, clear_completed).                                       *)
THEOREM RequestsArePartitioned == SafeSpec => []EachRequestInOnePlace
<1>1. BatchInv => EachRequestInOnePlace
  BY DEF BatchInv
<1> QED
  BY <1>1, BatchInvariantHolds, PTL

(* The batch stays within max_batch_size and each running request's cache  *)
(* holds exactly its own history, within its capacity (schedule, step).    *)
THEOREM CachesStayIsolated == SafeSpec => []CachesAreIsolated
<1>1. BatchInv => CachesAreIsolated
  BY DEF BatchInv
<1> QED
  BY <1>1, BatchInvariantHolds, PTL

(* No order of legal calls makes schedule's unwrap() fail or step overrun  *)
(* a cache.                                                                *)
THEOREM OnlyMisusePanics == SafeSpec => []PanicNeedsMisuse
<1>1. BatchInv => PanicNeedsMisuse
  BY DEF BatchInv
<1> QED
  BY <1>1, BatchInvariantHolds, PTL

(* No request ever holds more than max_tokens generated tokens (step).     *)
THEOREM BudgetIsKept == SafeSpec => []WithinBudget
<1>1. BatchInv => WithinBudget
  BY DEF BatchInv
<1> QED
  BY <1>1, BatchInvariantHolds, PTL

(* A completed request is final until it is collected: it never runs       *)
(* again and nothing but its removal touches it (the end of step).         *)
THEOREM CompletionIsFinal == SafeSpec => CompletedIsFinal
<1> DEFINE Final == \A i \in completed :
                      /\ i \notin running'
                      /\ requests'[i] \in {requests[i], Absent}
<1>1. ASSUME BatchInv, [Next]_vars PROVE Final
  <2> SUFFICES ASSUME NEW i \in completed
               PROVE  i \notin running' /\ requests'[i] \in {requests[i], Absent}
    OBVIOUS
  <2>1. /\ i \in Id /\ i \notin running /\ i \notin todo /\ i \in submitted
        /\ i \notin Waiting /\ requests \in [Id -> RequestContext \cup {Absent}]
    BY <1>1 DEF BatchInv, TypeOK, EachRequestInOnePlace, NeverInTwoPlaces, StepControl,
                OnlySubmitted
  <2>2. CASE Client
    BY <2>1, <2>2 DEF Client, AddRequest, RemoveRequest, ClearCompleted
  <2>3. CASE Admit
    <3>1. Head(waiting) \in Waiting
      BY <1>1, <2>3, QueueFacts, QueueShrinks DEF Admit
    <3> QED
      BY <2>1, <2>3, <3>1 DEF Admit
  <2>4. CASE BeginStep \/ AdmitUnknown \/ EndSchedule \/ EndStep
    BY <2>1, <2>4 DEF BeginStep, AdmitUnknown, Panic, EndSchedule, EndStep
  <2>5. ASSUME NEW j \in Id, \/ ForwardFails(j) \/ ForwardOverruns(j) \/ Prefill(j)
                             \/ \E token \in Token : Decode(j, token)
        PROVE  i \notin running' /\ requests'[i] \in {requests[i], Absent}
    BY <2>1, <2>5 DEF ForwardFails, ForwardOverruns, Panic, Prefill, Decode
  <2>6. CASE UNCHANGED vars
    BY <2>1, <2>6 DEF vars
  <2> QED
    BY <1>1, <2>2, <2>3, <2>4, <2>5, <2>6 DEF Next, Step
<1>2. BatchInv /\ [Next]_vars => [Final]_vars
  BY <1>1
<1> QED
  BY <1>2, BatchInvariantHolds, PTL DEF SafeSpec, CompletedIsFinal

-----------------------------------------------------------------------------
(* What the client sees *)

(* The two modules have one and the same library. *)
LEMMA SameCardinality == ASSUME NEW S PROVE Lifecycle!Cardinality(S) = Cardinality(S)
BY Zenon DEF Cardinality, Lifecycle!Cardinality

LEMMA SameView ==
  ASSUME UNCHANGED <<requests, running, waiting, submitted>>
  PROVE  UNCHANGED Lifecycle!vars
<1>1. Known' = Known /\ Waiting' = Waiting
  BY DEF Known, Waiting
<1> QED
  BY <1>1 DEF Lifecycle!vars, phase, budget, got

(* A request has one place, and its phase says which. *)
LEMMA Places ==
  ASSUME BatchInv
  PROVE  /\ Known \cup running \cup completed \subseteq submitted
         /\ running \subseteq Known /\ running \cap Waiting = {}
         /\ \A i \in Id : /\ phase[i] = "new" <=> i \notin submitted
                          /\ phase[i] = "waiting" <=> i \in Known \cap Waiting
                          /\ phase[i] = "running" <=> i \in running
<1>1. /\ Known \cup Waiting \cup running \cup completed \subseteq submitted
      /\ running \subseteq Known /\ running \cap Waiting = {} /\ running \subseteq Id
  BY DEF BatchInv, OnlySubmitted, TypeOK, CachesAreIsolated, EachRequestInOnePlace,
         NeverInTwoPlaces
<1>2. ASSUME NEW i \in Id
      PROVE  /\ phase[i] = "new" <=> i \notin submitted
             /\ phase[i] = "waiting" <=> i \in Known \cap Waiting
             /\ phase[i] = "running" <=> i \in running
  BY <1>1 DEF phase
<1> QED
  BY <1>1, <1>2

LEMMA LifecycleInit == Init => Lifecycle!Init
<1> SUFFICES ASSUME Init PROVE Lifecycle!Init
  OBVIOUS
<1>1. Known = {}
  BY DEF Init, Known
<1> QED
  BY <1>1 DEF Init, Lifecycle!Init, phase, budget, got

LEMMA SubmitStep ==
  ASSUME BatchInv, NEW i \in Id, NEW s \in Submission, AddRequest(i, s)
  PROVE  Lifecycle!Submit(i)
<1>3. /\ i \notin submitted /\ i \notin Known /\ i \notin Waiting /\ waiting \in Seq(Id)
      /\ requests \in [Id -> RequestContext \cup {Absent}]
  BY DEF AddRequest, BatchInv, TypeOK, OnlySubmitted
<1>4. Waiting' = Waiting \cup {i}
  <2>1. Waiting = Elems(waiting) /\ Distinct(waiting)
    BY QueueFacts
  <2>2. Elems(Append(waiting, i)) = Elems(waiting) \cup {i}
    BY <1>3, <2>1, QueueGrows
  <2>3. waiting' = Append(waiting, i)
    BY DEF AddRequest
  <2> QED
    BY <2>1, <2>2, <2>3 DEF Waiting, Elems
<1>5. NewRequest(s) # Absent /\ s.max_tokens \in Nat
  <2>1. s \in [prompt_tokens : Seq(Nat), max_tokens : Nat, priority : Priority]
    BY SubmissionAssumption
  <2>2. NewRequest(s) \in RequestContext
    BY <2>1, EmptySeq DEF NewRequest, RequestContext, RequestState
  <2> QED
    BY <2>1, <2>2, IdAssumption
<1>6. requests' = [requests EXCEPT ![i] = NewRequest(s)] /\ running' = running
  BY DEF AddRequest
<1>7. Known' = Known \cup {i}
  BY <1>3, <1>5, <1>6 DEF Known
<1>8. submitted' = submitted \cup {i}
  BY DEF AddRequest
<1>9. phase[i] = "new" /\ phase' = [phase EXCEPT ![i] = "waiting"]
  BY <1>3, <1>4, <1>6, <1>7, <1>8 DEF phase
<1>10. /\ budget'[i] = s.max_tokens
       /\ budget' = [budget EXCEPT ![i] = budget'[i]]
  <2>1. budget'[i] = s.max_tokens
    BY <1>3, <1>6, <1>7 DEF budget, NewRequest
  <2>2. \A j \in Id \ {i} : budget'[j] = budget[j]
    BY <1>3, <1>6, <1>7 DEF budget
  <2> QED
    BY <2>1, <2>2 DEF budget
<1>11. got' = got
  <2>1. got'[i] = 0 /\ got[i] = 0
    BY <1>3, <1>6, <1>7 DEF got, NewRequest
  <2>2. \A j \in Id \ {i} : got'[j] = got[j]
    BY <1>3, <1>6, <1>7 DEF got
  <2> QED
    BY <2>1, <2>2 DEF got
<1> QED
  BY <1>5, <1>9, <1>10, <1>11 DEF Lifecycle!Submit

LEMMA StartStep ==
  ASSUME BatchInv, Admit
  PROVE  Lifecycle!Start(Head(waiting))
<1> DEFINE i == Head(waiting)
<1>1. /\ waiting \in Seq(Id) /\ waiting # <<>> /\ i \in Known /\ i \in Id
      /\ waiting' = Tail(waiting) /\ running' = running \cup {i} /\ submitted' = submitted
      /\ requests' = [requests EXCEPT ![i].state = "Running"]
      /\ Cardinality(running) < max_batch_size
  BY DEF Admit, HasRoom, Known, BatchInv, TypeOK
<1>2. i \in Waiting /\ Waiting' = Waiting \ {i}
  <2>1. Waiting = Elems(waiting) /\ Distinct(waiting)
    BY QueueFacts
  <2>2. i \in Elems(waiting) /\ Elems(Tail(waiting)) = Elems(waiting) \ {i}
    BY <1>1, <2>1, QueueShrinks
  <2> QED
    BY <1>1, <2>1, <2>2 DEF Waiting, Elems
<1>4. Lifecycle!In("running") = running
  BY Places, <1>1 DEF Lifecycle!In, BatchInv, TypeOK
<1>5. Lifecycle!Cardinality(Lifecycle!In("running")) < max_batch_size
  BY <1>1, <1>4, SameCardinality
<1> HIDE DEF i
<1>7. requests[i] \in RequestContext
  BY <1>1, EntryTypes DEF BatchInv, Known
<1>8. /\ requests'[i] # Absent
      /\ requests'[i].max_tokens = requests[i].max_tokens
      /\ requests'[i].generated_tokens = requests[i].generated_tokens
      /\ \A j \in Id \ {i} : requests'[j] = requests[j]
  <2>1. requests'[i] = [requests[i] EXCEPT !.state = "Running"]
    BY <1>1 DEF BatchInv, TypeOK
  <2>2. requests'[i] \in RequestContext
    BY <1>7, <2>1, HistoryIgnoresState DEF RequestState
  <2>3. \A j \in Id \ {i} : requests'[j] = requests[j]
    BY <1>1 DEF BatchInv, TypeOK
  <2> QED
    BY <1>7, <2>1, <2>2, <2>3, IdAssumption DEF RequestContext
<1>9. Known' = Known
  BY <1>1, <1>8 DEF Known
<1>10. phase[i] = "waiting" /\ phase' = [phase EXCEPT ![i] = "running"]
  <2>1. phase[i] = "waiting" /\ i \in submitted
    BY <1>1, <1>2, Places
  <2>2. phase'[i] = "running"
    BY <1>1, <1>2, <1>9, <2>1 DEF phase
  <2>3. \A j \in Id \ {i} : phase'[j] = phase[j]
    BY <1>1, <1>2, <1>9 DEF phase
  <2> QED
    BY <2>1, <2>2, <2>3 DEF phase
<1>11. budget' = budget /\ got' = got
  BY <1>1, <1>8, <1>9 DEF budget, got
<1> QED
  BY <1>1, <1>5, <1>10, <1>11 DEF Lifecycle!Start, i

LEMMA PrefillView ==
  ASSUME BatchInv, NEW i \in Id, Prefill(i)
  PROVE  UNCHANGED Lifecycle!vars
<1>1. i \in running
  BY DEF Prefill, BatchInv, StepControl
<1>2. /\ requests[i] \in RequestContext /\ WithinBounds(requests[i])
      /\ requests \in [Id -> RequestContext \cup {Absent}] /\ i \in Known
  BY <1>1, RunningFacts DEF BatchInv, TypeOK
<1>3. /\ requests'[i] = AdvancePrompt(requests[i])
      /\ \A j \in Id \ {i} : requests'[j] = requests[j]
  BY <1>2 DEF Prefill
<1>4. AdvancePrompt(requests[i]) \in RequestContext
  BY <1>2, PrefillHistory DEF Prefill
<1>5. /\ requests'[i].max_tokens = requests[i].max_tokens
      /\ requests'[i].generated_tokens = requests[i].generated_tokens
  BY <1>2, <1>3 DEF AdvancePrompt, RequestContext
<1>6. Known' = Known
  BY <1>2, <1>3, <1>4, IdAssumption DEF Known
<1>7. running' = running /\ Waiting' = Waiting /\ submitted' = submitted
  BY DEF Prefill, Waiting
<1>8. phase' = phase
  BY <1>6, <1>7 DEF phase
<1>9. budget' = budget /\ got' = got
  BY <1>3, <1>5, <1>6 DEF budget, got
<1> QED
  BY <1>7, <1>8, <1>9 DEF Lifecycle!vars

LEMMA GiveStep ==
  ASSUME BatchInv, NEW i \in Id, NEW t \in Token, Decode(i, t)
  PROVE  Lifecycle!Give(i)
<1> DEFINE r == requests[i]
           g == AddGeneratedToken(r, t)
           q == IF IsComplete(g) THEN [g EXCEPT !.state = "Finished"] ELSE g
<1>1. i \in running
  BY DEF Decode, BatchInv, StepControl
<1>2. /\ r \in RequestContext /\ WithinBounds(r) /\ i \in Known
      /\ requests \in [Id -> RequestContext \cup {Absent}]
  BY <1>1, RunningFacts DEF BatchInv, TypeOK
<1>3. /\ g \in RequestContext /\ Len(g.generated_tokens) = Len(r.generated_tokens) + 1
      /\ g.max_tokens = r.max_tokens
  <2>1. IsPrefillComplete(r) /\ NextInput(r) \in Token
    BY DEF Decode
  <2>2. g.max_tokens = r.max_tokens
    BY <1>2 DEF AddGeneratedToken, RequestContext
  <2> QED
    BY <1>2, <2>1, <2>2, DecodeHistory
<1>4. /\ q \in RequestContext /\ q.generated_tokens = g.generated_tokens
      /\ q.max_tokens = g.max_tokens
  BY <1>3 DEF RequestContext, RequestState
<1>5. requests' = [requests EXCEPT ![i] = q]
  BY DEF Decode
<1> HIDE DEF q, g
<1>6. /\ requests'[i] = q /\ q # Absent
      /\ \A j \in Id \ {i} : requests'[j] = requests[j]
  BY <1>2, <1>4, <1>5, IdAssumption
<1>7. Known' = Known
  BY <1>2, <1>6 DEF Known
<1>8. running' = running /\ Waiting' = Waiting /\ submitted' = submitted
  BY DEF Decode, Waiting
<1>9. phase' = phase
  BY <1>7, <1>8 DEF phase
<1>10. budget' = budget
  BY <1>3, <1>4, <1>6, <1>7 DEF budget
<1>11. got[i] < budget[i]
  BY <1>2, BudgetLeft DEF got, budget
<1>12. got' = [got EXCEPT ![i] = @ + 1]
  <2>1. got'[i] = Len(r.generated_tokens) + 1 /\ got[i] = Len(r.generated_tokens)
    BY <1>2, <1>3, <1>4, <1>6, <1>7 DEF got
  <2>2. \A j \in Id \ {i} : got'[j] = got[j]
    BY <1>6, <1>7 DEF got
  <2> QED
    BY <2>1, <2>2 DEF got
<1>13. phase[i] = "running"
  BY <1>1, Places
<1> QED
  BY <1>8, <1>9, <1>10, <1>11, <1>12, <1>13 DEF Lifecycle!Give

(* What is marked as finished has all it asked for. *)
Full(r) == Len(r.generated_tokens) >= r.max_tokens
FinishedIsFull ==
  /\ \A i \in Known : requests[i].state = "Finished" => Full(requests[i])
  /\ \A i \in to_complete : Full(requests[i])

LEMMA FinishedDecode ==
  ASSUME BatchInv, FinishedIsFull, NEW i \in Id, NEW t \in Token, Decode(i, t)
  PROVE  FinishedIsFull'
<1> DEFINE r == requests[i]
           g == AddGeneratedToken(r, t)
           q == IF IsComplete(g) THEN [g EXCEPT !.state = "Finished"] ELSE g
<1>1. i \in running /\ i \notin to_complete
  BY DEF Decode, BatchInv, StepControl
<1>2. /\ r \in RequestContext /\ i \in Known
      /\ requests \in [Id -> RequestContext \cup {Absent}]
  BY <1>1, RunningFacts DEF BatchInv, TypeOK
<1>3. ~Full(r)
  <2>1. Len(r.generated_tokens) < r.max_tokens
    BY BudgetLeft
  <2>2. Len(r.generated_tokens) \in Nat /\ r.max_tokens \in Nat
    BY <1>2, RequestFields
  <2> HIDE DEF r
  <2> QED
    BY <2>1, <2>2 DEF Full
<1>4. g.state # "Finished"
  BY <1>2, <1>3 DEF FinishedIsFull, AddGeneratedToken, RequestContext
<1>5. g \in [prompt_tokens : Seq(Nat), prompt_pos : Nat, generated_tokens : {g.generated_tokens},
             max_tokens : Nat, priority : Priority, state : RequestState]
  BY <1>2 DEF AddGeneratedToken, RequestContext
<1>6. IsComplete(g) => Full(g)
  BY <1>4 DEF IsComplete, Full
<1>7. IF IsComplete(g) THEN Full(q) ELSE q.state # "Finished"
  <2>1. CASE IsComplete(g)
    BY <2>1, <1>5, <1>6 DEF Full
  <2>2. CASE ~IsComplete(g)
    BY <2>2, <1>4
  <2> QED
    BY <2>1, <2>2
<1>8. requests' = [requests EXCEPT ![i] = q]
  BY DEF Decode
<1>9. to_complete' = IF IsComplete(g) THEN to_complete \cup {i} ELSE to_complete
  BY DEF Decode
<1> HIDE DEF q, g
<1>10. requests'[i] = q /\ \A j \in Id \ {i} : requests'[j] = requests[j]
  BY <1>2, <1>8
<1>11. ASSUME NEW j \in Known', requests'[j].state = "Finished" PROVE Full(requests'[j])
  BY <1>7, <1>10, <1>11 DEF FinishedIsFull, Known
<1>12. ASSUME NEW j \in to_complete' PROVE Full(requests'[j])
  <2>1. j \in Id
    BY <1>9, <1>12 DEF BatchInv, TypeOK
  <2> QED
    BY <1>1, <1>7, <1>9, <1>10, <1>12, <2>1 DEF FinishedIsFull
<1> QED
  BY <1>11, <1>12 DEF FinishedIsFull, Full

LEMMA FinishedNext == BatchInv /\ FinishedIsFull /\ [Next]_vars => FinishedIsFull'
<1> SUFFICES ASSUME BatchInv, FinishedIsFull, [Next]_vars PROVE FinishedIsFull'
  OBVIOUS
<1>1. requests \in [Id -> RequestContext \cup {Absent}] /\ to_complete \subseteq Id
  BY DEF BatchInv, TypeOK
<1>2. pc \in {"idle", "schedule"} => to_complete = {}
  BY DEF BatchInv, StepControl
<1>3. CASE UNCHANGED <<requests, to_complete>>
  BY <1>3 DEF FinishedIsFull, Full, Known
<1>4. ASSUME NEW i \in Id, NEW s \in Submission, AddRequest(i, s) PROVE FinishedIsFull'
  <2>1. requests'[i].state = "Waiting" /\ \A j \in Id \ {i} : requests'[j] = requests[j]
    BY <1>1, <1>4 DEF AddRequest, NewRequest
  <2>2. to_complete' = {}
    BY <1>2, <1>4 DEF AddRequest
  <2> QED
    BY <2>1, <2>2 DEF FinishedIsFull, Full, Known
<1>5. ASSUME \A j \in Id : requests'[j] \in {requests[j], Absent}, to_complete' = {}
      PROVE  FinishedIsFull'
  BY <1>5 DEF FinishedIsFull, Full, Known
<1>6. ASSUME NEW i \in Id, RemoveRequest(i) PROVE FinishedIsFull'
  BY <1>1, <1>2, <1>5, <1>6 DEF RemoveRequest
<1>7. CASE ClearCompleted
  BY <1>1, <1>2, <1>5, <1>7 DEF ClearCompleted
<1>8. CASE EndStep
  BY <1>5, <1>8 DEF EndStep
<1>9. CASE Admit
  <2> DEFINE i == Head(waiting)
  <2>1. i \in Id /\ requests[i] \in RequestContext
    BY <1>9, EntryTypes DEF Admit, Known, BatchInv
  <2>2. requests'[i].state = "Running" /\ \A j \in Id \ {i} : requests'[j] = requests[j]
    BY <1>1, <1>9, <2>1 DEF Admit, RequestContext
  <2>3. to_complete' = {}
    BY <1>2, <1>9 DEF Admit
  <2> HIDE DEF i
  <2> QED
    BY <2>1, <2>2, <2>3 DEF FinishedIsFull, Full, Known
<1>10. ASSUME NEW i \in Id, Prefill(i) PROVE FinishedIsFull'
  <2>1. i \in running /\ i \notin to_complete
    BY <1>10 DEF Prefill, BatchInv, StepControl
  <2>2. requests[i] \in RequestContext /\ i \in Known
    BY <2>1, RunningFacts
  <2>3. /\ requests'[i] = AdvancePrompt(requests[i])
        /\ \A j \in Id \ {i} : requests'[j] = requests[j]
        /\ to_complete' = to_complete
    BY <1>1, <1>10 DEF Prefill
  <2>4. /\ requests'[i].state = requests[i].state
        /\ requests'[i].max_tokens = requests[i].max_tokens
        /\ requests'[i].generated_tokens = requests[i].generated_tokens
    BY <2>2, <2>3 DEF AdvancePrompt, RequestContext
  <2> QED
    BY <1>1, <2>1, <2>2, <2>3, <2>4 DEF FinishedIsFull, Full, Known
<1>11. CASE BeginStep \/ AdmitUnknown \/ EndSchedule
  BY <1>3, <1>11 DEF BeginStep, AdmitUnknown, Panic, EndSchedule
<1>12. ASSUME NEW i \in Id, ForwardFails(i) \/ ForwardOverruns(i) PROVE FinishedIsFull'
  BY <1>3, <1>12 DEF ForwardFails, ForwardOverruns, Panic
<1>13. CASE Client
  BY <1>4, <1>6, <1>7, <1>13 DEF Client
<1>14. CASE Step
  BY <1>8, <1>9, <1>10, <1>11, <1>12, <1>14, FinishedDecode DEF Step
<1>15. CASE UNCHANGED vars
  BY <1>3, <1>15 DEF vars
<1> QED
  BY <1>13, <1>14, <1>15 DEF Next

LEMMA CompleteStep ==
  ASSUME BatchInv, FinishedIsFull, EndStep
  PROVE  Lifecycle!Complete(to_complete)
<1>1. /\ to_complete \subseteq running /\ running' = running \ to_complete
      /\ requests' = requests /\ Waiting' = Waiting /\ submitted' = submitted
  BY DEF EndStep, BatchInv, StepControl, Waiting
<1>2. Known' = Known
  BY <1>1 DEF Known
<1>3. ASSUME NEW i \in to_complete PROVE phase[i] = "running" /\ got[i] = budget[i]
  <2>1. i \in Id /\ i \in Known /\ i \in running /\ requests[i] \in RequestContext
    BY <1>1, RunningFacts
  <2>2. /\ Len(requests[i].generated_tokens) \in Nat /\ requests[i].max_tokens \in Nat
        /\ Len(requests[i].generated_tokens) <= requests[i].max_tokens
        /\ Len(requests[i].generated_tokens) >= requests[i].max_tokens
    BY <2>1, RequestFields DEF BatchInv, WithinBudget, FinishedIsFull, Full
  <2>3. Len(requests[i].generated_tokens) = requests[i].max_tokens
    BY <2>2
  <2> QED
    BY <2>1, <2>3, Places DEF got, budget
<1>4. phase' = [i \in Id |-> IF i \in to_complete THEN "completed" ELSE phase[i]]
  <2>1. ASSUME NEW i \in Id
        PROVE  phase'[i] = IF i \in to_complete THEN "completed" ELSE phase[i]
    <3>1. i \in to_complete => i \in Known /\ i \notin Waiting /\ i \in submitted
      BY <1>1, Places
    <3> QED
      BY <1>1, <1>2, <3>1 DEF phase
  <2> QED
    BY <2>1 DEF phase
<1>5. budget' = budget /\ got' = got
  BY <1>1, <1>2 DEF budget, got
<1> QED
  BY <1>1, <1>3, <1>4, <1>5 DEF Lifecycle!Complete

(* The client takes the requests of S away. *)
LEMMA WithdrawStep ==
  ASSUME BatchInv, NEW S \in SUBSET submitted,
         \A i \in Id : requests'[i] = IF i \in S THEN Absent ELSE requests[i],
         running' \ S = running \ S, running' \subseteq running,
         UNCHANGED <<waiting, submitted>>
  PROVE  Lifecycle!Withdraw(S)
<1>1. Known' = Known \ S /\ Waiting' = Waiting
  BY DEF Known, Waiting
<1>2. \A i \in S : i \in Id /\ i \in submitted /\ phase[i] # "new"
  BY Places DEF BatchInv, TypeOK
<1>3. phase' = [i \in Id |-> IF i \in S THEN "gone" ELSE phase[i]]
  <2>1. ASSUME NEW i \in Id PROVE phase'[i] = IF i \in S THEN "gone" ELSE phase[i]
    BY <1>1, <1>2 DEF phase
  <2> QED
    BY <2>1 DEF phase
<1>4. budget' = [i \in Id |-> IF i \in S THEN 0 ELSE budget[i]]
  BY <1>1 DEF budget
<1>5. got' = [i \in Id |-> IF i \in S THEN 0 ELSE got[i]]
  BY <1>1 DEF got
<1> QED
  BY <1>2, <1>3, <1>4, <1>5 DEF Lifecycle!Withdraw

LEMMA LifecycleStep ==
  BatchInv /\ FinishedIsFull /\ [Next]_vars => [Lifecycle!Next]_(Lifecycle!vars)
<1> SUFFICES ASSUME BatchInv, FinishedIsFull, [Next]_vars
             PROVE  [Lifecycle!Next]_(Lifecycle!vars)
  OBVIOUS
<1>1. /\ requests \in [Id -> RequestContext \cup {Absent}]
      /\ running \cup completed \cup to_complete \subseteq Id
      /\ Known \cup running \cup completed \subseteq submitted /\ submitted \subseteq Id
  BY Places DEF BatchInv, TypeOK
<1>2. CASE UNCHANGED <<requests, running, waiting, submitted>>
  BY <1>2, SameView
<1>3. ASSUME NEW i \in Id, NEW s \in Submission, AddRequest(i, s) PROVE Lifecycle!Next
  BY <1>3, SubmitStep DEF Lifecycle!Next
<1>4. ASSUME NEW i \in Id, RemoveRequest(i) PROVE Lifecycle!Next
  <2>1. {i} \in SUBSET submitted /\ {i} \in SUBSET Id
    BY <1>1, <1>4 DEF RemoveRequest
  <2>2. Lifecycle!Withdraw({i})
    BY <1>1, <1>4, <2>1, WithdrawStep DEF RemoveRequest
  <2> QED
    BY <2>1, <2>2 DEF Lifecycle!Next
<1>5. ASSUME ClearCompleted PROVE Lifecycle!Next
  <2>1. completed \in SUBSET submitted /\ completed \in SUBSET Id
    BY <1>1
  <2>2. Lifecycle!Withdraw(completed)
    BY <1>1, <1>5, <2>1, WithdrawStep DEF ClearCompleted
  <2> QED
    BY <2>1, <2>2 DEF Lifecycle!Next
<1>6. ASSUME Admit PROVE Lifecycle!Next
  <2>1. Head(waiting) \in Id
    BY <1>6 DEF Admit, Known
  <2> QED
    BY <1>6, <2>1, StartStep DEF Lifecycle!Next
<1>7. ASSUME EndStep PROVE Lifecycle!Next
  <2>1. to_complete \in SUBSET Id
    BY <1>1
  <2> QED
    BY <1>7, <2>1, CompleteStep DEF Lifecycle!Next
<1>8. ASSUME NEW i \in Id, NEW t \in Token, Decode(i, t) PROVE Lifecycle!Next
  BY <1>8, GiveStep DEF Lifecycle!Next
<1>9. ASSUME NEW i \in Id, Prefill(i) PROVE UNCHANGED Lifecycle!vars
  BY <1>9, PrefillView
<1>10. CASE BeginStep \/ AdmitUnknown \/ EndSchedule
  BY <1>2, <1>10 DEF BeginStep, AdmitUnknown, Panic, EndSchedule
<1>11. ASSUME NEW i \in Id, ForwardFails(i) \/ ForwardOverruns(i)
       PROVE  [Lifecycle!Next]_(Lifecycle!vars)
  BY <1>2, <1>11 DEF ForwardFails, ForwardOverruns, Panic
<1>12. CASE Client
  BY <1>3, <1>4, <1>5, <1>12 DEF Client
<1>13. CASE Step
  BY <1>6, <1>7, <1>8, <1>9, <1>10, <1>11, <1>13 DEF Step
<1>14. CASE UNCHANGED vars
  BY <1>2, <1>14 DEF vars
<1> QED
  BY <1>12, <1>13, <1>14 DEF Next

(* The batcher does what RequestLifecycle promises a client, for every set *)
(* of requests and order of calls: none is taken up twice or beyond the     *)
(* size of the batch, given a token too many or completed early, and none  *)
(* comes back.                                                             *)
THEOREM BatcherImplementsLifecycle == SafeSpec => ImplementsRequestLifecycle
<1>1. Init => FinishedIsFull
  BY DEF Init, FinishedIsFull, Known
<1>2. SafeSpec => []FinishedIsFull
  BY <1>1, FinishedNext, BatchInvariantHolds, PTL DEF SafeSpec
<1> QED
  BY <1>2, LifecycleInit, LifecycleStep, BatchInvariantHolds, PTL
     DEF SafeSpec, ImplementsRequestLifecycle, Lifecycle!Spec
=============================================================================
