-------------------------- MODULE ContinuousBatcher --------------------------
(***************************************************************************)
(* ContinuousBatcher (inference/batcher.rs): requests wait in a FIFO queue,*)
(* run in a batch of bounded size with a KV cache each, and are parked in  *)
(* `completed` until the client collects them.  The batcher is used        *)
(* through &mut self, so the client's calls come between steps, but a step *)
(* is several actions here: a panic can strike between any two of them.    *)
(*                                                                         *)
(* Request ids are unique (RequestContext::request_id), so an id stands at *)
(* most once in the vectors `running` and `completed`, and these are sets. *)
(* A work buffer is taken and given back within the same iteration of      *)
(* step(), so the pool is the same before and after it and is left out.    *)
(***************************************************************************)
EXTENDS Request, FiniteSets

CONSTANTS
  Id,             \* request identifiers
  max_batch_size,
  Absent          \* no entry in a HashMap

KVCache == [max_seq : Nat, fed : Seq(Token)]   \* the tokens fed so far

ASSUME IdAssumption ==
  IsFiniteSet(Id) /\ Absent \notin RequestContext /\ Absent \notin KVCache
ASSUME BatchAssumption == max_batch_size \in Nat

VARIABLES
  requests,       \* HashMap<u64, RequestContext>
  kv_caches,      \* HashMap<u64, KVCache>
  running,        \* Vec<u64>
  waiting,        \* VecDeque<u64>
  completed,      \* Vec<u64>
  pc,             \* where step() is; "idle" between calls
  todo,           \* the iteration's remaining ids (a clone of running)
  to_complete     \* ids that finished in this step

VARIABLES
  submitted,      \* history: the ids that were ever submitted
  misused         \* history: the client removed a request that was waiting

vars == <<requests, kv_caches, running, waiting, completed, pc, todo, to_complete,
          submitted, misused>>

Known == {i \in Id : requests[i] # Absent}
Waiting == {waiting[k] : k \in DOMAIN waiting}

Init ==
  /\ requests = [i \in Id |-> Absent]
  /\ kv_caches = [i \in Id |-> Absent]
  /\ running = {}
  /\ waiting = <<>>
  /\ completed = {}
  /\ pc = "idle"
  /\ todo = {}
  /\ to_complete = {}
  /\ submitted = {}
  /\ misused = FALSE

-----------------------------------------------------------------------------
(* The client *)

(* add_request, with an id that was not used before *)
AddRequest(i, s) ==
  /\ pc = "idle"
  /\ i \notin submitted
  /\ requests' = [requests EXCEPT ![i] = NewRequest(s)]
  /\ waiting' = Append(waiting, i)
  /\ submitted' = submitted \cup {i}
  /\ UNCHANGED <<kv_caches, running, completed, pc, todo, to_complete, misused>>

(* Seeded variant: the KV cache of a removed request is kept. *)
RemoveRequestKeepsCache(i) ==
  /\ pc = "idle"
  /\ i \in Known
  /\ running' = running \ {i}
  /\ requests' = [requests EXCEPT ![i] = Absent]
  /\ misused' = (misused \/ i \in Waiting)
  /\ UNCHANGED <<kv_caches, waiting, completed, pc, todo, to_complete, submitted>>

(* remove_request: the id stays in `waiting` and in `completed`. *)
RemoveRequest(i) ==
  /\ pc = "idle"
  /\ i \in Known
  /\ kv_caches' = [kv_caches EXCEPT ![i] = Absent]
  /\ running' = running \ {i}
  /\ requests' = [requests EXCEPT ![i] = Absent]
  /\ misused' = (misused \/ i \in Waiting)
  /\ UNCHANGED <<waiting, completed, pc, todo, to_complete, submitted>>

ClearCompleted ==
  /\ pc = "idle"
  /\ completed # {}
  /\ kv_caches' = [i \in Id |-> IF i \in completed THEN Absent ELSE kv_caches[i]]
  /\ requests' = [i \in Id |-> IF i \in completed THEN Absent ELSE requests[i]]
  /\ completed' = {}
  /\ UNCHANGED <<running, waiting, pc, todo, to_complete, submitted, misused>>

(* step() is called; run_all() calls it while there is something to do. *)
BeginStep ==
  /\ pc = "idle"
  /\ waiting # <<>> \/ running # {}
  /\ pc' = "schedule"
  /\ UNCHANGED <<requests, kv_caches, running, waiting, completed, todo, to_complete, submitted,
                 misused>>

-----------------------------------------------------------------------------
(* schedule() *)

Panic ==
  /\ pc' = "panicked"
  /\ UNCHANGED <<requests, kv_caches, running, waiting, completed, todo, to_complete, submitted,
                 misused>>

HasRoom == Cardinality(running) < max_batch_size

NewCache(r) ==
  [max_seq |-> Len(r.prompt_tokens) + r.max_tokens, fed |-> <<>>]

Admit ==
  LET i == Head(waiting) IN
  /\ pc = "schedule"
  /\ HasRoom
  /\ waiting # <<>>
  /\ i \in Known
  /\ waiting' = Tail(waiting)
  /\ requests' = [requests EXCEPT ![i].state = "Running"]
  /\ running' = running \cup {i}
  /\ kv_caches' = [kv_caches EXCEPT ![i] = IF @ = Absent THEN NewCache(requests[i]) ELSE @]
  /\ UNCHANGED <<completed, pc, todo, to_complete, submitted, misused>>

(* self.requests.get_mut(&id).unwrap() on an id that is no longer known *)
AdmitUnknown ==
  /\ pc = "schedule"
  /\ HasRoom
  /\ waiting # <<>>
  /\ Head(waiting) \notin Known
  /\ Panic

EndSchedule ==
  /\ pc = "schedule"
  /\ ~HasRoom \/ waiting = <<>>
  /\ todo' = running
  /\ pc' = "batch"
  /\ UNCHANGED <<requests, kv_caches, running, waiting, completed, to_complete, submitted, misused>>

-----------------------------------------------------------------------------
(* One iteration of the batch loop: a forward pass over one token.  The    *)
(* model writes K and V at position seq_len of the cache (a panic if that  *)
(* is max_seq) and then advances it.                                       *)

CacheFull(i) == Len(kv_caches[i].fed) >= kv_caches[i].max_seq

Feed(i) == [kv_caches EXCEPT ![i].fed = Append(@, NextInput(requests[i]))]

(* Seeded variant: the cache is advanced before the embedding is looked up. *)
ForwardFailsLate(i) ==
  /\ pc = "batch"
  /\ i \in todo
  /\ NextInput(requests[i]) \notin Token
  /\ kv_caches' = Feed(i)
  /\ todo' = todo \ {i}
  /\ UNCHANGED <<requests, running, waiting, completed, pc, to_complete, submitted, misused>>

(* embedding lookup fails: forward returns None before it touches the cache *)
ForwardFails(i) ==
  /\ pc = "batch"
  /\ i \in todo
  /\ NextInput(requests[i]) \notin Token
  /\ todo' = todo \ {i}
  /\ UNCHANGED <<requests, kv_caches, running, waiting, completed, pc, to_complete, submitted,
                 misused>>

(* k_cache[layer][head][seq_len] is out of bounds *)
ForwardOverruns(i) ==
  /\ pc = "batch"
  /\ i \in todo
  /\ NextInput(requests[i]) \in Token
  /\ CacheFull(i)
  /\ Panic

(* Seeded variant: the token sampled from the last prompt position is kept. *)
PrefillKeepsSample(i) ==
  /\ pc = "batch"
  /\ i \in todo
  /\ ~IsPrefillComplete(requests[i])
  /\ NextInput(requests[i]) \in Token
  /\ ~CacheFull(i)
  /\ kv_caches' = Feed(i)
  /\ requests' = [requests EXCEPT ![i] = AddGeneratedToken(AdvancePrompt(@), 0)]
  /\ todo' = todo \ {i}
  /\ UNCHANGED <<running, waiting, completed, pc, to_complete, submitted, misused>>

(* A prompt token was processed; the token sampled from it is dropped. *)
Prefill(i) ==
  /\ pc = "batch"
  /\ i \in todo
  /\ ~IsPrefillComplete(requests[i])
  /\ NextInput(requests[i]) \in Token
  /\ ~CacheFull(i)
  /\ kv_caches' = Feed(i)
  /\ requests' = [requests EXCEPT ![i] = AdvancePrompt(@)]
  /\ todo' = todo \ {i}
  /\ UNCHANGED <<running, waiting, completed, pc, to_complete, submitted, misused>>

(* A generated token was processed and another one sampled. *)
Decode(i, token) ==
  LET r == AddGeneratedToken(requests[i], token) IN
  /\ pc = "batch"
  /\ i \in todo
  /\ IsPrefillComplete(requests[i])
  /\ NextInput(requests[i]) \in Token
  /\ ~CacheFull(i)
  /\ kv_caches' = Feed(i)
  /\ requests' = [requests EXCEPT ![i] =
                    IF IsComplete(r) THEN [r EXCEPT !.state = "Finished"] ELSE r]
  /\ to_complete' = IF IsComplete(r) THEN to_complete \cup {i} ELSE to_complete
  /\ todo' = todo \ {i}
  /\ UNCHANGED <<running, waiting, completed, pc, submitted, misused>>

(* Seeded variant: finished requests stay in the running batch. *)
EndStepKeepsRunning ==
  /\ pc = "batch"
  /\ todo = {}
  /\ completed' = completed \cup to_complete
  /\ to_complete' = {}
  /\ pc' = "idle"
  /\ UNCHANGED <<requests, kv_caches, running, waiting, todo, submitted, misused>>

(* Move completed requests *)
EndStep ==
  /\ pc = "batch"
  /\ todo = {}
  /\ running' = running \ to_complete
  /\ completed' = completed \cup to_complete
  /\ to_complete' = {}
  /\ pc' = "idle"
  /\ UNCHANGED <<requests, kv_caches, waiting, todo, submitted, misused>>

-----------------------------------------------------------------------------
Client ==
  \/ \E i \in Id, s \in Submission : AddRequest(i, s)
  \/ \E i \in Id : RemoveRequest(i)
  \/ ClearCompleted

Step ==
  \/ BeginStep \/ Admit \/ AdmitUnknown \/ EndSchedule \/ EndStep
  \/ \E i \in Id : \/ ForwardFails(i) \/ ForwardOverruns(i) \/ Prefill(i)
                   \/ \E token \in Token : Decode(i, token)

Next == Client \/ Step

(* run_all() keeps calling step() while there is work. *)
SafeSpec == Init /\ [][Next]_vars
Spec == SafeSpec /\ WF_vars(Step)

-----------------------------------------------------------------------------
TypeOK ==
  /\ requests \in [Id -> RequestContext \cup {Absent}]
  /\ kv_caches \in [Id -> KVCache \cup {Absent}]
  /\ running \subseteq Id
  /\ waiting \in Seq(Id)
  /\ completed \subseteq Id
  /\ pc \in {"idle", "schedule", "batch", "panicked"}
  /\ todo \subseteq Id
  /\ to_complete \subseteq Id
  /\ submitted \subseteq Id
  /\ misused \in BOOLEAN

(* The queues partition the requests: none is lost, none is in two places  *)
(* or twice in the queue, and only a removed request leaves its id behind. *)
(* (add_request, schedule, the end of step, remove_request,                *)
(* clear_completed)                                                        *)
NoRequestLost == Known \subseteq Waiting \cup running \cup completed
NeverInTwoPlaces ==
  /\ Waiting \cap running = {}
  /\ Waiting \cap completed = {}
  /\ running \cap completed = {}
  /\ \A j, k \in DOMAIN waiting : waiting[j] = waiting[k] => j = k
EachRequestInOnePlace == NoRequestLost /\ NeverInTwoPlaces

(* What the cache of a request must hold: the prompt tokens processed so   *)
(* far, then BOS, then every generated token but the last.                 *)
History(r) ==
  SubSeq(r.prompt_tokens, 1, r.prompt_pos) \o
    (IF r.generated_tokens = <<>> THEN <<>>
     ELSE <<Bos>> \o SubSeq(r.generated_tokens, 1, Len(r.generated_tokens) - 1))

(* The batch never exceeds its size, and each running request has a KV     *)
(* cache that holds its own history and nothing else, within its capacity; *)
(* caches exist only for requests that are known.                          *)
CachesAreIsolated ==
  /\ Cardinality(running) <= max_batch_size
  /\ \A i \in running :
       /\ i \in Known
       /\ kv_caches[i] # Absent
       /\ kv_caches[i].fed = History(requests[i])
       /\ Len(kv_caches[i].fed) <= kv_caches[i].max_seq
  /\ \A i \in Id : kv_caches[i] # Absent => i \in Known \ Waiting

(* The batcher panics only if the client removed a request that was        *)
(* waiting or asked for no tokens at all: no order of legal calls makes an *)
(* unwrap() fail or the cache overflow.                                    *)
PanicNeedsMisuse ==
  pc = "panicked" => misused \/ \E i \in running : requests[i].max_tokens = 0

(* A request never generates more than max_tokens tokens. (step)           *)
WithinBudget ==
  \A i \in Known : Len(requests[i].generated_tokens) <= requests[i].max_tokens

(* "Waiting queue (sorted by priority)" (batcher.rs:33): when a request    *)
(* starts running, no request of a higher priority is left waiting.        *)
(* add_request appends to the queue and schedule takes from its front      *)
(* without a look at the priority, so this does not hold.                  *)
StartsByPriority ==
  [][\A i \in running' \ running : \A j \in Known \cap Waiting' :
       requests[j].priority <= requests[i].priority]_vars

(* A completed request is final: until the client collects it nothing      *)
(* changes it, and it never runs again. (the end of step)                  *)
CompletedIsFinal ==
  [][\A i \in completed :
       /\ i \notin running'
       /\ requests'[i] \in {requests[i], Absent}]_vars

(* What the client sees of a request: where it stands, the tokens it asked *)
(* for and the tokens it was given.                                        *)
phase ==
  [i \in Id |->
     IF i \notin submitted THEN "new"
     ELSE IF i \notin Known THEN "gone"
     ELSE IF i \in Waiting THEN "waiting"
     ELSE IF i \in running THEN "running" ELSE "completed"]
budget == [i \in Id |-> IF i \in Known THEN requests[i].max_tokens ELSE 0]
got == [i \in Id |-> IF i \in Known THEN Len(requests[i].generated_tokens) ELSE 0]

Lifecycle == INSTANCE RequestLifecycle

(* The queue, the batch, the list of the completed, the caches and the     *)
(* steps cut into pieces are what RequestLifecycle promises: whatever the  *)
(* client does between steps, a request is taken up at most once, when     *)
(* there is room in the batch, and is completed with exactly the tokens it *)
(* asked for.                                                              *)
ImplementsRequestLifecycle == Lifecycle!Spec

(* The inductive invariant: what the properties above rest on.             *)
StepControl ==
  /\ pc \in {"idle", "schedule"} => todo = {} /\ to_complete = {}
  /\ todo \subseteq running /\ to_complete \subseteq running \ todo

OnlySubmitted == Known \cup Waiting \cup running \cup completed \subseteq submitted

QueueIsKnown == ~misused => Waiting \subseteq Known

(* How far a request may be, by where it stands.                           *)
WithinBounds(r) ==
  /\ r.prompt_pos <= Len(r.prompt_tokens)
  /\ r.generated_tokens # <<>> => IsPrefillComplete(r)
RequestsAdvance ==
  /\ \A i \in Known : WithinBounds(requests[i])
  /\ \A i \in Known \cap Waiting :
       requests[i].prompt_pos = 0 /\ requests[i].generated_tokens = <<>>
  /\ \A i \in running \ to_complete :
       \/ requests[i].max_tokens = 0
       \/ Len(requests[i].generated_tokens) < requests[i].max_tokens

Capacity ==
  \A i \in running :
    kv_caches[i].max_seq = Len(requests[i].prompt_tokens) + requests[i].max_tokens

BatchInv ==
  /\ TypeOK /\ StepControl /\ OnlySubmitted /\ QueueIsKnown
  /\ EachRequestInOnePlace /\ CachesAreIsolated /\ Capacity
  /\ RequestsAdvance /\ WithinBudget /\ PanicNeedsMisuse

(* Every request completes or is removed, if all the requests the batcher  *)
(* knows have tokens of the vocabulary and a budget, and none is removed   *)
(* while it waits: a request in the batch does not starve the others, and  *)
(* none of them runs out of cache. (run_all)                               *)
Serviceable(i) ==
  /\ requests[i].max_tokens > 0
  /\ \A k \in DOMAIN requests[i].prompt_tokens : requests[i].prompt_tokens[k] \in Token
EveryRequestCompletes ==
  \A i \in Id :
    (i \in Waiting) ~>
      \/ i \in completed
      \/ i \notin Known
      \/ misused
      \/ \E j \in Known : ~Serviceable(j)
=============================================================================
