----------------------------- MODULE DagDispatch -----------------------------
(***************************************************************************)
(* One forward pass over a model's DAG (dag/executor.rs forward_dag_async, *)
(* execute_node; dag/memory_ranges.rs), from the sort made when the model  *)
(* is loaded to the end of the GPU's work.                                 *)
(*                                                                         *)
(* The executor encodes kernels into one encoder of the concurrent         *)
(* dispatch type.  A kernel belongs to the epoch that follows the last     *)
(* memory barrier; the GPU, which is external, runs the kernels of an      *)
(* epoch in any order and in parallel, and an epoch after the ones before  *)
(* it.  With INFER_DEPENDENCY_DISPATCH the nodes are encoded in batches of *)
(* ready nodes, the results of execute_node are ignored and barriers are   *)
(* inserted; without it they are encoded in the sorted order, the first    *)
(* failure ends the pass and no barrier is inserted.                       *)
(***************************************************************************)
EXTENDS ExecutionOrder, ComputeDag

CONSTANT Configs  \* the models, dispatch modes and missing weights of a run

ASSUME ConfigsAssumption ==
  \A c \in Configs :
    /\ c.dag \in Dags
    /\ c.dependency_dispatch \in BOOLEAN
    /\ c.unbound \subseteq OptionalWeights(c.dag)

-----------------------------------------------------------------------------
\* What the executor relies on without checking it: the builder's DAGs have
\* these properties beside the order of IsDag.

Written(d, n) == UNION {d[n].kernels[i].writes : i \in DOMAIN d[n].kernels}

\* At most two kernels per node; one producer per tensor, which a kernel of
\* the node writes; no two kernels with one target; the exit has an output
HasOneWriter(d) ==
  /\ \A n \in DOMAIN d :
       /\ Len(d[n].kernels) \in 0..2 /\ DOMAIN d[n].kernels = 1..Len(d[n].kernels)
       /\ \A k \in Range(d[n].kernels) : k = [reads |-> k.reads, writes |-> k.writes]
       /\ d[n].outputs \subseteq Written(d, n) \ {Embed}
  /\ \A m, n \in DOMAIN d :
       /\ d[m].outputs \cap d[n].outputs # {} => m = n
       /\ \A i \in DOMAIN d[m].kernels, j \in DOMAIN d[n].kernels :
            d[m].kernels[i].writes = d[n].kernels[j].writes => m = n /\ i = j
  /\ Len(d) > 0 /\ d[Len(d)].outputs # {}

\* m looks up what n produces
Uses(d, m, n) == d[m].needs \cap d[n].outputs # {}

\* A tensor that nothing produces, as of a layer kind without a branch
Hopeless(d, n) == \E b \in d[n].needs \ {Embed} : \A m \in DOMAIN d : b \notin d[m].outputs

\* The node comes directly after all it looks up, and cannot fail otherwise
Direct(d, n) ==
  /\ d[n].weights = {}
  /\ \A b \in d[n].needs \ {Embed} : \E p \in d[n].dependencies : b \in d[p].outputs

UsedBy(d, S) == S \cup {m \in DOMAIN d : \E n \in S : Uses(d, n, m)}
Following(d, S) ==
  S \cup {m \in DOMAIN d :
            /\ Direct(d, m)
            /\ \A b \in d[m].needs \ {Embed} : \E p \in S : b \in d[p].outputs}

\* If n finds its tensors then m found its own: both go back to one norm, n
\* through the query, m through the key or the value.
Implies(d, n, m) ==
  LET used == UsedBy(d, UsedBy(d, UsedBy(d, {n})))
  IN \/ \E p \in used : Hopeless(d, p)
     \/ m \in Following(d, Following(d, Following(d, used)))

\* Whatever a kernel reads is looked up, written by a kernel before it in the
\* node, or, as the K and V buffers, written by a dependency that cannot have
\* failed
ReadsAreOrdered(d) ==
  \A n \in DOMAIN d : \A i \in DOMAIN d[n].kernels : \A b \in d[n].kernels[i].reads \ {Embed} :
    \/ b \in d[n].needs
    \/ \E j \in 1..(i - 1) : b \in d[n].kernels[j].writes
    \/ \E m \in d[n].dependencies : b \in Written(d, m) /\ Implies(d, n, m)

\* Every kernel has a part in the output, or there is no output
NothingIsIdle(d) ==
  \A n \in 1..(Len(d) - 1) :
    d[n].kernels = <<>> \/ \E m \in (n + 1)..Len(d) :
                             /\ d[m].kernels # <<>>
                             /\ \/ Uses(d, m, n)
                                \/ n \in d[m].dependencies /\ Implies(d, m, n)
                                \/ Hopeless(d, m)

ASSUME BuilderAssumption ==
  \A d \in Dags : HasOneWriter(d) /\ ReadsAreOrdered(d) /\ NothingIsIdle(d)

-----------------------------------------------------------------------------
VARIABLES
  dependency_dispatch, \* INFER_DEPENDENCY_DISPATCH
  unbound,             \* weights the model lacks
  pass,                \* "load", "encode", "failed" or "committed"
  ready,               \* nodes to encode: a batch, or the execution order
  next,                \* position in ready
  kernel,              \* position in the kernels of the current node
  completed,           \* nodes of the batches before this one
  degree,              \* in_degree of forward_dag_async
  registry,            \* tensor_registry: the tensors bound so far
  mem_ranges,          \* buffers read and written since the last reset
  epoch,               \* number of barriers inserted
  commands,            \* the kernels encoded, with their epochs
  seq_len              \* of the KV cache, since the pass began

VARIABLES
  started,             \* commands the GPU has started
  finished             \* commands the GPU has finished

passVars == <<dependency_dispatch, unbound, pass, ready, next, kernel, completed,
              degree, registry, mem_ranges, epoch, commands, seq_len>>
gpuVars == <<started, finished>>
vars == <<sortVars, passVars, gpuVars>>

NoRanges == [reads |-> {}, writes |-> {}]

Init ==
  /\ SortInit
  /\ \E c \in Configs : /\ dag = c.dag
                        /\ dependency_dispatch = c.dependency_dispatch
                        /\ unbound = c.unbound
  /\ pass = "load"
  /\ ready = <<>> /\ next = 1 /\ kernel = 1
  /\ completed = {}
  /\ degree = [n \in Node |-> Cardinality(dag[n].dependencies)]
  /\ registry = {}
  /\ mem_ranges = NoRanges
  /\ epoch = 0 /\ commands = <<>>
  /\ seq_len = 0
  /\ started = {} /\ finished = {}

\* add_node and into_optimized, when the model is loaded
Load ==
  /\ pass = "load"
  /\ SortNext
  /\ UNCHANGED <<passVars, gpuVars>>

-----------------------------------------------------------------------------
\* Nodes without dependencies that have not been dispatched, in sorted order
Ready(done, deg) ==
  LET kept == {i \in DOMAIN execution_order :
                 execution_order[i] \notin done /\ deg[execution_order[i]] = 0}
      rank == [i \in kept |-> Cardinality({j \in kept : j <= i})]
  IN [k \in 1..Cardinality(kept) |-> execution_order[CHOOSE i \in kept : rank[i] = k]]

BeginPass ==
  /\ pass = "load" /\ Sorted
  /\ pass' = "encode"
  /\ registry' = {Embed}
  /\ ready' = IF dependency_dispatch THEN Ready(completed, degree) ELSE execution_order
  /\ UNCHANGED <<sortVars, gpuVars, dependency_dispatch, unbound, next, kernel, completed,
                 degree, mem_ranges, epoch, commands, seq_len>>

\* No tokens, no DAG, or a token without a row in the embedding table
LookupFails ==
  /\ pass = "load" /\ Sorted
  /\ pass' = "failed"
  /\ UNCHANGED <<sortVars, gpuVars, dependency_dispatch, unbound, ready, next, kernel,
                 completed, degree, registry, mem_ranges, epoch, commands, seq_len>>

Encoding == pass = "encode" /\ next \in DOMAIN ready

node == dag[ready[next]]

\* Every tensor_registry.get(..)? of the node succeeds
Found == node.needs \subseteq registry /\ node.weights \cap unbound = {}

\* MemoryRanges::check over the inputs and outputs of a kernel: only two
\* reads of one buffer may overlap
Conflicts(k, ranges) ==
  \/ k.reads \cap ranges.writes # {}
  \/ k.writes \cap (ranges.reads \cup ranges.writes) # {}

\* Mutant: kernels are tracked and never checked.
EncodeKernelUnchecked ==
  /\ Encoding /\ Found /\ kernel \in DOMAIN node.kernels
  /\ LET k == node.kernels[kernel]
     IN /\ epoch' = epoch
        /\ mem_ranges' = [reads |-> mem_ranges.reads \cup k.reads,
                          writes |-> mem_ranges.writes \cup k.writes]
        /\ commands' = Append(commands, [reads |-> k.reads, writes |-> k.writes, epoch |-> epoch'])
  /\ kernel' = kernel + 1
  /\ UNCHANGED <<sortVars, gpuVars, dependency_dispatch, unbound, pass, ready, next,
                 completed, degree, registry, seq_len>>

\* check_memory_and_barrier, *_encode, track_memory_ranges
EncodeKernel ==
  /\ Encoding /\ Found /\ kernel \in DOMAIN node.kernels
  /\ LET k == node.kernels[kernel]
         barrier == dependency_dispatch /\ Conflicts(k, mem_ranges)
         tracked == IF barrier THEN NoRanges ELSE mem_ranges
     IN /\ epoch' = IF barrier THEN epoch + 1 ELSE epoch
        /\ mem_ranges' = [reads |-> tracked.reads \cup k.reads,
                          writes |-> tracked.writes \cup k.writes]
        /\ commands' = Append(commands, [reads |-> k.reads, writes |-> k.writes, epoch |-> epoch'])
  /\ kernel' = kernel + 1
  /\ UNCHANGED <<sortVars, gpuVars, dependency_dispatch, unbound, pass, ready, next,
                 completed, degree, registry, seq_len>>

\* tensor_registry.insert of the outputs
EndNode ==
  /\ Encoding /\ Found /\ kernel \notin DOMAIN node.kernels
  /\ registry' = registry \cup node.outputs
  /\ next' = next + 1
  /\ kernel' = 1
  /\ UNCHANGED <<sortVars, gpuVars, dependency_dispatch, unbound, pass, ready, completed,
                 degree, mem_ranges, epoch, commands, seq_len>>

\* let _result = execute_node(..) is None
IgnoreFailure ==
  /\ Encoding /\ ~Found /\ dependency_dispatch
  /\ next' = next + 1
  /\ UNCHANGED <<sortVars, gpuVars, dependency_dispatch, unbound, pass, ready, kernel,
                 completed, degree, registry, mem_ranges, epoch, commands, seq_len>>

\* The sequential loop returns at the first node that fails
NodeFails ==
  /\ Encoding /\ ~Found /\ ~dependency_dispatch
  /\ pass' = "failed"
  /\ UNCHANGED <<sortVars, gpuVars, dependency_dispatch, unbound, ready, next, kernel,
                 completed, degree, registry, mem_ranges, epoch, commands, seq_len>>

BatchEncoded == pass = "encode" /\ dependency_dispatch /\ ready # <<>> /\ next > Len(ready)

\* Mutant: the degrees are left as they are.
EndBatchForgets ==
  /\ BatchEncoded
  /\ epoch' = IF mem_ranges = NoRanges THEN epoch ELSE epoch + 1
  /\ mem_ranges' = NoRanges
  /\ completed' = completed \cup Range(ready)
  /\ degree' = degree
  /\ ready' = Ready(completed', degree')
  /\ next' = 1
  /\ UNCHANGED <<sortVars, gpuVars, dependency_dispatch, unbound, pass, kernel, registry,
                 commands, seq_len>>

\* The barrier (none if nothing is tracked), then the next batch
EndBatch ==
  /\ BatchEncoded
  /\ epoch' = IF mem_ranges = NoRanges THEN epoch ELSE epoch + 1
  /\ mem_ranges' = NoRanges
  /\ completed' = completed \cup Range(ready)
  /\ degree' = [n \in Node |-> degree[n] - Cardinality(dag[n].dependencies \cap Range(ready))]
  /\ ready' = Ready(completed', degree')
  /\ next' = 1
  /\ UNCHANGED <<sortVars, gpuVars, dependency_dispatch, unbound, pass, kernel, registry,
                 commands, seq_len>>

AllEncoded ==
  /\ pass = "encode" /\ next > Len(ready)
  /\ dependency_dispatch => ready = <<>>

\* Mutant: the output tensor is not looked up.
CommitUnchecked ==
  /\ AllEncoded
  /\ pass' = "committed"
  /\ seq_len' = seq_len + 1
  /\ UNCHANGED <<sortVars, gpuVars, dependency_dispatch, unbound, ready, next, kernel,
                 completed, degree, registry, mem_ranges, epoch, commands>>

\* The exit node's output is bound: advance the cache, commit the buffer
Commit ==
  /\ AllEncoded
  /\ dag[Len(dag)].outputs \subseteq registry
  /\ pass' = "committed"
  /\ seq_len' = seq_len + 1
  /\ UNCHANGED <<sortVars, gpuVars, dependency_dispatch, unbound, ready, next, kernel,
                 completed, degree, registry, mem_ranges, epoch, commands>>

OutputMissing ==
  /\ AllEncoded
  /\ ~ dag[Len(dag)].outputs \subseteq registry
  /\ pass' = "failed"
  /\ UNCHANGED <<sortVars, gpuVars, dependency_dispatch, unbound, ready, next, kernel,
                 completed, degree, registry, mem_ranges, epoch, commands, seq_len>>

-----------------------------------------------------------------------------
\* The GPU executes committed commands only.
Start(c) ==
  /\ pass = "committed" /\ c \notin started
  /\ \A d \in DOMAIN commands : commands[d].epoch < commands[c].epoch => d \in finished
  /\ started' = started \cup {c}
  /\ UNCHANGED <<sortVars, passVars, finished>>

Finish(c) ==
  /\ c \in started \ finished
  /\ finished' = finished \cup {c}
  /\ UNCHANGED <<sortVars, passVars, started>>

Executor ==
  \/ Load \/ BeginPass \/ LookupFails
  \/ EncodeKernel \/ EndNode \/ IgnoreFailure \/ NodeFails
  \/ EndBatch \/ Commit \/ OutputMissing

Gpu == \E c \in DOMAIN commands : Start(c) \/ Finish(c)

Next == Executor \/ Gpu

\* The executor is a function that runs to its end, and the driver executes
\* what has been committed.
Spec == Init /\ [][Next]_vars /\ WF_vars(Executor) /\ WF_vars(Gpu)

-----------------------------------------------------------------------------
Buffer(k) == k.reads \cup k.writes
Kernels == UNION {Range(dag[n].kernels) : n \in Node}
Buffers == {Embed} \cup UNION {Buffer(k) : k \in Kernels}

\* Types; a kernel in the encoder is one of the DAG's, its epoch is not in
\* the future, and the GPU has nothing to do before the commit.
TypeOK ==
  /\ dependency_dispatch \in BOOLEAN
  /\ unbound \subseteq OptionalWeights(dag)
  /\ pass \in {"load", "encode", "failed", "committed"}
  /\ ready \in Seq(Node) /\ next \in 1..(Len(ready) + 1) /\ kernel \in 1..3
  /\ completed \subseteq Node
  /\ degree \in [Node -> 0..Len(dag)]
  /\ registry \subseteq Buffers
  /\ mem_ranges \in [reads : SUBSET Buffers, writes : SUBSET Buffers]
  /\ epoch \in Nat
  /\ commands \in Seq([reads : SUBSET Buffers, writes : SUBSET Buffers, epoch : 0..epoch])
  /\ finished \subseteq started /\ started \subseteq DOMAIN commands
  /\ started # {} => pass = "committed"
  /\ seq_len \in 0..1

\* A kernel runs on what it reads: by the time it starts, all of it has been
\* written in this pass, whatever the dispatch mode ("For sequential dispatch,
\* Metal's implicit synchronization handles everything correctly",
\* dag/executor.rs:249; but the encoder that both modes use is concurrent, and
\* without dependency dispatch it is given no barrier).
RunsOnWrittenData ==
  \A c \in started : \A b \in commands[c].reads \ {Embed} :
    \E d \in finished : b \in commands[d].writes

\* With dependency dispatch no kernel starts on a buffer that has not been
\* written in this pass, the K and V buffers included: it takes the edges of
\* the builder, the barrier after every batch and the tracked ranges within
\* a node together (dag/executor.rs, the dispatch loop and
\* check_memory_and_barrier).  executor.rs:515 calls dependency dispatch
\* "disabled by default due to correctness issues" and does not name them: none
\* is in the order of the kernels.
DataIsReady == dependency_dispatch => RunsOnWrittenData

\* A pass is committed, and the cache advanced, only with every kernel of the
\* DAG encoded exactly once, although dependency dispatch ignores the nodes
\* that fail: a missing tensor always reaches the output.
CommittedPassIsWhole ==
  /\ pass = "committed" =>
       \A k \in Kernels : \E c \in DOMAIN commands : commands[c].writes = k.writes
  /\ \A c, d \in DOMAIN commands : commands[c].writes = commands[d].writes => c = d
  /\ seq_len = 1 <=> pass = "committed"

\* The nodes execute_node has returned from
Executed == completed \cup {ready[j] : j \in 1..(next - 1)}

\* A batch is what the degrees allow; what is in it depends on the batches
\* before it only. Sequential dispatch has one batch, the sorted order.
Batches ==
  /\ pass # "load" => Sorted
  /\ pass = "load" => registry = {}
  /\ Embed \notin registry => /\ ready = <<>> /\ next = 1 /\ commands = <<>>
                              /\ registry = {} /\ completed = {}
  /\ pass \in {"encode", "committed"} =>
       Embed \in registry /\ (~dependency_dispatch => ready = execution_order)
  /\ ~dependency_dispatch => completed = {}
  /\ \A n \in Node : degree[n] = Cardinality(dag[n].dependencies \ completed)
  /\ \A i, j \in DOMAIN ready : ready[i] = ready[j] => i = j
  /\ Range(ready) \cap completed = {}
  /\ dependency_dispatch =>
       /\ \A n \in completed : dag[n].dependencies \subseteq completed
       /\ \A n \in Range(ready) : dag[n].dependencies \subseteq completed
       /\ pass \in {"encode", "committed"} =>
            \A n \in Node \ completed :
              dag[n].dependencies \subseteq completed => n \in Range(ready)

IsKernel(c, n, i) == /\ commands[c].reads = dag[n].kernels[i].reads
                     /\ commands[c].writes = dag[n].kernels[i].writes
Finds(n) == dag[n].needs \subseteq registry /\ dag[n].weights \cap unbound = {}
Succeeded(n) ==
  /\ Finds(n) /\ dag[n].outputs \subseteq registry
  /\ \A i \in DOMAIN dag[n].kernels : \E c \in DOMAIN commands : IsKernel(c, n, i)

\* The encoder holds the kernels of the current node before this one, and
\* otherwise kernels of the nodes that have been executed.
Encoded ==
  /\ kernel = 1 \/ /\ next \in DOMAIN ready /\ Finds(ready[next])
                   /\ kernel - 1 \in DOMAIN node.kernels
  /\ \A i \in 1..(kernel - 1) : \E c \in DOMAIN commands : IsKernel(c, ready[next], i)
  /\ \A c \in DOMAIN commands : \E n \in Node : \E i \in DOMAIN dag[n].kernels :
       /\ IsKernel(c, n, i)
       /\ n \in Executed \/ (next \in DOMAIN ready /\ n = ready[next] /\ i < kernel)

\* Tensors come from nodes that have succeeded; and it is settled, when a
\* node has been executed, whether the tensors that come directly before it
\* exist.
Bound ==
  /\ \A b \in registry \ {Embed} : \E n \in Node : b \in dag[n].outputs /\ Succeeded(n)
  /\ \A n \in Executed :
       ~dependency_dispatch \/ (Direct(dag, n) /\ Finds(n)) => Succeeded(n)

\* A committed pass went through the nodes and has its output.
Ended ==
  pass = "committed" => /\ next > Len(ready) /\ dag[Len(dag)].outputs \subseteq registry
                        /\ dependency_dispatch => ready = <<>>

\* What a kernel reads was written in an earlier epoch; the ranges tracked
\* since the last barrier hold what was written since; and the GPU has
\* finished the epochs before that of a kernel it has started.
Epochs ==
  /\ \A c \in DOMAIN commands :
       commands[c].epoch = epoch => commands[c].writes \subseteq mem_ranges.writes
  /\ dependency_dispatch =>
       \A c \in DOMAIN commands : \A b \in commands[c].reads \ {Embed} :
         \E d \in DOMAIN commands :
           b \in commands[d].writes /\ commands[d].epoch < commands[c].epoch
  /\ \A c \in started : \A d \in DOMAIN commands :
       commands[d].epoch < commands[c].epoch => d \in finished

\* The inductive invariant of a pass, with that of the sort.
PassInv ==
  TypeOK /\ Batches /\ Encoded /\ Bound /\ Ended /\ Epochs /\ CommittedPassIsWhole

\* Everything some node looks up is bound or produced by another.
ModelIsComplete ==
  /\ unbound = {}
  /\ \A n \in Node : dag[n].needs \subseteq {Embed} \cup UNION {dag[m].outputs : m \in Node}

\* The pass of a complete model is committed and the GPU finishes it; that of
\* a model with a missing weight or an unsupported layer fails, and neither
\* loops over its batches for ever.
EveryPassEnds ==
  /\ pass = "encode" /\ ModelIsComplete
       ~> pass = "committed" /\ finished = DOMAIN commands
  /\ pass = "encode" /\ ~ModelIsComplete ~> pass = "failed"
=============================================================================
