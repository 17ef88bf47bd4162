---------------------------- MODULE ExecutionOrder ----------------------------
(***************************************************************************)
(* ComputeDag::add_node and execution_order (dag/graph.rs): the nodes of a *)
(* DAG are appended one by one, those without dependencies becoming entry  *)
(* points, and are then sorted.  The sort keeps the entry points and the   *)
(* nodes it has freed in a Vec used as a stack.  Node ids are numbers      *)
(* from 1, and a node depends on nodes added before it; the builder lists  *)
(* no dependency twice, so that dependencies are a set.                    *)
(***************************************************************************)
EXTENDS Naturals, Sequences, FiniteSets, Functions

CONSTANT Dags

IsDag(d) ==
  /\ DOMAIN d = 1..Len(d)
  /\ Len(d) \in Nat
  /\ \A n \in DOMAIN d : d[n].dependencies \subseteq 1..(n - 1)

ASSUME DagsAssumption == \A d \in Dags : IsDag(d)

VARIABLES
  dag,             \* the DAG being built
  added,           \* number of nodes added so far
  in_degree,
  queue,           \* entry_points while the DAG is built
  popped,          \* node_id of the sort's loop
  scan,            \* position of its inner loop over the dependents of popped
  execution_order  \* result

sortVars == <<dag, added, in_degree, queue, popped, scan, execution_order>>

Node == 1..Len(dag)

SortInit ==
  /\ dag \in Dags
  /\ added = 0
  /\ in_degree = [n \in Node |-> Cardinality(dag[n].dependencies)]
  /\ queue = <<>>
  /\ popped = 0
  /\ scan = Len(dag) + 1
  /\ execution_order = <<>>

AddNode ==
  /\ added < Len(dag)
  /\ added' = added + 1
  /\ queue' = IF dag[added + 1].dependencies = {} THEN Append(queue, added + 1) ELSE queue
  /\ UNCHANGED <<dag, in_degree, popped, scan, execution_order>>

\* while let Some(node_id) = queue.pop()
PopNode ==
  /\ added = Len(dag) /\ scan > Len(dag) /\ queue # <<>>
  /\ popped' = queue[Len(queue)]
  /\ queue' = SubSeq(queue, 1, Len(queue) - 1)
  /\ execution_order' = Append(execution_order, popped')
  /\ scan' = 1
  /\ UNCHANGED <<dag, added, in_degree>>

\* Mutant: the first dependency to finish frees the node.
FreeDependentEarly ==
  /\ scan \in Node
  /\ scan' = scan + 1
  /\ IF popped \in dag[scan].dependencies
     THEN /\ in_degree' = [in_degree EXCEPT ![scan] = @ - 1]
          /\ queue' = IF in_degree[scan] = Cardinality(dag[scan].dependencies)
                      THEN Append(queue, scan) ELSE queue
     ELSE UNCHANGED <<in_degree, queue>>
  /\ UNCHANGED <<dag, added, popped, execution_order>>

\* Mutant: the degree is tested before it is decremented.
FreeDependentLate ==
  /\ scan \in Node
  /\ scan' = scan + 1
  /\ IF popped \in dag[scan].dependencies
     THEN /\ in_degree' = [in_degree EXCEPT ![scan] = @ - 1]
          /\ queue' = IF in_degree[scan] = 0 THEN Append(queue, scan) ELSE queue
     ELSE UNCHANGED <<in_degree, queue>>
  /\ UNCHANGED <<dag, added, popped, execution_order>>

\* for &dependent in &dependents[node_id]; dependents lists nodes by id
FreeDependent ==
  /\ scan \in Node
  /\ scan' = scan + 1
  /\ IF popped \in dag[scan].dependencies
     THEN /\ in_degree' = [in_degree EXCEPT ![scan] = @ - 1]
          /\ queue' = IF in_degree'[scan] = 0 THEN Append(queue, scan) ELSE queue
     ELSE UNCHANGED <<in_degree, queue>>
  /\ UNCHANGED <<dag, added, popped, execution_order>>

Sorted == added = Len(dag) /\ scan > Len(dag) /\ queue = <<>>

SortNext == AddNode \/ PopNode \/ FreeDependent

SortSpec == SortInit /\ [][SortNext]_sortVars

-----------------------------------------------------------------------------
\* No node is listed twice, and every node comes after all it depends on.
\* Without this the executor would encode a kernel before its inputs exist
\* (dag/graph.rs, execution_order).
OrderIsTopological ==
  \A i, j \in DOMAIN execution_order :
    /\ execution_order[i] = execution_order[j] => i = j
    /\ execution_order[j] \in dag[execution_order[i]].dependencies => j < i
    /\ dag[execution_order[i]].dependencies \subseteq Range(execution_order)

\* When the stack is empty every node has been listed: the sort drops none,
\* although it never compares its result with the number of nodes.
OrderIsComplete == Sorted => Range(execution_order) = Node
=============================================================================
