-------------------------- MODULE DagDispatch_proofs --------------------------
(***************************************************************************)
(* What a pass over any DAG guarantees, by way of three arguments, and     *)
(* that the builder's DAGs are as those arguments assume.                  *)
(*                                                                         *)
(* The sort.  in_degree[m] counts the dependencies of m that have not been *)
(* handled, where a listed node is handled for m once the inner loop over  *)
(* its dependents has passed m; and a node is in the stack or in the       *)
(* result exactly when its count is zero.  A node that is popped thus has  *)
(* all its dependencies in the result; and when the stack is empty, the    *)
(* smallest node that is not in the result would have a count of zero.     *)
(*                                                                         *)
(* A committed pass is whole.  A tensor that is bound had its producer     *)
(* succeed, with all its kernels; so the exit has succeeded.  Take the     *)
(* last node with kernels that has not: some later node with kernels needs *)
(* it (NothingIsIdle) in such a way that it cannot have succeeded either.  *)
(*                                                                         *)
(* Data is ready.  A buffer that a kernel reads was written by a kernel    *)
(* encoded before it.  Either that one is in an earlier epoch, or the      *)
(* tracked ranges hold its output, and the barrier is inserted now.  And   *)
(* what the GPU starts is in an epoch all of whose predecessors are done.  *)
(*                                                                         *)
(* The builder's DAGs are such DAGs.  The DAG of any sequence of layers is *)
(* a placeholder, the layers in a row and the two nodes of the output      *)
(* (Layout); a layer is fifteen nodes and its projections (LayerIs).  From *)
(* the places of the layers, Producer finds the one node that writes a     *)
(* tensor.  Each node is then looked at by itself (Local, ANode), and with *)
(* the one that looks up its output (Served).                              *)
(***************************************************************************)
EXTENDS DagDispatch, TLAPS, FiniteSetTheorems, SequenceTheorems, WellFoundedInduction

\* A non-empty set of numbers has a smallest element.
LEMMA Smallest ==
  ASSUME NEW T \in SUBSET Nat, T # {}
  PROVE  \E x \in T : \A y \in T : x <= y
<1>1. IsWellFoundedOn(OpToRel(<, Nat), Nat)
  BY NatLessThanWellFounded
<1>2. \A x, y \in Nat : <<y, x>> \in OpToRel(<, Nat) <=> y < x
  BY DEF OpToRel
<1>3. \E Less : IsWellFoundedOn(Less, Nat) /\ \A x, y \in Nat : <<y, x>> \in Less <=> y < x
  BY <1>1, <1>2, Zenon
<1>4. PICK Less : /\ IsWellFoundedOn(Less, Nat)
                  /\ \A x, y \in Nat : <<y, x>> \in Less <=> y < x
  BY <1>3
<1>5. PICK x \in T : \A y \in T : ~(<<y, x>> \in Less)
  BY <1>4, WFMin
<1>6. \A y \in T : x \in Nat /\ y \in Nat /\ ~(y < x)
  BY <1>4, <1>5
<1>7. \A y \in T : x <= y
  BY <1>6
<1>. QED  BY <1>7

\* Range of a sequence that grows or loses its last element.
Injective(s) == \A i, j \in DOMAIN s : s[i] = s[j] => i = j

LEMMA AppendNew ==
  ASSUME NEW S, NEW s \in Seq(S), NEW x \in S
  PROVE  /\ Append(s, x) \in Seq(S)
         /\ Range(Append(s, x)) = Range(s) \cup {x}
         /\ Injective(s) /\ x \notin Range(s) => Injective(Append(s, x))
<1>1. /\ Append(s, x) \in Seq(S)
      /\ Len(Append(s, x)) = Len(s) + 1
      /\ \A i \in 1..Len(s) : Append(s, x)[i] = s[i]
      /\ Append(s, x)[Len(s) + 1] = x
  BY AppendProperties
<1>2. DOMAIN s = 1..Len(s) /\ DOMAIN Append(s, x) = 1..(Len(s) + 1) /\ Len(s) \in Nat
  BY <1>1
<1>3. Range(Append(s, x)) = Range(s) \cup {x}
  <2>1. Range(Append(s, x)) \subseteq Range(s) \cup {x}
    BY <1>1, <1>2 DEF Range
  <2>2. \A i \in 1..Len(s) : s[i] \in Range(Append(s, x))
    <3>. SUFFICES ASSUME NEW i \in 1..Len(s) PROVE s[i] \in Range(Append(s, x))
      OBVIOUS
    <3>1. i \in DOMAIN Append(s, x) /\ Append(s, x)[i] = s[i]
      BY <1>1, <1>2
    <3>. QED  BY <3>1 DEF Range
  <2>3. x \in Range(Append(s, x))
    <3>1. Len(s) + 1 \in DOMAIN Append(s, x)
      BY <1>2
    <3>. QED  BY <3>1, <1>1 DEF Range
  <2>. QED  BY <2>1, <2>2, <2>3, <1>2 DEF Range
<1>4. ASSUME Injective(s), x \notin Range(s) PROVE Injective(Append(s, x))
  <2>1. \A i \in 1..Len(s) : s[i] # x
    BY <1>4, <1>2 DEF Range
  <2>. QED  BY <2>1, <1>1, <1>2, <1>4 DEF Injective
<1>. QED  BY <1>1, <1>3, <1>4

LEMMA FrontOf ==
  ASSUME NEW S, NEW s \in Seq(S), s # <<>>, Injective(s)
  PROVE  /\ SubSeq(s, 1, Len(s) - 1) \in Seq(S)
         /\ s[Len(s)] \in S /\ s[Len(s)] \in Range(s)
         /\ Range(SubSeq(s, 1, Len(s) - 1)) = Range(s) \ {s[Len(s)]}
         /\ Injective(SubSeq(s, 1, Len(s) - 1))
<1>. DEFINE f == SubSeq(s, 1, Len(s) - 1)
<1>1. Len(s) \in Nat /\ Len(s) > 0 /\ DOMAIN s = 1..Len(s) /\ s[Len(s)] \in S
  BY EmptySeq
<1>2. f \in Seq(S) /\ Len(f) = Len(s) - 1 /\ \A i \in 1..(Len(s) - 1) : f[i] = s[i]
  BY <1>1, SubSeqProperties
<1>3. DOMAIN f = 1..(Len(s) - 1)
  BY <1>2
<1>. HIDE DEF f
<1>4. Range(f) = Range(s) \ {s[Len(s)]}
  <2>1. \A i \in 1..(Len(s) - 1) : s[i] # s[Len(s)]
    BY <1>1 DEF Injective
  <2>2. Range(f) \subseteq Range(s) \ {s[Len(s)]}
    BY <2>1, <1>1, <1>2, <1>3 DEF Range
  <2>3. ASSUME NEW y \in Range(s), y # s[Len(s)] PROVE y \in Range(f)
    <3>1. PICK i \in 1..Len(s) : s[i] = y
      BY <1>1 DEF Range
    <3>2. i \in 1..(Len(s) - 1)
      BY <3>1, <2>3, <1>1
    <3>3. i \in DOMAIN f /\ f[i] = y
      BY <3>1, <3>2, <1>2, <1>3
    <3>. QED  BY <3>3 DEF Range
  <2>. QED  BY <2>2, <2>3
<1>5. Injective(f)
  BY <1>1, <1>2, <1>3 DEF Injective
<1>6. s[Len(s)] \in Range(s)
  <2>1. Len(s) \in DOMAIN s
    BY <1>1
  <2>. QED  BY <2>1 DEF Range
<1>. QED  BY <1>1, <1>2, <1>4, <1>5, <1>6 DEF f

-----------------------------------------------------------------------------
\* The nodes that have been handled for m
Handled(m) == IF scan <= m THEN Range(execution_order) \ {popped} ELSE Range(execution_order)

Listed(m) == m \in Range(queue) \/ m \in Range(execution_order)

\* Types of the sort
SortTypeOK ==
  /\ dag \in Dags
  /\ added \in 0..Len(dag)
  /\ in_degree \in [Node -> Nat]
  /\ queue \in Seq(Node)
  /\ popped \in Nat
  /\ scan \in 1..(Len(dag) + 1)
  /\ execution_order \in Seq(Node)

OnceEach ==
  /\ Injective(queue) /\ Injective(execution_order)
  /\ Range(queue) \cap Range(execution_order) = {}

DegreesCount ==
  \A m \in Node : in_degree[m] = Cardinality(dag[m].dependencies \ Handled(m))

ListedWhenFree == \A m \in Node : Listed(m) <=> m <= added /\ in_degree[m] = 0

Phases ==
  /\ added < Len(dag) => execution_order = <<>> /\ scan = Len(dag) + 1
  /\ scan <= Len(dag) => popped \in Range(execution_order)

DependenciesFirst ==
  \A i \in DOMAIN execution_order :
    dag[execution_order[i]].dependencies \subseteq {execution_order[j] : j \in 1..(i - 1)}

SortInv ==
  /\ SortTypeOK
  /\ OnceEach
  /\ DegreesCount
  /\ ListedWhenFree
  /\ Phases
  /\ DependenciesFirst

LEMMA DagFacts ==
  ASSUME NEW d \in Dags
  PROVE  /\ Len(d) \in Nat
         /\ \A n \in 1..Len(d) :
              /\ d[n].dependencies \subseteq 1..(n - 1)
              /\ d[n].dependencies \subseteq 1..Len(d)
              /\ \A S : /\ IsFiniteSet(d[n].dependencies \ S)
                        /\ Cardinality(d[n].dependencies \ S) \in Nat
                        /\ Cardinality(d[n].dependencies \ S) = 0
                             <=> d[n].dependencies \ S = {}
<1>1. Len(d) \in Nat /\ \A n \in 1..Len(d) : d[n].dependencies \subseteq 1..(n - 1)
  BY DagsAssumption DEF IsDag
<1>. SUFFICES ASSUME NEW n \in 1..Len(d)
              PROVE  /\ d[n].dependencies \subseteq 1..Len(d)
                     /\ \A S : /\ IsFiniteSet(d[n].dependencies \ S)
                               /\ Cardinality(d[n].dependencies \ S) \in Nat
                               /\ Cardinality(d[n].dependencies \ S) = 0
                                    <=> d[n].dependencies \ S = {}
  BY <1>1
<1>2. d[n].dependencies \subseteq 1..Len(d)
  BY <1>1
<1>3. IsFiniteSet(1..Len(d))
  BY <1>1, FS_Interval
<1>4. IsFiniteSet(d[n].dependencies)
  BY <1>2, <1>3, FS_Subset
<1>. SUFFICES ASSUME NEW S
              PROVE  /\ IsFiniteSet(d[n].dependencies \ S)
                     /\ Cardinality(d[n].dependencies \ S) \in Nat
                     /\ Cardinality(d[n].dependencies \ S) = 0
                          <=> d[n].dependencies \ S = {}
  BY <1>2
<1>5. IsFiniteSet(d[n].dependencies \ S)
  BY <1>4, FS_Difference
<1>. QED  BY <1>5, FS_CardinalityType, FS_EmptySet

-----------------------------------------------------------------------------
LEMMA InitEstablishes == SortInit => SortInv
<1>. SUFFICES ASSUME SortInit PROVE SortInv
  OBVIOUS
<1>1. /\ Len(dag) \in Nat
      /\ \A n \in Node : \A S : Cardinality(dag[n].dependencies \ S) \in Nat
  BY DagFacts DEF SortInit, Node
<1>2. \A n \in Node : dag[n].dependencies \ {} = dag[n].dependencies
  OBVIOUS
<1>3. \A n \in Node : Cardinality(dag[n].dependencies) \in Nat
  BY <1>1, <1>2
<1>4. /\ execution_order = <<>> /\ queue = <<>>
      /\ Range(execution_order) = {} /\ Range(queue) = {}
  BY DEF SortInit, Range
<1>5. SortTypeOK
  BY <1>1, <1>3 DEF SortInit, SortTypeOK
<1>6. OnceEach
  BY <1>4 DEF OnceEach, Injective
<1>7. DegreesCount
  BY <1>4, <1>2 DEF SortInit, DegreesCount, Handled
<1>8. ListedWhenFree
  BY <1>4, <1>1 DEF SortInit, ListedWhenFree, Listed, Node
<1>9. Phases
  BY <1>4, <1>1 DEF SortInit, Phases
<1>10. DependenciesFirst
  BY <1>4 DEF DependenciesFirst
<1>. QED  BY <1>5, <1>6, <1>7, <1>8, <1>9, <1>10 DEF SortInv

\* A new node without dependencies joins the entry points.
LEMMA AddNodePreserves == SortInv /\ AddNode => SortInv'
<1>. SUFFICES ASSUME SortInv, AddNode PROVE SortInv'
  OBVIOUS
<1>. DEFINE m == added + 1
<1>. USE DEF SortInv
<1>1. /\ Len(dag) \in Nat /\ m \in Node /\ m \in Nat /\ added \in Nat /\ added < m
      /\ execution_order = <<>> /\ scan = Len(dag) + 1
      /\ Range(execution_order) = {} /\ popped \in Nat
  BY DagFacts DEF AddNode, SortTypeOK, Node, Phases, Range
<1>2. UNCHANGED <<dag, in_degree, popped, scan, execution_order>> /\ added' = m
  BY DEF AddNode
<1>3. Node' = Node
  BY <1>2 DEF Node
<1>4. \A k \in Node : Handled(k) = {} /\ Handled(k)' = {}
  BY <1>1, <1>2 DEF Handled
<1>5. \A k \in Node : in_degree[k] = 0 <=> dag[k].dependencies = {}
  <2>. SUFFICES ASSUME NEW k \in Node PROVE in_degree[k] = 0 <=> dag[k].dependencies = {}
    OBVIOUS
  <2>1. in_degree[k] = Cardinality(dag[k].dependencies \ {})
    BY <1>4 DEF DegreesCount
  <2>2. Cardinality(dag[k].dependencies \ {}) = 0 <=> dag[k].dependencies \ {} = {}
    BY DagFacts DEF SortTypeOK, Node
  <2>. QED  BY <2>1, <2>2
<1>6. m \notin Range(queue)
  BY <1>1 DEF ListedWhenFree, Listed
<1>7. CASE dag[m].dependencies = {}
  <2>1. queue' = Append(queue, m)
    BY <1>7 DEF AddNode
  <2>2. /\ queue' \in Seq(Node)
        /\ Range(queue') = Range(queue) \cup {m}
        /\ Injective(queue')
    BY <2>1, <1>1, <1>6, AppendNew DEF SortTypeOK, OnceEach
  <2>3. SortTypeOK'
    BY <2>2, <1>1, <1>2, <1>3 DEF SortTypeOK, Node
  <2>4. OnceEach'
    BY <2>2, <1>1, <1>2 DEF OnceEach
  <2>5. ListedWhenFree'
    <3>. SUFFICES ASSUME NEW k \in Node PROVE Listed(k)' <=> k <= m /\ in_degree[k] = 0
      BY <1>2, <1>3 DEF ListedWhenFree
    <3>1. Listed(k)' <=> Listed(k) \/ k = m
      BY <2>2, <1>2 DEF Listed
    <3>2. Listed(k) <=> k <= added /\ in_degree[k] = 0
      BY DEF ListedWhenFree
    <3>3. k \in Nat /\ (k <= m <=> k <= added \/ k = m)
      BY <1>1 DEF Node
    <3>. QED  BY <3>1, <3>2, <3>3, <1>5, <1>7
  <2>6. DegreesCount' /\ DependenciesFirst' /\ Phases'
    BY <1>1, <1>2, <1>3, <1>4 DEF DegreesCount, DependenciesFirst, Phases, Node
  <2>. QED  BY <2>3, <2>4, <2>5, <2>6
<1>8. CASE dag[m].dependencies # {}
  <2>1. queue' = queue
    BY <1>8 DEF AddNode
  <2>2. SortTypeOK'
    BY <2>1, <1>1, <1>2, <1>3 DEF SortTypeOK, Node
  <2>3. ListedWhenFree'
    <3>. SUFFICES ASSUME NEW k \in Node PROVE Listed(k)' <=> k <= m /\ in_degree[k] = 0
      BY <1>2, <1>3 DEF ListedWhenFree
    <3>1. Listed(k)' <=> Listed(k)
      BY <2>1, <1>2 DEF Listed
    <3>2. Listed(k) <=> k <= added /\ in_degree[k] = 0
      BY DEF ListedWhenFree
    <3>3. k \in Nat /\ (k <= m <=> k <= added \/ k = m)
      BY <1>1 DEF Node
    <3>. QED  BY <3>1, <3>2, <3>3, <1>5, <1>8
  <2>4. OnceEach' /\ DegreesCount' /\ DependenciesFirst' /\ Phases'
    BY <2>1, <1>1, <1>2, <1>3, <1>4
    DEF OnceEach, DegreesCount, DependenciesFirst, Phases, Node
  <2>. QED  BY <2>2, <2>3, <2>4
<1>. QED  BY <1>7, <1>8

\* A popped node has a count of zero: its dependencies are in the result.
LEMMA PopNodePreserves == SortInv /\ PopNode => SortInv'
<1>. SUFFICES ASSUME SortInv, PopNode PROVE SortInv'
  OBVIOUS
<1>. USE DEF SortInv
<1>. DEFINE p == queue[Len(queue)]
<1>1. /\ Len(dag) \in Nat /\ added = Len(dag) /\ scan > Len(dag) /\ scan \in Nat
      /\ queue # <<>> /\ queue \in Seq(Node) /\ Injective(queue)
      /\ execution_order \in Seq(Node)
  BY DagFacts DEF PopNode, SortTypeOK, OnceEach
<1>2. /\ queue' = SubSeq(queue, 1, Len(queue) - 1)
      /\ execution_order' = Append(execution_order, p)
      /\ popped' = p /\ scan' = 1
      /\ UNCHANGED <<dag, added, in_degree>>
  BY DEF PopNode
<1>3. /\ queue' \in Seq(Node) /\ p \in Node /\ p \in Range(queue)
      /\ Range(queue') = Range(queue) \ {p}
      /\ Injective(queue')
  BY <1>1, <1>2, FrontOf
<1>4. p \notin Range(execution_order)
  BY <1>3 DEF OnceEach
<1>5. /\ execution_order' \in Seq(Node)
      /\ Range(execution_order') = Range(execution_order) \cup {p}
      /\ Injective(execution_order')
  BY <1>1, <1>2, <1>3, <1>4, AppendNew DEF OnceEach
<1>6. Node' = Node
  BY <1>2 DEF Node
<1>. HIDE DEF p
<1>7. \A k \in Node : Handled(k) = Range(execution_order) /\ Handled(k)' = Range(execution_order)
  <2>. SUFFICES ASSUME NEW k \in Node
                PROVE Handled(k) = Range(execution_order) /\ Handled(k)' = Range(execution_order)
    OBVIOUS
  <2>1. k \in Nat /\ k >= 1 /\ ~(scan <= k)
    BY <1>1 DEF Node
  <2>2. Handled(k) = Range(execution_order)
    BY <2>1 DEF Handled
  <2>3. Handled(k)' = Range(execution_order') \ {p}
    BY <2>1, <1>2 DEF Handled
  <2>. QED  BY <2>2, <2>3, <1>4, <1>5
<1>8. SortTypeOK'
  BY <1>1, <1>2, <1>3, <1>5, <1>6 DEF SortTypeOK, Node
<1>9. OnceEach'
  BY <1>3, <1>5 DEF OnceEach
<1>10. DegreesCount'
  BY <1>2, <1>6, <1>7 DEF DegreesCount
<1>11. ListedWhenFree'
  <2>1. \A k \in Node : Listed(k)' <=> Listed(k)
    BY <1>3, <1>5 DEF Listed
  <2>. QED  BY <2>1, <1>2, <1>6 DEF ListedWhenFree
<1>12. Phases'
  BY <1>1, <1>2, <1>5 DEF Phases
<1>13. dag[p].dependencies \subseteq Range(execution_order)
  <2>1. Listed(p)
    BY <1>3 DEF Listed
  <2>2. Cardinality(dag[p].dependencies \ Range(execution_order)) = 0
    BY <2>1, <1>3, <1>7 DEF ListedWhenFree, DegreesCount
  <2>. QED  BY <2>2, <1>3, DagFacts DEF SortTypeOK, Node
<1>14. DependenciesFirst'
  <2>. SUFFICES ASSUME NEW i \in DOMAIN execution_order'
                PROVE dag[execution_order'[i]].dependencies
                        \subseteq {execution_order'[j] : j \in 1..(i - 1)}
    BY <1>2 DEF DependenciesFirst
  <2>1. /\ DOMAIN execution_order = 1..Len(execution_order) /\ Len(execution_order) \in Nat
        /\ i \in 1..(Len(execution_order) + 1)
        /\ \A j \in 1..Len(execution_order) : execution_order'[j] = execution_order[j]
        /\ execution_order'[Len(execution_order) + 1] = p
    BY <1>1, <1>2, <1>3, AppendProperties
  <2>2. CASE i \in 1..Len(execution_order)
    <3>1. dag[execution_order[i]].dependencies \subseteq {execution_order[j] : j \in 1..(i - 1)}
      BY <2>1, <2>2 DEF DependenciesFirst
    <3>2. \A j \in 1..(i - 1) : execution_order'[j] = execution_order[j]
      BY <2>1, <2>2
    <3>. QED  BY <3>1, <3>2, <2>1, <2>2
  <2>3. CASE i = Len(execution_order) + 1
    <3>1. Range(execution_order) = {execution_order[j] : j \in 1..Len(execution_order)}
      BY <2>1 DEF Range
    <3>2. \A j \in 1..(i - 1) : execution_order'[j] = execution_order[j]
      BY <2>1, <2>3
    <3>3. 1..(i - 1) = 1..Len(execution_order)
      BY <2>1, <2>3
    <3>. QED  BY <3>1, <3>2, <3>3, <1>13, <2>1, <2>3
  <2>. QED  BY <2>1, <2>2, <2>3
<1>. QED  BY <1>8, <1>9, <1>10, <1>11, <1>12, <1>14

\* Passing a dependent removes exactly the popped node from its count.
LEMMA FreeDependentPreserves == SortInv /\ FreeDependent => SortInv'
<1>. SUFFICES ASSUME SortInv, FreeDependent PROVE SortInv'
  OBVIOUS
<1>. USE DEF SortInv
<1>1. /\ Len(dag) \in Nat /\ scan \in Node /\ scan \in Nat /\ scan <= Len(dag)
      /\ scan' = scan + 1 /\ popped \in Range(execution_order)
      /\ UNCHANGED <<dag, added, popped, execution_order>>
  BY DagFacts DEF FreeDependent, SortTypeOK, Node, Phases
<1>2. Node' = Node
  BY <1>1 DEF Node
<1>3. added = Len(dag)
  BY <1>1, DagFacts DEF Phases, SortTypeOK
<1>4. \A k \in Node \ {scan} : Handled(k)' = Handled(k)
  <2>. SUFFICES ASSUME NEW k \in Node, k # scan PROVE Handled(k)' = Handled(k)
    OBVIOUS
  <2>1. scan' <= k <=> scan <= k
    BY <1>1 DEF Node
  <2>. QED  BY <2>1, <1>1 DEF Handled
<1>. PICK m \in Node : m = scan
  BY <1>1
<1>5. /\ Handled(m) = Range(execution_order) \ {popped}
      /\ Handled(m)' = Range(execution_order)
  BY <1>1 DEF Handled
<1>6. Phases' /\ DependenciesFirst'
  BY <1>1, <1>3 DEF Phases, DependenciesFirst
<1>. DEFINE deps == dag[m].dependencies
<1>7. CASE popped \notin deps
  <2>1. UNCHANGED <<in_degree, queue>>
    BY <1>7 DEF FreeDependent
  <2>2. deps \ Handled(m)' = deps \ Handled(m)
    BY <1>5, <1>7
  <2>3. DegreesCount'
    <3>. SUFFICES ASSUME NEW k \in Node
                  PROVE in_degree[k] = Cardinality(dag[k].dependencies \ Handled(k)')
      BY <1>1, <1>2, <2>1 DEF DegreesCount
    <3>1. CASE k = m
      BY <3>1, <2>2 DEF DegreesCount
    <3>2. CASE k # m
      BY <3>2, <1>4 DEF DegreesCount
    <3>. QED  BY <3>1, <3>2
  <2>4. SortTypeOK'
    BY <2>1, <1>1, <1>2 DEF SortTypeOK, Node
  <2>5. OnceEach' /\ ListedWhenFree'
    BY <2>1, <1>1, <1>2 DEF OnceEach, ListedWhenFree, Listed
  <2>. QED  BY <2>3, <2>4, <2>5, <1>6
<1>8. CASE popped \in deps
  <2>1. in_degree' = [in_degree EXCEPT ![m] = @ - 1]
    BY <1>8 DEF FreeDependent
  <2>2. queue' = IF in_degree'[m] = 0 THEN Append(queue, m) ELSE queue
    BY <1>8 DEF FreeDependent
  <2>3. /\ IsFiniteSet(deps \ Range(execution_order))
        /\ Cardinality(deps \ Range(execution_order)) \in Nat
    BY <1>1, DagFacts DEF SortTypeOK, Node
  <2>4. deps \ Handled(m) = (deps \ Range(execution_order)) \cup {popped}
    BY <1>1, <1>5, <1>8
  <2>5. popped \notin deps \ Range(execution_order)
    BY <1>1
  <2>6. in_degree[m] = Cardinality(deps \ Range(execution_order)) + 1
    <3>1. Cardinality((deps \ Range(execution_order)) \cup {popped})
            = Cardinality(deps \ Range(execution_order)) + 1
      BY <2>3, <2>5, FS_AddElement
    <3>2. in_degree[m] = Cardinality(deps \ Handled(m))
      BY <1>1 DEF DegreesCount
    <3>. QED  BY <3>1, <3>2, <2>4
  <2>7. /\ in_degree' \in [Node -> Nat]
        /\ in_degree'[m] = Cardinality(deps \ Range(execution_order))
        /\ \A k \in Node \ {m} : in_degree'[k] = in_degree[k]
    <3>. HIDE DEF deps
    <3>. QED  BY <2>1, <2>3, <2>6, <1>1 DEF SortTypeOK
  <2>8. DegreesCount'
    <3>. SUFFICES ASSUME NEW k \in Node
                  PROVE in_degree'[k] = Cardinality(dag[k].dependencies \ Handled(k)')
      BY <1>1, <1>2 DEF DegreesCount
    <3>1. CASE k = m
      BY <3>1, <2>7, <1>5
    <3>2. CASE k # m
      BY <3>2, <1>4, <2>7 DEF DegreesCount
    <3>. QED  BY <3>1, <3>2
  <2>9. m \notin Range(queue) /\ m \notin Range(execution_order)
    <3>1. in_degree[m] # 0
      BY <2>3, <2>6
    <3>. QED  BY <3>1, <1>1 DEF ListedWhenFree, Listed
  <2>10. /\ queue' \in Seq(Node) /\ Injective(queue')
         /\ Range(queue') = IF in_degree'[m] = 0 THEN Range(queue) \cup {m}
                            ELSE Range(queue)
    <3>1. CASE in_degree'[m] = 0
      <4>1. queue' = Append(queue, m)
        BY <2>2, <3>1
      <4>. QED  BY <3>1, <4>1, <2>9, <1>1, AppendNew DEF SortTypeOK, OnceEach
    <3>2. CASE in_degree'[m] # 0
      BY <2>2, <3>2 DEF SortTypeOK, OnceEach
    <3>. QED  BY <3>1, <3>2
  <2>11. SortTypeOK'
    BY <2>7, <2>10, <1>1, <1>2 DEF SortTypeOK, Node
  <2>12. OnceEach'
    BY <2>9, <2>10, <1>1 DEF OnceEach
  <2>13. ListedWhenFree'
    <3>. SUFFICES ASSUME NEW k \in Node
                  PROVE Listed(k)' <=> k <= added /\ in_degree'[k] = 0
      BY <1>1, <1>2 DEF ListedWhenFree
    <3>1. k <= added
      BY <1>3 DEF Node
    <3>2. Listed(k) <=> in_degree[k] = 0
      BY <3>1 DEF ListedWhenFree
    <3>3. CASE k = m
      BY <3>1, <3>3, <2>9, <2>10, <1>1 DEF Listed
    <3>4. CASE k # m
      BY <3>1, <3>2, <3>4, <2>7, <2>10, <1>1 DEF Listed
    <3>. QED  BY <3>3, <3>4
  <2>. QED  BY <2>8, <2>11, <2>12, <2>13, <1>6
<1>. QED  BY <1>7, <1>8

-----------------------------------------------------------------------------
\* The inductive invariant of the sort (add_node, execution_order).
THEOREM SortInvariantHolds == SortSpec => []SortInv
<1>1. SortInv /\ [SortNext]_sortVars => SortInv'
  <2>. SUFFICES ASSUME SortInv, [SortNext]_sortVars PROVE SortInv'
    OBVIOUS
  <2>1. CASE AddNode
    BY <2>1, AddNodePreserves
  <2>2. CASE PopNode
    BY <2>2, PopNodePreserves
  <2>3. CASE FreeDependent
    BY <2>3, FreeDependentPreserves
  <2>4. CASE UNCHANGED sortVars
    BY <2>4 DEF sortVars, SortInv, SortTypeOK, OnceEach, DegreesCount, ListedWhenFree, Listed,
                Handled, Phases, DependenciesFirst, Node
  <2>. QED  BY <2>1, <2>2, <2>3, <2>4 DEF SortNext
<1>. QED  BY InitEstablishes, <1>1, PTL DEF SortSpec

\* For every DAG, execution_order lists no node twice and every node after
\* all its dependencies.
THEOREM SortIsTopological == SortSpec => []OrderIsTopological
<1>1. SortInv => OrderIsTopological
  <2>. SUFFICES ASSUME SortInv, NEW i \in DOMAIN execution_order, NEW j \in DOMAIN execution_order
                PROVE  /\ execution_order[i] = execution_order[j] => i = j
                       /\ execution_order[j] \in dag[execution_order[i]].dependencies => j < i
                       /\ dag[execution_order[i]].dependencies \subseteq Range(execution_order)
    BY DEF OrderIsTopological
  <2>1. Injective(execution_order)
    BY DEF SortInv, OnceEach
  <2>2. dag[execution_order[i]].dependencies \subseteq {execution_order[k] : k \in 1..(i - 1)}
    BY DEF SortInv, DependenciesFirst
  <2>3. DOMAIN execution_order = 1..Len(execution_order) /\ Len(execution_order) \in Nat
    BY DEF SortInv, SortTypeOK
  <2>4. \A k \in 1..(i - 1) : k \in DOMAIN execution_order
    BY <2>3
  <2>5. ASSUME execution_order[j] \in dag[execution_order[i]].dependencies PROVE j < i
    <3>1. PICK k \in 1..(i - 1) : execution_order[j] = execution_order[k]
      BY <2>2, <2>5
    <3>2. j = k
      BY <3>1, <2>1, <2>4 DEF Injective
    <3>. QED  BY <3>2, <2>3
  <2>6. dag[execution_order[i]].dependencies \subseteq Range(execution_order)
    BY <2>2, <2>4 DEF Range
  <2>. QED  BY <2>1, <2>5, <2>6 DEF Injective
<1>. QED  BY <1>1, SortInvariantHolds, PTL

\* An empty stack leaves no node behind.
LEMMA CompleteOrder == SortInv => OrderIsComplete
<1>. SUFFICES ASSUME SortInv, Sorted PROVE Range(execution_order) = Node
  BY DEF OrderIsComplete
<1>1. /\ Len(dag) \in Nat /\ added = Len(dag) /\ scan > Len(dag) /\ scan \in Nat
      /\ dag \in Dags
  BY DagFacts DEF SortInv, SortTypeOK, Sorted
<1>2. Range(queue) = {}
  BY DEF Sorted, Range
<1>3. Range(execution_order) \subseteq Node
  BY RangeOfSeq DEF SortInv, SortTypeOK
<1>. DEFINE Missing == Node \ Range(execution_order)
<1>4. ASSUME Missing # {} PROVE FALSE
  <2>1. Missing \in SUBSET Nat
    BY DEF Node
  <2>2. PICK m \in Missing : \A k \in Missing : m <= k
    BY <1>4, <2>1, Smallest
  <2>3. m \in Node /\ m \in Nat /\ m <= added
    BY <1>1 DEF Node
  <2>4. \A k \in 1..(m - 1) : k \in Range(execution_order)
    <3>. SUFFICES ASSUME NEW k \in 1..(m - 1) PROVE k \in Range(execution_order)
      OBVIOUS
    <3>1. k \in Node /\ ~(m <= k)
      BY <2>3 DEF Node
    <3>. QED  BY <3>1, <2>2
  <2>5. dag[m].dependencies \subseteq 1..(m - 1)
    BY <2>3, <1>1, DagFacts DEF Node
  <2>6. Handled(m) = Range(execution_order)
    BY <1>1, <2>3 DEF Handled, Node
  <2>7. dag[m].dependencies \ Handled(m) = {}
    BY <2>4, <2>5, <2>6
  <2>8. in_degree[m] = 0
    BY <2>3, <2>7, FS_EmptySet DEF SortInv, DegreesCount
  <2>9. Listed(m)
    BY <2>3, <2>8 DEF SortInv, ListedWhenFree
  <2>. QED  BY <2>9, <1>2 DEF Listed
<1>. QED  BY <1>3, <1>4

\* For every DAG, the sort drops no node.
THEOREM SortIsComplete == SortSpec => []OrderIsComplete
<1>. QED  BY CompleteOrder, SortInvariantHolds, PTL

\* Counting the members of a set of numbers up to each of them numbers them
\* from 1.
LEMMA RankNumbers ==
  ASSUME NEW L \in Nat, NEW K \in SUBSET (1..L)
  PROVE  LET rank == [i \in K |-> Cardinality({j \in K : j <= i})]
         IN  /\ Cardinality(K) \in Nat
             /\ \A i \in K : rank[i] \in 1..Cardinality(K)
             /\ \A i, j \in K : rank[i] = rank[j] => i = j
             /\ \A k \in 1..Cardinality(K) : \E i \in K : rank[i] = k
<1>. DEFINE Upto(i) == {j \in K : j <= i}
            rank == [i \in K |-> Cardinality({j \in K : j <= i})]
<1>1. IsFiniteSet(K) /\ Cardinality(K) \in Nat
  <2>1. IsFiniteSet(1..L)
    BY FS_Interval
  <2>2. IsFiniteSet(K)
    BY <2>1, FS_Subset
  <2>. QED  BY <2>2, FS_CardinalityType
<1>2. \A i \in K : i \in Int
  OBVIOUS
<1>3. ASSUME NEW i \in K
      PROVE  IsFiniteSet(Upto(i)) /\ Cardinality(Upto(i)) \in 1..Cardinality(K)
  <2>1. IsFiniteSet(Upto(i)) /\ Cardinality(Upto(i)) <= Cardinality(K)
    BY <1>1, FS_Subset
  <2>2. Upto(i) # {}
    BY <1>2
  <2>. HIDE DEF Upto
  <2>3. Cardinality(Upto(i)) \in Nat /\ Cardinality(Upto(i)) # 0
    BY <2>1, <2>2, FS_CardinalityType, FS_EmptySet
  <2>. QED  BY <1>1, <2>1, <2>3
<1>4. ASSUME NEW i \in K, NEW j \in K, i < j PROVE Cardinality(Upto(i)) # Cardinality(Upto(j))
  <2>1. Upto(i) \subseteq Upto(j)
    <3>1. \A h \in K : h <= i => h <= j
      BY <1>2, <1>4
    <3>. QED  BY <3>1
  <2>2. j \in Upto(j) /\ j \notin Upto(i)
    BY <1>2, <1>4
  <2>3. IsFiniteSet(Upto(j))
    BY <1>3
  <2>. HIDE DEF Upto
  <2>. QED  BY <2>1, <2>2, <2>3, FS_Subset
<1>5. \A i \in K : rank[i] = Cardinality(Upto(i))
  OBVIOUS
<1>6. \A i \in K : rank[i] \in 1..Cardinality(K)
  BY <1>3, <1>5
<1>7. \A i, j \in K : rank[i] = rank[j] => i = j
  <2>. HIDE DEF Upto
  <2>. SUFFICES ASSUME NEW i \in K, NEW j \in K, i # j PROVE rank[i] # rank[j]
    OBVIOUS
  <2>1. i < j \/ j < i
    BY <1>2
  <2>. QED  BY <2>1, <1>4, <1>5
<1>8. \A k \in 1..Cardinality(K) : \E i \in K : rank[i] = k
  <2>. DEFINE T == 1..Cardinality(K)
  <2>1. rank \in [K -> T]
    BY <1>6
  <2>2. rank \in Injection(K, T)
    BY <2>1, <1>7 DEF Injection, IsInjective
  <2>3. IsFiniteSet(T) /\ Cardinality(T) = Cardinality(K)
    BY <1>1, FS_Interval
  <2>. HIDE DEF T
  <2>4. rank \in Surjection(K, T)
    BY <2>2, <2>3, FS_Injection
  <2>5. \A k \in T : \E i \in K : rank[i] = k
    BY <2>4 DEF Surjection
  <2>. QED  BY <2>5 DEF T
<1>. QED  BY <1>1, <1>6, <1>7, <1>8

\* A batch lists every node that is ready, once.
LEMMA ReadyLists ==
  ASSUME Len(dag) \in Nat, execution_order \in Seq(Node), Injective(execution_order),
         Range(execution_order) = Node, NEW done, NEW deg
  PROVE  /\ Ready(done, deg) \in Seq(Node)
         /\ Injective(Ready(done, deg))
         /\ Range(Ready(done, deg)) = {n \in Node : n \notin done /\ deg[n] = 0}
<1>. DEFINE L == Len(execution_order)
            K == {i \in DOMAIN execution_order :
                    execution_order[i] \notin done /\ deg[execution_order[i]] = 0}
            rank == [i \in K |-> Cardinality({j \in K : j <= i})]
            N == Cardinality(K)
            at(k) == CHOOSE i \in K : rank[i] = k
            R == [k \in 1..N |-> execution_order[at(k)]]
<1>1. L \in Nat /\ DOMAIN execution_order = 1..L
  OBVIOUS
<1>2. /\ N \in Nat
      /\ \A i \in K : rank[i] \in 1..N
      /\ \A i, j \in K : rank[i] = rank[j] => i = j
      /\ \A k \in 1..N : \E i \in K : rank[i] = k
  <2>1. K \in SUBSET (1..L)
    BY <1>1
  <2>. HIDE DEF K, L
  <2>. QED  BY <1>1, <2>1, RankNumbers
<1>3. Ready(done, deg) = R
  BY DEF Ready
<1>4. \A k \in 1..N : at(k) \in K /\ rank[at(k)] = k
  <2>. HIDE DEF rank, K
  <2>. SUFFICES ASSUME NEW k \in 1..N PROVE at(k) \in K /\ rank[at(k)] = k
    OBVIOUS
  <2>1. \E i \in K : rank[i] = k
    BY <1>2
  <2>. QED  BY <2>1
<1>5. \A i \in K : at(rank[i]) = i
  <2>. HIDE DEF rank, K, at
  <2>. QED  BY <1>2, <1>4
<1>6. \A i \in K : i \in DOMAIN execution_order /\ execution_order[i] \in Node
  BY <1>1
<1>7. Injective(R)
  <2>. HIDE DEF rank, K, at
  <2>. SUFFICES ASSUME NEW k \in 1..N, NEW m \in 1..N, R[k] = R[m] PROVE k = m
    BY DEF Injective
  <2>1. at(k) = at(m)
    BY <1>4, <1>6 DEF Injective
  <2>. QED  BY <2>1, <1>4
<1>8. R \in [1..N -> Node]
  <2>. HIDE DEF rank, K, at
  <2>. QED  BY <1>4, <1>6
<1>9. R \in Seq(Node)
  <2>. HIDE DEF R, N
  <2>. QED  BY <1>8, <1>2
<1>10. Range(R) = {n \in Node : n \notin done /\ deg[n] = 0}
  <2>1. \A k \in 1..N : R[k] \notin done /\ deg[R[k]] = 0
    <3>1. \A i \in K : execution_order[i] \notin done /\ deg[execution_order[i]] = 0
      OBVIOUS
    <3>. HIDE DEF rank, K, at
    <3>. QED  BY <1>4, <3>1
  <2>2. ASSUME NEW n \in Node, n \notin done, deg[n] = 0 PROVE \E k \in 1..N : R[k] = n
    <3>1. PICK i \in DOMAIN execution_order : execution_order[i] = n
      BY DEF Range
    <3>2. i \in K
      BY <3>1, <2>2
    <3>. HIDE DEF rank, K, at
    <3>3. rank[i] \in 1..N /\ R[rank[i]] = n
      BY <3>1, <3>2, <1>2, <1>5
    <3>. QED  BY <3>3
  <2>. HIDE DEF rank, K, at
  <2>3. DOMAIN R = 1..N
    OBVIOUS
  <2>. HIDE DEF R
  <2>. QED  BY <2>1, <2>2, <2>3, <1>8 DEF Range
<1>. HIDE DEF R
<1>. QED  BY <1>3, <1>7, <1>9, <1>10
-----------------------------------------------------------------------------
\* What BuilderAssumption says of one DAG.
LEMMA BuilderFacts ==
  ASSUME NEW d \in Dags
  PROVE  /\ Len(d) \in Nat /\ Len(d) > 0 /\ DOMAIN d = 1..Len(d)
         /\ d[Len(d)].outputs # {}
         /\ \A n \in 1..Len(d) :
              /\ Len(d[n].kernels) \in 0..2
              /\ DOMAIN d[n].kernels = 1..Len(d[n].kernels)
              /\ \A i \in DOMAIN d[n].kernels :
                   d[n].kernels[i] = [reads |-> d[n].kernels[i].reads,
                                      writes |-> d[n].kernels[i].writes]
<1>1. /\ Len(d) \in Nat /\ Len(d) > 0 /\ DOMAIN d = 1..Len(d)
      /\ d[Len(d)].outputs # {}
  BY DagsAssumption, BuilderAssumption DEF IsDag, HasOneWriter
<1>2. \A n \in 1..Len(d) :
        /\ Len(d[n].kernels) \in 0..2
        /\ DOMAIN d[n].kernels = 1..Len(d[n].kernels)
        /\ \A k \in Range(d[n].kernels) : k = [reads |-> k.reads, writes |-> k.writes]
  BY <1>1, BuilderAssumption DEF HasOneWriter
<1>3. \A n \in 1..Len(d) : \A i \in DOMAIN d[n].kernels : d[n].kernels[i] \in Range(d[n].kernels)
  BY DEF Range
<1>. QED  BY <1>1, <1>2, <1>3

\* Every output is written by a kernel of the node.
LEMMA OutputsAreWritten ==
  ASSUME NEW d \in Dags, NEW n \in 1..Len(d), NEW b \in d[n].outputs
  PROVE  b # Embed /\ b \in Written(d, n)
<1>1. n \in DOMAIN d
  BY BuilderFacts
<1>2. d[n].outputs \subseteq Written(d, n) \ {Embed}
  BY <1>1, BuilderAssumption DEF HasOneWriter
<1>. QED  BY <1>2

LEMMA OneProducer ==
  ASSUME NEW d \in Dags, NEW m \in 1..Len(d), NEW n \in 1..Len(d),
         NEW b \in d[m].outputs, b \in d[n].outputs
  PROVE  m = n
<1>1. m \in DOMAIN d /\ n \in DOMAIN d
  BY BuilderFacts
<1>2. d[m].outputs \cap d[n].outputs # {} => m = n
  BY <1>1, BuilderAssumption DEF HasOneWriter
<1>. QED  BY <1>2

LEMMA OneKernel ==
  ASSUME NEW d \in Dags, NEW m \in 1..Len(d), NEW n \in 1..Len(d),
         NEW i \in DOMAIN d[m].kernels, NEW j \in DOMAIN d[n].kernels,
         d[m].kernels[i].writes = d[n].kernels[j].writes
  PROVE  m = n /\ i = j
<1>1. m \in DOMAIN d /\ n \in DOMAIN d
  BY BuilderFacts
<1>2. \A h \in DOMAIN d[m].kernels, k \in DOMAIN d[n].kernels :
        d[m].kernels[h].writes = d[n].kernels[k].writes => m = n /\ h = k
  BY <1>1, BuilderAssumption DEF HasOneWriter
<1>. QED  BY <1>2

LEMMA WrittenBy ==
  ASSUME NEW d \in Dags, NEW n \in 1..Len(d), NEW b \in Written(d, n)
  PROVE  \E i \in DOMAIN d[n].kernels : b \in d[n].kernels[i].writes
BY DEF Written

\* The buffers of the nodes.
LEMMA BuffersOfNodes ==
  ASSUME dag \in Dags, NEW n \in Node
  PROVE  /\ dag[n].outputs \subseteq Buffers
         /\ \A i \in DOMAIN dag[n].kernels :
              /\ dag[n].kernels[i] \in Kernels
              /\ dag[n].kernels[i].reads \subseteq Buffers
              /\ dag[n].kernels[i].writes \subseteq Buffers
<1>1. ASSUME NEW i \in DOMAIN dag[n].kernels
      PROVE  /\ dag[n].kernels[i] \in Kernels
             /\ dag[n].kernels[i].reads \subseteq Buffers
             /\ dag[n].kernels[i].writes \subseteq Buffers
  <2>. DEFINE k == dag[n].kernels[i]
  <2>1. k \in Range(dag[n].kernels)
    BY DEF Range
  <2>2. k \in Kernels
    BY <2>1 DEF Kernels
  <2>. HIDE DEF k
  <2>3. Buffer(k) \subseteq Buffers
    BY <2>2 DEF Buffers
  <2>. QED  BY <2>2, <2>3 DEF Buffer, k
<1>2. ASSUME NEW b \in dag[n].outputs PROVE b \in Buffers
  <2>1. PICK i \in DOMAIN dag[n].kernels : b \in dag[n].kernels[i].writes
    BY OutputsAreWritten, WrittenBy DEF Node
  <2>. QED  BY <2>1, <1>1
<1>. QED  BY <1>1, <1>2

-----------------------------------------------------------------------------
\* The types of a pass.
LEMMA Typing ==
  ASSUME SortInv, PassInv
  PROVE  /\ dag \in Dags /\ Len(dag) \in Nat /\ Len(dag) > 0
         /\ \A n \in Node : n \in 1..Len(dag) /\ n \in Nat
         /\ dependency_dispatch \in BOOLEAN
         /\ pass \in {"load", "encode", "failed", "committed"}
         /\ ready \in Seq(Node) /\ Len(ready) \in Nat /\ DOMAIN ready = 1..Len(ready)
         /\ next \in 1..(Len(ready) + 1) /\ next \in Nat
         /\ kernel \in 1..3 /\ kernel \in Nat
         /\ completed \subseteq Node
         /\ registry \subseteq Buffers
         /\ mem_ranges \in [reads : SUBSET Buffers, writes : SUBSET Buffers]
         /\ epoch \in Nat
         /\ commands \in Seq([reads : SUBSET Buffers, writes : SUBSET Buffers, epoch : 0..epoch])
         /\ Len(commands) \in Nat /\ DOMAIN commands = 1..Len(commands)
         /\ \A c \in DOMAIN commands : /\ commands[c].epoch \in Nat
                                       /\ commands[c].epoch <= epoch
         /\ finished \subseteq started /\ started \subseteq DOMAIN commands
         /\ started # {} => pass = "committed"
<1>1. dag \in Dags /\ Len(dag) \in Nat /\ Len(dag) > 0
  BY BuilderFacts DEF SortInv, SortTypeOK
<1>2. \A n \in Node : n \in 1..Len(dag) /\ n \in Nat
  BY <1>1 DEF Node
<1>3. /\ ready \in Seq(Node) /\ next \in 1..(Len(ready) + 1) /\ kernel \in 1..3 /\ epoch \in Nat
      /\ commands \in Seq([reads : SUBSET Buffers, writes : SUBSET Buffers, epoch : 0..epoch])
  BY DEF PassInv, TypeOK
<1>4. Len(ready) \in Nat /\ DOMAIN ready = 1..Len(ready) /\ next \in Nat /\ kernel \in Nat
  BY <1>3
<1>5. /\ Len(commands) \in Nat /\ DOMAIN commands = 1..Len(commands)
      /\ \A c \in DOMAIN commands : commands[c].epoch \in 0..epoch
  <2>. DEFINE C == [reads : SUBSET Buffers, writes : SUBSET Buffers, epoch : 0..epoch]
  <2>1. \A c \in C : c.epoch \in 0..epoch
    OBVIOUS
  <2>. HIDE DEF C
  <2>2. commands \in Seq(C)
    BY <1>3 DEF C
  <2>. QED  BY <2>1, <2>2
<1>6. \A c \in DOMAIN commands : commands[c].epoch \in Nat /\ commands[c].epoch <= epoch
  BY <1>3, <1>5
<1>7. /\ dependency_dispatch \in BOOLEAN
      /\ pass \in {"load", "encode", "failed", "committed"}
      /\ completed \subseteq Node
      /\ registry \subseteq Buffers
      /\ mem_ranges \in [reads : SUBSET Buffers, writes : SUBSET Buffers]
      /\ finished \subseteq started /\ started \subseteq DOMAIN commands
      /\ started # {} => pass = "committed"
  BY DEF PassInv, TypeOK
<1>. QED  BY <1>1, <1>2, <1>3, <1>4, <1>5, <1>6, <1>7

\* The nodes that have been executed; with dependency dispatch, after the
\* nodes they depend on.
LEMMA ExecutedNodes ==
  ASSUME SortInv, PassInv
  PROVE  /\ Executed \subseteq Node
         /\ next \in DOMAIN ready => ready[next] \in Node /\ ready[next] \notin Executed
                                     /\ ready[next] \notin completed
         /\ dependency_dispatch =>
              /\ \A n \in Executed : dag[n].dependencies \subseteq completed
              /\ next \in DOMAIN ready => dag[ready[next]].dependencies \subseteq completed
         /\ completed \subseteq Executed
<1>1. /\ ready \in Seq(Node) /\ DOMAIN ready = 1..Len(ready) /\ Len(ready) \in Nat
      /\ next \in 1..(Len(ready) + 1) /\ next \in Nat /\ completed \subseteq Node
  BY Typing
<1>2. \A j \in 1..(next - 1) : j \in DOMAIN ready /\ ready[j] \in Node
  BY <1>1
<1>3. \A j \in DOMAIN ready : ready[j] \in Range(ready)
  BY DEF Range
<1>4. /\ \A i, j \in DOMAIN ready : ready[i] = ready[j] => i = j
      /\ Range(ready) \cap completed = {}
      /\ dependency_dispatch =>
           /\ \A n \in completed : dag[n].dependencies \subseteq completed
           /\ \A n \in Range(ready) : dag[n].dependencies \subseteq completed
  BY DEF PassInv, Batches
<1>5. Executed \subseteq Node
  BY <1>1, <1>2 DEF Executed
<1>6. ASSUME next \in DOMAIN ready
      PROVE  ready[next] \in Node /\ ready[next] \notin Executed /\ ready[next] \notin completed
  <2>1. ready[next] \in Node /\ ready[next] \notin completed
    BY <1>1, <1>3, <1>4, <1>6
  <2>2. \A j \in 1..(next - 1) : j # next
    BY <1>1
  <2>3. \A j \in 1..(next - 1) : ready[j] # ready[next]
    BY <1>2, <1>4, <1>6, <2>2
  <2>. QED  BY <2>1, <2>3 DEF Executed
<1>7. ASSUME dependency_dispatch
      PROVE  /\ \A n \in Executed : dag[n].dependencies \subseteq completed
             /\ next \in DOMAIN ready => dag[ready[next]].dependencies \subseteq completed
  BY <1>2, <1>3, <1>4, <1>7 DEF Executed
<1>. QED  BY <1>5, <1>6, <1>7 DEF Executed

\* The node that produces a bound tensor has succeeded.
LEMMA ProducerSucceeded ==
  ASSUME SortInv, PassInv, NEW n \in Node, NEW b \in dag[n].outputs, b \in registry
  PROVE  Succeeded(n)
<1>1. dag \in Dags /\ \A m \in Node : m \in 1..Len(dag)
  BY Typing
<1>2. b # Embed
  BY <1>1, OutputsAreWritten
<1>3. PICK m \in Node : b \in dag[m].outputs /\ Succeeded(m)
  BY <1>2 DEF PassInv, Bound
<1>4. m = n
  BY <1>1, <1>3, OneProducer
<1>. QED  BY <1>3, <1>4

\* No node finds a tensor that nothing produces.
LEMMA HopelessFails ==
  ASSUME SortInv, PassInv, NEW n \in Node, Finds(n)
  PROVE  ~Hopeless(dag, n)
<1>1. DOMAIN dag = Node
  BY Typing, BuilderFacts DEF Node
<1>. SUFFICES ASSUME NEW b \in dag[n].needs, b # Embed, \A m \in Node : b \notin dag[m].outputs
              PROVE FALSE
  BY <1>1 DEF Hopeless
<1>2. b \in registry
  BY DEF Finds
<1>. QED  BY <1>2 DEF PassInv, Bound

\* The nodes a successful one looks its tensors up from have succeeded.
Sound(S) == \A p \in S : p \in Node /\ Finds(p) /\ (p \in Executed => Succeeded(p))

LEMMA UsedByIsSound ==
  ASSUME SortInv, PassInv, NEW S, Sound(S)
  PROVE  Sound(UsedBy(dag, S))
<1>1. DOMAIN dag = Node
  BY Typing, BuilderFacts DEF Node
<1>. SUFFICES ASSUME NEW p \in Node, NEW n \in S, Uses(dag, n, p)
              PROVE Succeeded(p)
  BY <1>1 DEF UsedBy, Sound, Succeeded
<1>2. PICK b \in dag[n].needs : b \in dag[p].outputs
  BY DEF Uses
<1>3. b \in registry
  BY <1>2 DEF Sound, Finds
<1>. QED  BY <1>2, <1>3, ProducerSucceeded

\* With dependency dispatch, the nodes directly behind successful ones
\* succeed when they are executed.
Certain(S) == \A p \in S : p \in Node /\ (p \in Executed => Succeeded(p))

LEMMA FollowingIsCertain ==
  ASSUME SortInv, PassInv, dependency_dispatch, NEW S, Certain(S)
  PROVE  Certain(Following(dag, S))
<1>1. dag \in Dags /\ DOMAIN dag = Node /\ \A m \in Node : m \in 1..Len(dag)
  BY Typing, BuilderFacts DEF Node
<1>. SUFFICES ASSUME NEW m \in Node, m \in Executed, Direct(dag, m),
                     \A b \in dag[m].needs \ {Embed} : \E p \in S : b \in dag[p].outputs
              PROVE Succeeded(m)
  BY <1>1 DEF Following, Certain
<1>2. Embed \in registry
  <2>. SUFFICES ASSUME Embed \notin registry PROVE FALSE
    OBVIOUS
  <2>1. next = 1 /\ completed = {}
    BY DEF PassInv, Batches
  <2>. QED  BY <2>1 DEF Executed
<1>3. ASSUME NEW b \in dag[m].needs, b # Embed PROVE b \in registry
  <2>1. PICK p \in S : b \in dag[p].outputs
    BY <1>3
  <2>2. PICK q \in dag[m].dependencies : b \in dag[q].outputs
    BY <1>3 DEF Direct
  <2>3. q \in completed /\ q \in Node
    BY <2>2, ExecutedNodes, Typing
  <2>4. p \in Node
    BY DEF Certain
  <2>5. p = q
    BY <2>1, <2>2, <2>3, <2>4, <1>1, OneProducer
  <2>6. Succeeded(p)
    BY <2>3, <2>5, ExecutedNodes DEF Certain
  <2>. QED  BY <2>1, <2>6 DEF Succeeded
<1>4. dag[m].weights = {}
  BY DEF Direct
<1>5. Finds(m)
  BY <1>2, <1>3, <1>4 DEF Finds
<1>. QED  BY <1>5 DEF PassInv, Bound
-----------------------------------------------------------------------------
\* If one node finds its tensors, the nodes that implies have succeeded.
LEMMA ImpliedSucceeds ==
  ASSUME SortInv, PassInv, dependency_dispatch,
         NEW n \in Node, Finds(n), n \in Executed => Succeeded(n),
         NEW m \in Executed, Implies(dag, n, m)
  PROVE  Succeeded(m)
<1>1. PICK u1 : u1 = UsedBy(dag, {n})
  OBVIOUS
<1>2. PICK u2 : u2 = UsedBy(dag, u1)
  OBVIOUS
<1>3. PICK u3 : u3 = UsedBy(dag, u2)
  OBVIOUS
<1>4. PICK f1 : f1 = Following(dag, u3)
  OBVIOUS
<1>5. PICK f2 : f2 = Following(dag, f1)
  OBVIOUS
<1>6. PICK f3 : f3 = Following(dag, f2)
  OBVIOUS
<1>7. Sound({n})
  BY DEF Sound
<1>8. Sound(u1)
  BY <1>1, <1>7, UsedByIsSound
<1>9. Sound(u2)
  BY <1>2, <1>8, UsedByIsSound
<1>10. Sound(u3)
  BY <1>3, <1>9, UsedByIsSound
<1>11. Certain(u3)
  BY <1>10 DEF Sound, Certain
<1>12. Certain(f1)
  BY <1>4, <1>11, FollowingIsCertain
<1>13. Certain(f2)
  BY <1>5, <1>12, FollowingIsCertain
<1>14. Certain(f3)
  BY <1>6, <1>13, FollowingIsCertain
<1>15. (\E p \in u3 : Hopeless(dag, p)) \/ m \in f3
  BY <1>1, <1>2, <1>3, <1>4, <1>5, <1>6 DEF Implies
<1>16. \A p \in u3 : ~Hopeless(dag, p)
  BY <1>10, HopelessFails DEF Sound
<1>. QED  BY <1>14, <1>15, <1>16 DEF Certain

\* What a successful node writes is in the encoder.
LEMMA WritersAreEncoded ==
  ASSUME SortInv, PassInv, NEW n \in Node, Succeeded(n), NEW b \in Written(dag, n)
  PROVE  \E c \in DOMAIN commands : b \in commands[c].writes
<1>1. dag \in Dags /\ n \in 1..Len(dag)
  BY Typing
<1>2. PICK i \in DOMAIN dag[n].kernels : b \in dag[n].kernels[i].writes
  BY <1>1, WrittenBy
<1>. QED  BY <1>2 DEF Succeeded, IsKernel

\* Tensors and commands are only added to.
Grows ==
  /\ dag' = dag /\ unbound' = unbound
  /\ registry \subseteq registry'
  /\ \A c \in DOMAIN commands : c \in DOMAIN commands' /\ commands'[c] = commands[c]

LEMMA SuccessStays ==
  ASSUME Grows, NEW n
  PROVE  /\ Finds(n) => Finds(n)'
         /\ Succeeded(n) => Succeeded(n)'
         /\ \A c \in DOMAIN commands : \A i : IsKernel(c, n, i) => IsKernel(c, n, i)'
<1>1. Finds(n) => Finds(n)'
  BY DEF Grows, Finds
<1>2. \A c \in DOMAIN commands : \A i : IsKernel(c, n, i) => IsKernel(c, n, i)'
  BY DEF Grows, IsKernel
<1>3. ASSUME Succeeded(n) PROVE Succeeded(n)'
  <2>1. (dag[n].outputs \subseteq registry)'
    BY <1>3 DEF Succeeded, Grows
  <2>2. ASSUME NEW i \in DOMAIN dag[n].kernels
        PROVE  \E c \in DOMAIN commands' : IsKernel(c, n, i)'
    <3>1. PICK c \in DOMAIN commands : IsKernel(c, n, i)
      BY <1>3, <2>2 DEF Succeeded
    <3>. QED  BY <3>1, <1>2 DEF Grows
  <2>3. dag' = dag
    BY DEF Grows
  <2>. QED  BY <1>1, <1>3, <2>1, <2>2, <2>3 DEF Succeeded
<1>. QED  BY <1>1, <1>2, <1>3

\* The end of the sort.
LEMMA SortedOrder ==
  ASSUME SortInv, Sorted
  PROVE  /\ execution_order \in Seq(Node) /\ Injective(execution_order)
         /\ Range(execution_order) = Node
BY CompleteOrder DEF OrderIsComplete, SortInv, SortTypeOK, OnceEach

\* A batch has the nodes whose dependencies are in the batches before it.
Free(done) == {n \in Node \ done : dag[n].dependencies \subseteq done}
Counts(deg, done) == \A n \in Node : deg[n] = Cardinality(dag[n].dependencies \ done)

LEMMA NextBatch ==
  ASSUME SortInv, Sorted, NEW done, NEW deg, Counts(deg, done)
  PROVE  /\ Ready(done, deg) \in Seq(Node) /\ Injective(Ready(done, deg))
         /\ Range(Ready(done, deg)) = Free(done)
<1>1. dag \in Dags /\ Len(dag) \in Nat
  BY DagFacts DEF SortInv, SortTypeOK
<1>2. /\ Ready(done, deg) \in Seq(Node) /\ Injective(Ready(done, deg))
      /\ Range(Ready(done, deg)) = {n \in Node : n \notin done /\ deg[n] = 0}
  BY <1>1, SortedOrder, ReadyLists
<1>3. \A n \in Node : deg[n] = 0 <=> dag[n].dependencies \subseteq done
  <2>. SUFFICES ASSUME NEW n \in Node PROVE deg[n] = 0 <=> dag[n].dependencies \subseteq done
    OBVIOUS
  <2>1. Cardinality(dag[n].dependencies \ done) = 0 <=> dag[n].dependencies \ done = {}
    BY <1>1, DagFacts DEF Node
  <2>. QED  BY <2>1 DEF Counts
<1>. QED  BY <1>2, <1>3 DEF Free
-----------------------------------------------------------------------------
\* The encoder, the registry and the position in the batch stay as they are.
EncodingStays ==
  /\ UNCHANGED <<dag, dependency_dispatch, unbound, ready, next, kernel, completed>>
  /\ UNCHANGED <<degree, registry, mem_ranges, epoch, commands>>

LEMMA EncodingKept ==
  ASSUME PassInv, EncodingStays
  PROVE  /\ Node' = Node /\ Kernels' = Kernels /\ Buffers' = Buffers
         /\ OptionalWeights(dag)' = OptionalWeights(dag)
         /\ Encoded' /\ Bound'
<1>1. UNCHANGED <<dag, dependency_dispatch, unbound, ready, next, kernel, completed>>
  BY DEF EncodingStays
<1>2. UNCHANGED <<degree, registry, mem_ranges, epoch, commands>>
  BY DEF EncodingStays
<1>3. Node' = Node /\ OptionalWeights(dag)' = OptionalWeights(dag)
  BY <1>1 DEF Node
<1>4. Kernels' = Kernels
  BY <1>1, <1>3 DEF Kernels
<1>5. Buffers' = Buffers
  BY <1>4 DEF Buffers
<1>6. Executed' = Executed /\ node' = node
  BY <1>1 DEF Executed, node
<1>7. /\ \A n : Finds(n)' = Finds(n)
      /\ \A c, n, i : IsKernel(c, n, i)' = IsKernel(c, n, i)
  BY <1>1, <1>2 DEF Finds, IsKernel
<1>8. \A n : Succeeded(n)' = Succeeded(n)
  BY <1>1, <1>2 DEF Succeeded, Finds, IsKernel
<1>9. Encoded'
  BY <1>1, <1>2, <1>3, <1>6, <1>7 DEF PassInv, Encoded
<1>10. Bound'
  BY <1>1, <1>2, <1>3, <1>6, <1>7, <1>8 DEF PassInv, Bound
<1>. QED  BY <1>3, <1>4, <1>5, <1>9, <1>10

\* Loading the model does not touch the pass.
LEMMA LoadPreserves == ASSUME SortInv, PassInv, Load PROVE PassInv'
<1>1. pass = "load" /\ UNCHANGED <<passVars, gpuVars, dag>>
  BY DEF Load, SortNext, AddNode, PopNode, FreeDependent
<1>2. EncodingStays /\ UNCHANGED <<pass, seq_len, started, finished>>
  BY <1>1 DEF EncodingStays, passVars, gpuVars
<1>3. /\ Node' = Node /\ Kernels' = Kernels /\ Buffers' = Buffers
      /\ OptionalWeights(dag)' = OptionalWeights(dag)
      /\ Encoded' /\ Bound'
  BY <1>2, EncodingKept
<1>4. TypeOK'
  BY <1>2, <1>3 DEF PassInv, TypeOK, EncodingStays
<1>5. Batches'
  BY <1>1, <1>2, <1>3 DEF PassInv, Batches, EncodingStays
<1>6. Ended' /\ Epochs' /\ CommittedPassIsWhole'
  BY <1>2, <1>3 DEF PassInv, Ended, Epochs, CommittedPassIsWhole, EncodingStays
<1>. QED  BY <1>3, <1>4, <1>5, <1>6 DEF PassInv

\* A pass that fails before its end leaves everything as it is.
LEMMA FailurePreserves ==
  ASSUME SortInv, PassInv, LookupFails \/ NodeFails \/ OutputMissing
  PROVE  PassInv'
<1>1. /\ pass \in {"load", "encode"} /\ pass' = "failed"
      /\ pass = "load" => Sorted
      /\ UNCHANGED sortVars /\ EncodingStays /\ UNCHANGED <<seq_len, started, finished>>
  BY DEF LookupFails, NodeFails, OutputMissing, Encoding, AllEncoded, EncodingStays, sortVars,
         gpuVars
<1>2. /\ Node' = Node /\ Kernels' = Kernels /\ Buffers' = Buffers
      /\ OptionalWeights(dag)' = OptionalWeights(dag)
      /\ Encoded' /\ Bound'
  BY <1>1, EncodingKept
<1>3. started = {}
  BY <1>1, Typing
<1>4. TypeOK'
  BY <1>1, <1>2, <1>3 DEF PassInv, TypeOK, EncodingStays
<1>5. Sorted /\ Sorted' = Sorted
  BY <1>1 DEF PassInv, Batches, Sorted, sortVars
<1>6. Batches'
  BY <1>1, <1>2, <1>5 DEF PassInv, Batches, EncodingStays
<1>7. Ended' /\ CommittedPassIsWhole'
  BY <1>1, <1>2 DEF PassInv, Ended, CommittedPassIsWhole, EncodingStays
<1>8. Epochs'
  BY <1>1, <1>2 DEF PassInv, Epochs, EncodingStays
<1>. QED  BY <1>2, <1>4, <1>6, <1>7, <1>8 DEF PassInv

\* The GPU starts a command when the epochs before its own have finished.
LEMMA GpuPreserves == ASSUME SortInv, PassInv, Gpu PROVE PassInv'
<1>1. UNCHANGED <<sortVars, passVars>>
  BY DEF Gpu, Start, Finish
<1>2. /\ UNCHANGED sortVars /\ EncodingStays
      /\ UNCHANGED <<pass, seq_len>>
  BY <1>1 DEF EncodingStays, passVars, sortVars
<1>3. /\ Node' = Node /\ Kernels' = Kernels /\ Buffers' = Buffers
      /\ OptionalWeights(dag)' = OptionalWeights(dag)
      /\ Encoded' /\ Bound'
  BY <1>2, EncodingKept
<1>4. Sorted' = Sorted /\ execution_order' = execution_order
  BY <1>2 DEF Sorted, sortVars
<1>5. Batches'
  BY <1>2, <1>3, <1>4 DEF PassInv, Batches, EncodingStays
<1>6. Ended' /\ CommittedPassIsWhole'
  BY <1>2, <1>3 DEF PassInv, Ended, CommittedPassIsWhole, EncodingStays
<1>7. /\ finished \subseteq started /\ started \subseteq DOMAIN commands
      /\ started # {} => pass = "committed"
      /\ \A c \in started : \A d \in DOMAIN commands :
           commands[d].epoch < commands[c].epoch => d \in finished
  BY DEF PassInv, TypeOK, Epochs
<1>8. PICK c \in DOMAIN commands : Start(c) \/ Finish(c)
  BY DEF Gpu
<1>9. /\ finished' \subseteq started' /\ started' \subseteq DOMAIN commands
      /\ started' # {} => pass = "committed"
      /\ \A e \in started' : \A d \in DOMAIN commands :
           commands[d].epoch < commands[e].epoch => d \in finished'
  <2>1. CASE Start(c)
    BY <2>1, <1>7 DEF Start
  <2>2. CASE Finish(c)
    BY <2>2, <1>7 DEF Finish
  <2>. QED  BY <1>8, <2>1, <2>2
<1>10. TypeOK'
  BY <1>2, <1>3, <1>9 DEF PassInv, TypeOK, EncodingStays
<1>11. Epochs'
  BY <1>2, <1>3, <1>9 DEF PassInv, Epochs, EncodingStays
<1>. QED  BY <1>3, <1>5, <1>6, <1>10, <1>11 DEF PassInv

LEMMA StutterPreserves == ASSUME SortInv, PassInv, UNCHANGED vars PROVE PassInv'
<1>1. /\ UNCHANGED sortVars /\ EncodingStays
      /\ UNCHANGED <<pass, seq_len, started, finished>>
  BY DEF EncodingStays, vars, passVars, sortVars, gpuVars
<1>2. /\ Node' = Node /\ Kernels' = Kernels /\ Buffers' = Buffers
      /\ OptionalWeights(dag)' = OptionalWeights(dag)
      /\ Encoded' /\ Bound'
  BY <1>1, EncodingKept
<1>3. Sorted' = Sorted /\ execution_order' = execution_order
  BY <1>1 DEF Sorted, sortVars
<1>4. Batches'
  BY <1>1, <1>2, <1>3 DEF PassInv, Batches, EncodingStays
<1>5. TypeOK'
  BY <1>1, <1>2 DEF PassInv, TypeOK, EncodingStays
<1>6. Ended' /\ Epochs' /\ CommittedPassIsWhole'
  BY <1>1, <1>2 DEF PassInv, Ended, Epochs, CommittedPassIsWhole, EncodingStays
<1>. QED  BY <1>2, <1>4, <1>5, <1>6 DEF PassInv
-----------------------------------------------------------------------------
\* A pass begins with nothing encoded and the nodes without dependencies, or
\* all nodes, to encode.
LEMMA BeginPassPreserves == ASSUME SortInv, PassInv, BeginPass PROVE PassInv'
<1>1. /\ pass = "load" /\ Sorted /\ pass' = "encode" /\ registry' = {Embed}
      /\ ready' = IF dependency_dispatch THEN Ready(completed, degree) ELSE execution_order
      /\ UNCHANGED <<sortVars, gpuVars, dependency_dispatch, unbound, next, kernel, completed,
                     degree, mem_ranges, epoch, commands, seq_len>>
  BY DEF BeginPass
<1>2. /\ UNCHANGED <<dag, execution_order, dependency_dispatch, unbound, next, kernel, completed>>
      /\ UNCHANGED <<degree, mem_ranges, epoch, commands, seq_len, started, finished>>
      /\ Sorted' = Sorted
  BY <1>1 DEF sortVars, gpuVars, Sorted
<1>3. /\ next = 1 /\ completed = {} /\ commands = <<>> /\ ready = <<>> /\ started = {}
  BY <1>1, Typing DEF PassInv, Batches
<1>4. kernel = 1
  BY <1>3 DEF PassInv, Encoded
<1>5. /\ Node' = Node /\ Kernels' = Kernels /\ Buffers' = Buffers
      /\ OptionalWeights(dag)' = OptionalWeights(dag)
  BY <1>2 DEF Node, Kernels, Buffers
<1>6. /\ execution_order \in Seq(Node) /\ Injective(execution_order)
  BY <1>1, SortedOrder
<1>7. /\ Ready(completed, degree) \in Seq(Node) /\ Injective(Ready(completed, degree))
      /\ Range(Ready(completed, degree)) = Free(completed)
  BY <1>1, NextBatch DEF PassInv, Batches, Counts
<1>8. /\ ready' \in Seq(Node) /\ Injective(ready')
      /\ dependency_dispatch => Range(ready') = Free(completed)
      /\ ~dependency_dispatch => ready' = execution_order
  BY <1>1, <1>6, <1>7
<1>9. Len(ready') \in Nat /\ 1 \in 1..(Len(ready') + 1)
  BY <1>8
<1>10. Embed \in Buffers
  BY DEF Buffers
<1>11. TypeOK'
  BY <1>1, <1>2, <1>3, <1>5, <1>8, <1>9, <1>10 DEF PassInv, TypeOK
<1>12. \A i, j \in DOMAIN ready' : ready'[i] = ready'[j] => i = j
  BY <1>8 DEF Injective
<1>13. Batches'
  BY <1>1, <1>2, <1>3, <1>5, <1>8, <1>12 DEF PassInv, Batches, Free
<1>14. Executed' = {}
  BY <1>2, <1>3 DEF Executed
<1>15. Encoded' /\ Bound'
  BY <1>1, <1>2, <1>3, <1>4, <1>14 DEF Encoded, Bound
<1>16. Ended' /\ Epochs'
  BY <1>1, <1>2, <1>3 DEF Ended, Epochs
<1>17. CommittedPassIsWhole'
  BY <1>1, <1>2, <1>3, <1>5 DEF PassInv, CommittedPassIsWhole
<1>. QED  BY <1>11, <1>13, <1>15, <1>16, <1>17 DEF PassInv

\* What the next kernel reads has been written, if dependencies are tracked.
LEMMA ReadsAreWritten ==
  ASSUME SortInv, PassInv, dependency_dispatch, Encoding, Found, kernel \in DOMAIN node.kernels,
         NEW b \in node.kernels[kernel].reads, b # Embed
  PROVE  \E c \in DOMAIN commands : b \in commands[c].writes
<1>. DEFINE n == ready[next]
<1>1. /\ next \in DOMAIN ready /\ n \in Node /\ n \notin Executed /\ Finds(n) /\ node = dag[n]
      /\ dag[n].dependencies \subseteq Executed
  BY ExecutedNodes DEF Encoding, Found, Finds, node
<1>2. dag \in Dags /\ DOMAIN dag = Node
  BY Typing, BuilderFacts DEF Node
<1>. HIDE DEF n
<1>3. \/ b \in dag[n].needs
      \/ \E j \in 1..(kernel - 1) : b \in dag[n].kernels[j].writes
      \/ \E m \in dag[n].dependencies : b \in Written(dag, m) /\ Implies(dag, n, m)
  <2>1. ReadsAreOrdered(dag)
    BY <1>2, BuilderAssumption
  <2>2. n \in DOMAIN dag /\ kernel \in DOMAIN dag[n].kernels /\ b \in dag[n].kernels[kernel].reads
    BY <1>1, <1>2
  <2>. QED  BY <2>1, <2>2 DEF ReadsAreOrdered
<1>4. CASE b \in dag[n].needs
  <2>1. b \in registry
    BY <1>1, <1>4 DEF Finds
  <2>2. PICK m \in Node : b \in dag[m].outputs /\ Succeeded(m)
    BY <2>1 DEF PassInv, Bound
  <2>3. b \in Written(dag, m)
    BY <1>2, <2>2, OutputsAreWritten DEF Node
  <2>. QED  BY <2>2, <2>3, WritersAreEncoded
<1>5. CASE \E j \in 1..(kernel - 1) : b \in dag[n].kernels[j].writes
  <2>1. PICK j \in 1..(kernel - 1) : b \in dag[n].kernels[j].writes
    BY <1>5
  <2>2. PICK c \in DOMAIN commands : IsKernel(c, ready[next], j)
    BY DEF PassInv, Encoded
  <2>. QED  BY <2>1, <2>2 DEF IsKernel, n
<1>6. CASE \E m \in dag[n].dependencies : b \in Written(dag, m) /\ Implies(dag, n, m)
  <2>1. PICK m \in dag[n].dependencies : b \in Written(dag, m) /\ Implies(dag, n, m)
    BY <1>6
  <2>2. m \in Executed /\ m \in Node
    BY <1>1, ExecutedNodes
  <2>3. Succeeded(m)
    BY <1>1, <2>1, <2>2, ImpliedSucceeds
  <2>. QED  BY <2>1, <2>2, <2>3, WritersAreEncoded
<1>. QED  BY <1>3, <1>4, <1>5, <1>6

LEMMA WiderSeq == ASSUME NEW A, NEW B, A \subseteq B, NEW s \in Seq(A) PROVE s \in Seq(B)
<1>1. Len(s) \in Nat /\ s \in [1..Len(s) -> A]
  OBVIOUS
<1>2. s \in [1..Len(s) -> B]
  BY <1>1
<1>. QED  BY <1>1, <1>2

\* A kernel that reads what this epoch writes, or writes what it touches,
\* begins a new epoch.
LEMMA EncodeKernelPreserves == ASSUME SortInv, PassInv, EncodeKernel PROVE PassInv'
<1>1. /\ Encoding /\ Found /\ kernel \in DOMAIN node.kernels /\ kernel' = kernel + 1
      /\ UNCHANGED <<sortVars, gpuVars, dependency_dispatch, unbound, pass, ready, next,
                     completed, degree, registry, seq_len>>
  BY DEF EncodeKernel
<1>2. /\ UNCHANGED <<dag, execution_order, dependency_dispatch, unbound, pass, ready, next>>
      /\ UNCHANGED <<completed, degree, registry, seq_len, started, finished>>
      /\ Sorted' = Sorted
  BY <1>1 DEF sortVars, gpuVars, Sorted
<1>. PICK k : k = node.kernels[kernel]
  OBVIOUS
<1>. PICK barrier \in BOOLEAN : barrier = (dependency_dispatch /\ Conflicts(k, mem_ranges))
  BY DEF PassInv, TypeOK
<1>. PICK n : n = ready[next]
  OBVIOUS
<1>. PICK at : at = Len(commands) + 1
  OBVIOUS
<1>. PICK h : h = kernel
  OBVIOUS
<1>. PICK e : e = IF barrier THEN epoch + 1 ELSE epoch
  OBVIOUS
<1>. DEFINE tracked == IF barrier THEN NoRanges ELSE mem_ranges
            new == [reads |-> k.reads, writes |-> k.writes, epoch |-> e]
            C == [reads : SUBSET Buffers, writes : SUBSET Buffers, epoch : 0..e]
<1>3. /\ epoch' = e
      /\ mem_ranges' = [reads |-> tracked.reads \cup k.reads,
                        writes |-> tracked.writes \cup k.writes]
      /\ commands' = Append(commands, new)
  BY DEF EncodeKernel
<1>4. /\ dag \in Dags /\ next \in DOMAIN ready /\ n \in Node /\ n \notin Executed
      /\ Finds(n) /\ node = dag[n] /\ pass = "encode" /\ started = {}
      /\ k = dag[n].kernels[kernel] /\ kernel \in DOMAIN dag[n].kernels
  BY <1>1, Typing, ExecutedNodes DEF Encoding, Found, Finds, node
<1>5. /\ k.reads \subseteq Buffers /\ k.writes \subseteq Buffers
  BY <1>4, BuffersOfNodes
<1>6. /\ Node' = Node /\ Kernels' = Kernels /\ Buffers' = Buffers
      /\ OptionalWeights(dag)' = OptionalWeights(dag) /\ node' = node /\ Executed' = Executed
  BY <1>2 DEF Node, Kernels, Buffers, node, Executed
<1>7. /\ epoch \in Nat /\ e \in Nat /\ epoch <= e /\ (barrier => epoch < e)
      /\ (~barrier => e = epoch)
  BY Typing
<1>8. /\ commands' \in Seq(C)
      /\ Len(commands) \in Nat /\ DOMAIN commands = 1..Len(commands)
      /\ DOMAIN commands' = 1..at
      /\ \A c \in DOMAIN commands : commands'[c] = commands[c]
      /\ commands'[at] = new
  <2>1. new \in C
    BY <1>5, <1>7
  <2>2. [reads : SUBSET Buffers, writes : SUBSET Buffers, epoch : 0..epoch] \subseteq C
    BY <1>7
  <2>. HIDE DEF C, new
  <2>3. commands \in Seq(C)
    BY <2>2, Typing, WiderSeq
  <2>4. commands' = Append(commands, new)
    BY <1>3
  <2>5. Len(commands) \in Nat /\ DOMAIN commands = 1..Len(commands)
    BY <2>3
  <2>6. /\ commands' \in Seq(C) /\ Len(commands') = Len(commands) + 1
        /\ \A c \in 1..Len(commands) : commands'[c] = commands[c]
        /\ commands'[Len(commands) + 1] = new
    BY <2>1, <2>3, <2>4, AppendProperties
  <2>7. DOMAIN commands' = 1..Len(commands')
    BY <2>6
  <2>. QED  BY <2>5, <2>6, <2>7
<1>9. DOMAIN commands \subseteq DOMAIN commands' /\ at \in DOMAIN commands'
      /\ \A c \in DOMAIN commands' : c \in DOMAIN commands \/ c = at
  BY <1>8
<1>10. Grows
  BY <1>2, <1>8, <1>9 DEF Grows
<1>11. mem_ranges' \in [reads : SUBSET Buffers, writes : SUBSET Buffers]
       /\ k.writes \subseteq mem_ranges'.writes
       /\ (~barrier => mem_ranges.writes \subseteq mem_ranges'.writes)
  BY <1>3, <1>5, Typing DEF NoRanges
<1>12. kernel \in 1..2
  <2>1. n \in 1..Len(dag)
    BY <1>4, Typing
  <2>2. Len(dag[n].kernels) \in 0..2 /\ DOMAIN dag[n].kernels = 1..Len(dag[n].kernels)
    BY <2>1, <1>4, BuilderFacts
  <2>. QED  BY <2>2, <1>4
<1>13. TypeOK'
  <2>1. commands' \in Seq([reads : SUBSET Buffers, writes : SUBSET Buffers, epoch : 0..epoch'])
    BY <1>3, <1>8
  <2>2. kernel' \in 1..3
    BY <1>1, <1>12
  <2>. HIDE DEF new, tracked, C
  <2>. QED  BY <2>1, <2>2, <1>2, <1>3, <1>4, <1>6, <1>7, <1>11 DEF PassInv, TypeOK
<1>14. Batches'
  <2>1. Embed \in registry
    BY <1>4 DEF PassInv, Batches
  <2>. QED  BY <2>1, <1>2, <1>4, <1>6 DEF PassInv, Batches
<1>. HIDE DEF new, tracked, C
<1>15. IsKernel(at, n, h)'
  BY <1>2, <1>4, <1>8 DEF IsKernel, new
<1>16. Encoded'
  <2>1. next' \in DOMAIN ready' /\ Finds(n)' /\ kernel' - 1 \in DOMAIN node'.kernels
    <3>1. kernel' - 1 = kernel
      BY <1>1, <1>12
    <3>. QED  BY <3>1, <1>2, <1>4, <1>6 DEF Finds
  <2>2. ASSUME NEW i \in 1..(kernel' - 1)
        PROVE  \E c \in DOMAIN commands' : IsKernel(c, n, i)'
    <3>1. CASE i = kernel
      BY <3>1, <1>9, <1>15
    <3>2. CASE i # kernel
      <4>1. i \in 1..(kernel - 1)
        BY <3>2, <1>1, <1>12
      <4>2. PICK c \in DOMAIN commands : IsKernel(c, n, i)
        BY <4>1 DEF PassInv, Encoded
      <4>. QED  BY <4>2, <1>9, <1>10, SuccessStays
    <3>. QED  BY <3>1, <3>2
  <2>3. ASSUME NEW c \in DOMAIN commands'
        PROVE  \E m \in Node : \E i \in DOMAIN dag[m].kernels :
                 /\ IsKernel(c, m, i)'
                 /\ m \in Executed \/ (m = n /\ i < kernel')
    <3>1. CASE c = at
      BY <3>1, <1>1, <1>4, <1>9, <1>12, <1>15
    <3>2. CASE c \in DOMAIN commands
      <4>1. PICK m \in Node : \E i \in DOMAIN dag[m].kernels :
              IsKernel(c, m, i) /\ (m \in Executed \/ (m = n /\ i < kernel))
        BY <3>2 DEF PassInv, Encoded
      <4>. PICK i \in DOMAIN dag[m].kernels :
             IsKernel(c, m, i) /\ (m \in Executed \/ (m = n /\ i < kernel))
        BY <4>1
      <4>2. IsKernel(c, m, i)'
        BY <3>2, <1>10, SuccessStays
      <4>3. i \in Nat
        <5>1. m \in 1..Len(dag)
          BY Typing
        <5>2. DOMAIN dag[m].kernels = 1..Len(dag[m].kernels) /\ Len(dag[m].kernels) \in 0..2
          BY <5>1, <1>4, BuilderFacts
        <5>. QED  BY <5>2
      <4>4. i < kernel => i < kernel'
        BY <4>3, <1>1, <1>12
      <4>. QED  BY <4>1, <4>2, <4>4
    <3>. QED  BY <3>1, <3>2, <1>9
  <2>. QED  BY <2>1, <2>2, <2>3, <1>2, <1>4, <1>6 DEF Encoded
<1>17. Bound'
  <2>1. \A m : Finds(m)' => Finds(m)
    BY <1>2 DEF Finds
  <2>2. \A m : Succeeded(m) => Succeeded(m)'
    BY <1>10, SuccessStays
  <2>. QED  BY <2>1, <2>2, <1>2, <1>6 DEF PassInv, Bound
<1>18. Ended'
  BY <1>2, <1>4 DEF Ended
<1>19. Epochs'
  <2>1. ASSUME NEW c \in DOMAIN commands', commands'[c].epoch = e
        PROVE  commands'[c].writes \subseteq mem_ranges'.writes
    <3>1. CASE c = at
      BY <3>1, <1>8, <1>11 DEF new
    <3>2. CASE c \in DOMAIN commands
      <4>1. commands[c].epoch = e /\ commands[c].epoch <= epoch /\ commands[c].epoch \in Nat
        BY <2>1, <3>2, <1>8, Typing
      <4>2. ~barrier /\ commands[c].epoch = epoch
        BY <4>1, <1>7
      <4>3. commands[c].writes \subseteq mem_ranges.writes
        BY <3>2, <4>2 DEF PassInv, Epochs
      <4>. QED  BY <3>2, <4>2, <4>3, <1>8, <1>11
    <3>. QED  BY <3>1, <3>2, <1>9
  <2>2. ASSUME dependency_dispatch, NEW c \in DOMAIN commands', NEW b \in commands'[c].reads,
               b # Embed
        PROVE  \E d \in DOMAIN commands' : /\ b \in commands'[d].writes
                                           /\ commands'[d].epoch < commands'[c].epoch
    <3>1. CASE c = at
      <4>1. b \in k.reads /\ commands'[c].epoch = e
        BY <2>2, <3>1, <1>8 DEF new
      <4>2. PICK d \in DOMAIN commands : b \in commands[d].writes
        BY <2>2, <4>1, <1>1, ReadsAreWritten
      <4>3. commands[d].epoch \in Nat /\ commands[d].epoch <= epoch
        BY Typing
      <4>4. commands[d].epoch < e
        <5>1. CASE commands[d].epoch = epoch
          <6>1. commands[d].writes \subseteq mem_ranges.writes
            BY <5>1 DEF PassInv, Epochs
          <6>2. Conflicts(k, mem_ranges)
            BY <4>1, <4>2, <6>1 DEF Conflicts
          <6>. QED  BY <2>2, <5>1, <6>2, <1>7
        <5>2. CASE commands[d].epoch # epoch
          BY <5>2, <4>3, <1>7
        <5>. QED  BY <5>1, <5>2
      <4>. QED  BY <4>1, <4>2, <4>4, <1>8, <1>9
    <3>2. CASE c \in DOMAIN commands
      <4>1. commands'[c] = commands[c]
        BY <3>2, <1>8
      <4>2. PICK d \in DOMAIN commands :
              b \in commands[d].writes /\ commands[d].epoch < commands[c].epoch
        BY <2>2, <3>2, <4>1 DEF PassInv, Epochs
      <4>. QED  BY <4>1, <4>2, <1>8, <1>9
    <3>. QED  BY <3>1, <3>2, <1>9
  <2>. QED  BY <2>1, <2>2, <1>2, <1>3, <1>4 DEF Epochs
<1>20. CommittedPassIsWhole'
  <2>1. ASSUME NEW c \in DOMAIN commands PROVE commands[c].writes # k.writes
    <3>1. PICK m \in Node : \E i \in DOMAIN dag[m].kernels :
            IsKernel(c, m, i) /\ (m \in Executed \/ (m = n /\ i < kernel))
      BY DEF PassInv, Encoded
    <3>. PICK i \in DOMAIN dag[m].kernels :
           IsKernel(c, m, i) /\ (m \in Executed \/ (m = n /\ i < kernel))
      BY <3>1
    <3>. SUFFICES ASSUME commands[c].writes = k.writes PROVE FALSE
      OBVIOUS
    <3>2. dag[m].kernels[i].writes = dag[n].kernels[kernel].writes
      BY <1>4 DEF IsKernel
    <3>3. m = n /\ i = kernel
      <4>1. m \in 1..Len(dag) /\ n \in 1..Len(dag)
        BY <1>4, Typing
      <4>. QED  BY <3>2, <4>1, <1>4, OneKernel
    <3>. QED  BY <3>3, <1>4, <1>12
  <2>2. ASSUME NEW c \in DOMAIN commands', NEW d \in DOMAIN commands',
               commands'[c].writes = commands'[d].writes
        PROVE  c = d
    <3>1. \A a \in DOMAIN commands : commands'[a].writes # k.writes
      BY <2>1, <1>8
    <3>2. commands'[at].writes = k.writes
      BY <1>8 DEF new
    <3>3. \A a, b \in DOMAIN commands : commands[a].writes = commands[b].writes => a = b
      BY DEF PassInv, CommittedPassIsWhole
    <3>. QED  BY <2>2, <3>1, <3>2, <3>3, <1>8, <1>9
  <2>. QED  BY <2>2, <1>2, <1>4, <1>6 DEF PassInv, CommittedPassIsWhole
<1>. QED  BY <1>13, <1>14, <1>16, <1>17, <1>18, <1>19, <1>20 DEF PassInv
-----------------------------------------------------------------------------
\* The current node joins the executed ones.
LEMMA NextNode ==
  ASSUME SortInv, PassInv, Encoding, next' = next + 1, UNCHANGED <<ready, completed>>
  PROVE  /\ Executed' = Executed \cup {ready[next]}
         /\ next' \in 1..(Len(ready) + 1)
<1>1. next \in 1..Len(ready) /\ Len(ready) \in Nat /\ next \in Nat
  BY Typing DEF Encoding
<1>2. 1..(next' - 1) = (1..(next - 1)) \cup {next}
  BY <1>1
<1>3. {ready[j] : j \in 1..(next' - 1)} = {ready[j] : j \in 1..(next - 1)} \cup {ready[next]}
  BY <1>2
<1>. QED  BY <1>1, <1>3 DEF Executed

\* The last kernel of a node has been encoded, and its outputs are bound.
LEMMA EndNodePreserves == ASSUME SortInv, PassInv, EndNode PROVE PassInv'
<1>. PICK n : n = ready[next]
  OBVIOUS
<1>1. /\ Encoding /\ Found /\ kernel \notin DOMAIN node.kernels
      /\ registry' = registry \cup node.outputs /\ next' = next + 1 /\ kernel' = 1
      /\ UNCHANGED <<sortVars, gpuVars, dependency_dispatch, unbound, pass, ready, completed,
                     degree, mem_ranges, epoch, commands, seq_len>>
  BY DEF EndNode
<1>2. /\ UNCHANGED <<dag, execution_order, dependency_dispatch, unbound, pass, ready>>
      /\ UNCHANGED <<completed, degree, mem_ranges, epoch, commands, seq_len>>
      /\ UNCHANGED <<started, finished>>
      /\ Sorted' = Sorted
  BY <1>1 DEF sortVars, gpuVars, Sorted
<1>3. /\ dag \in Dags /\ next \in DOMAIN ready /\ n \in Node /\ n \notin Executed
      /\ Finds(n) /\ node = dag[n] /\ pass = "encode" /\ n \in 1..Len(dag)
      /\ n \notin completed
  BY <1>1, Typing, ExecutedNodes DEF Encoding, Found, Finds, node
<1>4. /\ Node' = Node /\ Kernels' = Kernels /\ Buffers' = Buffers
      /\ OptionalWeights(dag)' = OptionalWeights(dag)
  BY <1>2 DEF Node, Kernels, Buffers
<1>5. Executed' = Executed \cup {n} /\ next' \in 1..(Len(ready) + 1)
  BY <1>1, <1>2, NextNode
<1>6. Grows
  BY <1>1, <1>2 DEF Grows
<1>7. DOMAIN dag[n].kernels = 1..(kernel - 1)
  <2>1. Len(dag[n].kernels) \in 0..2 /\ DOMAIN dag[n].kernels = 1..Len(dag[n].kernels)
    BY <1>3, BuilderFacts
  <2>2. kernel = 1 \/ kernel - 1 \in DOMAIN dag[n].kernels
    BY <1>3 DEF PassInv, Encoded
  <2>3. kernel \in 1..3
    BY Typing
  <2>. QED  BY <2>1, <2>2, <2>3, <1>1, <1>3
<1>8. Succeeded(n)'
  <2>1. Finds(n)'
    BY <1>3, <1>6, SuccessStays
  <2>2. \A i \in DOMAIN dag[n].kernels : \E c \in DOMAIN commands : IsKernel(c, n, i)
    BY <1>7 DEF PassInv, Encoded
  <2>3. \A i : \A c \in DOMAIN commands : IsKernel(c, n, i) => IsKernel(c, n, i)'
    BY <1>6, SuccessStays
  <2>4. dag[n].outputs \subseteq registry'
    BY <1>1, <1>3
  <2>. QED  BY <2>1, <2>2, <2>3, <2>4, <1>2 DEF Succeeded
<1>9. registry' \subseteq Buffers
  BY <1>1, <1>3, BuffersOfNodes, Typing
<1>10. TypeOK'
  BY <1>1, <1>2, <1>4, <1>5, <1>9 DEF PassInv, TypeOK
<1>11. Embed \in registry
  BY <1>3 DEF PassInv, Batches
<1>12. Batches'
  BY <1>1, <1>2, <1>3, <1>4, <1>11 DEF PassInv, Batches
<1>13. Encoded'
  <2>1. ASSUME NEW c \in DOMAIN commands
        PROVE  \E m \in Node : \E i \in DOMAIN dag[m].kernels :
                 IsKernel(c, m, i)' /\ m \in Executed'
    <3>1. PICK m \in Node : \E i \in DOMAIN dag[m].kernels :
            IsKernel(c, m, i) /\ (m \in Executed \/ (m = n /\ i < kernel))
      BY DEF PassInv, Encoded
    <3>. QED  BY <3>1, <1>5, <1>6, SuccessStays
  <2>2. 1..(kernel' - 1) = {}
    BY <1>1
  <2>. QED  BY <2>1, <2>2, <1>1, <1>2, <1>4 DEF Encoded
<1>14. Bound'
  <2>1. ASSUME NEW b \in registry', b # Embed
        PROVE  \E m \in Node : b \in dag[m].outputs /\ Succeeded(m)'
    <3>1. CASE b \in registry
      <4>1. PICK m \in Node : b \in dag[m].outputs /\ Succeeded(m)
        BY <2>1, <3>1 DEF PassInv, Bound
      <4>. QED  BY <4>1, <1>6, SuccessStays
    <3>2. CASE b \in dag[n].outputs
      BY <3>2, <1>3, <1>8
    <3>. QED  BY <2>1, <3>1, <3>2, <1>1, <1>3
  <2>2. ASSUME NEW m \in Executed,
               ~dependency_dispatch \/ (Direct(dag, m) /\ Finds(m)')
        PROVE  Succeeded(m)'
    <3>1. CASE ~dependency_dispatch \/ (Direct(dag, m) /\ Finds(m))
      <4>1. Succeeded(m)
        BY <3>1 DEF PassInv, Bound
      <4>. QED  BY <4>1, <1>6, SuccessStays
    <3>2. CASE dependency_dispatch /\ Direct(dag, m) /\ ~Finds(m)
      <4>1. PICK b \in dag[m].needs : b \in dag[n].outputs /\ b \notin registry
        BY <2>2, <3>2, <1>1, <1>2, <1>3 DEF Finds
      <4>2. b # Embed
        BY <4>1, <1>11
      <4>3. PICK q \in dag[m].dependencies : b \in dag[q].outputs
        BY <3>2, <4>2 DEF Direct
      <4>4. q \in completed /\ q \in Node
        BY <3>2, <4>3, ExecutedNodes, Typing
      <4>5. q \in 1..Len(dag)
        BY <4>4, Typing
      <4>6. q = n
        BY <4>1, <4>3, <4>5, <1>3, OneProducer
      <4>. QED  BY <4>4, <4>6, <1>3
    <3>. QED  BY <2>2, <3>1, <3>2
  <2>3. ASSUME NEW m \in Executed',
               ~dependency_dispatch \/ (Direct(dag, m) /\ Finds(m)')
        PROVE  Succeeded(m)'
    BY <2>2, <2>3, <1>5, <1>8
  <2>. QED  BY <2>1, <2>3, <1>2, <1>4 DEF Bound
<1>15. Ended' /\ Epochs'
  BY <1>2, <1>3 DEF PassInv, Ended, Epochs
<1>16. CommittedPassIsWhole'
  BY <1>2, <1>4 DEF PassInv, CommittedPassIsWhole
<1>. QED  BY <1>10, <1>12, <1>13, <1>14, <1>15, <1>16 DEF PassInv

\* A node that fails under dependency dispatch is passed over.
LEMMA IgnoreFailurePreserves == ASSUME SortInv, PassInv, IgnoreFailure PROVE PassInv'
<1>. PICK n : n = ready[next]
  OBVIOUS
<1>1. /\ Encoding /\ ~Found /\ dependency_dispatch /\ next' = next + 1
      /\ UNCHANGED <<sortVars, gpuVars, dependency_dispatch, unbound, pass, ready, kernel,
                     completed, degree, registry, mem_ranges, epoch, commands, seq_len>>
  BY DEF IgnoreFailure
<1>2. /\ UNCHANGED <<dag, execution_order, dependency_dispatch, unbound, pass, ready, kernel>>
      /\ UNCHANGED <<completed, degree, registry, mem_ranges, epoch, commands, seq_len>>
      /\ UNCHANGED <<started, finished>>
      /\ Sorted' = Sorted
  BY <1>1 DEF sortVars, gpuVars, Sorted
<1>3. /\ next \in DOMAIN ready /\ n \in Node /\ ~Finds(n) /\ pass = "encode"
  BY <1>1, Typing, ExecutedNodes DEF Encoding, Found, Finds, node
<1>4. /\ Node' = Node /\ Kernels' = Kernels /\ Buffers' = Buffers
      /\ OptionalWeights(dag)' = OptionalWeights(dag)
  BY <1>2 DEF Node, Kernels, Buffers
<1>5. Executed' = Executed \cup {n} /\ next' \in 1..(Len(ready) + 1)
  BY <1>1, <1>2, NextNode
<1>6. Grows
  BY <1>2 DEF Grows
<1>7. kernel = 1
  BY <1>3 DEF PassInv, Encoded
<1>8. TypeOK'
  BY <1>1, <1>2, <1>4, <1>5 DEF PassInv, TypeOK
<1>9. Embed \in registry
  BY <1>3 DEF PassInv, Batches
<1>10. Batches'
  BY <1>1, <1>2, <1>3, <1>4, <1>9 DEF PassInv, Batches
<1>11. Encoded'
  <2>1. ASSUME NEW c \in DOMAIN commands
        PROVE  \E m \in Node : \E i \in DOMAIN dag[m].kernels :
                 IsKernel(c, m, i)' /\ m \in Executed'
    <3>1. PICK m \in Node : \E i \in DOMAIN dag[m].kernels :
            IsKernel(c, m, i) /\ (m \in Executed \/ (m = n /\ i < kernel))
      BY DEF PassInv, Encoded
    <3>. QED  BY <3>1, <1>5, <1>6, SuccessStays
  <2>2. 1..(kernel' - 1) = {}
    BY <1>2, <1>7
  <2>. QED  BY <2>1, <2>2, <1>2, <1>4, <1>7 DEF Encoded
<1>12. Bound'
  <2>1. \A m : Succeeded(m) => Succeeded(m)'
    BY <1>6, SuccessStays
  <2>2. \A m : Finds(m)' => Finds(m)
    BY <1>2 DEF Finds
  <2>3. ~Finds(n)'
    BY <2>2, <1>3
  <2>. QED  BY <2>1, <2>2, <2>3, <1>1, <1>2, <1>4, <1>5 DEF PassInv, Bound
<1>13. Ended' /\ Epochs'
  BY <1>2, <1>3 DEF PassInv, Ended, Epochs
<1>14. CommittedPassIsWhole'
  BY <1>2, <1>4 DEF PassInv, CommittedPassIsWhole
<1>. QED  BY <1>8, <1>10, <1>11, <1>12, <1>13, <1>14 DEF PassInv

\* The degrees count the dependencies that are not in a batch so far.
LEMMA DegreesFall ==
  ASSUME dag \in Dags, NEW n \in Node, NEW done, NEW R, R \cap done = {}
  PROVE  Cardinality(dag[n].dependencies \ done) - Cardinality(dag[n].dependencies \cap R)
           = Cardinality(dag[n].dependencies \ (done \cup R))
<1>. PICK D : D = dag[n].dependencies \ done
  OBVIOUS
<1>1. IsFiniteSet(D)
  BY DagFacts DEF Node
<1>2. Cardinality(D \ R) = Cardinality(D) - Cardinality(D \cap R)
  BY <1>1, FS_Difference
<1>3. D \ R = dag[n].dependencies \ (done \cup R) /\ D \cap R = dag[n].dependencies \cap R
  OBVIOUS
<1>. QED  BY <1>2, <1>3

LEMMA UpToHas == ASSUME NEW L \in Nat PROVE IsFiniteSet(1..L) /\ Cardinality(1..L) = L
BY FS_Interval

LEMMA DegreesAreBounded ==
  ASSUME dag \in Dags, NEW n \in Node, NEW done
  PROVE  Cardinality(dag[n].dependencies \ done) \in 0..Len(dag)
<1>. PICK D : D = dag[n].dependencies \ done
  OBVIOUS
<1>1. D \subseteq 1..Len(dag) /\ IsFiniteSet(D) /\ Cardinality(D) \in Nat /\ Len(dag) \in Nat
  BY DagFacts DEF Node
<1>. PICK L \in Nat : L = Len(dag)
  BY <1>1
<1>2. IsFiniteSet(1..L) /\ Cardinality(1..L) = L
  BY UpToHas
<1>3. Cardinality(D) <= L
  BY <1>1, <1>2, FS_Subset
<1>. QED  BY <1>1, <1>3

\* The next batch has the nodes whose dependencies are now completed.
LEMMA EndBatchPreserves == ASSUME SortInv, PassInv, EndBatch PROVE PassInv'
<1>. PICK done : done = completed \cup Range(ready)
  OBVIOUS
<1>. PICK deg : deg = degree'
  OBVIOUS
<1>1. /\ BatchEncoded
      /\ epoch' = IF mem_ranges = NoRanges THEN epoch ELSE epoch + 1
      /\ mem_ranges' = NoRanges
      /\ completed' = done
      /\ deg = [n \in Node |-> degree[n] - Cardinality(dag[n].dependencies \cap Range(ready))]
      /\ ready' = Ready(done, deg)
      /\ next' = 1
      /\ UNCHANGED <<sortVars, gpuVars, dependency_dispatch, unbound, pass, kernel, registry,
                     commands, seq_len>>
  BY DEF EndBatch
<1>2. /\ UNCHANGED <<dag, execution_order, dependency_dispatch, unbound, pass, kernel>>
      /\ UNCHANGED <<registry, commands, seq_len, started, finished>>
      /\ Sorted' = Sorted
  BY <1>1 DEF sortVars, gpuVars, Sorted
<1>3. /\ dag \in Dags /\ pass = "encode" /\ dependency_dispatch /\ next > Len(ready)
      /\ Sorted /\ Embed \in registry /\ started = {}
  BY <1>1, Typing DEF BatchEncoded, PassInv, Batches
<1>4. /\ Node' = Node /\ Kernels' = Kernels /\ Buffers' = Buffers
      /\ OptionalWeights(dag)' = OptionalWeights(dag)
  BY <1>2 DEF Node, Kernels, Buffers
<1>5. /\ DOMAIN ready = 1..Len(ready) /\ Len(ready) \in Nat /\ next = Len(ready) + 1
      /\ ready \in Seq(Node)
  BY <1>3, Typing
<1>6. Range(ready) = {ready[j] : j \in 1..(next - 1)} /\ Range(ready) \subseteq Node
  <2>1. 1..(next - 1) = DOMAIN ready
    BY <1>5
  <2>2. Range(ready) \subseteq Node
    BY <1>5, RangeOfSeq
  <2>. QED  BY <2>1, <2>2 DEF Range
<1>7. Executed = done /\ Executed' = done
  <2>1. 1..(next' - 1) = {}
    BY <1>1
  <2>. QED  BY <2>1, <1>1, <1>6 DEF Executed
<1>8. done \subseteq Node
  BY <1>6, Typing
<1>9. \A n \in Node : deg[n] = Cardinality(dag[n].dependencies \ done)
  <2>. SUFFICES ASSUME NEW n \in Node PROVE deg[n] = Cardinality(dag[n].dependencies \ done)
    OBVIOUS
  <2>1. Range(ready) \cap completed = {}
    BY DEF PassInv, Batches
  <2>2. degree[n] = Cardinality(dag[n].dependencies \ completed)
    BY DEF PassInv, Batches
  <2>. PICK R : R = Range(ready)
    OBVIOUS
  <2>3. Cardinality(dag[n].dependencies \ completed) - Cardinality(dag[n].dependencies \cap R)
          = Cardinality(dag[n].dependencies \ (completed \cup R))
    BY <2>1, <1>3, DegreesFall
  <2>4. deg[n] = degree[n] - Cardinality(dag[n].dependencies \cap R)
    BY <1>1
  <2>. QED  BY <2>2, <2>3, <2>4
<1>10. /\ ready' \in Seq(Node) /\ Injective(ready')
       /\ Range(ready') = Free(done)
  <2>1. Sorted
    BY <1>3
  <2>2. Counts(deg, done)
    BY <1>9 DEF Counts
  <2>3. /\ Ready(done, deg) \in Seq(Node) /\ Injective(Ready(done, deg))
        /\ Range(Ready(done, deg)) = Free(done)
    BY <2>1, <2>2, NextBatch
  <2>. QED  BY <2>3, <1>1
<1>11. deg \in [Node -> 0..Len(dag)]
  <2>. SUFFICES ASSUME NEW n \in Node PROVE deg[n] \in 0..Len(dag)
    BY <1>1
  <2>1. Cardinality(dag[n].dependencies \ done) \in 0..Len(dag)
    BY <1>3, DegreesAreBounded
  <2>. QED  BY <2>1, <1>9
<1>12. /\ epoch \in Nat /\ epoch' \in Nat /\ epoch <= epoch'
       /\ epoch' = epoch => mem_ranges = NoRanges
  <2>1. epoch \in Nat
    BY Typing
  <2>. QED  BY <2>1, <1>1
<1>13. NoRanges \in [reads : SUBSET Buffers, writes : SUBSET Buffers]
  BY DEF NoRanges
<1>14. TypeOK'
  <2>1. commands \in Seq([reads : SUBSET Buffers, writes : SUBSET Buffers, epoch : 0..epoch'])
    <3>. PICK e : e = epoch'
      OBVIOUS
    <3>1. [reads : SUBSET Buffers, writes : SUBSET Buffers, epoch : 0..epoch]
            \subseteq [reads : SUBSET Buffers, writes : SUBSET Buffers, epoch : 0..e]
      BY <1>12
    <3>2. commands \in Seq([reads : SUBSET Buffers, writes : SUBSET Buffers, epoch : 0..epoch])
      BY Typing
    <3>. QED  BY <3>1, <3>2, WiderSeq
  <2>2. Len(ready') \in Nat /\ next' \in 1..(Len(ready') + 1)
    BY <1>1, <1>10
  <2>. QED  BY <2>1, <2>2, <1>1, <1>2, <1>3, <1>4, <1>8, <1>10, <1>11, <1>12, <1>13
       DEF PassInv, TypeOK
<1>15. Batches'
  <2>1. \A n \in done : dag[n].dependencies \subseteq done
    BY <1>3 DEF PassInv, Batches
  <2>2. \A i, j \in DOMAIN ready' : ready'[i] = ready'[j] => i = j
    BY <1>10 DEF Injective
  <2>3. \A n \in Node : degree'[n] = Cardinality(dag[n].dependencies \ done)
    BY <1>9
  <2>4. /\ Range(ready') \cap done = {}
        /\ \A n \in Range(ready') : dag[n].dependencies \subseteq done
        /\ \A n \in Node \ done : dag[n].dependencies \subseteq done => n \in Range(ready')
    BY <1>10 DEF Free
  <2>5. completed' = done
    BY <1>1
  <2>. QED  BY <2>1, <2>2, <2>3, <2>4, <2>5, <1>2, <1>3, <1>4 DEF Batches
<1>16. Grows
  BY <1>2 DEF Grows
<1>17. next \notin DOMAIN ready
  BY <1>5
<1>18. kernel = 1
  BY <1>17 DEF PassInv, Encoded
<1>19. Encoded'
  <2>1. ASSUME NEW c \in DOMAIN commands
        PROVE  \E m \in Node : \E i \in DOMAIN dag[m].kernels :
                 IsKernel(c, m, i)' /\ m \in Executed'
    <3>1. PICK m \in Node : \E i \in DOMAIN dag[m].kernels :
            IsKernel(c, m, i) /\ m \in Executed
      BY <1>17 DEF PassInv, Encoded
    <3>. QED  BY <3>1, <1>7, <1>16, SuccessStays
  <2>2. 1..(kernel' - 1) = {}
    BY <1>2, <1>18
  <2>. QED  BY <2>1, <2>2, <1>2, <1>4, <1>18 DEF Encoded
<1>20. Bound'
  <2>1. \A m : Succeeded(m) => Succeeded(m)'
    BY <1>16, SuccessStays
  <2>2. \A m : Finds(m)' => Finds(m)
    BY <1>2 DEF Finds
  <2>. QED  BY <2>1, <2>2, <1>2, <1>4, <1>7 DEF PassInv, Bound
<1>21. Epochs'
  <2>1. ASSUME NEW c \in DOMAIN commands, commands[c].epoch = epoch'
        PROVE  commands[c].writes \subseteq {}
    <3>1. commands[c].epoch \in Nat /\ commands[c].epoch <= epoch
      BY Typing
    <3>2. epoch' = epoch
      BY <2>1, <3>1, <1>12
    <3>3. mem_ranges.writes = {}
      BY <3>2, <1>12 DEF NoRanges
    <3>. QED  BY <2>1, <3>2, <3>3 DEF PassInv, Epochs
  <2>2. mem_ranges'.writes = {}
    BY <1>1 DEF NoRanges
  <2>. QED  BY <2>1, <2>2, <1>2, <1>3 DEF PassInv, Epochs
<1>22. Ended' /\ CommittedPassIsWhole'
  BY <1>2, <1>3, <1>4 DEF PassInv, Ended, CommittedPassIsWhole
<1>. QED  BY <1>14, <1>15, <1>19, <1>20, <1>21, <1>22 DEF PassInv
-----------------------------------------------------------------------------
\* A set of numbers up to a bound has a largest element.
LEMMA Largest ==
  ASSUME NEW L \in Nat, NEW T \in SUBSET (0..L), T # {}
  PROVE  \E x \in T : \A y \in T : y <= x
<1>. DEFINE U == {u \in 0..L : L - u \in T}
<1>1. \A y \in T : y \in 0..L /\ L - y \in U
  <2>. SUFFICES ASSUME NEW y \in T PROVE y \in 0..L /\ L - y \in U
    OBVIOUS
  <2>1. y \in 0..L /\ L - y \in 0..L /\ L - (L - y) = y
    OBVIOUS
  <2>. QED  BY <2>1
<1>2. U \in SUBSET Nat /\ U # {}
  <2>1. PICK y : y \in T
    OBVIOUS
  <2>2. L - y \in U
    BY <1>1, <2>1
  <2>. QED  BY <2>2
<1>3. \A u \in U : u \in 0..L /\ L - u \in T
  OBVIOUS
<1>. HIDE DEF U
<1>4. PICK u \in U : \A v \in U : u <= v
  BY <1>2, Smallest
<1>5. \A y \in T : y <= L - u
  <2>. SUFFICES ASSUME NEW y \in T PROVE y <= L - u
    OBVIOUS
  <2>1. u <= L - y /\ y \in 0..L /\ u \in 0..L
    BY <1>1, <1>3, <1>4
  <2>. QED  BY <2>1
<1>. QED  BY <1>3, <1>4, <1>5

\* When there is nothing left to encode, every node has been executed.
LEMMA AllExecuted == ASSUME SortInv, PassInv, AllEncoded PROVE Executed = Node
<1>1. /\ pass = "encode" /\ next > Len(ready) /\ (dependency_dispatch => ready = <<>>)
  BY DEF AllEncoded
<1>2. /\ dag \in Dags /\ Len(dag) \in Nat /\ completed \subseteq Node
      /\ DOMAIN ready = 1..Len(ready) /\ Len(ready) \in Nat /\ next = Len(ready) + 1
  BY <1>1, Typing
<1>3. CASE dependency_dispatch
  <2>1. \A n \in Node \ completed : ~(dag[n].dependencies \subseteq completed)
    <3>1. Range(ready) = {}
      BY <1>1, <1>3 DEF Range
    <3>. QED  BY <1>1, <1>3, <3>1 DEF PassInv, Batches
  <2>2. ASSUME Node \ completed # {} PROVE FALSE
    <3>1. Node \ completed \in SUBSET Nat
      BY DEF Node
    <3>2. PICK n \in Node \ completed : \A m \in Node \ completed : n <= m
      BY <2>2, <3>1, Smallest
    <3>3. n \in 1..Len(dag) /\ dag[n].dependencies \subseteq 1..(n - 1)
      BY <1>2, DagFacts DEF Node
    <3>4. ASSUME NEW m \in 1..(n - 1) PROVE m \in completed
      <4>1. m \in Node /\ ~(n <= m)
        BY <1>2, <3>3 DEF Node
      <4>. QED  BY <4>1, <3>2
    <3>. QED  BY <2>1, <3>2, <3>3, <3>4
  <2>. QED  BY <2>2, <1>2, ExecutedNodes
<1>4. CASE ~dependency_dispatch
  <2>1. Sorted /\ ready = execution_order
    BY <1>1, <1>4 DEF PassInv, Batches
  <2>2. Range(ready) = Node
    BY <2>1, SortedOrder
  <2>3. 1..(next - 1) = DOMAIN ready
    BY <1>2
  <2>. QED  BY <1>2, <2>2, <2>3 DEF Executed, Range
<1>. QED  BY <1>3, <1>4

\* If the exit node has bound its output, every node with kernels has
\* succeeded: one that failed would have failed a later one.
LEMMA AllSucceeded ==
  ASSUME SortInv, PassInv, AllEncoded, dag[Len(dag)].outputs \subseteq registry
  PROVE  \A n \in Node : dag[n].kernels = <<>> \/ Succeeded(n)
<1>1. /\ Executed = Node /\ dag \in Dags /\ Len(dag) \in Nat /\ Len(dag) > 0
      /\ Node = 1..Len(dag)
  BY AllExecuted, Typing DEF Node
<1>2. CASE ~dependency_dispatch
  BY <1>1, <1>2 DEF PassInv, Bound
<1>3. CASE dependency_dispatch
  <2>. DEFINE Bad == {n \in Node : ~(dag[n].kernels = <<>> \/ Succeeded(n))}
  <2>1. ASSUME Bad # {} PROVE FALSE
    <3>. PICK L \in Nat : L = Len(dag)
      BY <1>1
    <3>1. Bad \in SUBSET (0..L)
      BY <1>1
    <3>2. PICK n \in Bad : \A m \in Bad : m <= n
      BY <2>1, <3>1, Largest
    <3>3. n \in Node /\ dag[n].kernels # <<>> /\ ~Succeeded(n)
      OBVIOUS
    <3>4. Succeeded(Len(dag))
      <4>1. PICK b : b \in dag[Len(dag)].outputs
        BY <1>1, BuilderFacts
      <4>2. Len(dag) \in Node /\ b \in registry
        BY <4>1, <1>1
      <4>. QED  BY <4>1, <4>2, ProducerSucceeded
    <3>5. n \in 1..(Len(dag) - 1)
      <4>1. n # Len(dag)
        BY <3>3, <3>4
      <4>. QED  BY <3>3, <4>1, <1>1
    <3>6. PICK m \in (n + 1)..Len(dag) :
            /\ dag[m].kernels # <<>>
            /\ \/ Uses(dag, m, n)
               \/ n \in dag[m].dependencies /\ Implies(dag, m, n)
               \/ Hopeless(dag, m)
      BY <3>3, <3>5, <1>1, BuilderAssumption DEF NothingIsIdle
    <3>7. m \in Node /\ ~(m <= n)
      BY <3>5, <1>1
    <3>8. Succeeded(m) /\ Finds(m)
      <4>1. m \notin Bad
        BY <3>2, <3>7
      <4>. QED  BY <4>1, <3>6, <3>7 DEF Succeeded
    <3>9. CASE Uses(dag, m, n)
      <4>1. PICK b \in dag[m].needs : b \in dag[n].outputs
        BY <3>9 DEF Uses
      <4>2. b \in registry
        BY <3>8 DEF Finds
      <4>. QED  BY <3>3, <4>1, <4>2, ProducerSucceeded
    <3>10. CASE Implies(dag, m, n)
      BY <3>3, <3>7, <3>8, <3>10, <1>1, <1>3, ImpliedSucceeds
    <3>11. CASE Hopeless(dag, m)
      BY <3>7, <3>8, <3>11, HopelessFails
    <3>. QED  BY <3>6, <3>9, <3>10, <3>11
  <2>. QED  BY <2>1
<1>. QED  BY <1>2, <1>3

LEMMA CommitPreserves == ASSUME SortInv, PassInv, Commit PROVE PassInv'
<1>1. /\ AllEncoded /\ dag[Len(dag)].outputs \subseteq registry
      /\ pass = "encode" /\ pass' = "committed" /\ seq_len' = seq_len + 1
      /\ next > Len(ready) /\ (dependency_dispatch => ready = <<>>)
      /\ UNCHANGED sortVars /\ EncodingStays /\ UNCHANGED <<started, finished>>
  BY DEF Commit, AllEncoded, EncodingStays, sortVars, gpuVars
<1>2. /\ Node' = Node /\ Kernels' = Kernels /\ Buffers' = Buffers
      /\ OptionalWeights(dag)' = OptionalWeights(dag)
      /\ Encoded' /\ Bound'
  BY <1>1, EncodingKept
<1>3. seq_len = 0 /\ seq_len' = 1
  <2>1. seq_len \in 0..1 /\ seq_len # 1
    BY <1>1 DEF PassInv, TypeOK, CommittedPassIsWhole
  <2>. QED  BY <2>1, <1>1
<1>4. TypeOK'
  BY <1>1, <1>2, <1>3 DEF PassInv, TypeOK, EncodingStays
<1>5. Sorted' = Sorted /\ execution_order' = execution_order
  BY <1>1 DEF Sorted, sortVars
<1>6. Batches'
  BY <1>1, <1>2, <1>5 DEF PassInv, Batches, EncodingStays
<1>7. Ended'
  BY <1>1 DEF Ended, EncodingStays
<1>8. Epochs'
  BY <1>1 DEF PassInv, Epochs, EncodingStays
<1>9. CommittedPassIsWhole'
  <2>1. ASSUME NEW k \in Kernels
        PROVE  \E c \in DOMAIN commands : commands[c].writes = k.writes
    <3>1. PICK n \in Node : k \in Range(dag[n].kernels)
      BY DEF Kernels
    <3>2. PICK i \in DOMAIN dag[n].kernels : k = dag[n].kernels[i]
      BY <3>1 DEF Range
    <3>3. Succeeded(n)
      BY <3>2, <1>1, AllSucceeded
    <3>. QED  BY <3>2, <3>3 DEF Succeeded, IsKernel
  <2>. QED  BY <2>1, <1>1, <1>2, <1>3 DEF PassInv, CommittedPassIsWhole, EncodingStays
<1>. QED  BY <1>2, <1>4, <1>6, <1>7, <1>8, <1>9 DEF PassInv

\* Before the model is loaded nothing is encoded.
LEMMA PassInvAtInit == Init => PassInv
<1>. SUFFICES ASSUME Init PROVE PassInv
  OBVIOUS
<1>1. /\ dag \in Dags /\ Len(dag) \in Nat
      /\ pass = "load" /\ ready = <<>> /\ next = 1 /\ kernel = 1 /\ completed = {}
      /\ degree = [n \in Node |-> Cardinality(dag[n].dependencies)]
      /\ registry = {} /\ mem_ranges = NoRanges /\ epoch = 0 /\ commands = <<>> /\ seq_len = 0
      /\ started = {} /\ finished = {}
  BY DagFacts DEF Init, SortInit
<1>2. dependency_dispatch \in BOOLEAN /\ unbound \subseteq OptionalWeights(dag)
  <2>1. PICK c \in Configs : /\ dag = c.dag
                             /\ dependency_dispatch = c.dependency_dispatch
                             /\ unbound = c.unbound
    BY DEF Init
  <2>. QED  BY <2>1, ConfigsAssumption
<1>3. /\ Len(ready) = 0 /\ DOMAIN ready = {} /\ DOMAIN commands = {} /\ Range(ready) = {}
      /\ 1..(kernel - 1) = {} /\ 1..(next - 1) = {} /\ Executed = {}
  BY <1>1 DEF Range, Executed
<1>4. \A n \in Node : degree[n] = Cardinality(dag[n].dependencies \ {})
                        /\ degree[n] \in 0..Len(dag)
  <2>. SUFFICES ASSUME NEW n \in Node
                PROVE  degree[n] = Cardinality(dag[n].dependencies \ {})
                         /\ degree[n] \in 0..Len(dag)
    OBVIOUS
  <2>1. Cardinality(dag[n].dependencies \ {}) \in 0..Len(dag)
    BY <1>1, DegreesAreBounded
  <2>2. dag[n].dependencies \ {} = dag[n].dependencies
    OBVIOUS
  <2>. QED  BY <2>1, <2>2, <1>1
<1>5. TypeOK
  <2>1. degree \in [Node -> 0..Len(dag)]
    BY <1>1, <1>4
  <2>2. mem_ranges \in [reads : SUBSET Buffers, writes : SUBSET Buffers]
    BY <1>1 DEF NoRanges
  <2>. QED  BY <2>1, <2>2, <1>1, <1>2, <1>3 DEF TypeOK
<1>6. Batches
  BY <1>1, <1>3, <1>4 DEF Batches
<1>7. Encoded /\ Bound /\ Ended /\ Epochs
  BY <1>1, <1>3 DEF Encoded, Bound, Ended, Epochs
<1>8. CommittedPassIsWhole
  BY <1>1, <1>3 DEF CommittedPassIsWhole
<1>. QED  BY <1>5, <1>6, <1>7, <1>8 DEF PassInv

-----------------------------------------------------------------------------
\* Every step of a pass is a step of the sort or leaves it alone.
THEOREM DispatchKeepsOrder == Spec => SortSpec
<1>1. Init => SortInit
  BY DEF Init
<1>2. [Next]_vars => [SortNext]_sortVars
  <2>. SUFFICES ASSUME [Next]_vars PROVE [SortNext]_sortVars
    OBVIOUS
  <2>1. CASE Load
    BY <2>1 DEF Load
  <2>2. CASE \/ BeginPass \/ LookupFails \/ EncodeKernel \/ EndNode \/ IgnoreFailure
             \/ NodeFails \/ EndBatch \/ Commit \/ OutputMissing
    BY <2>2 DEF BeginPass, LookupFails, EncodeKernel, EndNode, IgnoreFailure, NodeFails,
                EndBatch, Commit, OutputMissing, sortVars
  <2>3. CASE Gpu
    BY <2>3 DEF Gpu, Start, Finish, sortVars
  <2>4. CASE UNCHANGED vars
    BY <2>4 DEF vars, sortVars
  <2>. QED  BY <2>1, <2>2, <2>3, <2>4 DEF Next, Executor
<1>. QED  BY <1>1, <1>2, PTL DEF Spec, SortSpec

\* The executor follows a complete topological order of the DAG in every pass.
THEOREM DispatchOrderIsTopological == Spec => []OrderIsTopological /\ []OrderIsComplete
<1>. QED  BY DispatchKeepsOrder, SortIsTopological, SortIsComplete, PTL

\* The pass keeps its inductive invariant, which includes that of the sort:
\* a committed pass has encoded every kernel of the DAG exactly once.
THEOREM PassInvariantHolds == Spec => []PassInv
<1>1. SortInv /\ PassInv /\ [Next]_vars => PassInv'
  <2>. SUFFICES ASSUME SortInv, PassInv, [Next]_vars PROVE PassInv'
    OBVIOUS
  <2>1. CASE Load
    BY <2>1, LoadPreserves
  <2>2. CASE BeginPass
    BY <2>2, BeginPassPreserves
  <2>3. CASE LookupFails \/ NodeFails \/ OutputMissing
    BY <2>3, FailurePreserves
  <2>4. CASE EncodeKernel
    BY <2>4, EncodeKernelPreserves
  <2>5. CASE EndNode
    BY <2>5, EndNodePreserves
  <2>6. CASE IgnoreFailure
    BY <2>6, IgnoreFailurePreserves
  <2>7. CASE EndBatch
    BY <2>7, EndBatchPreserves
  <2>8. CASE Commit
    BY <2>8, CommitPreserves
  <2>9. CASE Gpu
    BY <2>9, GpuPreserves
  <2>10. CASE UNCHANGED vars
    BY <2>10, StutterPreserves
  <2>. QED  BY <2>1, <2>2, <2>3, <2>4, <2>5, <2>6, <2>7, <2>8, <2>9, <2>10 DEF Next, Executor
<1>2. Spec => []SortInv
  BY DispatchKeepsOrder, SortInvariantHolds, PTL
<1>. QED  BY PassInvAtInit, <1>1, <1>2, PTL DEF Spec

\* With dependency dispatch a kernel starts only when what it reads has been
\* written: the command that writes it is in an earlier epoch.
THEOREM DataIsReadyAlways == Spec => []DataIsReady
<1>1. SortInv /\ PassInv => DataIsReady
  <2>. SUFFICES ASSUME SortInv, PassInv, dependency_dispatch, NEW c \in started,
                       NEW b \in commands[c].reads, b # Embed
                PROVE \E d \in finished : b \in commands[d].writes
    BY DEF DataIsReady, RunsOnWrittenData
  <2>1. c \in DOMAIN commands
    BY Typing
  <2>2. PICK d \in DOMAIN commands :
          b \in commands[d].writes /\ commands[d].epoch < commands[c].epoch
    BY <2>1 DEF PassInv, Epochs
  <2>. QED  BY <2>2 DEF PassInv, Epochs
<1>2. Spec => []SortInv
  BY DispatchKeepsOrder, SortInvariantHolds, PTL
<1>. QED  BY <1>1, <1>2, PassInvariantHolds, PTL
-----------------------------------------------------------------------------
\* The DAG after each layer exists and is made as Layers says.
LEMMA LayersAre ==
  ASSUME NEW kinds \in Seq(LayerKind)
  PROVE  Layers(kinds) = [l \in 0..Len(kinds) |->
           IF l = 0 THEN <<NoOp({})>> ELSE AddLayer(Layers(kinds)[l - 1], kinds[l], l)]
<1>. DEFINE Made(f, m) == f = [l \in 0..m |->
              IF l = 0 THEN <<NoOp({})>> ELSE AddLayer(f[l - 1], kinds[l], l)]
            Bad == {m \in 0..Len(kinds) : ~ \E f : Made(f, m)}
<1>1. Len(kinds) \in Nat
  BY LenProperties
<1>2. Bad = {}
  <2>. SUFFICES ASSUME Bad # {} PROVE FALSE
    OBVIOUS
  <2>1. Bad \subseteq Nat
    BY <1>1
  <2>2. PICK m \in Bad : \A o \in Bad : m <= o
    BY <2>1, Smallest
  <2>3. m # 0
    <3>. SUFFICES ASSUME m = 0 PROVE \E f : Made(f, m)
      BY <2>2
    <3>1. Made([l \in 0..0 |-> <<NoOp({})>>], 0)
      OBVIOUS
    <3>. QED  BY <3>1, Zenon
  <2>4. m \in Nat /\ m - 1 \in 0..Len(kinds) /\ m - 1 \notin Bad
    <3>1. m \in 0..Len(kinds)
      BY <2>2
    <3>2. m \in Nat /\ m - 1 \in 0..Len(kinds) /\ ~(m <= m - 1)
      BY <1>1, <2>3, <3>1
    <3>. HIDE DEF Bad
    <3>. QED  BY <2>2, <3>2
  <2>5. PICK f : Made(f, m - 1)
    BY <2>4
  <2>. DEFINE g == [l \in 0..m |-> IF l < m THEN f[l] ELSE AddLayer(f[l - 1], kinds[l], l)]
  <2>6. ASSUME NEW l \in 0..m
        PROVE  g[l] = IF l = 0 THEN <<NoOp({})>> ELSE AddLayer(g[l - 1], kinds[l], l)
    <3>1. CASE l = 0
      <4>1. 0 \in 0..(m - 1) /\ 0 < m
        BY <2>3, <2>4
      <4>2. f[0] = <<NoOp({})>>
        BY <2>5, <4>1
      <4>. QED  BY <3>1, <4>1, <4>2
    <3>2. CASE l # 0
      <4>1. l - 1 \in 0..m /\ l - 1 < m
        BY <2>4, <3>2
      <4>2. g[l - 1] = f[l - 1]
        BY <4>1
      <4>3. g[l] = AddLayer(f[l - 1], kinds[l], l)
        <5>1. CASE l = m
          BY <5>1
        <5>2. CASE l # m
          <6>1. l \in 0..(m - 1) /\ l < m
            BY <2>4, <5>2
          <6>. QED  BY <2>5, <3>2, <6>1
        <5>. QED  BY <5>1, <5>2
      <4>. QED  BY <3>2, <4>2, <4>3
    <3>. QED  BY <3>1, <3>2
  <2>. HIDE DEF g
  <2>7. g = [l \in 0..m |-> IF l = 0 THEN <<NoOp({})>> ELSE AddLayer(g[l - 1], kinds[l], l)]
    BY <2>6 DEF g
  <2>. QED  BY <2>2, <2>7
<1>3. \E f : Made(f, Len(kinds))
  BY <1>1, <1>2
<1>4. Layers(kinds) = CHOOSE f : Made(f, Len(kinds))
  BY DEF Layers
<1>. QED  BY <1>3, <1>4

\* Nodes are records of their own kinds, so a DAG is a sequence of something.
IsSeq(s) == \E S : s \in Seq(S)

\* The projections of a layer are three nodes, or one.
LEMMA Triples ==
  ASSUME NEW f, f = [i \in 1..3 |-> f[i]]
  PROVE  IsSeq(f) /\ Len(f) = 3
<1>. DEFINE S == {f[i] : i \in 1..3}
<1>1. f \in [1..3 -> S]
  <2>1. \A i \in 1..3 : f[i] \in S
    OBVIOUS
  <2>. QED  BY <2>1
<1>. HIDE DEF S
<1>2. f \in Seq(S)
  BY <1>1, SeqDef
<1>3. Len(f) = 3
  <2>1. DOMAIN f = 1..Len(f) /\ Len(f) \in Nat
    BY <1>2, LenProperties
  <2>2. 1..3 = 1..Len(f)
    BY <1>1, <2>1
  <2>. QED  BY <2>1, <2>2
<1>. QED  BY <1>2, <1>3 DEF IsSeq

LEMMA Singles ==
  ASSUME NEW x
  PROVE  IsSeq(<<x>>) /\ Len(<<x>>) = 1
<1>1. <<x>> \in Seq({x})
  OBVIOUS
<1>. QED  BY <1>1 DEF IsSeq

\* u is s followed by t.
Joined(s, t, u) ==
  /\ IsSeq(u)
  /\ Len(s) \in Nat /\ Len(t) \in Nat /\ Len(u) = Len(s) + Len(t)
  /\ DOMAIN u = 1..Len(u)
  /\ \A i \in 1..Len(s) : u[i] = s[i]
  /\ \A i \in 1..Len(t) : u[Len(s) + i] = t[i]

\* What \o makes of two sequences.
LEMMA Appended ==
  ASSUME NEW s, NEW t, IsSeq(s), IsSeq(t)
  PROVE  Joined(s, t, s \o t)
<1>1. PICK S, T : s \in Seq(S) /\ t \in Seq(T)
  BY DEF IsSeq
<1>2. s \in Seq(S \cup T) /\ t \in Seq(S \cup T)
  BY <1>1
<1>3. s \o t \in Seq(S \cup T)
  BY <1>2, ConcatProperties
<1>. QED  BY <1>2, <1>3, ConcatProperties, LenProperties DEF IsSeq, Joined

\* How many nodes project to q, k and v.
Width(kind) == IF kind = "fused" THEN 1 ELSE 3

\* What the nodes of a layer come from: the layer before or the embedding.
Input(l) == IF l = 1 THEN Embed ELSE <<l - 1, "output">>

\* The nodes of a layer after its projections, whose norm is node b.
After(kind, l, b) ==
  LET nth(i) == b + (IF Width(kind) = 1 THEN 1 ELSE i)
  IN AfterProjections(l, Input(l), b + Width(kind) + 1, nth(1), nth(2), nth(3))

\* A layer of d, from node b on.
LayerAt(d, kind, l, b) ==
  /\ d[b] = Compute({Input(l)}, {<<l, "attention_norm">>}, <<l, "normed">>, {b - 1})
  /\ \A i \in 1..Width(kind) : d[b + i] = Projections(kind, l, b)[i]
  /\ \A i \in 1..14 : d[b + Width(kind) + i] = After(kind, l, b)[i]

\* How many nodes a layer has.
LEMMA LayerParts ==
  ASSUME NEW kind \in LayerKind, NEW l, NEW b
  PROVE  /\ IsSeq(Projections(kind, l, b)) /\ Len(Projections(kind, l, b)) = Width(kind)
         /\ IsSeq(After(kind, l, b)) /\ Len(After(kind, l, b)) = 14
<1>1. IsSeq(Projections(kind, l, b)) /\ Len(Projections(kind, l, b)) = Width(kind)
  <2>1. CASE kind = "fused"
    BY <2>1, Singles DEF Projections, Width
  <2>2. CASE kind \in {"separate", "mla"}
    <3>1. Width(kind) = 3
      BY <2>2 DEF Width
    <3>. QED  BY <2>2, <3>1, Triples DEF Projections
  <2>. QED  BY <2>1, <2>2 DEF LayerKind
<1>2. IsSeq(After(kind, l, b)) /\ Len(After(kind, l, b)) = 14
  <2>1. ASSUME NEW x1, NEW x2, NEW x3, NEW x4, NEW x5, NEW x6, NEW x7,
               NEW x8, NEW x9, NEW x10, NEW x11, NEW x12, NEW x13, NEW x14
        PROVE  LET s == <<x1, x2, x3, x4, x5, x6, x7, x8, x9, x10, x11, x12, x13, x14>>
               IN IsSeq(s) /\ Len(s) = 14
    <3>1. <<x1, x2, x3, x4, x5, x6, x7, x8, x9, x10, x11, x12, x13, x14>>
            \in Seq({x1, x2, x3, x4, x5, x6, x7, x8, x9, x10, x11, x12, x13, x14})
      OBVIOUS
    <3>. QED  BY <3>1 DEF IsSeq
  <2>. QED  BY <2>1 DEF After, AfterProjections
<1>. QED  BY <1>1, <1>2

\* What a layer adds to a DAG.
LEMMA LayerAdded ==
  ASSUME NEW d, IsSeq(d), NEW kind \in LayerKind, NEW l
  PROVE  LET e == AddLayer(d, kind, l) IN
         /\ IsSeq(e) /\ Len(d) \in Nat /\ Len(e) = Len(d) + Width(kind) + 15
         /\ \A n \in 1..Len(d) : e[n] = d[n]
         /\ LayerAt(e, kind, l, Len(d) + 1)
<1>. DEFINE b == Len(d) + 1
            head == <<Compute({Input(l)}, {<<l, "attention_norm">>}, <<l, "normed">>, {Len(d)})>>
            proj == Projections(kind, l, b)
            rest == After(kind, l, b)
            one == d \o head
            two == one \o proj
            e == two \o rest
<1>1. IsSeq(head) /\ Len(head) = 1
  BY Singles
<1>2. /\ IsSeq(proj) /\ Len(proj) = Width(kind)
      /\ IsSeq(rest) /\ Len(rest) = 14
  BY LayerParts
<1>3. AddLayer(d, kind, l) = e
  <2>1. Len(Projections(kind, l, Len(d) + 1)) = Width(kind)
    BY LayerParts
  <2>. QED  BY <2>1, Zenon DEF AddLayer, After, Input
<1>4. head[1] = Compute({Input(l)}, {<<l, "attention_norm">>}, <<l, "normed">>, {Len(d)})
  OBVIOUS
<1>. HIDE DEF head, proj, rest
<1>5. Joined(d, head, one)
  BY <1>1, Appended
<1>. HIDE DEF one
<1>6. Joined(one, proj, two)
  <2>1. IsSeq(one)
    BY <1>5 DEF Joined
  <2>. QED  BY <1>2, <2>1, Appended
<1>. HIDE DEF two
<1>7. Joined(two, rest, e)
  <2>1. IsSeq(two)
    BY <1>6 DEF Joined
  <2>. QED  BY <1>2, <2>1, Appended
<1>. HIDE DEF e
<1>8. /\ IsSeq(e) /\ Len(d) \in Nat /\ Width(kind) \in {1, 3} /\ b \in Nat /\ b - 1 = Len(d)
      /\ Len(one) = b /\ Len(two) = b + Width(kind) /\ Len(e) = b + Width(kind) + 14
  BY <1>1, <1>2, <1>5, <1>6, <1>7 DEF Width, Joined
<1>9. \A n \in 1..Len(d) : e[n] = d[n]
  BY <1>5, <1>6, <1>7, <1>8 DEF Joined
<1>10. e[b] = head[1]
  <2>1. 1 \in 1..Len(head) /\ b \in 1..Len(one) /\ b \in 1..Len(two)
    BY <1>1, <1>8
  <2>. QED  BY <1>5, <1>6, <1>7, <2>1 DEF Joined
<1>11. \A i \in 1..Width(kind) : e[b + i] = proj[i]
  <2>. SUFFICES ASSUME NEW i \in 1..Width(kind) PROVE e[b + i] = proj[i]
    OBVIOUS
  <2>1. i \in 1..Len(proj) /\ b + i \in 1..Len(two)
    BY <1>2, <1>8
  <2>. QED  BY <1>6, <1>7, <1>8, <2>1 DEF Joined
<1>12. \A i \in 1..14 : e[b + Width(kind) + i] = rest[i]
  BY <1>2, <1>7, <1>8 DEF Joined
<1>13. LayerAt(e, kind, l, b)
  BY <1>4, <1>8, <1>10, <1>11, <1>12 DEF LayerAt, proj, rest
<1>. QED  BY <1>3, <1>8, <1>9, <1>13

\* Layers do not change once they are added.
Agree(d, e, len) == \A n \in 1..len : e[n] = d[n]

\* A longer DAG that agrees with a shorter one has its layers.
LEMMA LayerStays ==
  ASSUME NEW d, NEW e, NEW kind \in LayerKind, NEW l, NEW b \in Nat \ {0}, NEW len \in Nat,
         LayerAt(d, kind, l, b), b + Width(kind) + 14 <= len, Agree(d, e, len)
  PROVE  LayerAt(e, kind, l, b)
<1>. USE DEF Agree
<1>1. Width(kind) \in {1, 3}
  BY DEF Width
<1>2. e[b] = d[b]
  BY <1>1
<1>3. \A i \in 1..Width(kind) : e[b + i] = d[b + i]
  BY <1>1
<1>4. \A i \in 1..14 : e[b + Width(kind) + i] = d[b + Width(kind) + i]
  BY <1>1
<1>. QED  BY <1>2, <1>3, <1>4 DEF LayerAt

\* What the DAG of some layers is: the embedding, and the layers in a row.
LayersInARow(u, kinds, m) ==
  /\ IsSeq(u[m]) /\ Len(u[0]) = 1 /\ u[m][1] = NoOp({})
  /\ \A k \in 0..m : Len(u[k]) \in Nat /\ 1 <= Len(u[k]) /\ Len(u[k]) <= Len(u[m])
  /\ \A k \in 1..m : /\ Len(u[k]) = Len(u[k - 1]) + Width(kinds[k]) + 15
                     /\ LayerAt(u[m], kinds[k], k, Len(u[k - 1]) + 1)
  /\ \A n \in 2..Len(u[m]) : \E k \in 1..m : Len(u[k - 1]) < n /\ n <= Len(u[k])

\* One more layer keeps the row.
LEMMA LayerFollows ==
  ASSUME NEW kinds \in Seq(LayerKind), NEW m \in Nat, m < Len(kinds), NEW u,
         LayersInARow(u, kinds, m), u[m + 1] = AddLayer(u[m], kinds[m + 1], m + 1)
  PROVE  LayersInARow(u, kinds, m + 1)
<1>1. kinds[m + 1] \in LayerKind /\ Len(kinds) \in Nat
  BY LenProperties
<1>2. /\ IsSeq(u[m + 1]) /\ Len(u[m]) \in Nat
      /\ Len(u[m + 1]) = Len(u[m]) + Width(kinds[m + 1]) + 15
      /\ \A n \in 1..Len(u[m]) : u[m + 1][n] = u[m][n]
      /\ LayerAt(u[m + 1], kinds[m + 1], m + 1, Len(u[m]) + 1)
  BY <1>1, LayerAdded DEF LayersInARow
<1>3. /\ Len(u[m + 1]) \in Nat /\ Len(u[m]) < Len(u[m + 1]) /\ m + 1 - 1 = m
  <2>1. Width(kinds[m + 1]) \in {1, 3}
    BY DEF Width
  <2>. QED  BY <1>2, <2>1
<1>4. u[m + 1][1] = NoOp({}) /\ Len(u[0]) = 1
  BY <1>2 DEF LayersInARow
<1>5. \A k \in 0..(m + 1) : Len(u[k]) \in Nat /\ 1 <= Len(u[k]) /\ Len(u[k]) <= Len(u[m + 1])
  <2>. SUFFICES ASSUME NEW k \in 0..(m + 1)
                PROVE  Len(u[k]) \in Nat /\ 1 <= Len(u[k]) /\ Len(u[k]) <= Len(u[m + 1])
    OBVIOUS
  <2>1. CASE k = m + 1
    BY <1>3, <2>1 DEF LayersInARow
  <2>2. CASE k \in 0..m
    BY <1>3, <2>2 DEF LayersInARow
  <2>. QED  BY <2>1, <2>2
<1>6. ASSUME NEW k \in 1..(m + 1)
      PROVE  /\ Len(u[k]) = Len(u[k - 1]) + Width(kinds[k]) + 15
             /\ LayerAt(u[m + 1], kinds[k], k, Len(u[k - 1]) + 1)
  <2>1. CASE k = m + 1
    BY <1>2, <1>3, <2>1
  <2>2. CASE k \in 1..m
    <3>1. /\ Len(u[k]) = Len(u[k - 1]) + Width(kinds[k]) + 15
          /\ LayerAt(u[m], kinds[k], k, Len(u[k - 1]) + 1)
          /\ k \in 0..m /\ k - 1 \in 0..m
      BY <2>2 DEF LayersInARow
    <3>2. Len(u[k]) <= Len(u[m]) /\ Len(u[k - 1]) \in Nat /\ kinds[k] \in LayerKind
      BY <1>1, <3>1, LenProperties DEF LayersInARow
    <3>. PICK b \in Nat \ {0} : b = Len(u[k - 1]) + 1
      BY <3>2
    <3>3. LayerAt(u[m], kinds[k], k, b) /\ b + Width(kinds[k]) + 14 <= Len(u[m])
      <4>1. Width(kinds[k]) \in {1, 3}
        BY DEF Width
      <4>. QED  BY <3>1, <3>2, <4>1
    <3>4. LayerAt(u[m + 1], kinds[k], k, b)
      <4>. PICK d : d = u[m]
        OBVIOUS
      <4>. PICK e : e = u[m + 1]
        OBVIOUS
      <4>. PICK kind \in LayerKind : kind = kinds[k]
        BY <3>2
      <4>. PICK len \in Nat : len = Len(u[m])
        BY <1>2
      <4>1. Agree(d, e, len) /\ LayerAt(d, kind, k, b) /\ b + Width(kind) + 14 <= len
        BY <1>2, <3>3 DEF Agree
      <4>2. LayerAt(e, kind, k, b)
        BY <4>1, LayerStays
      <4>. QED  BY <4>2
    <3>. QED  BY <3>1, <3>4
  <2>. QED  BY <2>1, <2>2
<1>7. ASSUME NEW n \in 2..Len(u[m + 1])
      PROVE  \E k \in 1..(m + 1) : Len(u[k - 1]) < n /\ n <= Len(u[k])
  <2>1. CASE n <= Len(u[m])
    <3>1. n \in 2..Len(u[m])
      BY <1>2, <2>1
    <3>2. PICK k \in 1..m : Len(u[k - 1]) < n /\ n <= Len(u[k])
      BY <3>1 DEF LayersInARow
    <3>. QED  BY <3>2
  <2>2. CASE ~(n <= Len(u[m]))
    <3>1. Len(u[m + 1 - 1]) < n /\ n <= Len(u[m + 1]) /\ m + 1 \in 1..(m + 1)
      BY <1>2, <1>3, <2>2
    <3>. QED  BY <3>1
  <2>. QED  BY <2>1, <2>2
<1>. QED  BY <1>2, <1>4, <1>5, <1>6, <1>7 DEF LayersInARow

\* After any number of layers they are in a row.
LEMMA LayersFollow ==
  ASSUME NEW kinds \in Seq(LayerKind)
  PROVE  LayersInARow(Layers(kinds), kinds, Len(kinds))
<1>. DEFINE u == Layers(kinds)
            Bad == {m \in 0..Len(kinds) : ~LayersInARow(u, kinds, m)}
<1>1. Len(kinds) \in Nat
  BY LenProperties
<1>2. \A l \in 0..Len(kinds) :
        u[l] = IF l = 0 THEN <<NoOp({})>> ELSE AddLayer(u[l - 1], kinds[l], l)
  BY LayersAre
<1>. HIDE DEF u
<1>3. Bad = {}
  <2>. SUFFICES ASSUME Bad # {} PROVE FALSE
    OBVIOUS
  <2>1. Bad \subseteq Nat
    BY <1>1
  <2>2. PICK m \in Bad : \A o \in Bad : m <= o
    BY <2>1, Smallest
  <2>3. m \in 0..Len(kinds) /\ ~LayersInARow(u, kinds, m)
    BY <2>2
  <2>4. CASE m = 0
    <3>1. u[0] = <<NoOp({})>>
      BY <1>1, <1>2
    <3>2. IsSeq(u[0]) /\ Len(u[0]) = 1
      BY <3>1, Singles
    <3>3. u[0][1] = NoOp({})
      BY <3>1
    <3>4. LayersInARow(u, kinds, 0)
      <4>1. \A k \in 0..0 : Len(u[k]) \in Nat /\ 1 <= Len(u[k]) /\ Len(u[k]) <= Len(u[0])
        <5>. SUFFICES ASSUME NEW k \in 0..0
                      PROVE  Len(u[k]) \in Nat /\ 1 <= Len(u[k]) /\ Len(u[k]) <= Len(u[0])
          OBVIOUS
        <5>1. k = 0
          OBVIOUS
        <5>2. Len(u[k]) = 1
          BY <3>2, <5>1
        <5>. QED  BY <3>2, <5>2
      <4>2. 1..0 = {} /\ 2..Len(u[0]) = {}
        BY <3>2
      <4>. QED  BY <3>2, <3>3, <4>1, <4>2 DEF LayersInARow
    <3>. QED  BY <2>3, <2>4, <3>4
  <2>5. CASE m # 0
    <3>. PICK o : o = m - 1
      OBVIOUS
    <3>1. o \in Nat /\ o < Len(kinds) /\ o \in 0..Len(kinds) /\ ~(m <= o) /\ m = o + 1
      BY <1>1, <2>3, <2>5
    <3>2. o \notin Bad
      <4>. HIDE DEF Bad
      <4>. QED  BY <2>2, <3>1
    <3>3. LayersInARow(u, kinds, o)
      BY <3>1, <3>2
    <3>4. u[o + 1] = AddLayer(u[o], kinds[o + 1], o + 1)
      BY <1>2, <2>3, <2>5, <3>1
    <3>5. LayersInARow(u, kinds, o + 1)
      BY <3>1, <3>3, <3>4, LayerFollows
    <3>. QED  BY <2>3, <3>1, <3>5
  <2>. QED  BY <2>4, <2>5
<1>. QED  BY <1>1, <1>3 DEF u

\* What a DAG of the builder is, where start[l] is the first node of layer l:
\* the embedding, the layers, the norm and the product of the output.
Layout(d, kinds, start) ==
  LET last == start[Len(kinds) + 1] IN
  /\ start \in [1..(Len(kinds) + 1) -> Nat \ {0, 1}] /\ start[1] = 2
  /\ \A l \in 1..Len(kinds) : /\ start[l + 1] = start[l] + Width(kinds[l]) + 15
                              /\ start[l + 1] <= last
                              /\ LayerAt(d, kinds[l], l, start[l])
  /\ d[1] = NoOp({})
  /\ d[last] = Compute({Input(Len(kinds) + 1)}, {<<0, "norm">>}, <<0, "normed">>, {last - 1})
  /\ d[last + 1] = Compute({<<0, "normed">>}, {<<0, "output">>}, Logits, {last})
  /\ DOMAIN d = 1..(last + 1) /\ Len(d) = last + 1
  /\ \A n \in 2..(last - 1) : \E l \in 1..Len(kinds) : start[l] <= n /\ n < start[l + 1]

\* Every DAG the builder returns is laid out like this.
LEMMA BuilderLayout ==
  ASSUME NEW kinds \in Seq(LayerKind)
  PROVE  \E start : Layout(BuildModelDag(kinds), kinds, start)
<1>. DEFINE u == Layers(kinds)
<1>. PICK N : N = Len(kinds)
  OBVIOUS
<1>1. N \in Nat /\ N = Len(kinds)
  BY LenProperties
<1>2. LayersInARow(u, kinds, N)
  BY LayersFollow
<1>. HIDE DEF u
<1>. DEFINE v == u[N]
            last == Len(v) + 1
            tail == <<Compute({Input(N + 1)}, {<<0, "norm">>}, <<0, "normed">>, {last - 1}),
                      Compute({<<0, "normed">>}, {<<0, "output">>}, Logits, {last})>>
            d == v \o tail
            start == [l \in 1..(N + 1) |-> Len(u[l - 1]) + 1]
<1>3. /\ IsSeq(v) /\ Len(v) \in Nat /\ 1 <= Len(v) /\ v[1] = NoOp({})
      /\ N \in 0..N
  BY <1>1, <1>2 DEF LayersInARow
<1>4. BuildModelDag(kinds) = d
  <2>1. Input(N + 1) = IF kinds = <<>> THEN Embed ELSE <<Len(kinds), "output">>
    <3>1. kinds = <<>> <=> N = 0
      BY <1>1, EmptySeq
    <3>2. CASE N = 0
      BY <3>1, <3>2 DEF Input
    <3>3. CASE N # 0
      <4>1. N + 1 # 1 /\ N + 1 - 1 = N
        BY <1>1, <3>3
      <4>. QED  BY <1>1, <3>1, <3>3, <4>1 DEF Input
    <3>. QED  BY <3>2, <3>3
  <2>2. last - 1 = Len(v)
    BY <1>3
  <2>. QED  BY <1>1, <2>1, <2>2, Zenon DEF BuildModelDag, u
<1>5. /\ IsSeq(tail) /\ Len(tail) = 2
      /\ tail[1] = Compute({Input(N + 1)}, {<<0, "norm">>}, <<0, "normed">>, {last - 1})
      /\ tail[2] = Compute({<<0, "normed">>}, {<<0, "output">>}, Logits, {last})
  <2>1. ASSUME NEW x, NEW y
        PROVE  IsSeq(<<x, y>>) /\ Len(<<x, y>>) = 2 /\ <<x, y>>[1] = x /\ <<x, y>>[2] = y
    <3>1. <<x, y>> \in Seq({x, y})
      OBVIOUS
    <3>. QED  BY <3>1 DEF IsSeq
  <2>. QED  BY <2>1, Zenon
<1>. HIDE DEF tail, v
<1>6. Joined(v, tail, d)
  BY <1>3, <1>5, Appended
<1>. HIDE DEF d
<1>7. /\ Len(d) = last + 1 /\ DOMAIN d = 1..(last + 1)
      /\ last \in Nat /\ last >= 2 /\ d[1] = NoOp({})
      /\ d[last] = tail[1] /\ d[last + 1] = tail[2]
  <2>1. Len(d) = Len(v) + 2 /\ DOMAIN d = 1..Len(d)
    BY <1>5, <1>6 DEF Joined
  <2>2. d[1] = v[1]
    BY <1>3, <1>6 DEF Joined
  <2>3. \A i \in 1..2 : d[Len(v) + i] = tail[i]
    BY <1>5, <1>6 DEF Joined
  <2>. QED  BY <1>3, <2>1, <2>2, <2>3
<1>8. start \in [1..(N + 1) -> Nat \ {0, 1}] /\ start[1] = 2 /\ start[N + 1] = last
  <2>1. \A l \in 1..(N + 1) : l - 1 \in 0..N /\ Len(u[l - 1]) + 1 \in Nat \ {0, 1}
    BY <1>1, <1>2 DEF LayersInARow
  <2>2. 1 \in 1..(N + 1) /\ N + 1 \in 1..(N + 1) /\ 1 - 1 = 0 /\ N + 1 - 1 = N
    BY <1>1
  <2>3. Len(u[0]) = 1
    BY <1>2 DEF LayersInARow
  <2>4. start \in [1..(N + 1) -> Nat \ {0, 1}]
    BY <2>1
  <2>5. start[1] = Len(u[1 - 1]) + 1 /\ start[N + 1] = Len(u[N + 1 - 1]) + 1
    BY <2>2
  <2>6. start[1] = Len(u[0]) + 1 /\ start[N + 1] = Len(u[N]) + 1
    BY <2>2, <2>5
  <2>. HIDE DEF start
  <2>. QED  BY <2>3, <2>4, <2>6 DEF v
<1>9. ASSUME NEW l \in 1..N
      PROVE  /\ start[l] = Len(u[l - 1]) + 1 /\ start[l + 1] = Len(u[l]) + 1
             /\ start[l + 1] = start[l] + Width(kinds[l]) + 15
             /\ start[l + 1] <= last
             /\ LayerAt(d, kinds[l], l, start[l])
  <2>1. l \in 1..(N + 1) /\ l + 1 \in 1..(N + 1) /\ l + 1 - 1 = l /\ l \in 0..N /\ l - 1 \in 0..N
    BY <1>1
  <2>2. start[l] = Len(u[l - 1]) + 1 /\ start[l + 1] = Len(u[l]) + 1
    BY <2>1
  <2>. HIDE DEF start
  <2>3. /\ Len(u[l]) = Len(u[l - 1]) + Width(kinds[l]) + 15
        /\ Len(u[l]) <= Len(v) /\ Len(u[l]) \in Nat /\ Len(u[l - 1]) \in Nat
        /\ LayerAt(v, kinds[l], l, Len(u[l - 1]) + 1)
    BY <1>2, <2>1 DEF LayersInARow, v
  <2>4. Width(kinds[l]) \in {1, 3} /\ kinds[l] \in LayerKind
    BY <1>1, LenProperties DEF Width
  <2>. PICK b \in Nat \ {0} : b = start[l]
    BY <2>2, <2>3
  <2>5. b + Width(kinds[l]) + 14 <= Len(v) /\ LayerAt(v, kinds[l], l, b)
    BY <2>2, <2>3, <2>4, SMTT(20)
  <2>6. Agree(v, d, Len(v))
    BY <1>6 DEF Joined, Agree
  <2>7. LayerAt(d, kinds[l], l, b)
    BY <1>3, <2>4, <2>5, <2>6, LayerStays
  <2>8. start[l + 1] = start[l] + Width(kinds[l]) + 15
    <3>. PICK p \in Nat : p = Len(u[l - 1])
      BY <2>3
    <3>. PICK w \in {1, 3} : w = Width(kinds[l])
      BY <2>4
    <3>1. start[l] = p + 1 /\ start[l + 1] = p + w + 15 + 1
      BY <2>2, <2>3
    <3>. QED  BY <3>1
  <2>9. start[l + 1] <= last
    BY <1>3, <2>2, <2>3
  <2>. QED  BY <2>2, <2>7, <2>8, <2>9
<1>10. ASSUME NEW n \in 2..(last - 1)
       PROVE  \E l \in 1..N : start[l] <= n /\ n < start[l + 1]
  <2>1. n \in 2..Len(v)
    BY <1>3
  <2>2. PICK l \in 1..N : Len(u[l - 1]) < n /\ n <= Len(u[l])
    BY <1>2, <2>1 DEF LayersInARow, v
  <2>3. start[l] = Len(u[l - 1]) + 1 /\ start[l + 1] = Len(u[l]) + 1
    BY <1>9
  <2>. HIDE DEF start
  <2>4. l \in 0..N /\ l - 1 \in 0..N
    BY <1>1
  <2>5. Len(u[l - 1]) \in Nat /\ Len(u[l]) \in Nat
    BY <1>2, <2>4 DEF LayersInARow
  <2>. QED  BY <2>1, <2>2, <2>3, <2>5, SMTT(20)
<1>. HIDE DEF start
<1>11. Layout(d, kinds, start)
  BY <1>1, <1>5, <1>7, <1>8, <1>9, <1>10 DEF Layout
<1>. QED  BY <1>4, <1>11

\* The nodes of a layer from b on, whose rotations are at a.
LayerIs(d, kind, l, b, a) ==
  LET T(name) == <<l, name>>
      k == IF kind = "fused" THEN b + 1 ELSE b + 2
      v == IF kind = "fused" THEN b + 1 ELSE b + 3
  IN
  /\ a = b + (IF kind = "fused" THEN 2 ELSE 4)
  /\ d[b] = Compute({Input(l)}, {T("attention_norm")}, T("normed"), {b - 1})
  /\ kind = "fused" => d[b + 1] = FusedQKVWeight(l, {b})
  /\ kind = "separate" => /\ d[b + 1] = Compute({T("normed")}, {}, T("q"), {b})
                          /\ d[b + 2] = Compute({T("normed")}, {}, T("k"), {b})
                          /\ d[b + 3] = Compute({T("normed")}, {}, T("v"), {b})
  /\ kind = "mla" => d[b + 1] = NoOp({b}) /\ d[b + 2] = NoOp({b}) /\ d[b + 3] = NoOp({b})
  /\ d[a] = Compute({T("q")}, {}, T("q_rope"), {b + 1})
  /\ d[a + 1] = Compute({T("k")}, {}, T("k_rope"), {k})
  /\ d[a + 2] = KVCacheUpdate(T("k_rope"), T("K"), {a + 1})
  /\ d[a + 3] = KVCacheUpdate(T("v"), T("V"), {v})
  /\ d[a + 4] = FlashAttention(l, a, a + 2, a + 3)
  /\ d[a + 5] = Compute({T("attn")}, {T("wo")}, T("wo_out"), {a + 4})
  /\ d[a + 6] = Compute({Input(l), T("wo_out")}, {}, T("residual"), {a + 5})
  /\ d[a + 7] = Compute({T("residual")}, {T("ffn_norm")}, T("ffn_normed"), {a + 6})
  /\ d[a + 8] = Compute({T("ffn_normed")}, {T("w1")}, T("gate"), {a + 7})
  /\ d[a + 9] = Compute({T("ffn_normed")}, {T("w3")}, T("up"), {a + 7})
  /\ d[a + 10] = Compute({T("up")}, {}, T("silu"), {a + 9})
  /\ d[a + 11] = Compute({T("gate"), T("silu")}, {}, T("ffn_hidden"), {a + 8, a + 10})
  /\ d[a + 12] = Compute({T("ffn_hidden")}, {T("w2")}, T("ffn_out"), {a + 11})
  /\ d[a + 13] = Compute({T("residual"), T("ffn_out")}, {}, T("output"), {a + 6, a + 12})

\* Node by node, a layer in the row is what LayerIs says.
LEMMA LayerNodes ==
  ASSUME NEW d, NEW kind \in LayerKind, NEW l, NEW b \in Nat, LayerAt(d, kind, l, b)
  PROVE  LayerIs(d, kind, l, b, b + Width(kind) + 1)
<1>. DEFINE T(name) == <<l, name>>
            k == IF kind = "fused" THEN b + 1 ELSE b + 2
            v == IF kind = "fused" THEN b + 1 ELSE b + 3
<1>. PICK a : a = b + Width(kind) + 1
  OBVIOUS
<1>1. /\ a \in Nat /\ a = b + (IF kind = "fused" THEN 2 ELSE 4)
      /\ Width(kind) = IF kind = "fused" THEN 1 ELSE 3
  BY DEF Width
<1>2. After(kind, l, b) = AfterProjections(l, Input(l), a, b + 1, k, v)
  <2>1. CASE kind = "fused"
    BY <1>1, <2>1 DEF After
  <2>2. CASE kind # "fused"
    BY <1>1, <2>2 DEF After
  <2>. QED  BY <2>1, <2>2
<1>. HIDE DEF k, v
<1>3. \A i \in 1..14 : d[b + Width(kind) + i] = AfterProjections(l, Input(l), a, b + 1, k, v)[i]
  BY <1>2 DEF LayerAt
<1>4. /\ b + Width(kind) + 1 = a
      /\ b + Width(kind) + 2 = a + 1 /\ b + Width(kind) + 3 = a + 2
      /\ b + Width(kind) + 4 = a + 3 /\ b + Width(kind) + 5 = a + 4
      /\ b + Width(kind) + 6 = a + 5 /\ b + Width(kind) + 7 = a + 6
      /\ b + Width(kind) + 8 = a + 7 /\ b + Width(kind) + 9 = a + 8
      /\ b + Width(kind) + 10 = a + 9 /\ b + Width(kind) + 11 = a + 10
      /\ b + Width(kind) + 12 = a + 11 /\ b + Width(kind) + 13 = a + 12
      /\ b + Width(kind) + 14 = a + 13
  BY <1>1
<1>5. \A i \in 1..14 : d[b + Width(kind) + i] = After(kind, l, b)[i]
  BY DEF LayerAt
<1>6. /\ d[a] = Compute({T("q")}, {}, T("q_rope"), {b + 1})
      /\ d[a + 1] = Compute({T("k")}, {}, T("k_rope"), {k})
      /\ d[a + 2] = KVCacheUpdate(T("k_rope"), T("K"), {a + 1})
      /\ d[a + 3] = KVCacheUpdate(T("v"), T("V"), {v})
      /\ d[a + 4] = FlashAttention(l, a, a + 2, a + 3)
      /\ d[a + 5] = Compute({T("attn")}, {T("wo")}, T("wo_out"), {a + 4})
      /\ d[a + 6] = Compute({Input(l), T("wo_out")}, {}, T("residual"), {a + 5})
      /\ d[a + 7] = Compute({T("residual")}, {T("ffn_norm")}, T("ffn_normed"), {a + 6})
      /\ d[a + 8] = Compute({T("ffn_normed")}, {T("w1")}, T("gate"), {a + 7})
      /\ d[a + 9] = Compute({T("ffn_normed")}, {T("w3")}, T("up"), {a + 7})
      /\ d[a + 10] = Compute({T("up")}, {}, T("silu"), {a + 9})
      /\ d[a + 11] = Compute({T("gate"), T("silu")}, {}, T("ffn_hidden"), {a + 8, a + 10})
      /\ d[a + 12] = Compute({T("ffn_hidden")}, {T("w2")}, T("ffn_out"), {a + 11})
      /\ d[a + 13] = Compute({T("residual"), T("ffn_out")}, {}, T("output"), {a + 6, a + 12})
  BY <1>3, <1>4 DEF AfterProjections
<1>7. d[b] = Compute({Input(l)}, {T("attention_norm")}, T("normed"), {b - 1})
  BY DEF LayerAt
<1>8. \A i \in 1..Width(kind) : d[b + i] = Projections(kind, l, b)[i]
  BY DEF LayerAt
<1>9. CASE kind = "fused"
  <2>1. d[b + 1] = FusedQKVWeight(l, {b})
    BY <1>1, <1>8, <1>9 DEF Projections
  <2>. QED  BY <1>1, <1>6, <1>7, <1>9, <2>1, Zenon DEF LayerIs, k, v
<1>10. CASE kind = "separate"
  <2>1. /\ d[b + 1] = Compute({T("normed")}, {}, T("q"), {b})
        /\ d[b + 2] = Compute({T("normed")}, {}, T("k"), {b})
        /\ d[b + 3] = Compute({T("normed")}, {}, T("v"), {b})
    BY <1>1, <1>8, <1>10 DEF Projections
  <2>. QED  BY <1>1, <1>6, <1>7, <1>10, <2>1 DEF LayerIs, k, v
<1>11. CASE kind = "mla"
  <2>1. d[b + 1] = NoOp({b}) /\ d[b + 2] = NoOp({b}) /\ d[b + 3] = NoOp({b})
    BY <1>1, <1>8, <1>11 DEF Projections
  <2>. QED  BY <1>1, <1>6, <1>7, <1>11, <2>1 DEF LayerIs, k, v
<1>. QED  BY <1>9, <1>10, <1>11 DEF LayerKind

\* Which node writes a buffer.
Offset ==
  [q_rope |-> 0, k_rope |-> 1, K |-> 2, V |-> 3, attn |-> 4, wo_out |-> 5, residual |-> 6,
   ffn_normed |-> 7, gate |-> 8, up |-> 9, silu |-> 10, ffn_hidden |-> 11, ffn_out |-> 12,
   output |-> 13]

Producer(kinds, start, t) ==
  LET fused == kinds[t[1]] = "fused"
      b == start[t[1]]
      last == start[Len(kinds) + 1]
  IN CASE t[1] = 0 -> IF t[2] = "normed" THEN last ELSE last + 1
       [] t[1] # 0 /\ t[2] = "normed" -> b
       [] t[1] # 0 /\ t[2] \in {"q", "qkv"} -> b + 1
       [] t[1] # 0 /\ t[2] = "k" -> IF fused THEN b + 1 ELSE b + 2
       [] t[1] # 0 /\ t[2] = "v" -> IF fused THEN b + 1 ELSE b + 3
       [] t[1] # 0 /\ t[2] \in DOMAIN Offset -> b + (IF fused THEN 2 ELSE 4) + Offset[t[2]]

Produces(kinds, start, l, b, a) ==
  LET P(name) == Producer(kinds, start, <<l, name>>) IN
  /\ P("normed") = b /\ P("q") = b + 1 /\ P("qkv") = b + 1
  /\ P("k") = IF kinds[l] = "fused" THEN b + 1 ELSE b + 2
  /\ P("v") = IF kinds[l] = "fused" THEN b + 1 ELSE b + 3
  /\ P("q_rope") = a /\ P("k_rope") = a + 1 /\ P("K") = a + 2 /\ P("V") = a + 3
  /\ P("attn") = a + 4 /\ P("wo_out") = a + 5 /\ P("residual") = a + 6
  /\ P("ffn_normed") = a + 7 /\ P("gate") = a + 8 /\ P("up") = a + 9
  /\ P("silu") = a + 10 /\ P("ffn_hidden") = a + 11 /\ P("ffn_out") = a + 12
  /\ P("output") = a + 13

\* The nodes that Producer names for the tensors of a layer.
LEMMA Producers ==
  ASSUME NEW kinds, NEW start, NEW l \in Nat \ {0},
         NEW b, b = start[l], b \in Nat, NEW a, a = b + (IF kinds[l] = "fused" THEN 2 ELSE 4)
  PROVE  Produces(kinds, start, l, b, a)
<1>. DEFINE P(name) == Producer(kinds, start, <<l, name>>)
<1>1. ASSUME NEW name \in DOMAIN Offset PROVE P(name) = a + Offset[name]
  <2>1. name \notin {"normed", "q", "qkv", "k", "v"}
    BY <1>1 DEF Offset
  <2>. QED  BY <1>1, <2>1 DEF Producer
<1>2. /\ P("normed") = b /\ P("q") = b + 1 /\ P("qkv") = b + 1
      /\ P("k") = IF kinds[l] = "fused" THEN b + 1 ELSE b + 2
      /\ P("v") = IF kinds[l] = "fused" THEN b + 1 ELSE b + 3
  BY DEF Producer, Offset
<1>. HIDE DEF P
<1>3. P("q_rope") = a /\ P("k_rope") = a + 1 /\ P("K") = a + 2 /\ P("V") = a + 3
  BY <1>1 DEF Offset
<1>4. /\ P("attn") = a + 4 /\ P("wo_out") = a + 5 /\ P("residual") = a + 6
      /\ P("ffn_normed") = a + 7 /\ P("gate") = a + 8 /\ P("up") = a + 9
  BY <1>1 DEF Offset
<1>5. /\ P("silu") = a + 10 /\ P("ffn_hidden") = a + 11 /\ P("ffn_out") = a + 12
      /\ P("output") = a + 13
  BY <1>1 DEF Offset
<1>. QED  BY <1>2, <1>3, <1>4, <1>5 DEF P, Produces

\* Nodes before n.
Below(D, n) == \A x \in D : x \in Nat \ {0} /\ x < n

\* As a set of dependencies.
LEMMA BelowIs ==
  ASSUME NEW n \in Nat, NEW D, Below(D, n)
  PROVE  D \subseteq 1..(n - 1)
BY DEF Below

\* What can be said of a node by itself.
Local(d, n, kinds, start) ==
  /\ d[n].dependencies \subseteq 1..(n - 1)
  /\ Len(d[n].kernels) \in 0..2 /\ DOMAIN d[n].kernels = 1..Len(d[n].kernels)
  /\ \A k \in Range(d[n].kernels) : k = [reads |-> k.reads, writes |-> k.writes]
  /\ d[n].outputs \subseteq Written(d, n) \ {Embed}
  /\ \A t \in Written(d, n) : Producer(kinds, start, t) = n
  /\ \A i, j \in DOMAIN d[n].kernels :
       /\ d[n].kernels[i].writes # {}
       /\ d[n].kernels[i].writes = d[n].kernels[j].writes => i = j

\* A placeholder writes and registers nothing.
LEMMA PlaceholderIsLocal ==
  ASSUME NEW d, NEW n \in Nat, NEW kinds, NEW start, NEW D, Below(D, n), d[n] = NoOp(D)
  PROVE  Local(d, n, kinds, start)
<1>0. D \subseteq 1..(n - 1)
  BY BelowIs
<1>1. /\ d[n].kernels = <<>> /\ d[n].outputs = {} /\ d[n].dependencies = D
      /\ Len(<<>>) = 0 /\ DOMAIN <<>> = {}
  BY DEF NoOp
<1>2. Written(d, n) = {}
  BY <1>1 DEF Written
<1>. QED  BY <1>0, <1>1, <1>2 DEF Local, Range

\* A node with one kernel, for a buffer that it produces.
LEMMA KernelIsLocal ==
  ASSUME NEW d, NEW n \in Nat, NEW kinds, NEW start, NEW R,
         NEW o, o # Embed, Producer(kinds, start, o) = n,
         d[n].dependencies \subseteq 1..(n - 1), d[n].outputs \subseteq {o},
         d[n].kernels = <<[reads |-> R, writes |-> {o}]>>
  PROVE  Local(d, n, kinds, start)
<1>. DEFINE k == [reads |-> R, writes |-> {o}]
<1>1. Len(<<k>>) = 1 /\ DOMAIN <<k>> = {1} /\ <<k>>[1] = k /\ k.writes = {o} /\ 1..1 = {1}
  OBVIOUS
<1>2. k = [reads |-> k.reads, writes |-> k.writes]
  OBVIOUS
<1>. HIDE DEF k
<1>3. Written(d, n) = {o}
  BY <1>1 DEF Written, k
<1>4. Range(d[n].kernels) = {k}
  BY <1>1 DEF Range, k
<1>5. Len(d[n].kernels) = 1 /\ DOMAIN d[n].kernels = {1} /\ d[n].kernels[1].writes = {o}
  BY <1>1 DEF k
<1>6. \A i, j \in DOMAIN d[n].kernels :
        /\ d[n].kernels[i].writes # {}
        /\ d[n].kernels[i].writes = d[n].kernels[j].writes => i = j
  BY <1>5
<1>7. Len(d[n].kernels) \in 0..2 /\ DOMAIN d[n].kernels = 1..Len(d[n].kernels)
  BY <1>1, <1>5
<1>8. /\ d[n].outputs \subseteq Written(d, n) \ {Embed}
      /\ \A t \in Written(d, n) : Producer(kinds, start, t) = n
  BY <1>3
<1>9. \A x \in Range(d[n].kernels) : x = [reads |-> x.reads, writes |-> x.writes]
  BY <1>2, <1>4
<1>. QED  BY <1>6, <1>7, <1>8, <1>9 DEF Local

\* The kinds of nodes with one kernel, and the merged projection with two.
LEMMA ComputeIsLocal ==
  ASSUME NEW d, NEW n \in Nat, NEW kinds, NEW start, NEW I, NEW W,
         NEW o, NEW D, o # Embed, Producer(kinds, start, o) = n,
         Below(D, n), d[n] = Compute(I, W, o, D)
  PROVE  Local(d, n, kinds, start)
<1>0. D \subseteq 1..(n - 1)
  BY BelowIs
<1>1. /\ d[n].dependencies = D /\ d[n].outputs = {o}
      /\ d[n].kernels = <<[reads |-> I, writes |-> {o}]>>
  <2>. DEFINE c == [reads |-> I, writes |-> {o}]
  <2>1. d[n] = [needs |-> I, weights |-> W, outputs |-> {o}, dependencies |-> D, kernels |-> <<c>>]
    BY DEF Compute
  <2>. HIDE DEF c
  <2>2. d[n].dependencies = D /\ d[n].outputs = {o} /\ d[n].kernels = <<c>>
    BY <2>1
  <2>. QED  BY <2>2 DEF c
<1>. QED  BY <1>0, <1>1, KernelIsLocal

LEMMA UpdateIsLocal ==
  ASSUME NEW d, NEW n \in Nat, NEW kinds, NEW start, NEW i,
         NEW o, NEW D, o # Embed, Producer(kinds, start, o) = n,
         Below(D, n), d[n] = KVCacheUpdate(i, o, D)
  PROVE  Local(d, n, kinds, start)
<1>0. D \subseteq 1..(n - 1)
  BY BelowIs
<1>1. /\ d[n].dependencies = D /\ d[n].outputs = {}
      /\ d[n].kernels = <<[reads |-> {i}, writes |-> {o}]>>
  BY DEF KVCacheUpdate
<1>2. d[n].outputs \subseteq {o}
  BY <1>1
<1>. QED  BY <1>0, <1>1, <1>2, KernelIsLocal

LEMMA AttentionIsLocal ==
  ASSUME NEW d, NEW n \in Nat, NEW kinds, NEW start, NEW l \in Nat \ {0}, NEW q, NEW k, NEW v,
         Producer(kinds, start, <<l, "attn">>) = n, Below({q, k, v}, n),
         d[n] = FlashAttention(l, q, k, v)
  PROVE  Local(d, n, kinds, start)
<1>0. {q, k, v} \subseteq 1..(n - 1)
  BY BelowIs
<1>1. /\ d[n].dependencies = {q, k, v} /\ d[n].outputs = {<<l, "attn">>}
      /\ d[n].kernels = <<[reads |-> {<<l, "q_rope">>, <<l, "K">>, <<l, "V">>},
                           writes |-> {<<l, "attn">>}]>>
  <2>. DEFINE c == [reads |-> {<<l, "q_rope">>, <<l, "K">>, <<l, "V">>},
                    writes |-> {<<l, "attn">>}]
              o == {<<l, "attn">>}
              p == {q, k, v}
              i == {<<l, "q_rope">>}
  <2>1. d[n] = [needs |-> i, weights |-> {}, outputs |-> o, dependencies |-> p, kernels |-> <<c>>]
    BY DEF FlashAttention
  <2>. HIDE DEF c, o, p, i
  <2>2. d[n].dependencies = p /\ d[n].outputs = o /\ d[n].kernels = <<c>>
    BY <2>1
  <2>. QED  BY <2>2 DEF c, o, p
<1>2. <<l, "attn">> # Embed
  BY DEF Embed
<1>. QED  BY <1>0, <1>1, <1>2, KernelIsLocal

LEMMA FusedIsLocal ==
  ASSUME NEW d, NEW n \in Nat, NEW kinds, NEW start, NEW l \in Nat \ {0}, NEW D, Below(D, n),
         Producer(kinds, start, <<l, "qkv">>) = n, Producer(kinds, start, <<l, "q">>) = n,
         Producer(kinds, start, <<l, "k">>) = n, Producer(kinds, start, <<l, "v">>) = n,
         d[n] = FusedQKVWeight(l, D)
  PROVE  Local(d, n, kinds, start)
<1>0. D \subseteq 1..(n - 1)
  BY BelowIs
<1>. DEFINE out == {<<l, "q">>, <<l, "k">>, <<l, "v">>}
            k1 == [reads |-> {<<l, "normed">>}, writes |-> {<<l, "qkv">>}]
            k2 == [reads |-> {<<l, "qkv">>}, writes |-> out]
<1>1. d[n].dependencies = D /\ d[n].outputs = out /\ d[n].kernels = <<k1, k2>>
  <2>. DEFINE i == {<<l, "normed">>}
  <2>1. d[n] = [needs |-> i, weights |-> {}, outputs |-> out, dependencies |-> D,
                kernels |-> <<k1, k2>>]
    BY DEF FusedQKVWeight
  <2>. HIDE DEF k1, k2, out, i
  <2>. QED  BY <2>1
<1>2. /\ Len(<<k1, k2>>) = 2 /\ DOMAIN <<k1, k2>> = {1, 2} /\ 1..2 = {1, 2}
      /\ <<k1, k2>>[1] = k1 /\ <<k1, k2>>[2] = k2
  OBVIOUS
<1>3. /\ k1 = [reads |-> k1.reads, writes |-> k1.writes] /\ k1.writes = {<<l, "qkv">>}
      /\ k2 = [reads |-> k2.reads, writes |-> k2.writes] /\ k2.writes = out
  OBVIOUS
<1>4. <<l, "qkv">> \notin out /\ Embed \notin out
  BY DEF Embed
<1>. HIDE DEF k1, k2
<1>5. /\ Len(d[n].kernels) = 2 /\ DOMAIN d[n].kernels = {1, 2}
      /\ d[n].kernels[1] = k1 /\ d[n].kernels[2] = k2
  BY <1>1, <1>2
<1>6. Range(d[n].kernels) = {k1, k2}
  BY <1>5 DEF Range
<1>7. Written(d, n) = {<<l, "qkv">>} \cup out
  BY <1>3, <1>5 DEF Written
<1>8. \A t \in Written(d, n) : Producer(kinds, start, t) = n
  BY <1>7
<1>9. \A i, j \in {1, 2} :
        /\ d[n].kernels[i].writes # {}
        /\ d[n].kernels[i].writes = d[n].kernels[j].writes => i = j
  BY <1>3, <1>4, <1>5
<1>. HIDE DEF out
<1>10. \A k \in Range(d[n].kernels) : k = [reads |-> k.reads, writes |-> k.writes]
  BY <1>3, <1>6
<1>. QED  BY <1>0, <1>1, <1>2, <1>4, <1>5, <1>7, <1>8, <1>9, <1>10 DEF Local

\* A layer of the row, with the places of its first node and its rotations.
LEMMA TheLayer ==
  ASSUME NEW kinds \in Seq(LayerKind), NEW d, NEW start, Layout(d, kinds, start),
         NEW l \in 1..Len(kinds)
  PROVE  \E a \in Nat :
           /\ kinds[l] \in LayerKind /\ l \in Nat \ {0} /\ start[l] \in Nat \ {0, 1}
           /\ LayerIs(d, kinds[l], l, start[l], a)
           /\ start[l + 1] = a + 14 /\ start[l + 1] <= start[Len(kinds) + 1]
           /\ a = start[l] + (IF kinds[l] = "fused" THEN 2 ELSE 4)
           /\ start[l]..(a + 14) \subseteq DOMAIN d
<1>. PICK b : b = start[l]
  OBVIOUS
<1>. PICK w : w = Width(kinds[l])
  OBVIOUS
<1>1. /\ kinds[l] \in LayerKind /\ l \in 1..(Len(kinds) + 1) /\ l \in Nat \ {0}
      /\ w = IF kinds[l] = "fused" THEN 1 ELSE 3
  BY LenProperties DEF Width
<1>2. /\ b \in Nat \ {0, 1} /\ start[l + 1] = b + w + 15 /\ start[l + 1] <= start[Len(kinds) + 1]
      /\ LayerAt(d, kinds[l], l, b)
  BY <1>1 DEF Layout
<1>3. LayerIs(d, kinds[l], l, b, b + w + 1)
  BY <1>1, <1>2, LayerNodes
<1>. PICK a \in Nat : a = b + w + 1
  BY <1>1, <1>2
<1>4. b..(a + 14) \subseteq DOMAIN d
  <2>. PICK last : last = start[Len(kinds) + 1]
    OBVIOUS
  <2>1. Len(kinds) + 1 \in 1..(Len(kinds) + 1)
    BY LenProperties
  <2>2. last \in Nat /\ DOMAIN d = 1..(last + 1)
    BY <2>1 DEF Layout
  <2>3. b \in Nat \ {0, 1} /\ a + 14 <= last
    BY <1>1, <1>2
  <2>. QED  BY <2>2, <2>3
<1>. QED  BY <1>1, <1>2, <1>3, <1>4, SMTT(20)

\* The nodes of a layer are those that LayerIs names.
OneOf(b, kind, a, n) ==
  \/ n = b
  \/ n = b + 1 /\ kind = "fused"
  \/ (n = b + 1 \/ n = b + 2 \/ n = b + 3) /\ kind # "fused"
  \/ n = a \/ n = a + 1 \/ n = a + 2 \/ n = a + 3 \/ n = a + 4 \/ n = a + 5 \/ n = a + 6
  \/ n = a + 7 \/ n = a + 8 \/ n = a + 9 \/ n = a + 10 \/ n = a + 11 \/ n = a + 12
  \/ n = a + 13

\* There are no others.
LEMMA OneOfTheLayer ==
  ASSUME NEW b \in Nat, NEW kind, NEW a \in Nat, a = b + (IF kind = "fused" THEN 2 ELSE 4),
         NEW n \in Nat, b <= n, n < a + 14
  PROVE  OneOf(b, kind, a, n)
<1>. USE DEF OneOf
<1>1. CASE n < a
  <2>1. CASE kind = "fused"
    BY <1>1, <2>1
  <2>2. CASE kind # "fused"
    <3>1. n \in b..(b + 3)
      BY <1>1, <2>2
    <3>2. n = b \/ n = b + 1 \/ n = b + 2 \/ n = b + 3
      BY <3>1
    <3>. QED  BY <2>2, <3>2
  <2>. QED  BY <2>1, <2>2
<1>2. CASE ~(n < a)
  <2>. PICK i : i = n - a
    OBVIOUS
  <2>1. i \in Nat /\ i < 14 /\ n = a + i
    BY <1>2
  <2>2. i \in {0, 1, 2, 3, 4, 5, 6, 7, 8, 9, 10, 11, 12, 13}
    BY <2>1
  <2>. QED  BY <2>1, <2>2
<1>. QED  BY <1>1, <1>2

\* Every node of a layer is local, whatever the kind of the layer.
LEMMA LayersAreLocal ==
  ASSUME NEW kinds \in Seq(LayerKind), NEW d, NEW start, Layout(d, kinds, start),
         NEW l \in 1..Len(kinds), NEW n \in Nat, start[l] <= n, n < start[l + 1]
  PROVE  Local(d, n, kinds, start)
<1>. PICK b : b = start[l]
  OBVIOUS
<1>. DEFINE T(name) == <<l, name>>
            P(name) == Producer(kinds, start, T(name))
<1>1. PICK a \in Nat :
           /\ kinds[l] \in LayerKind /\ l \in Nat \ {0} /\ b \in Nat \ {0, 1}
           /\ LayerIs(d, kinds[l], l, b, a) /\ start[l + 1] = a + 14
           /\ a = b + (IF kinds[l] = "fused" THEN 2 ELSE 4)
  BY TheLayer
<1>2. Produces(kinds, start, l, b, a)
  BY <1>1, Producers
<1>3. \A name : T(name) # Embed
  BY <1>1 DEF Embed
<1>4. /\ P("normed") = b /\ P("q") = b + 1 /\ P("qkv") = b + 1
      /\ P("k") = IF kinds[l] = "fused" THEN b + 1 ELSE b + 2
      /\ P("v") = IF kinds[l] = "fused" THEN b + 1 ELSE b + 3
      /\ P("q_rope") = a /\ P("k_rope") = a + 1 /\ P("K") = a + 2 /\ P("V") = a + 3
      /\ P("attn") = a + 4 /\ P("wo_out") = a + 5 /\ P("residual") = a + 6
      /\ P("ffn_normed") = a + 7 /\ P("gate") = a + 8 /\ P("up") = a + 9
      /\ P("silu") = a + 10 /\ P("ffn_hidden") = a + 11 /\ P("ffn_out") = a + 12
      /\ P("output") = a + 13
  BY <1>2, Zenon DEF Produces
<1>20. b \in Nat /\ b > 1 /\ a \in Nat /\ b + 1 < a /\ (kinds[l] # "fused" => b + 3 < a)
  <2>1. CASE kinds[l] = "fused"
    BY <1>1, <2>1, SMTT(20)
  <2>2. CASE kinds[l] # "fused"
    BY <1>1, <2>2, SMTT(20)
  <2>. QED  BY <2>1, <2>2
<1>. HIDE DEF T
<1>21. ASSUME NEW m \in Nat, NEW I, NEW W, NEW name, NEW D, Producer(kinds, start, T(name)) = m,
             Below(D, m), d[m] = Compute(I, W, T(name), D)
      PROVE  Local(d, m, kinds, start)
  BY <1>3, <1>21, ComputeIsLocal
<1>5. CASE n = b
  <2>1. d[b] = Compute({Input(l)}, {T("attention_norm")}, T("normed"), {b - 1})
    BY <1>1 DEF LayerIs, T
  <2>9. Below({b - 1}, b)
    BY <1>20 DEF Below
  <2>2. Producer(kinds, start, T("normed")) = b
    BY <1>4
  <2>3. Local(d, b, kinds, start)
    BY <1>20, <1>21, <2>1, <2>2, <2>9
  <2>. QED  BY <1>5, <2>3
<1>6. CASE n = b + 1 /\ kinds[l] = "fused"
  <2>9. Below({b}, n)
    BY <1>6, <1>20 DEF Below
  <2>1. /\ d[n] = FusedQKVWeight(l, {b})
        /\ P("qkv") = n /\ P("q") = n /\ P("k") = n /\ P("v") = n
    BY <1>1, <1>4, <1>6 DEF LayerIs
  <2>. QED  BY <1>1, <2>1, <2>9, FusedIsLocal DEF T
<1>7. CASE kinds[l] = "separate" /\ (n = b + 1 \/ n = b + 2 \/ n = b + 3)
  <2>1. /\ d[b + 1] = Compute({T("normed")}, {}, T("q"), {b})
        /\ d[b + 2] = Compute({T("normed")}, {}, T("k"), {b})
        /\ d[b + 3] = Compute({T("normed")}, {}, T("v"), {b})
        /\ P("q") = b + 1 /\ P("k") = b + 2 /\ P("v") = b + 3
    BY <1>1, <1>4, <1>7 DEF LayerIs, T
  <2>2. Below({b}, n)
    BY <1>20, <1>7 DEF Below
  <2>3. CASE n = b + 1
    BY <1>21, <2>1, <2>2, <2>3
  <2>4. CASE n = b + 2
    BY <1>21, <2>1, <2>2, <2>4
  <2>5. CASE n = b + 3
    BY <1>21, <2>1, <2>2, <2>5
  <2>. QED  BY <1>7, <2>3, <2>4, <2>5
<1>8. CASE kinds[l] = "mla" /\ (n = b + 1 \/ n = b + 2 \/ n = b + 3)
  <2>1. d[n] = NoOp({b})
    BY <1>1, <1>8 DEF LayerIs
  <2>2. Below({b}, n)
    BY <1>20, <1>8 DEF Below
  <2>. QED  BY <2>1, <2>2, PlaceholderIsLocal
<1>9. CASE n = a
  <2>1. d[a] = Compute({T("q")}, {}, T("q_rope"), {b + 1})
    BY <1>1 DEF LayerIs, T
  <2>9. Below({b + 1}, a)
    BY <1>9, <1>20 DEF Below
  <2>. QED  BY <1>4, <1>21, <1>9, <2>1, <2>9
<1>10. CASE n = a + 1
  <2>. PICK k : k = IF kinds[l] = "fused" THEN b + 1 ELSE b + 2
    OBVIOUS
  <2>1. d[a + 1] = Compute({T("k")}, {}, T("k_rope"), {k})
    BY <1>1 DEF LayerIs, T
  <2>9. Below({k}, a + 1)
    BY <1>10, <1>20 DEF Below
  <2>. QED  BY <1>4, <1>21, <1>10, <2>1, <2>9
<1>11. CASE n = a + 2
  <2>1. d[n] = KVCacheUpdate(T("k_rope"), T("K"), {a + 1})
    BY <1>1, <1>11 DEF LayerIs, T
  <2>9. Below({a + 1}, n)
    BY <1>11, <1>20 DEF Below
  <2>. QED  BY <1>3, <1>4, <1>11, <2>1, <2>9, UpdateIsLocal
<1>12. CASE n = a + 3
  <2>. PICK v : v = IF kinds[l] = "fused" THEN b + 1 ELSE b + 3
    OBVIOUS
  <2>1. d[n] = KVCacheUpdate(T("v"), T("V"), {v})
    BY <1>1, <1>12 DEF LayerIs, T
  <2>9. Below({v}, n)
    BY <1>12, <1>20 DEF Below
  <2>2. Producer(kinds, start, T("v")) = v /\ Producer(kinds, start, T("V")) = n
    BY <1>4, <1>12
  <2>. QED  BY <1>3, <1>12, <2>1, <2>2, <2>9, UpdateIsLocal
<1>13. CASE n = a + 4
  <2>1. d[n] = FlashAttention(l, a, a + 2, a + 3)
    BY <1>1, <1>13 DEF LayerIs
  <2>9. Below({a, a + 2, a + 3}, n)
    BY <1>13, <1>20 DEF Below
  <2>2. Producer(kinds, start, <<l, "attn">>) = n
    BY <1>4, <1>13 DEF T
  <2>. QED  BY <1>1, <2>1, <2>9, <2>2, AttentionIsLocal
<1>14. CASE n = a + 5 \/ n = a + 6 \/ n = a + 7 \/ n = a + 8 \/ n = a + 9
  <2>1. /\ d[a + 5] = Compute({T("attn")}, {T("wo")}, T("wo_out"), {a + 4})
        /\ d[a + 6] = Compute({Input(l), T("wo_out")}, {}, T("residual"), {a + 5})
        /\ d[a + 7] = Compute({T("residual")}, {T("ffn_norm")}, T("ffn_normed"), {a + 6})
        /\ d[a + 8] = Compute({T("ffn_normed")}, {T("w1")}, T("gate"), {a + 7})
        /\ d[a + 9] = Compute({T("ffn_normed")}, {T("w3")}, T("up"), {a + 7})
    BY <1>1, Zenon DEF LayerIs, T
  <2>2. CASE n = a + 5
    <3>1. Below({a + 4}, n)
      BY <1>20, <2>2 DEF Below
    <3>. QED  BY <1>4, <1>21, <2>1, <2>2, <3>1
  <2>3. CASE n = a + 6
    <3>1. Below({a + 5}, n)
      BY <1>20, <2>3 DEF Below
    <3>. QED  BY <1>4, <1>21, <2>1, <2>3, <3>1
  <2>4. CASE n = a + 7
    <3>1. Below({a + 6}, n)
      BY <1>20, <2>4 DEF Below
    <3>. QED  BY <1>4, <1>21, <2>1, <2>4, <3>1
  <2>5. CASE n = a + 8
    <3>1. Below({a + 7}, n)
      BY <1>20, <2>5 DEF Below
    <3>. QED  BY <1>4, <1>21, <2>1, <2>5, <3>1
  <2>6. CASE n = a + 9
    <3>1. Below({a + 7}, n)
      BY <1>20, <2>6 DEF Below
    <3>. QED  BY <1>4, <1>21, <2>1, <2>6, <3>1
  <2>. QED  BY <1>14, <2>2, <2>3, <2>4, <2>5, <2>6
<1>15. CASE n = a + 10 \/ n = a + 11 \/ n = a + 12 \/ n = a + 13
  <2>1. /\ d[a + 10] = Compute({T("up")}, {}, T("silu"), {a + 9})
        /\ d[a + 11] = Compute({T("gate"), T("silu")}, {}, T("ffn_hidden"), {a + 8, a + 10})
        /\ d[a + 12] = Compute({T("ffn_hidden")}, {T("w2")}, T("ffn_out"), {a + 11})
        /\ d[a + 13] = Compute({T("residual"), T("ffn_out")}, {}, T("output"), {a + 6, a + 12})
    BY <1>1, Zenon DEF LayerIs, T
  <2>2. CASE n = a + 10
    <3>1. Below({a + 9}, n)
      BY <1>20, <2>2 DEF Below
    <3>. QED  BY <1>4, <1>21, <2>1, <2>2, <3>1
  <2>3. CASE n = a + 11
    <3>1. Below({a + 8, a + 10}, n)
      BY <1>20, <2>3 DEF Below
    <3>. QED  BY <1>4, <1>21, <2>1, <2>3, <3>1
  <2>4. CASE n = a + 12
    <3>1. Below({a + 11}, n)
      BY <1>20, <2>4 DEF Below
    <3>. QED  BY <1>4, <1>21, <2>1, <2>4, <3>1
  <2>5. CASE n = a + 13
    <3>1. Below({a + 6, a + 12}, n)
      BY <1>20, <2>5 DEF Below
    <3>. QED  BY <1>4, <1>21, <2>1, <2>5, <3>1
  <2>. QED  BY <1>15, <2>2, <2>3, <2>4, <2>5
<1>16. b <= n /\ n < a + 14 /\ a = b + (IF kinds[l] = "fused" THEN 2 ELSE 4) /\ b \in Nat
  BY <1>1
<1>17. OneOf(b, kinds[l], a, n)
  BY <1>16, OneOfTheLayer
<1>18. kinds[l] \in {"fused", "separate", "mla"}
  BY <1>1 DEF LayerKind
<1>. QED  BY <1>5, <1>6, <1>7, <1>8, <1>9, <1>10, <1>11, <1>12, <1>13, <1>14, <1>15, <1>17,
             <1>18 DEF OneOf

\* Every node of the DAG is: that of the embedding, of a layer, or of the output.
LEMMA NodesAreLocal ==
  ASSUME NEW kinds \in Seq(LayerKind), NEW d, NEW start, Layout(d, kinds, start),
         NEW n \in DOMAIN d
  PROVE  Local(d, n, kinds, start)
<1>. PICK last : last = start[Len(kinds) + 1]
  OBVIOUS
<1>1. /\ Len(kinds) + 1 \in 1..(Len(kinds) + 1)
      /\ last \in Nat /\ last > 1
  <2>1. Len(kinds) + 1 \in 1..(Len(kinds) + 1)
    BY LenProperties
  <2>2. last \in Nat \ {0, 1}
    BY <2>1 DEF Layout
  <2>. QED  BY <2>1, <2>2
<1>2. n \in 1..(last + 1)
  BY DEF Layout
<1>3. CASE n = 1
  <2>1. d[n] = NoOp({})
    BY <1>3 DEF Layout
  <2>. QED  BY <1>3, <2>1, PlaceholderIsLocal DEF Below
<1>4. CASE n = last
  <2>1. d[n] = Compute({Input(Len(kinds) + 1)}, {<<0, "norm">>}, <<0, "normed">>, {last - 1})
    BY <1>4 DEF Layout
  <2>2. Below({last - 1}, n)
    BY <1>1, <1>4 DEF Below
  <2>3. <<0, "normed">> # Embed /\ Producer(kinds, start, <<0, "normed">>) = n
    BY <1>4 DEF Embed, Producer
  <2>. QED  BY <1>2, <2>1, <2>2, <2>3, ComputeIsLocal
<1>5. CASE n = last + 1
  <2>1. d[n] = Compute({<<0, "normed">>}, {<<0, "output">>}, Logits, {last})
    BY <1>5 DEF Layout
  <2>2. Below({last}, n)
    BY <1>1, <1>5 DEF Below
  <2>3. Logits # Embed /\ Producer(kinds, start, Logits) = n
    BY <1>5 DEF Embed, Producer, Logits
  <2>. QED  BY <1>2, <2>1, <2>2, <2>3, ComputeIsLocal
<1>6. CASE n # 1 /\ n # last /\ n # last + 1
  <2>1. n \in 2..(last - 1)
    BY <1>1, <1>2, <1>6
  <2>2. PICK l \in 1..Len(kinds) : start[l] <= n /\ n < start[l + 1]
    BY <2>1 DEF Layout
  <2>. QED  BY <1>2, <2>2, LayersAreLocal
<1>. QED  BY <1>3, <1>4, <1>5, <1>6

\* Every tensor has one producer, and every buffer one kernel that writes it.
LEMMA BuilderHasOneWriter ==
  ASSUME NEW kinds \in Seq(LayerKind), NEW d, NEW start, Layout(d, kinds, start)
  PROVE  IsDag(d) /\ HasOneWriter(d)
<1>1. \A n \in DOMAIN d : Local(d, n, kinds, start)
  BY NodesAreLocal
<1>. PICK last : last = start[Len(kinds) + 1]
  OBVIOUS
<1>2. last \in Nat /\ DOMAIN d = 1..(last + 1) /\ Len(d) = last + 1
  <2>1. Len(kinds) + 1 \in 1..(Len(kinds) + 1)
    BY LenProperties
  <2>. QED  BY <2>1 DEF Layout
<1>3. IsDag(d)
  BY <1>1, <1>2 DEF IsDag, Local
<1>4. ASSUME NEW m \in DOMAIN d, NEW n \in DOMAIN d, d[m].outputs \cap d[n].outputs # {}
      PROVE  m = n
  <2>. PICK t : t \in d[m].outputs /\ t \in d[n].outputs
    BY <1>4
  <2>1. t \in Written(d, m) /\ t \in Written(d, n)
    BY <1>1 DEF Local
  <2>. QED  BY <1>1, <2>1 DEF Local
<1>5. ASSUME NEW m \in DOMAIN d, NEW n \in DOMAIN d,
             NEW i \in DOMAIN d[m].kernels, NEW j \in DOMAIN d[n].kernels,
             d[m].kernels[i].writes = d[n].kernels[j].writes
      PROVE  m = n /\ i = j
  <2>1. d[m].kernels[i].writes # {}
    BY <1>1 DEF Local
  <2>. PICK t : t \in d[m].kernels[i].writes
    BY <2>1
  <2>2. t \in Written(d, m) /\ t \in Written(d, n)
    BY <1>5 DEF Written
  <2>3. m = n
    BY <1>1, <2>2 DEF Local
  <2>. QED  BY <1>1, <1>5, <2>3 DEF Local
<1>6. Len(d) > 0 /\ d[Len(d)].outputs # {}
  <2>1. d[last + 1] = Compute({<<0, "normed">>}, {<<0, "output">>}, Logits, {last})
    BY DEF Layout
  <2>. QED  BY <1>2, <2>1 DEF Compute
<1>7. \A n \in DOMAIN d :
        /\ Len(d[n].kernels) \in 0..2 /\ DOMAIN d[n].kernels = 1..Len(d[n].kernels)
        /\ \A k \in Range(d[n].kernels) : k = [reads |-> k.reads, writes |-> k.writes]
        /\ d[n].outputs \subseteq Written(d, n) \ {Embed}
  BY <1>1 DEF Local
<1>. QED  BY <1>3, <1>4, <1>5, <1>6, <1>7 DEF HasOneWriter

-----------------------------------------------------------------------------
\* What the nodes look up, register and encode.
Fields(c, needs, weights, outputs, deps) ==
  c.needs = needs /\ c.weights = weights /\ c.outputs = outputs /\ c.dependencies = deps

\* The node encodes one kernel.
Encodes(c, reads, writes) == c.kernels = <<[reads |-> reads, writes |-> writes]>>

\* The fields of each kind of node.
LEMMA ComputeFields ==
  \A c, I, W, o, D : c = Compute(I, W, o, D) =>
    Fields(c, I, W, {o}, D) /\ Encodes(c, I, {o})
<1>. SUFFICES ASSUME NEW c, NEW I, NEW W, NEW o, NEW D, c = Compute(I, W, o, D)
              PROVE  Fields(c, I, W, {o}, D) /\ Encodes(c, I, {o})
  OBVIOUS
<1>. PICK k : k = [reads |-> I, writes |-> {o}]
  OBVIOUS
<1>1. c = [needs |-> I, weights |-> W, outputs |-> {o}, dependencies |-> D, kernels |-> <<k>>]
  BY DEF Compute
<1>. QED  BY <1>1 DEF Fields, Encodes

LEMMA SplitFields ==
  \A c, l, D : c = FusedQKVWeight(l, D) =>
    /\ Fields(c, {<<l, "normed">>}, {}, {<<l, "q">>, <<l, "k">>, <<l, "v">>}, D)
    /\ c.kernels = <<[reads |-> {<<l, "normed">>}, writes |-> {<<l, "qkv">>}],
                     [reads |-> {<<l, "qkv">>}, writes |-> {<<l, "q">>, <<l, "k">>, <<l, "v">>}]>>
<1>. SUFFICES ASSUME NEW c, NEW l, NEW D, c = FusedQKVWeight(l, D)
     PROVE  LET out == {<<l, "q">>, <<l, "k">>, <<l, "v">>} IN
            /\ Fields(c, {<<l, "normed">>}, {}, out, D)
            /\ c.kernels = <<[reads |-> {<<l, "normed">>}, writes |-> {<<l, "qkv">>}],
                             [reads |-> {<<l, "qkv">>}, writes |-> out]>>
  OBVIOUS
<1>. DEFINE out == {<<l, "q">>, <<l, "k">>, <<l, "v">>}
            in == {<<l, "normed">>}
            k == <<[reads |-> in, writes |-> {<<l, "qkv">>}],
                   [reads |-> {<<l, "qkv">>}, writes |-> out]>>
<1>1. c = [needs |-> in, weights |-> {}, outputs |-> out, dependencies |-> D, kernels |-> k]
  BY DEF FusedQKVWeight
<1>. HIDE DEF k, in, out
<1>2. Fields(c, in, {}, out, D) /\ c.kernels = k
  BY <1>1 DEF Fields
<1>. QED  BY <1>2 DEF k, in, out

LEMMA UpdateFields ==
  \A c, i, o, D : c = KVCacheUpdate(i, o, D) =>
    Fields(c, {i}, {}, {}, D) /\ Encodes(c, {i}, {o})
<1>. SUFFICES ASSUME NEW c, NEW i, NEW o, NEW D, c = KVCacheUpdate(i, o, D)
              PROVE  Fields(c, {i}, {}, {}, D) /\ Encodes(c, {i}, {o})
  OBVIOUS
<1>. PICK k : k = [reads |-> {i}, writes |-> {o}]
  OBVIOUS
<1>1. c = [needs |-> {i}, weights |-> {}, outputs |-> {}, dependencies |-> D, kernels |-> <<k>>]
  BY DEF KVCacheUpdate
<1>. QED  BY <1>1, SMTT(20) DEF Fields, Encodes

LEMMA AttentionFields ==
  \A c, l, q, k, v : c = FlashAttention(l, q, k, v) =>
    /\ Fields(c, {<<l, "q_rope">>}, {}, {<<l, "attn">>}, {q, k, v})
    /\ Encodes(c, {<<l, "q_rope">>, <<l, "K">>, <<l, "V">>}, {<<l, "attn">>})
<1>. SUFFICES ASSUME NEW c, NEW l, NEW q, NEW k, NEW v, c = FlashAttention(l, q, k, v)
     PROVE  /\ Fields(c, {<<l, "q_rope">>}, {}, {<<l, "attn">>}, {q, k, v})
            /\ Encodes(c, {<<l, "q_rope">>, <<l, "K">>, <<l, "V">>}, {<<l, "attn">>})
  OBVIOUS
<1>. DEFINE i == {<<l, "q_rope">>}
            o == {<<l, "attn">>}
            D == {q, k, v}
            R == {<<l, "q_rope">>, <<l, "K">>, <<l, "V">>}
            x == [reads |-> R, writes |-> o]
<1>1. c = [needs |-> i, weights |-> {}, outputs |-> o, dependencies |-> D, kernels |-> <<x>>]
  BY DEF FlashAttention
<1>. HIDE DEF x, i, o, D, R
<1>2. Fields(c, i, {}, o, D) /\ c.kernels = <<x>>
  BY <1>1 DEF Fields
<1>. QED  BY <1>2, Zenon DEF x, i, o, D, R, Encodes

\* Node m looks up one tensor t, and p before it registers t.
Linked(d, m, p, t) ==
  /\ m \in DOMAIN d /\ p \in DOMAIN d /\ d[m].weights = {} /\ d[m].needs = {t}
  /\ p \in d[m].dependencies /\ t \in d[p].outputs

\* What a set of nodes uses, and what surely comes after it, one link further.
LEMMA LinkIsUse ==
  ASSUME NEW d, NEW m, NEW p, NEW t, Linked(d, m, p, t), NEW S, m \in S
  PROVE  p \in UsedBy(d, S)
BY DEF Linked, UsedBy, Uses

LEMMA LinkIsFollowed ==
  ASSUME NEW d, NEW m, NEW p, NEW t, Linked(d, m, p, t), NEW S, p \in S
  PROVE  m \in Following(d, S)
BY DEF Linked, Following, Direct

\* Neither leaves anything out.
LEMMA SetsGrow ==
  ASSUME NEW d, NEW S
  PROVE  S \subseteq UsedBy(d, S) /\ S \subseteq Following(d, S)
BY DEF UsedBy, Following

\* A layer without projections never gets past its queries.
LEMMA NoQuery ==
  ASSUME NEW kinds \in Seq(LayerKind), NEW d, NEW start, Layout(d, kinds, start),
         NEW l \in 1..Len(kinds), kinds[l] = "mla", NEW a \in Nat, a = start[l] + 4
  PROVE  Hopeless(d, a)
<1>. PICK b : b = start[l]
  OBVIOUS
<1>1. /\ l \in Nat \ {0} /\ b \in Nat \ {0, 1}
      /\ LayerIs(d, kinds[l], l, b, a)
  BY TheLayer, SMTT(20)
<1>2. d[a] = Compute({<<l, "q">>}, {}, <<l, "q_rope">>, {b + 1}) /\ d[b + 1] = NoOp({b})
  BY <1>1 DEF LayerIs
<1>3. d[a].needs = {<<l, "q">>} /\ <<l, "q">> # Embed /\ d[b + 1].outputs = {}
  <2>1. Fields(d[a], {<<l, "q">>}, {}, {<<l, "q_rope">>}, {b + 1})
    BY <1>2, ComputeFields
  <2>2. <<l, "q">> # Embed
    BY <1>1 DEF Embed
  <2>3. d[b + 1].outputs = {}
    BY <1>2 DEF NoOp
  <2>. QED  BY <2>1, <2>2, <2>3 DEF Fields
<1>4. Produces(kinds, start, l, b, a)
  BY <1>1, Producers
<1>5. Producer(kinds, start, <<l, "q">>) = b + 1
  BY <1>4 DEF Produces
<1>6. ASSUME NEW m \in DOMAIN d, <<l, "q">> \in d[m].outputs PROVE FALSE
  <2>1. Local(d, m, kinds, start)
    BY NodesAreLocal
  <2>2. m = b + 1
    BY <1>5, <1>6, <2>1 DEF Local
  <2>. QED  BY <1>3, <1>6, <2>2
<1>. QED  BY <1>3, <1>6 DEF Hopeless

\* If attention finds its query, the cache was updated.
LEMMA CacheIsUpdated ==
  ASSUME NEW d, NEW kind \in LayerKind, NEW l \in Nat \ {0}, NEW b \in Nat, NEW a \in Nat,
         LayerIs(d, kind, l, b, a), b..(a + 14) \subseteq DOMAIN d, kind = "mla" => Hopeless(d, a)
  PROVE  Implies(d, a + 4, a + 2) /\ Implies(d, a + 4, a + 3)
<1>. DEFINE T(name) == <<l, name>>
            u1 == UsedBy(d, {a + 4})
            u2 == UsedBy(d, u1)
            u3 == UsedBy(d, u2)
            f1 == Following(d, u3)
            f2 == Following(d, f1)
            f3 == Following(d, f2)
<1>1. a + 4 \in {a + 4} /\ u1 \subseteq u2 /\ u2 \subseteq u3 /\ f1 \subseteq f2 /\ f2 \subseteq f3
  BY SetsGrow
<1>2. Linked(d, a + 4, a, T("q_rope"))
  <2>1. /\ d[a + 4] = FlashAttention(l, a, a + 2, a + 3)
        /\ d[a] = Compute({T("q")}, {}, T("q_rope"), {b + 1})
    BY DEF LayerIs
  <2>2. a + 4 \in DOMAIN d /\ a \in DOMAIN d
    BY DEF LayerIs
  <2>3. /\ Fields(d[a + 4], {T("q_rope")}, {}, {T("attn")}, {a, a + 2, a + 3})
        /\ Fields(d[a], {T("q")}, {}, {T("q_rope")}, {b + 1})
    BY <2>1, AttentionFields, ComputeFields
  <2>. QED  BY <2>2, <2>3 DEF Linked, Fields
<1>. HIDE DEF u1, u2, u3, f1, f2, f3
<1>3. a \in u1
  BY <1>1, <1>2, LinkIsUse DEF u1
<1>4. ASSUME NEW n, n \in f3 \/ \E p \in u3 : Hopeless(d, p)
      PROVE  Implies(d, a + 4, n)
  BY <1>4, Zenon DEF Implies, u1, u2, u3, f1, f2, f3
<1>5. CASE kind = "mla"
  BY <1>1, <1>3, <1>4, <1>5
<1>6. /\ Fields(d[a + 1], {T("k")}, {}, {T("k_rope")},
                {IF kind = "fused" THEN b + 1 ELSE b + 2})
      /\ Fields(d[a + 2], {T("k_rope")}, {}, {}, {a + 1})
      /\ Fields(d[a + 3], {T("v")}, {}, {}, {IF kind = "fused" THEN b + 1 ELSE b + 3})
      /\ Fields(d[a], {T("q")}, {}, {T("q_rope")}, {b + 1})
      /\ Fields(d[b], {Input(l)}, {T("attention_norm")}, {T("normed")}, {b - 1})
      /\ a = b + (IF kind = "fused" THEN 2 ELSE 4)
  <2>. PICK k, v : /\ k = IF kind = "fused" THEN b + 1 ELSE b + 2
                   /\ v = IF kind = "fused" THEN b + 1 ELSE b + 3
    OBVIOUS
  <2>1. /\ d[a + 1] = Compute({T("k")}, {}, T("k_rope"), {k})
        /\ d[a + 2] = KVCacheUpdate(T("k_rope"), T("K"), {a + 1})
        /\ d[a + 3] = KVCacheUpdate(T("v"), T("V"), {v})
        /\ d[a] = Compute({T("q")}, {}, T("q_rope"), {b + 1})
        /\ d[b] = Compute({Input(l)}, {T("attention_norm")}, T("normed"), {b - 1})
    BY DEF LayerIs
  <2>2. /\ Fields(d[a + 1], {T("k")}, {}, {T("k_rope")}, {k})
        /\ Fields(d[a], {T("q")}, {}, {T("q_rope")}, {b + 1})
        /\ Fields(d[b], {Input(l)}, {T("attention_norm")}, {T("normed")}, {b - 1})
    BY <2>1, ComputeFields
  <2>3. /\ Fields(d[a + 2], {T("k_rope")}, {}, {}, {a + 1})
        /\ Fields(d[a + 3], {T("v")}, {}, {}, {v})
    BY <2>1, UpdateFields
  <2>4. a = b + (IF kind = "fused" THEN 2 ELSE 4)
    BY DEF LayerIs
  <2>. QED  BY <2>2, <2>3, <2>4
<1>7. /\ {a, a + 1, a + 2, a + 3, a + 4, b, b + 1} \subseteq DOMAIN d
      /\ kind # "fused" => b + 2 \in DOMAIN d /\ b + 3 \in DOMAIN d
  BY <1>6
<1>8. Linked(d, a + 2, a + 1, T("k_rope"))
  BY <1>6, <1>7 DEF Linked, Fields
<1>9. CASE kind = "fused"
  <2>1. d[b + 1] = FusedQKVWeight(l, {b})
    BY <1>9 DEF LayerIs
  <2>2. Fields(d[b + 1], {T("normed")}, {}, {T("q"), T("k"), T("v")}, {b})
    BY <2>1, SplitFields
  <2>3. Linked(d, a, b + 1, T("q")) /\ Linked(d, a + 1, b + 1, T("k"))
    BY <1>6, <1>7, <1>9, <2>2 DEF Linked, Fields
  <2>4. Linked(d, a + 3, b + 1, T("v"))
    BY <1>6, <1>7, <1>9, <2>2 DEF Linked, Fields
  <2>5. b + 1 \in u3
    BY <1>1, <1>3, <2>3, LinkIsUse DEF u2
  <2>6. a + 1 \in f1 /\ a + 3 \in f1
    BY <2>3, <2>4, <2>5, LinkIsFollowed DEF f1
  <2>7. a + 2 \in f2
    BY <1>8, <2>6, LinkIsFollowed DEF f2
  <2>. QED  BY <1>1, <1>4, <2>6, <2>7
<1>10. CASE kind = "separate"
  <2>1. /\ Fields(d[b + 1], {T("normed")}, {}, {T("q")}, {b})
        /\ Fields(d[b + 2], {T("normed")}, {}, {T("k")}, {b})
        /\ Fields(d[b + 3], {T("normed")}, {}, {T("v")}, {b})
    BY <1>10, ComputeFields DEF LayerIs
  <2>2. /\ Linked(d, b + 1, b, T("normed")) /\ Linked(d, b + 2, b, T("normed"))
        /\ Linked(d, b + 3, b, T("normed"))
    BY <1>6, <1>7, <1>10, <2>1 DEF Linked, Fields
  <2>3. Linked(d, a, b + 1, T("q")) /\ Linked(d, a + 1, b + 2, T("k"))
    BY <1>6, <1>7, <1>10, <2>1 DEF Linked, Fields
  <2>4. Linked(d, a + 3, b + 3, T("v"))
    BY <1>6, <1>7, <1>10, <2>1 DEF Linked, Fields
  <2>5. b + 1 \in u2
    BY <1>3, <2>3, LinkIsUse DEF u2
  <2>6. b \in u3
    BY <2>2, <2>5, LinkIsUse DEF u3
  <2>7. b + 2 \in f1 /\ b + 3 \in f1
    BY <2>2, <2>6, LinkIsFollowed DEF f1
  <2>8. a + 1 \in f2 /\ a + 3 \in f2
    BY <2>3, <2>4, <2>7, LinkIsFollowed DEF f2
  <2>9. a + 2 \in f3
    BY <1>8, <2>8, LinkIsFollowed DEF f3
  <2>. QED  BY <1>1, <1>4, <2>8, <2>9
<1>. QED  BY <1>5, <1>9, <1>10 DEF LayerKind

-----------------------------------------------------------------------------
\* Attention of a layer, with the updates of its cache.
Attends(d, l, a) ==
  /\ d[a + 4] = FlashAttention(l, a, a + 2, a + 3)
  /\ \E D : d[a + 2] = KVCacheUpdate(<<l, "k_rope">>, <<l, "K">>, D)
  /\ \E D : d[a + 3] = KVCacheUpdate(<<l, "v">>, <<l, "V">>, D)
  /\ Implies(d, a + 4, a + 2) /\ Implies(d, a + 4, a + 3)

\* Every layer has them, from where its rotations are.
LEMMA LayerAttends ==
  ASSUME NEW kinds \in Seq(LayerKind), NEW d, NEW start, Layout(d, kinds, start),
         NEW l \in 1..Len(kinds), NEW a \in Nat,
         a = start[l] + (IF kinds[l] = "fused" THEN 2 ELSE 4)
  PROVE  Attends(d, l, a)
<1>. PICK b : b = start[l]
  OBVIOUS
<1>1. /\ kinds[l] \in LayerKind /\ l \in Nat \ {0} /\ b \in Nat
      /\ LayerIs(d, kinds[l], l, b, a) /\ b..(a + 14) \subseteq DOMAIN d
  BY TheLayer
<1>2. kinds[l] = "mla" => Hopeless(d, a)
  BY NoQuery
<1>3. Implies(d, a + 4, a + 2) /\ Implies(d, a + 4, a + 3)
  BY <1>1, <1>2, CacheIsUpdated
<1>4. /\ d[a + 4] = FlashAttention(l, a, a + 2, a + 3)
      /\ \E D : d[a + 2] = KVCacheUpdate(<<l, "k_rope">>, <<l, "K">>, D)
      /\ \E D : d[a + 3] = KVCacheUpdate(<<l, "v">>, <<l, "V">>, D)
  BY <1>1 DEF LayerIs
<1>. QED  BY <1>3, <1>4 DEF Attends

\* The kinds of nodes.
ANode(d, n) ==
  \/ \E D : d[n] = NoOp(D)
  \/ \E I, W, o, D : d[n] = Compute(I, W, o, D)
  \/ \E l, D : d[n] = FusedQKVWeight(l, D)
  \/ \E i, o, D : d[n] = KVCacheUpdate(i, o, D)
  \/ \E l : \E a \in Nat : n = a + 4 /\ Attends(d, l, a)

\* Every node of a layer is of one of these kinds.
LEMMA LayersAreNodes ==
  ASSUME NEW kinds \in Seq(LayerKind), NEW d, NEW start, Layout(d, kinds, start),
         NEW l \in 1..Len(kinds), NEW n \in Nat, start[l] <= n, n < start[l + 1]
  PROVE  ANode(d, n)
<1>. PICK b : b = start[l]
  OBVIOUS
<1>1. PICK a \in Nat :
           /\ kinds[l] \in LayerKind /\ b \in Nat
           /\ LayerIs(d, kinds[l], l, b, a) /\ start[l + 1] = a + 14
           /\ a = b + (IF kinds[l] = "fused" THEN 2 ELSE 4)
  BY TheLayer
<1>2. b <= n /\ n < a + 14
  BY <1>1
<1>3. OneOf(b, kinds[l], a, n)
  BY <1>1, <1>2, OneOfTheLayer
<1>4. Attends(d, l, a)
  BY <1>1, LayerAttends
<1>5. ASSUME NEW I, NEW W, NEW o, NEW D, d[n] = Compute(I, W, o, D) PROVE ANode(d, n)
  BY <1>5, Zenon DEF ANode
<1>6. CASE n = b
  <2>1. d[b] = Compute({Input(l)}, {<<l, "attention_norm">>}, <<l, "normed">>, {b - 1})
    BY <1>1 DEF LayerIs
  <2>. QED  BY <1>5, <1>6, <2>1
<1>7. CASE n = b + 1 /\ kinds[l] = "fused"
  <2>1. d[n] = FusedQKVWeight(l, {b})
    BY <1>1, <1>7 DEF LayerIs
  <2>. QED  BY <2>1, Zenon DEF ANode
<1>8. CASE (n = b + 1 \/ n = b + 2 \/ n = b + 3) /\ kinds[l] = "separate"
  <2>1. \/ d[n] = Compute({<<l, "normed">>}, {}, <<l, "q">>, {b})
        \/ d[n] = Compute({<<l, "normed">>}, {}, <<l, "k">>, {b})
        \/ d[n] = Compute({<<l, "normed">>}, {}, <<l, "v">>, {b})
    BY <1>1, <1>8 DEF LayerIs
  <2>. QED  BY <1>5, <2>1
<1>9. CASE (n = b + 1 \/ n = b + 2 \/ n = b + 3) /\ kinds[l] = "mla"
  <2>1. d[n] = NoOp({b})
    BY <1>1, <1>9 DEF LayerIs
  <2>. QED  BY <2>1, Zenon DEF ANode
<1>10. CASE n = a \/ n = a + 1 \/ n = a + 5 \/ n = a + 6 \/ n = a + 7 \/ n = a + 8
  <2>1. /\ d[a] = Compute({<<l, "q">>}, {}, <<l, "q_rope">>, {b + 1})
        /\ d[a + 1] = Compute({<<l, "k">>}, {}, <<l, "k_rope">>,
                             {IF kinds[l] = "fused" THEN b + 1 ELSE b + 2})
        /\ d[a + 5] = Compute({<<l, "attn">>}, {<<l, "wo">>}, <<l, "wo_out">>, {a + 4})
        /\ d[a + 6] = Compute({Input(l), <<l, "wo_out">>}, {}, <<l, "residual">>, {a + 5})
        /\ d[a + 7] = Compute({<<l, "residual">>}, {<<l, "ffn_norm">>}, <<l, "ffn_normed">>, {a + 6})
        /\ d[a + 8] = Compute({<<l, "ffn_normed">>}, {<<l, "w1">>}, <<l, "gate">>, {a + 7})
    BY <1>1, Zenon DEF LayerIs
  <2>. QED  BY <1>5, <1>10, <2>1
<1>11. CASE n = a + 9 \/ n = a + 10 \/ n = a + 11 \/ n = a + 12 \/ n = a + 13
  <2>1. /\ d[a + 9] = Compute({<<l, "ffn_normed">>}, {<<l, "w3">>}, <<l, "up">>, {a + 7})
        /\ d[a + 10] = Compute({<<l, "up">>}, {}, <<l, "silu">>, {a + 9})
        /\ d[a + 11] = Compute({<<l, "gate">>, <<l, "silu">>}, {}, <<l, "ffn_hidden">>,
                              {a + 8, a + 10})
        /\ d[a + 12] = Compute({<<l, "ffn_hidden">>}, {<<l, "w2">>}, <<l, "ffn_out">>, {a + 11})
        /\ d[a + 13] = Compute({<<l, "residual">>, <<l, "ffn_out">>}, {}, <<l, "output">>,
                              {a + 6, a + 12})
    BY <1>1, Zenon DEF LayerIs
  <2>. QED  BY <1>5, <1>11, <2>1
<1>12. CASE n = a + 2 \/ n = a + 3
  <2>1. \E i, o, D : d[n] = KVCacheUpdate(i, o, D)
    BY <1>4, <1>12 DEF Attends
  <2>. QED  BY <2>1, Zenon DEF ANode
<1>13. CASE n = a + 4
  BY <1>4, <1>13, Zenon DEF ANode
<1>14. kinds[l] \in {"fused", "separate", "mla"}
  BY <1>1 DEF LayerKind
<1>. QED
  BY <1>3, <1>6, <1>7, <1>8, <1>9, <1>10, <1>11, <1>12, <1>13, <1>14 DEF OneOf

\* So is every node of the DAG.
LEMMA NodesAre ==
  ASSUME NEW kinds \in Seq(LayerKind), NEW d, NEW start, Layout(d, kinds, start),
         NEW n \in DOMAIN d
  PROVE  ANode(d, n)
<1>. PICK last : last = start[Len(kinds) + 1]
  OBVIOUS
<1>1. Len(kinds) + 1 \in 1..(Len(kinds) + 1)
  BY LenProperties
<1>2. n \in 1..(last + 1) /\ last \in Nat \ {0, 1}
  BY <1>1 DEF Layout
<1>3. CASE n = 1
  BY <1>3 DEF Layout, ANode
<1>4. CASE n = last \/ n = last + 1
  <2>1. \E I, W, o, D : d[n] = Compute(I, W, o, D)
    BY <1>4 DEF Layout
  <2>. QED  BY <2>1, Zenon DEF ANode
<1>5. CASE n # 1 /\ n # last /\ n # last + 1
  <2>1. n \in 2..(last - 1)
    BY <1>2, <1>5
  <2>2. PICK l \in 1..Len(kinds) : start[l] <= n /\ n < start[l + 1]
    BY <2>1 DEF Layout
  <2>. QED  BY <1>2, <2>2, LayersAreNodes
<1>. QED  BY <1>3, <1>4, <1>5

\* Whatever a kernel reads has been looked up or surely been written.
LEMMA BuilderOrdersReads ==
  ASSUME NEW kinds \in Seq(LayerKind), NEW d, NEW start, Layout(d, kinds, start)
  PROVE  ReadsAreOrdered(d)
<1>. DEFINE Ordered(n, i, b) ==
       \/ b \in d[n].needs
       \/ \E j \in 1..(i - 1) : b \in d[n].kernels[j].writes
       \/ \E m \in d[n].dependencies : b \in Written(d, m) /\ Implies(d, n, m)
<1>1. ASSUME NEW n \in DOMAIN d, NEW i \in DOMAIN d[n].kernels, NEW b \in d[n].kernels[i].reads
      PROVE  Ordered(n, i, b)
  <2>1. ANode(d, n)
    BY NodesAre
  <2>2. ASSUME NEW R, NEW W, d[n].kernels = <<[reads |-> R, writes |-> W]>>
        PROVE  b \in R
    BY <1>1, <2>2
  <2>3. CASE \E D : d[n] = NoOp(D)
    BY <2>3 DEF NoOp
  <2>4. CASE \E I, W, o, D : d[n] = Compute(I, W, o, D)
    <3>. PICK I, W, o, D : d[n] = Compute(I, W, o, D)
      BY <2>4
    <3>1. d[n].needs = I /\ d[n].kernels = <<[reads |-> I, writes |-> {o}]>>
      <4>1. Fields(d[n], I, W, {o}, D) /\ Encodes(d[n], I, {o})
        BY ComputeFields
      <4>. QED  BY <4>1 DEF Fields, Encodes
    <3>2. b \in I
      BY <2>2, <3>1
    <3>. QED  BY <3>1, <3>2
  <2>5. CASE \E l, D : d[n] = FusedQKVWeight(l, D)
    <3>. PICK l, D : d[n] = FusedQKVWeight(l, D)
      BY <2>5
    <3>. DEFINE out == {<<l, "q">>, <<l, "k">>, <<l, "v">>}
                k1 == [reads |-> {<<l, "normed">>}, writes |-> {<<l, "qkv">>}]
                k2 == [reads |-> {<<l, "qkv">>}, writes |-> out]
    <3>1. d[n].needs = {<<l, "normed">>} /\ d[n].kernels = <<k1, k2>>
      BY SplitFields DEF Fields
    <3>2. k1.reads = {<<l, "normed">>} /\ k1.writes = {<<l, "qkv">>} /\ k2.reads = {<<l, "qkv">>}
      OBVIOUS
    <3>. HIDE DEF k1, k2
    <3>3. i \in {1, 2} /\ d[n].kernels[1] = k1 /\ d[n].kernels[2] = k2
      BY <3>1
    <3>4. CASE i = 1
      BY <3>1, <3>2, <3>3, <3>4
    <3>5. CASE i = 2
      <4>1. b \in d[n].kernels[1].writes /\ 1 \in 1..(i - 1)
        BY <3>2, <3>3, <3>5
      <4>. QED  BY <4>1
    <3>. QED  BY <3>3, <3>4, <3>5
  <2>6. CASE \E x, o, D : d[n] = KVCacheUpdate(x, o, D)
    <3>. PICK x, o, D : d[n] = KVCacheUpdate(x, o, D)
      BY <2>6
    <3>1. d[n].needs = {x} /\ d[n].kernels = <<[reads |-> {x}, writes |-> {o}]>>
      <4>1. Fields(d[n], {x}, {}, {}, D) /\ Encodes(d[n], {x}, {o})
        BY UpdateFields
      <4>. QED  BY <4>1 DEF Fields, Encodes
    <3>2. b \in {x}
      BY <2>2, <3>1
    <3>. QED  BY <3>1, <3>2
  <2>7. CASE \E l : \E a \in Nat : n = a + 4 /\ Attends(d, l, a)
    <3>. PICK l : \E a \in Nat : n = a + 4 /\ Attends(d, l, a)
      BY <2>7
    <3>. PICK a \in Nat : n = a + 4 /\ Attends(d, l, a)
      OBVIOUS
    <3>1. /\ d[n].needs = {<<l, "q_rope">>} /\ d[n].dependencies = {a, a + 2, a + 3}
          /\ d[n].kernels = <<[reads |-> {<<l, "q_rope">>, <<l, "K">>, <<l, "V">>},
                               writes |-> {<<l, "attn">>}]>>
      <4>1. d[n] = FlashAttention(l, a, a + 2, a + 3)
        BY DEF Attends
      <4>2. /\ Fields(d[n], {<<l, "q_rope">>}, {}, {<<l, "attn">>}, {a, a + 2, a + 3})
            /\ Encodes(d[n], {<<l, "q_rope">>, <<l, "K">>, <<l, "V">>}, {<<l, "attn">>})
        BY <4>1, AttentionFields
      <4>. QED  BY <4>2, Zenon DEF Fields, Encodes
    <3>2. b \in {<<l, "q_rope">>, <<l, "K">>, <<l, "V">>}
      BY <2>2, <3>1
    <3>3. ASSUME NEW m, NEW x, NEW o, NEW D, d[m] = KVCacheUpdate(x, o, D)
          PROVE  o \in Written(d, m)
      <4>1. d[m].kernels = <<[reads |-> {x}, writes |-> {o}]>>
        BY <3>3, UpdateFields DEF Encodes
      <4>2. 1 \in DOMAIN d[m].kernels /\ d[m].kernels[1].writes = {o}
        BY <4>1
      <4>. QED  BY <4>2 DEF Written
    <3>4. <<l, "K">> \in Written(d, a + 2) /\ <<l, "V">> \in Written(d, a + 3)
      BY <3>3 DEF Attends
    <3>5. Implies(d, n, a + 2) /\ Implies(d, n, a + 3)
      BY DEF Attends
    <3>. QED  BY <3>1, <3>2, <3>4, <3>5
  <2>. QED  BY <2>1, <2>3, <2>4, <2>5, <2>6, <2>7 DEF ANode
<1>. QED  BY <1>1 DEF ReadsAreOrdered

-----------------------------------------------------------------------------
\* Node m, after n, fails if n does.
Serves(d, n, m) ==
  /\ d[m].kernels # <<>>
  /\ \/ Uses(d, m, n)
     \/ n \in d[m].dependencies /\ Implies(d, m, n)
     \/ Hopeless(d, m)

\* A node that encodes a kernel has kernels.
LEMMA KernelsAreSome == \A c, R, W : Encodes(c, R, W) => c.kernels # <<>>
BY DEF Encodes

\* Node m looks tensor t up before it encodes its kernels; node n makes t.
Takes(d, m, t) == t \in d[m].needs /\ d[m].kernels # <<>>
Gives(d, n, t) == t \in d[n].outputs

\* A node that looks up what another registers fails if that one does.
LEMMA OutputIsUsed == \A d, n, m, t : Gives(d, n, t) /\ Takes(d, m, t) => Serves(d, n, m)
BY DEF Serves, Uses, Gives, Takes

\* What each kind of node looks up and registers.
LEMMA ComputeLinks ==
  \A d, m, I, W, o, D :
    d[m] = Compute(I, W, o, D) => Gives(d, m, o) /\ \A t \in I : Takes(d, m, t)
<1>. SUFFICES ASSUME NEW d, NEW m, NEW I, NEW W, NEW o, NEW D, d[m] = Compute(I, W, o, D)
              PROVE  Gives(d, m, o) /\ \A t \in I : Takes(d, m, t)
  OBVIOUS
<1>1. Fields(d[m], I, W, {o}, D) /\ Encodes(d[m], I, {o})
  BY ComputeFields
<1>2. d[m].kernels # <<>>
  BY <1>1, KernelsAreSome
<1>. QED  BY <1>1, <1>2 DEF Fields, Gives, Takes

LEMMA ComputeGives == \A I, W, o, D : Compute(I, W, o, D).outputs = {o}
BY DEF Compute

LEMMA ComputeTakes ==
  \A I, W, o, D : Compute(I, W, o, D).needs = I /\ Compute(I, W, o, D).kernels # <<>>
BY DEF Compute

LEMMA UpdateLinks ==
  \A d, m, x, o, D : d[m] = KVCacheUpdate(x, o, D) => Takes(d, m, x)
<1>. SUFFICES ASSUME NEW d, NEW m, NEW x, NEW o, NEW D, d[m] = KVCacheUpdate(x, o, D)
              PROVE  Takes(d, m, x)
  OBVIOUS
<1>1. Fields(d[m], {x}, {}, {}, D) /\ Encodes(d[m], {x}, {o})
  BY UpdateFields
<1>2. d[m].kernels # <<>>
  BY <1>1, KernelsAreSome
<1>. QED  BY <1>1, <1>2 DEF Fields, Takes

LEMMA AttentionLinks ==
  \A d, m, l, q, k, v :
    d[m] = FlashAttention(l, q, k, v) =>
      /\ Takes(d, m, <<l, "q_rope">>)
      /\ Gives(d, m, <<l, "attn">>)
      /\ d[m].dependencies = {q, k, v}
<1>. SUFFICES ASSUME NEW d, NEW m, NEW l, NEW q, NEW k, NEW v,
                     d[m] = FlashAttention(l, q, k, v)
              PROVE  /\ Takes(d, m, <<l, "q_rope">>)
                     /\ Gives(d, m, <<l, "attn">>)
                     /\ d[m].dependencies = {q, k, v}
  OBVIOUS
<1>1. /\ Fields(d[m], {<<l, "q_rope">>}, {}, {<<l, "attn">>}, {q, k, v})
      /\ Encodes(d[m], {<<l, "q_rope">>, <<l, "K">>, <<l, "V">>}, {<<l, "attn">>})
  BY AttentionFields
<1>2. d[m].kernels # <<>>
  BY <1>1, KernelsAreSome
<1>. QED  BY <1>1, <1>2 DEF Fields, Gives, Takes

LEMMA SplitLinks ==
  \A d, m, l, D :
    d[m] = FusedQKVWeight(l, D) =>
      /\ Takes(d, m, <<l, "normed">>)
      /\ \A t \in {<<l, "q">>, <<l, "k">>, <<l, "v">>} : Gives(d, m, t)
<1>. SUFFICES ASSUME NEW d, NEW m, NEW l, NEW D, d[m] = FusedQKVWeight(l, D)
              PROVE  /\ Takes(d, m, <<l, "normed">>)
                     /\ \A t \in {<<l, "q">>, <<l, "k">>, <<l, "v">>} : Gives(d, m, t)
  OBVIOUS
<1>1. Fields(d[m], {<<l, "normed">>}, {}, {<<l, "q">>, <<l, "k">>, <<l, "v">>}, D)
  BY SplitFields
<1>2. d[m].kernels # <<>>
  <2>1. \E x, y : d[m].kernels = <<x, y>>
    BY DEF FusedQKVWeight
  <2>. QED  BY <2>1
<1>. QED  BY <1>1, <1>2 DEF Fields, Gives, Takes

\* Which node of a layer serves which, from RoPE on.
Served(d, a) ==
  /\ Serves(d, a, a + 4) /\ Serves(d, a + 1, a + 2) /\ Serves(d, a + 2, a + 4)
  /\ Serves(d, a + 3, a + 4) /\ Serves(d, a + 4, a + 5) /\ Serves(d, a + 5, a + 6)
  /\ Serves(d, a + 6, a + 7) /\ Serves(d, a + 7, a + 8) /\ Serves(d, a + 8, a + 11)
  /\ Serves(d, a + 9, a + 10) /\ Serves(d, a + 10, a + 11) /\ Serves(d, a + 11, a + 12)
  /\ Serves(d, a + 12, a + 13) /\ Serves(d, a + 13, a + 14)

\* Each node from RoPE on is looked up by the node that Served names.
LEMMA LayersAreServed ==
  ASSUME NEW kinds \in Seq(LayerKind), NEW d, NEW start, Layout(d, kinds, start),
         NEW l \in 1..Len(kinds), NEW b, b = start[l], NEW a \in Nat,
         LayerIs(d, kinds[l], l, b, a), start[l + 1] = a + 14
  PROVE  Served(d, a)
<1>. DEFINE T(name) == <<l, name>>
<1>1. /\ d[a] = Compute({T("q")}, {}, T("q_rope"), {b + 1})
      /\ d[a + 1] = Compute({T("k")}, {}, T("k_rope"),
                            {IF kinds[l] = "fused" THEN b + 1 ELSE b + 2})
      /\ d[a + 5] = Compute({T("attn")}, {T("wo")}, T("wo_out"), {a + 4})
      /\ d[a + 6] = Compute({Input(l), T("wo_out")}, {}, T("residual"), {a + 5})
      /\ d[a + 7] = Compute({T("residual")}, {T("ffn_norm")}, T("ffn_normed"), {a + 6})
      /\ d[a + 8] = Compute({T("ffn_normed")}, {T("w1")}, T("gate"), {a + 7})
      /\ d[a + 9] = Compute({T("ffn_normed")}, {T("w3")}, T("up"), {a + 7})
      /\ d[a + 10] = Compute({T("up")}, {}, T("silu"), {a + 9})
      /\ d[a + 11] = Compute({T("gate"), T("silu")}, {}, T("ffn_hidden"), {a + 8, a + 10})
      /\ d[a + 12] = Compute({T("ffn_hidden")}, {T("w2")}, T("ffn_out"), {a + 11})
      /\ d[a + 13] = Compute({T("residual"), T("ffn_out")}, {}, T("output"), {a + 6, a + 12})
  BY Zenon DEF LayerIs
<1>2. Attends(d, l, a)
  <2>1. a = b + (IF kinds[l] = "fused" THEN 2 ELSE 4)
    BY Zenon DEF LayerIs
  <2>. QED  BY <2>1, LayerAttends
<1>3. Takes(d, a + 2, T("k_rope")) /\ Takes(d, a + 3, T("v"))
  BY <1>2, UpdateLinks DEF Attends
<1>4. d[a + 4] = FlashAttention(l, a, a + 2, a + 3)
  BY <1>2 DEF Attends
<1>5. /\ Takes(d, a + 4, T("q_rope")) /\ Gives(d, a + 4, T("attn"))
      /\ d[a + 4].dependencies = {a, a + 2, a + 3}
  BY <1>4, AttentionLinks, SMTT(20)
<1>6. \E W, o, D : d[a + 14] = Compute({T("output")}, W, o, D)
  <2>1. /\ l + 1 \in 1..(Len(kinds) + 1) /\ l + 1 # 1 /\ l + 1 - 1 = l
        /\ Len(kinds) \in Nat
    BY LenProperties
  <2>2. Input(l + 1) = T("output")
    BY <2>1 DEF Input
  <2>3. CASE l = Len(kinds)
    <3>. PICK last : last = start[Len(kinds) + 1]
      OBVIOUS
    <3>1. last = a + 14
      BY <2>3
    <3>2. d[last] = Compute({Input(Len(kinds) + 1)}, {<<0, "norm">>}, <<0, "normed">>, {last - 1})
      BY DEF Layout
    <3>. QED  BY <2>2, <2>3, <3>1, <3>2
  <2>4. CASE l # Len(kinds)
    <3>1. l + 1 \in 1..Len(kinds)
      BY <2>1, <2>4
    <3>. PICK c : LayerIs(d, kinds[l + 1], l + 1, start[l + 1], c)
      BY <3>1, TheLayer
    <3>2. d[start[l + 1]] = Compute({Input(l + 1)}, {<<l + 1, "attention_norm">>},
                                    <<l + 1, "normed">>, {start[l + 1] - 1})
      BY Zenon DEF LayerIs
    <3>. QED  BY <2>2, <3>2
  <2>. QED  BY <2>3, <2>4
<1>. PICK W, o, D : d[a + 14] = Compute({T("output")}, W, o, D)
  BY <1>6
<1>. HIDE DEF T
<1>7. /\ Gives(d, a, T("q_rope")) /\ Gives(d, a + 1, T("k_rope"))
      /\ Gives(d, a + 5, T("wo_out")) /\ Gives(d, a + 6, T("residual"))
      /\ Gives(d, a + 7, T("ffn_normed")) /\ Gives(d, a + 8, T("gate"))
      /\ Gives(d, a + 9, T("up")) /\ Gives(d, a + 10, T("silu"))
      /\ Gives(d, a + 11, T("ffn_hidden")) /\ Gives(d, a + 12, T("ffn_out"))
      /\ Gives(d, a + 13, T("output"))
  <2>1. /\ d[a].outputs = {T("q_rope")} /\ d[a + 1].outputs = {T("k_rope")}
        /\ d[a + 5].outputs = {T("wo_out")} /\ d[a + 6].outputs = {T("residual")}
        /\ d[a + 7].outputs = {T("ffn_normed")} /\ d[a + 8].outputs = {T("gate")}
    <3>. PICK x : x = {Input(l), T("wo_out")}
      OBVIOUS
    <3>1. d[a] = Compute({T("q")}, {}, T("q_rope"), {b + 1})
      BY <1>1
    <3>2. \E D1 : d[a + 1] = Compute({T("k")}, {}, T("k_rope"), D1)
      BY <1>1
    <3>3. /\ d[a + 5] = Compute({T("attn")}, {T("wo")}, T("wo_out"), {a + 4})
          /\ d[a + 6] = Compute(x, {}, T("residual"), {a + 5})
      BY <1>1
    <3>4. /\ d[a + 7] = Compute({T("residual")}, {T("ffn_norm")}, T("ffn_normed"), {a + 6})
          /\ d[a + 8] = Compute({T("ffn_normed")}, {T("w1")}, T("gate"), {a + 7})
      BY <1>1
    <3>5. d[a].outputs = {T("q_rope")} /\ d[a + 1].outputs = {T("k_rope")}
      BY <3>1, <3>2, ComputeGives
    <3>6. d[a + 5].outputs = {T("wo_out")} /\ d[a + 6].outputs = {T("residual")}
      BY <3>3, ComputeGives
    <3>7. d[a + 7].outputs = {T("ffn_normed")} /\ d[a + 8].outputs = {T("gate")}
      BY <3>4, ComputeGives
    <3>. QED  BY <3>5, <3>6, <3>7
  <2>2. /\ d[a + 9].outputs = {T("up")} /\ d[a + 10].outputs = {T("silu")}
        /\ d[a + 12].outputs = {T("ffn_out")}
    <3>1. /\ d[a + 9] = Compute({T("ffn_normed")}, {T("w3")}, T("up"), {a + 7})
          /\ d[a + 10] = Compute({T("up")}, {}, T("silu"), {a + 9})
          /\ d[a + 12] = Compute({T("ffn_hidden")}, {T("w2")}, T("ffn_out"), {a + 11})
      BY <1>1
    <3>. QED  BY <3>1, ComputeGives
  <2>3. d[a + 11].outputs = {T("ffn_hidden")} /\ d[a + 13].outputs = {T("output")}
    <3>. PICK x, y : x = {T("gate"), T("silu")} /\ y = {T("residual"), T("ffn_out")}
      OBVIOUS
    <3>1. /\ d[a + 11] = Compute(x, {}, T("ffn_hidden"), {a + 8, a + 10})
          /\ d[a + 13] = Compute(y, {}, T("output"), {a + 6, a + 12})
      BY <1>1
    <3>. QED  BY <3>1, ComputeGives
  <2>. QED  BY <2>1, <2>2, <2>3 DEF Gives
<1>8. /\ Takes(d, a + 5, T("attn")) /\ Takes(d, a + 7, T("residual"))
      /\ Takes(d, a + 8, T("ffn_normed")) /\ Takes(d, a + 10, T("up"))
      /\ Takes(d, a + 12, T("ffn_hidden")) /\ Takes(d, a + 14, T("output"))
  BY <1>1, ComputeTakes, SMTT(20) DEF Takes
<1>9. /\ Takes(d, a + 6, T("wo_out"))
      /\ Takes(d, a + 11, T("gate")) /\ Takes(d, a + 11, T("silu"))
      /\ Takes(d, a + 13, T("ffn_out"))
  BY <1>1, ComputeTakes, SMTT(20) DEF Takes
<1>10. Serves(d, a, a + 4) /\ Serves(d, a + 1, a + 2) /\ Serves(d, a + 4, a + 5)
  BY <1>3, <1>5, <1>7, <1>8, OutputIsUsed
<1>11. Serves(d, a + 2, a + 4) /\ Serves(d, a + 3, a + 4)
  BY <1>2, <1>5 DEF Attends, Serves, Takes
<1>12. Serves(d, a + 5, a + 6) /\ Serves(d, a + 6, a + 7) /\ Serves(d, a + 7, a + 8)
  BY <1>7, <1>8, <1>9, OutputIsUsed
<1>13. Serves(d, a + 8, a + 11) /\ Serves(d, a + 9, a + 10) /\ Serves(d, a + 10, a + 11)
  BY <1>7, <1>8, <1>9, OutputIsUsed
<1>14. Serves(d, a + 11, a + 12) /\ Serves(d, a + 12, a + 13) /\ Serves(d, a + 13, a + 14)
  BY <1>7, <1>8, <1>9, OutputIsUsed
<1>. QED  BY <1>10, <1>11, <1>12, <1>13, <1>14 DEF Served

\* The nodes of a layer from RoPE on.
ServedAt(a, n) ==
  \/ n = a \/ n = a + 1 \/ n = a + 2 \/ n = a + 3 \/ n = a + 4 \/ n = a + 5 \/ n = a + 6
  \/ n = a + 7 \/ n = a + 8 \/ n = a + 9 \/ n = a + 10 \/ n = a + 11 \/ n = a + 12
  \/ n = a + 13

\* That node is later.
LEMMA ServedAfter ==
  ASSUME NEW d, NEW a \in Nat, NEW n, Served(d, a), ServedAt(a, n)
  PROVE  \E m \in Nat : n < m /\ m <= a + 14 /\ Serves(d, n, m)
<1>1. CASE n = a
  <2>. WITNESS a + 4 \in Nat
  <2>. QED  BY <1>1 DEF Served
<1>2. CASE n = a + 1
  <2>. WITNESS a + 2 \in Nat
  <2>. QED  BY <1>2 DEF Served
<1>3. CASE n = a + 2
  <2>. WITNESS a + 4 \in Nat
  <2>. QED  BY <1>3 DEF Served
<1>4. CASE n = a + 3
  <2>. WITNESS a + 4 \in Nat
  <2>. QED  BY <1>4 DEF Served
<1>5. CASE n = a + 4
  <2>. WITNESS a + 5 \in Nat
  <2>. QED  BY <1>5 DEF Served
<1>6. CASE n = a + 5
  <2>. WITNESS a + 6 \in Nat
  <2>. QED  BY <1>6 DEF Served
<1>7. CASE n = a + 6
  <2>. WITNESS a + 7 \in Nat
  <2>. QED  BY <1>7 DEF Served
<1>8. CASE n = a + 7
  <2>. WITNESS a + 8 \in Nat
  <2>. QED  BY <1>8 DEF Served
<1>9. CASE n = a + 8
  <2>. WITNESS a + 11 \in Nat
  <2>. QED  BY <1>9 DEF Served
<1>10. CASE n = a + 9
  <2>. WITNESS a + 10 \in Nat
  <2>. QED  BY <1>10 DEF Served
<1>11. CASE n = a + 10
  <2>. WITNESS a + 11 \in Nat
  <2>. QED  BY <1>11 DEF Served
<1>12. CASE n = a + 11
  <2>. WITNESS a + 12 \in Nat
  <2>. QED  BY <1>12 DEF Served
<1>13. CASE n = a + 12
  <2>. WITNESS a + 13 \in Nat
  <2>. QED  BY <1>13 DEF Served
<1>14. CASE n = a + 13
  <2>. WITNESS a + 14 \in Nat
  <2>. QED  BY <1>14 DEF Served
<1>. QED  BY <1>1, <1>2, <1>3, <1>4, <1>5, <1>6, <1>7,
             <1>8, <1>9, <1>10, <1>11, <1>12, <1>13, <1>14 DEF ServedAt

\* Some node after every node of a layer that has kernels needs it.
LEMMA LayersAreUsed ==
  ASSUME NEW kinds \in Seq(LayerKind), NEW d, NEW start, Layout(d, kinds, start),
         NEW l \in 1..Len(kinds), NEW n \in Nat, start[l] <= n, n < start[l + 1]
  PROVE  d[n].kernels = <<>> \/ \E m \in (n + 1)..Len(d) : Serves(d, n, m)
<1>. PICK b : b = start[l]
  OBVIOUS
<1>. DEFINE T(name) == <<l, name>>
            Used == d[n].kernels = <<>> \/ \E m \in (n + 1)..Len(d) : Serves(d, n, m)
<1>. SUFFICES Used
  OBVIOUS
<1>1. PICK a \in Nat :
           /\ kinds[l] \in LayerKind /\ b \in Nat
           /\ LayerIs(d, kinds[l], l, b, a) /\ start[l + 1] = a + 14
           /\ a = b + (IF kinds[l] = "fused" THEN 2 ELSE 4)
           /\ b..(a + 14) \subseteq DOMAIN d
  BY TheLayer
<1>2. OneOf(b, kinds[l], a, n)
  <2>1. b <= n /\ n < a + 14
    BY <1>1
  <2>. QED  BY <1>1, <2>1, OneOfTheLayer
<1>3. Len(d) \in Nat /\ a + 14 <= Len(d) /\ b + 1 < a
  <2>1. Len(kinds) + 1 \in 1..(Len(kinds) + 1)
    BY LenProperties
  <2>2. Len(d) \in Nat /\ DOMAIN d = 1..Len(d)
    BY <2>1 DEF Layout
  <2>3. a + 14 \in DOMAIN d
    BY <1>1
  <2>4. b + 1 < a
    BY <1>1
  <2>. QED  BY <2>2, <2>3, <2>4
<1>4. ASSUME NEW m \in Nat, n < m, m <= a + 14, Serves(d, n, m)
      PROVE  Used
  <2>1. m \in (n + 1)..Len(d)
    BY <1>3, <1>4
  <2>. QED  BY <1>4, <2>1
<1>. HIDE DEF Used
<1>5. /\ Gives(d, b, T("normed"))
      /\ Takes(d, a, T("q")) /\ Takes(d, a + 1, T("k")) /\ Takes(d, a + 3, T("v"))
  <2>1. /\ d[b] = Compute({Input(l)}, {T("attention_norm")}, T("normed"), {b - 1})
        /\ d[a] = Compute({T("q")}, {}, T("q_rope"), {b + 1})
        /\ d[a + 1] = Compute({T("k")}, {}, T("k_rope"),
                             {IF kinds[l] = "fused" THEN b + 1 ELSE b + 2})
    BY <1>1, Zenon DEF LayerIs
  <2>2. Attends(d, l, a)
    BY <1>1, LayerAttends
  <2>3. Takes(d, a + 3, T("v"))
    BY <2>2, UpdateLinks DEF Attends
  <2>. HIDE DEF T
  <2>4. Gives(d, b, T("normed"))
    BY <2>1, ComputeLinks
  <2>5. Takes(d, a, T("q"))
    BY <2>1, ComputeLinks
  <2>6. Takes(d, a + 1, T("k"))
    <3>. PICK D : d[a + 1] = Compute({T("k")}, {}, T("k_rope"), D)
      BY <2>1
    <3>. QED  BY ComputeLinks
  <2>. QED  BY <2>3, <2>4, <2>5, <2>6
<1>6. CASE n = b
  <2>1. CASE kinds[l] = "mla"
    <3>1. Hopeless(d, a)
      BY <1>1, <2>1, NoQuery
    <3>2. Serves(d, n, a)
      BY <1>5, <3>1 DEF Serves, Takes
    <3>. QED  BY <1>3, <1>4, <1>6, <3>2
  <2>2. CASE kinds[l] # "mla"
    <3>1. Takes(d, b + 1, T("normed"))
      <4>1. CASE kinds[l] = "fused"
        <5>1. d[b + 1] = FusedQKVWeight(l, {b})
          BY <1>1, <4>1 DEF LayerIs
        <5>. QED  BY <5>1, SplitLinks
      <4>2. CASE kinds[l] = "separate"
        <5>1. d[b + 1] = Compute({T("normed")}, {}, T("q"), {b})
          BY <1>1, <4>2 DEF LayerIs
        <5>. QED  BY <5>1, ComputeLinks
      <4>. QED  BY <1>1, <2>2, <4>1, <4>2 DEF LayerKind
    <3>2. Serves(d, n, b + 1)
      BY <1>5, <1>6, <3>1, OutputIsUsed
    <3>3. b + 1 \in Nat /\ n < b + 1 /\ b + 1 <= a + 14
      BY <1>1, <1>3, <1>6, SMTT(20)
    <3>. QED  BY <1>4, <3>2, <3>3
  <2>. QED  BY <2>1, <2>2
<1>7. CASE kinds[l] = "fused" /\ n = b + 1
  <2>1. d[n] = FusedQKVWeight(l, {b})
    BY <1>1, <1>7 DEF LayerIs
  <2>2. Gives(d, n, T("q"))
    BY <2>1, SplitLinks
  <2>3. Serves(d, n, a)
    BY <1>5, <2>2, OutputIsUsed
  <2>. QED  BY <1>3, <1>4, <1>7, <2>3
<1>8. CASE kinds[l] # "fused" /\ (n = b + 1 \/ n = b + 2 \/ n = b + 3)
  <2>0. b \in Nat /\ b + 3 < a
    BY <1>1, <1>8
  <2>1. CASE kinds[l] = "mla"
    <3>1. d[n] = NoOp({b})
      BY <1>1, <1>8, <2>1 DEF LayerIs
    <3>2. d[n].kernels = <<>>
      BY <3>1 DEF NoOp
    <3>. QED  BY <3>2 DEF Used
  <2>2. CASE kinds[l] = "separate"
    <3>1. /\ d[b + 1] = Compute({T("normed")}, {}, T("q"), {b})
          /\ d[b + 2] = Compute({T("normed")}, {}, T("k"), {b})
          /\ d[b + 3] = Compute({T("normed")}, {}, T("v"), {b})
      BY <1>1, <2>2 DEF LayerIs
    <3>2. Gives(d, b + 1, T("q")) /\ Gives(d, b + 2, T("k")) /\ Gives(d, b + 3, T("v"))
      BY <3>1, ComputeLinks
    <3>3. Serves(d, b + 1, a) /\ Serves(d, b + 2, a + 1) /\ Serves(d, b + 3, a + 3)
      BY <1>5, <3>2, OutputIsUsed
    <3>4. Serves(d, n, a) \/ Serves(d, n, a + 1) \/ Serves(d, n, a + 3)
      BY <1>8, <3>3
    <3>5. /\ n < a /\ n < a + 1 /\ n < a + 3
          /\ a <= a + 14 /\ a + 1 <= a + 14 /\ a + 3 <= a + 14
          /\ a + 1 \in Nat /\ a + 3 \in Nat
      BY <1>8, <2>0
    <3>. QED  BY <1>4, <3>4, <3>5
  <2>. QED  BY <1>1, <1>8, <2>1, <2>2 DEF LayerKind
<1>9. Served(d, a)
  BY <1>1, LayersAreServed
<1>10. CASE ServedAt(a, n)
  <2>1. \E m \in Nat : n < m /\ m <= a + 14 /\ Serves(d, n, m)
    BY <1>9, <1>10, ServedAfter
  <2>. QED  BY <1>4, <2>1
<1>. QED
  <2>1. CASE kinds[l] = "fused"
    BY <1>2, <1>6, <1>7, <1>10, <2>1 DEF OneOf, ServedAt
  <2>2. CASE kinds[l] # "fused"
    BY <1>2, <1>6, <1>8, <1>10, <2>2 DEF OneOf, ServedAt
  <2>. QED  BY <2>1, <2>2

\* No node with kernels is without a later one that needs it.
LEMMA BuilderIdlesNothing ==
  ASSUME NEW kinds \in Seq(LayerKind), NEW d, NEW start, Layout(d, kinds, start)
  PROVE  NothingIsIdle(d)
<1>. PICK last : last = start[Len(kinds) + 1]
  OBVIOUS
<1>1. last \in Nat \ {0, 1} /\ Len(d) = last + 1
  <2>1. Len(kinds) + 1 \in 1..(Len(kinds) + 1)
    BY LenProperties
  <2>. QED  BY <2>1 DEF Layout
<1>2. ASSUME NEW n \in 1..(Len(d) - 1)
      PROVE  d[n].kernels = <<>> \/ \E m \in (n + 1)..Len(d) : Serves(d, n, m)
  <2>1. n \in Nat /\ n \in 1..last
    BY <1>1
  <2>2. CASE n = 1
    <3>1. d[n] = NoOp({})
      BY <2>2 DEF Layout
    <3>. QED  BY <3>1 DEF NoOp
  <2>3. CASE n = last
    <3>1. /\ d[last] = Compute({Input(Len(kinds) + 1)}, {<<0, "norm">>}, <<0, "normed">>, {last - 1})
          /\ d[last + 1] = Compute({<<0, "normed">>}, {<<0, "output">>}, Logits, {last})
      BY DEF Layout
    <3>2. Gives(d, last, <<0, "normed">>) /\ Takes(d, last + 1, <<0, "normed">>)
      BY <3>1, ComputeLinks
    <3>3. Serves(d, last, last + 1)
      BY <3>2, OutputIsUsed
    <3>4. last + 1 \in (n + 1)..Len(d)
      BY <1>1, <2>3
    <3>. QED  BY <2>3, <3>3, <3>4
  <2>4. CASE n # 1 /\ n # last
    <3>1. n \in 2..(last - 1)
      BY <1>1, <2>1, <2>4
    <3>2. PICK l \in 1..Len(kinds) : start[l] <= n /\ n < start[l + 1]
      BY <3>1 DEF Layout
    <3>. QED  BY <2>1, <3>2, LayersAreUsed
  <2>. QED  BY <2>2, <2>3, <2>4
<1>. QED  BY <1>2 DEF NothingIsIdle, Serves

\* What the executor assumes is true of what the builder makes of every
\* sequence of layers: each node comes after its dependencies, a tensor has
\* one producer and a buffer one writer, what a kernel reads has been looked
\* up or surely been written, and no kernel is without a part in the output.
THEOREM BuilderServesExecutor ==
  \A kinds \in Seq(LayerKind) :
    LET d == BuildModelDag(kinds)
    IN IsDag(d) /\ HasOneWriter(d) /\ ReadsAreOrdered(d) /\ NothingIsIdle(d)
<1>. SUFFICES ASSUME NEW kinds \in Seq(LayerKind)
              PROVE  LET d == BuildModelDag(kinds)
                     IN IsDag(d) /\ HasOneWriter(d) /\ ReadsAreOrdered(d) /\ NothingIsIdle(d)
  OBVIOUS
<1>. PICK start : Layout(BuildModelDag(kinds), kinds, start)
  BY BuilderLayout
<1>. QED  BY BuilderHasOneWriter, BuilderOrdersReads, BuilderIdlesNothing
=============================================================================
