---------------------------- MODULE MCDagDispatch ----------------------------
(* Models of one and two layers of each kind. *)
EXTENDS DagDispatch

CONSTANT dispatch_modes

Models == {<<"separate">>, <<"fused">>, <<"mla">>, <<"fused", "separate">>}
MCDags == {BuildModelDag(kinds) : kinds \in Models}

\* At most one weight is missing.  A complete model under sequential dispatch
\* would let the GPU run all its kernels at once; the run of sequential
\* dispatch alone includes it.
MCConfigs ==
  {c \in UNION {[dag : {d}, dependency_dispatch : dispatch_modes,
                 unbound : {{}} \cup {{w} : w \in OptionalWeights(d)}] : d \in MCDags} :
     \/ c.dependency_dispatch
     \/ dispatch_modes = {FALSE}
     \/ c.unbound # {}
     \/ c.dag = BuildModelDag(<<"mla">>)}

\* What the proofs assume of a DAG is true of what the builder makes of every
\* sequence of layers (BuilderServesExecutor), here up to three.
ASSUME BuilderKeepsAssumptions ==
  \A layers \in 0..3 : \A kinds \in [1..layers -> LayerKind] :
    LET d == BuildModelDag(kinds)
    IN IsDag(d) /\ HasOneWriter(d) /\ ReadsAreOrdered(d) /\ NothingIsIdle(d)
=============================================================================
