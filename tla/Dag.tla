-------------------------------- MODULE Dag --------------------------------
(***************************************************************************)
(* The validation of a workflow definition (core/domain/definition.py) and *)
(* the layering of its steps (core/domain/dag.py).  A definition's steps   *)
(* are a sequence of records [id, deps, compensation, effects].            *)
(***************************************************************************)
EXTENDS Naturals, Sequences, FiniteSets

StepIds(steps) == {steps[k].id : k \in DOMAIN steps}

\* {s.step_id: s.dependencies for s in steps}
Dependencies(steps) ==
  [id \in StepIds(steps) |->
     UNION {steps[k].deps : k \in {j \in DOMAIN steps : steps[j].id = id}}]

\* The variable resolved of topological_layers after n rounds.
Resolved(deps) ==
  LET R[n \in 0 .. Cardinality(DOMAIN deps)] ==
        IF n = 0 THEN {} ELSE R[n - 1] \cup {s \in DOMAIN deps : deps[s] \subseteq R[n - 1]}
  IN R

\* CyclicDependencyError: steps remain and none is ready.
Cyclic(deps) == Resolved(deps)[Cardinality(DOMAIN deps)] # DOMAIN deps

\* The layers, each as a set; sorted() only makes their order deterministic.
TopologicalLayers(deps) ==
  LET R == Resolved(deps)
      rounds == CHOOSE n \in DOMAIN R :
                  R[n] = DOMAIN deps /\ \A m \in DOMAIN R : R[m] = DOMAIN deps => n <= m
  IN [n \in 1 .. rounds |-> R[n] \ R[n - 1]]

ValidateDependencies(deps) ==
  /\ \A s \in DOMAIN deps : s \notin deps[s] /\ deps[s] \subseteq DOMAIN deps
  /\ ~Cyclic(deps)

\* Mutant: only dependencies on unknown steps and on itself are looked for.
ValidUnsorted(steps) ==
  LET deps == Dependencies(steps)
  IN /\ steps # <<>>
     /\ Cardinality(StepIds(steps)) = Len(steps)
     /\ \A s \in DOMAIN deps : s \notin deps[s] /\ deps[s] \subseteq DOMAIN deps
     /\ \A k \in DOMAIN steps : steps[k].compensation => steps[k].effects

\* WorkflowDefinition._validate_graph
ValidDefinition(steps) ==
  /\ steps # <<>>
  /\ Cardinality(StepIds(steps)) = Len(steps)
  /\ ValidateDependencies(Dependencies(steps))
  /\ \A k \in DOMAIN steps : steps[k].compensation => steps[k].effects
-----------------------------------------------------------------------------
(***************************************************************************)
(* What the driver needs of a graph, without an algorithm: no set of steps *)
(* waits for one another, and nothing waits for a step that does not exist.*)
(***************************************************************************)
Runnable(deps) ==
  \A S \in (SUBSET (DOMAIN deps \cup UNION {deps[s] : s \in DOMAIN deps})) \ {{}} :
    \E s \in S : s \in DOMAIN deps /\ deps[s] \cap S = {}

\* Every step is in one layer, the first one after all its dependencies.
LayersCorrect(deps, layers) ==
  \A s \in DOMAIN deps : \E n \in DOMAIN layers :
    /\ \A m \in DOMAIN layers : s \in layers[m] <=> m = n
    /\ \A d \in deps[s] : \E m \in 1 .. n - 1 : d \in layers[m]
    /\ n > 1 => deps[s] \cap layers[n - 1] # {}
=============================================================================
