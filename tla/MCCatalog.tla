----------------------------- MODULE MCCatalog -----------------------------
(***************************************************************************)
(* Two clients that may do everything, one of another tenant that may only *)
(* start instances, and submissions that collide with one another.         *)
(***************************************************************************)
EXTENDS Catalog, TLC

CONSTANTS Admins, Other

MCPrincipals ==
  [c \in Clients |->
     IF c \in Admins THEN [tenant |-> "acme", scopes |-> {"admin"}]
     ELSE IF c = Other THEN [tenant |-> "other", scopes |-> {"instances:write"}]
     ELSE NoPrincipal]

Step(id, deps) == [id |-> id, deps |-> deps, compensation |-> FALSE, effects |-> TRUE]

Diamond == <<Step("d", {"b", "c"}), Step("b", {"a"}), Step("c", {"a"}), Step("a", {})>>
Chain == <<Step("a", {}), Step("b", {"a"})>>
Loop == <<Step("a", {}), Step("b", {"a", "c"}), Step("c", {"b"})>>
Dangling == <<Step("a", {}), Step("b", {"a", "z"})>>
Twice == <<Step("a", {}), Step("a", {})>>
Unfounded == <<[Step("a", {}) EXCEPT !.compensation = TRUE, !.effects = FALSE]>>

Post(id, version, steps) == [id |-> id, version |-> version, name |-> "lead", steps |-> steps]

\* A first version, the same with other steps, a second version under two ids,
\* and definitions that are not valid.
MCSubmissions ==
  {Post("w", 1, Chain), Post("w", 1, Diamond), Post("w", 2, Diamond), Post("x", 2, Chain),
   Post("x", 3, Diamond)}
    \cup {Post("w", 3, steps) : steps \in {<<>>, Loop, Dangling, Twice, Unfounded}}

Symmetry == Permutations(Admins)

Graphs == [{"a", "b", "c"} -> SUBSET {"a", "b", "c", "z"}]

\* Kahn's algorithm against the definition of what can be run, on every graph of
\* three steps, dependencies on an unknown step included.
ASSUME KahnIsExact ==
  \A deps \in Graphs :
    /\ ValidateDependencies(deps) <=> Runnable(deps)
    /\ ~Cyclic(deps) => LayersCorrect(deps, TopologicalLayers(deps))
=============================================================================
