----------------------------- MODULE MCSpending -----------------------------
(***************************************************************************)
(* Spending with a registry in which the order of for_tier is not that of  *)
(* the projected costs, and whose fallback chain ends in a model that the  *)
(* router would not have chosen.                                           *)
(***************************************************************************)
EXTENDS Spending, TLC

Model(in, out, tools, tiers) ==
  [input_per_mtok |-> in, output_per_mtok |-> out, context_window |-> 10,
   max_output_tokens |-> 4, avg_latency_ms |-> 1, reliability_score |-> 7 + out,
   supports_tools |-> tools, supports_vision |-> FALSE, tiers |-> tiers]

MCRegistry ==
  [models |-> <<Model(1, 3, TRUE, {"cheap", "standard"}), Model(2, 1, TRUE, {"standard"}),
                Model(1, 1, FALSE, {"cheap", "standard"})>>,
   chains |-> [cheap |-> <<1, 3>>, standard |-> <<2, 3>>]]

Call(tools) ==
  [tier |-> "standard", messages |-> <<3>>, system |-> 0, tools |-> tools,
   expected_output_tokens |-> 1, max_tokens |-> 4, reliability_floor |-> 0]

MCRequest == [s \in Steps |-> Call(<<4>>)]

Probe(tier, output, tools, exclude) ==
  [cost_tier |-> tier, input |-> 6, output |-> output, needs_tools |-> tools,
   needs_vision |-> FALSE, reliability_floor |-> 8, max_latency_ms |-> 0,
   exclude |-> exclude]

\* Both tiers, an excluded favourite, the largest output and one too large.
MCProbes ==
  <<Probe("cheap", 1, FALSE, {}), Probe("standard", 1, TRUE, {}),
    Probe("standard", 1, FALSE, {3}), Probe("standard", 4, TRUE, {1}),
    Probe("standard", 5, TRUE, {})>>

MCUsage == {<<5, 2>>}

Symmetry == Permutations(Workers) \cup Permutations(Insts)
=============================================================================
