------------------------------- MODULE Router -------------------------------
(***************************************************************************)
(* The cost-aware router: token estimation (core/cost/estimator.py), the   *)
(* model registry (core/cost/registry.py), the budget view                 *)
(* (core/cost/budget.py) and the selection of a model                      *)
(* (core/cost/router.py, core/llm_client.py), as operators.                *)
(*                                                                         *)
(* A registry is [models |-> <<m1, ..., mk>>, chains |-> [tier |-> keys]]; *)
(* a model's key is its position in the configuration file.  Money is in   *)
(* millionths of a dollar, so that a price per million tokens is the price *)
(* of one token.                                                           *)
(***************************************************************************)
EXTENDS Orders, Sequences, SequencesExt, FiniteSetsExt

CharsPerToken == 4
PerMessageOverhead == 4

\* -(-len(text) // 4): the quotient rounded up.
EstimateTextTokens(length) == -((-length) \div CharsPerToken)

SumOver(S, f) == MapThenSumSet(LAMBDA x : f[x], S)

\* Messages, system prompt and tools are given by their lengths.
EstimateMessageTokens(messages, system, tools) ==
  EstimateTextTokens(system)
    + SumOver(DOMAIN messages, [n \in DOMAIN messages |->
                                 EstimateTextTokens(messages[n]) + PerMessageOverhead])
    + SumOver(DOMAIN tools, [n \in DOMAIN tools |-> EstimateTextTokens(tools[n])])

CostUsd(m, in, out) == in * m.input_per_mtok + out * m.output_per_mtok

\* remaining_workflow_usd and remaining_tenant_daily_usd; both limits are set.
Allows(view, projected) == projected <= view.workflow /\ projected <= view.daily
-----------------------------------------------------------------------------
\* The constraints of ModelConfig; reliability_score is in tenths.
ValidModel(m) ==
  /\ m.input_per_mtok \in Nat /\ m.output_per_mtok \in Nat
  /\ m.context_window \in Nat \ {0} /\ m.max_output_tokens \in Nat \ {0}
  /\ m.avg_latency_ms \in Nat /\ m.reliability_score \in 0 .. 10
  /\ {m.supports_tools, m.supports_vision} \subseteq BOOLEAN

Keys(reg) == 1 .. Len(reg.models)

\* from_dict: there are models, and a chain names no other.  A tier that the
\* file gives no chain has an empty one.
ValidRegistry(reg) ==
  /\ Len(reg.models) \in Nat \ {0}
  /\ \A k \in Keys(reg) : ValidModel(reg.models[k])
  /\ \A tier \in DOMAIN reg.chains : reg.chains[tier] \in Seq(Keys(reg))

\* The elements of s in the order of their cost, equal ones as they come (sorted
\* is stable).
SortedByCost(s, cost) ==
  LET before == [i \in DOMAIN s |-> {j \in DOMAIN s :
                   cost[s[j]] < cost[s[i]] \/ (cost[s[j]] = cost[s[i]] /\ j < i)}]
  IN [n \in DOMAIN s |-> s[CHOOSE i \in DOMAIN s : Cardinality(before[i]) = n - 1]]

\* Those elements of s that are in S, in their order.
Keep(s, S) ==
  LET kept == InOrder({n \in DOMAIN s : s[n] \in S})
  IN [n \in DOMAIN kept |-> s[kept[n]]]

\* Cheapest first, for a call with as many output tokens as input tokens.
ForTier(reg, tier) ==
  SortedByCost(Keep([k \in Keys(reg) |-> k], {k \in Keys(reg) : tier \in reg.models[k].tiers}),
               [k \in Keys(reg) |-> CostUsd(reg.models[k], 1, 1)])

\* max_latency_ms = 0 stands for none.
CanServe(m, req) ==
  /\ req.needs_tools => m.supports_tools
  /\ req.needs_vision => m.supports_vision
  /\ m.reliability_score >= req.reliability_floor
  /\ req.max_latency_ms # 0 => m.avg_latency_ms <= req.max_latency_ms
  /\ req.input + req.output <= m.context_window
  /\ req.output <= m.max_output_tokens

Eligible(reg, req) ==
  Keep(ForTier(reg, req.cost_tier),
       {k \in Keys(reg) : k \notin req.exclude /\ CanServe(reg.models[k], req)})

Projected(reg, req, k) == CostUsd(reg.models[k], req.input, req.output)

\* Mutant: the order for_tier returns is taken for the order of the projection.
ScoredAsListed(reg, req) == Eligible(reg, req)

Scored(reg, req) ==
  SortedByCost(Eligible(reg, req), [k \in Keys(reg) |-> Projected(reg, req, k)])

NoQuote == [key |-> 0, cost |-> 0]

\* The model select decides for, and what it is projected to cost.
Quote(reg, req) ==
  IF Eligible(reg, req) = <<>> THEN NoQuote
  ELSE LET k == Head(Scored(reg, req)) IN [key |-> k, cost |-> Projected(reg, req, k)]

\* select: the decision, or why there is none.
Verdict(quote, view) ==
  IF quote = NoQuote THEN "no_eligible_model"
  ELSE IF Allows(view, quote.cost) THEN "route" ELSE "budget_exceeded"

\* The models LLMClient.complete tries: the selected one, then the chain of the
\* tier, which is filtered neither by capability nor by budget.
ModelsToTry(reg, req) ==
  LET first == Quote(reg, req).key
  IN <<first>> \o Keep(reg.chains[req.cost_tier], Keys(reg) \ ({first} \cup req.exclude))

\* What LLMClient.complete is called with: lengths and token counts.
ValidCall(call) ==
  /\ call.messages \in Seq(Nat) /\ call.system \in Nat /\ call.tools \in Seq(Nat)
  /\ call.expected_output_tokens \in Nat /\ call.max_tokens \in Nat

\* expected_output_tokens or min(max_tokens, 1024); 0 stands for none.
RouteRequest(call) ==
  [cost_tier |-> call.tier,
   input |-> EstimateMessageTokens(call.messages, call.system, call.tools),
   output |-> IF call.expected_output_tokens # 0 THEN call.expected_output_tokens
              ELSE Min({call.max_tokens, 1024}),
   needs_tools |-> call.tools # <<>>, needs_vision |-> FALSE,
   reliability_floor |-> call.reliability_floor, max_latency_ms |-> 0, exclude |-> {}]
-----------------------------------------------------------------------------
\* Reference: the projected costs of every model that can serve the request.
CostsOfCapable(reg, req) ==
  {Projected(reg, req, k) : k \in {k \in Keys(reg) :
     /\ req.cost_tier \in reg.models[k].tiers
     /\ k \notin req.exclude /\ CanServe(reg.models[k], req)}}
=============================================================================
