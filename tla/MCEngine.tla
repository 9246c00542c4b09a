------------------------------ MODULE MCEngine ------------------------------
(***************************************************************************)
(* Workflow definitions for the runs of Engine.                            *)
(***************************************************************************)
EXTENDS Drafts

\* Workers differ in nothing but their names (not for the liveness runs).
WorkersAlike == Permutations(Workers)

\* 1 -> 2 -> ... -> N
Chain == [s \in Steps |-> {s - 1} \cap Steps]

\* All but the last side by side, N after them.
Join == [s \in Steps |-> IF s = N THEN Steps \ {N} ELSE {}]

\* Every step on its own.
Apart == [s \in Steps |-> {}]

\* No approvals, no compensations, no deadlines; one retry; two at a time.
Plain(deps, policy) ==
  [deps |-> deps, max_retries |-> 1, requires_approval |-> {}, compensable |-> {},
   on_failure |-> policy, max_concurrent_steps |-> 2, timeout |-> FALSE,
   auto_action |-> "approve"]

\* As Plain, and every step needs an approval that expires.
Approved(deps, policy) ==
  [Plain(deps, policy) EXCEPT !.requires_approval = Steps, !.timeout = TRUE]

\* The failure policies, on a join, with two steps at a time or one.
Failing ==
  {Plain(Join, "dead_letter"), Plain(Join, "pause"),
   [Plain(Join, "rollback") EXCEPT !.compensable = Steps],
   [Plain(Join, "escalate") EXCEPT !.max_concurrent_steps = 1]}

\* Approvals one after the other and side by side, with no deadline.
Gated(deps) == [Approved(deps, "escalate") EXCEPT !.max_retries = 0, !.timeout = FALSE]

\* What humans decide (approvals, reviews, exhausted steps, budgets), with
\* deadlines in one definition, and the policies that ask nobody; only the last
\* definition retries.
Deciding ==
  {Gated(Chain), Gated(Apart),
   [Approved(Chain, "escalate") EXCEPT !.max_retries = 0, !.requires_approval = {N}],
   [Plain(Apart, "pause") EXCEPT !.max_retries = 0],
   [Plain(Chain, "dead_letter") EXCEPT !.max_retries = 0],
   [Plain(Chain, "rollback") EXCEPT !.compensable = Steps]}

\* Two gates side by side, each with a deadline.
Gates == {Approved(Apart, "escalate")}
=============================================================================
