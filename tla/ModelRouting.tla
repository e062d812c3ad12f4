---------------------------- MODULE ModelRouting ----------------------------
(***************************************************************************)
(* Which registered model a request goes to: select_model of the router.   *)
(* Token estimates, budgets and costs are small numbers.                   *)
(***************************************************************************)
EXTENDS Naturals, Sequences, FiniteSetsExt

CONSTANTS
  Models,   \* the registered models, in the order of their registration
  None      \* no preference, no override, no model

ModelProfile == { Models[i] : i \in DOMAIN Models }

\* The estimate counts the prompt and the output that was asked for.
Total(r) == r.tokens + r.output

\* What n tokens of the model cost.
EstimateCost(n, m) == n * m.cost

\* RiskTier in the order of its declaration: 0 is Low, 2 and above are the
\* tiers that a request does not trade for a lower price.
Supports(m, r) ==
  /\ r.provider \in { None, m.provider }
  /\ Total(r) <= m.context
  /\ Total(r) <= r.budget
  /\ m.tier >= r.tier
  /\ EstimateCost(Total(r), m) <= r.spend

\* Whether m is ranked strictly before n.
Before(m, n, r) ==
  LET cheaper  == m.cost < n.cost
      safer    == m.tier > n.tier
      favoured == m.priority > n.priority
  IN  IF r.tier >= 2
      THEN \/ safer
           \/ m.tier = n.tier /\ favoured
           \/ m.tier = n.tier /\ m.priority = n.priority /\ cheaper
      ELSE \/ cheaper
           \/ m.cost = n.cost /\ favoured
           \/ m.cost = n.cost /\ m.priority = n.priority /\ safer

\* The override if it may serve the request, or the best of those that may;
\* the sort is stable, so that the first registered of equals is taken.
SelectModel(r) ==
  LET Eligible  == { i \in DOMAIN Models : Supports(Models[i], r) }
      Asked     == { i \in DOMAIN Models : Models[i].id = r.override }
      Preferred == { i \in Eligible \cap Asked : i = Min(Asked) }
      Best      == { i \in Eligible : \A j \in Eligible : ~ Before(Models[j], Models[i], r) }
  IN  IF Preferred # {} THEN Models[Min(Preferred)]
      ELSE IF Eligible = {} THEN None
      ELSE Models[Min(Best)]
=============================================================================
