---------------------------- MODULE MCLlmRouter ----------------------------
(***************************************************************************)
(* LlmRouter with one registered provider, a model of another one, and     *)
(* requests that go to each of them or, for what it would cost, nowhere.   *)
(***************************************************************************)
EXTENDS LlmRouter

CONSTANTS p1, p2

MCModels ==
  << [id |-> "a", provider |-> p1, context |-> 2, tier |-> 1, cost |-> 1, priority |-> 1],
     [id |-> "b", provider |-> p2, context |-> 3, tier |-> 3, cost |-> 2, priority |-> 1] >>

Ask(tokens, spend) == [tokens |-> tokens, output |-> 1, provider |-> None, budget |-> 9,
                       spend |-> spend, override |-> None, tier |-> 0]
MCRequest == { Ask(1, 6), Ask(2, 6), Ask(2, 5) }
=============================================================================
