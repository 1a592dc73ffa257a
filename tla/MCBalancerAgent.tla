--------------------------- MODULE MCBalancerAgent ---------------------------
(***************************************************************************)
(* BalancerAgent from a store with one service of two: the other can come, *)
(* the one can change, with an event or without, go and come back.         *)
(***************************************************************************)
EXTENDS BalancerAgent, TLC

CONSTANTS n1, n2, v1, v2

MCInit == Init /\ truth = (n1 :> v1 @@ n2 :> None)

MCSpec == MCInit /\ [][AgentNext]_vars /\ Fairness

=============================================================================
