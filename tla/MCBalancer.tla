----------------------------- MODULE MCBalancer -----------------------------
(***************************************************************************)
(* Balancer on one or two services that may move between two addresses and *)
(* have no instance, one or two.                                           *)
(***************************************************************************)
EXTENDS Balancer, TLC

MCService == [addr : {"A1", "A2"}, insts : {{}, {"a"}}]

\* Three instance maps at one address.
MCOneAddress == [addr : {"A1"}, insts : {{}, {"a"}, {"a", "b"}}]

Symmetric == Permutations(Port)
=============================================================================
