---------------------------- MODULE MCServerSide ----------------------------
(***************************************************************************)
(* ServerSide with a container that has an address for one definition of   *)
(* its service (the port is published) and none for the other (no port).   *)
(***************************************************************************)
EXTENDS ServerSide, TLC

Symmetric == Permutations(Id)

MCBody == {[labels |-> [app |-> "web"], hostNet |-> FALSE, ip |-> "c1",
            bindings |-> [p \in {80} |-> <<[ip |-> AnyIP, port |-> 2]>>]]}

OnlyWeb == [selector |-> [app |-> "web"], port |-> 0]

MCInfo == {[port |-> 80, rules |-> {OnlyWeb}], [port |-> 0, rules |-> {OnlyWeb}]}
=============================================================================
