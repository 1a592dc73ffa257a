-------------------------- MODULE MCSyncInstances --------------------------
(***************************************************************************)
(* SyncInstances with definitions chosen so that a container is selected   *)
(* by no rule of a service, by one, or by two that extract different       *)
(* addresses, through a host binding that must be skipped.                 *)
(***************************************************************************)
EXTENDS SyncInstances, TLC

Symmetric == Permutations(Id) \cup Permutations(Name)

Bindings == [p \in {80} |-> <<[ip |-> "elsewhere", port |-> 1], [ip |-> AnyIP, port |-> 2]>>]

MCBody == {[labels |-> [app |-> "web"], hostNet |-> FALSE, bindings |-> Bindings, ip |-> "c1"]}

OnlyDb   == [selector |-> [app |-> "db"],  port |-> 0]
OnlyWeb  == [selector |-> [app |-> "web"], port |-> 0]
Anything == [selector |-> <<>>,            port |-> 81]

MCInfo == {
  [port |-> 80, rules |-> {OnlyDb}],
  [port |-> 80, rules |-> {OnlyDb, OnlyWeb, Anything}]}
=============================================================================
