------------------------------ MODULE Registry ------------------------------
(***************************************************************************)
(* What the agent promises of the instances it registers, whatever goes on *)
(* inside it: SyncInstances implements this.                               *)
(*                                                                         *)
(* While it is settled, the agent decides on a match of what it knows, one *)
(* change at a time, and the store is at most one decision behind.  A      *)
(* change to one service or one container touches that service's or that   *)
(* container's instances only: every other service keeps its instances as  *)
(* they are, so that nobody's balancer is disturbed.  Only a full scan may *)
(* change everything, and out of a disturbance there is no other way.      *)
(***************************************************************************)
CONSTANTS
  Name,              \* service names
  Id,                \* container ids
  Candidates(_, _)   \* the instances a service and a container may give, each
                     \* possibly absent; several when several rules select it

VARIABLES
  settled,     \* the agent has full information and the store follows it
  services,    \* the services the agent knows, None when absent
  containers,  \* the containers it knows, None when absent
  target,      \* the instances it has decided on, by service and container
  full,        \* the decision to be written is a full scan's, which prunes
  registered   \* the instances in the store

rvars == <<settled, services, containers, target, full, registered>>

\* A decision takes one of the candidates at every key.
Match(m, svcs, conts) ==
  \A n \in Name, c \in Id : m[n][c] \in Candidates(svcs[n], conts[c])

RegInit == ~settled /\ ~full /\ target = registered

\* The services differ at N at most, the containers at C at most, and the
\* decision at their instances at most.
ChangesOnly(N, C) ==
  /\ \A n \in Name \ N : services'[n] = services[n]
  /\ \A c \in Id \ C : containers'[c] = containers[c]
  /\ \A n \in Name \ N, c \in Id \ C : target'[n][c] = target[n][c]

Settling(N, C) ==
  /\ registered = target
  /\ settled' /\ Match(target', services', containers')
  /\ ChangesOnly(N, C)
  /\ UNCHANGED registered

LearnService   == settled /\ ~full' /\ \E n \in Name : Settling({n}, {})
LearnContainer == settled /\ ~full' /\ \E c \in Id : Settling({}, {c})
FullScan       == full' /\ Settling(Name, Id)

Write ==
  /\ settled /\ settled'
  /\ registered' = target /\ ~full'
  /\ UNCHANGED <<services, containers, target>>

\* Losing the reader, its writes or the state; the store still takes nothing
\* that was not decided.
Disturbed ==
  /\ ~settled'
  /\ \A n \in Name, c \in Id :
       registered'[n][c] \in {registered[n][c], target[n][c]}

RegNext == LearnService \/ LearnContainer \/ FullScan \/ Write \/ Disturbed

RegSpec == RegInit /\ [][RegNext]_rvars
=============================================================================
