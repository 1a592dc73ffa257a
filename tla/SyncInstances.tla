--------------------------- MODULE SyncInstances ---------------------------
(***************************************************************************)
(* The agent's reconciliation of containers with services: the             *)
(* syncInstances component of agent/sync_instances.go, with the channel it *)
(* writes (instanceUpdates), the reset channel it reads                    *)
(* (instanceUpdatesReset) and the reader at the other end, setInstances,   *)
(* which applies what it is sent and, after an error, is restarted and     *)
(* asks for a reset.                                                       *)
(*                                                                         *)
(* The two sources are arbitrary here: any container and service update    *)
(* may arrive at any time.  DockerListener and WatchServices model them.   *)
(***************************************************************************)
EXTENDS Extract

CONSTANTS
  Name,        \* service names
  Id,          \* container ids
  Untouched    \* "no entry for this key" in an update

ASSUME SyncAssumption ==
  /\ None \notin Info \cup Body
  /\ Untouched \notin Instance \cup {None}

VARIABLES
  servicesNil,     \* si.services == nil
  services,        \* si.services[name].ServiceInfo, None when absent
  instances,       \* si.services[name].instances[id], None when absent
  containersNil,   \* si.containers == nil
  containers,      \* si.containers[id].Container, None when absent
  contInstances,   \* si.containers[id].instances, a set of service names
  update,          \* the InstanceUpdate being sent, NoUpdate when there is none
  resetWanted,     \* instanceUpdatesReset holds a signal
  resetAsked,      \* containerUpdatesReset, serviceUpdatesReset hold a signal
  reader,          \* "running", or "failed": posted an error, not yet restarted
  view             \* what the reader has registered

state  == <<servicesNil, services, instances, containersNil, containers, contInstances>>
vars   == <<state, update, resetWanted, resetAsked, reader, view>>

Source   == {"services", "containers"}
NoInsts  == [n \in Name |-> [c \in Id |-> None]]
NoNames  == [c \in Id |-> {}]

\* InstanceUpdate; an entry None says that the instance is to be removed.
InstanceUpdate ==
  [reset : BOOLEAN, instances : [Name -> [Id -> Instance \cup {None, Untouched}]]]
NoUpdate == [reset |-> FALSE, instances |-> [n \in Name |-> [c \in Id |-> Untouched]]]

\* Variants the properties must refuse: a missing key taken for a value, and
\* a reset that prunes nothing.
ApplyMissing(u, v) == [n \in Name |-> [c \in Id |->
                         IF u.reset \/ u.instances[n][c] # Untouched THEN u.instances[n][c] ELSE v[n][c]]]
ApplyNoPrune(u, v) == [n \in Name |-> [c \in Id |->
                         IF u.instances[n][c] # Untouched THEN u.instances[n][c] ELSE v[n][c]]]

\* What the reader holds once it has applied update u to v.
Apply(u, v) ==
  [n \in Name |-> [c \in Id |->
    IF u.instances[n][c] # Untouched THEN u.instances[n][c]
    ELSE IF u.reset THEN None ELSE v[n][c]]]

TypeOK ==
  /\ servicesNil \in BOOLEAN /\ containersNil \in BOOLEAN
  /\ services \in [Name -> Info \cup {None}]
  /\ containers \in [Id -> Body \cup {None}]
  /\ instances \in [Name -> [Id -> Instance \cup {None}]]
  /\ contInstances \in [Id -> SUBSET Name]
  /\ update \in InstanceUpdate
  /\ resetWanted \in BOOLEAN
  /\ resetAsked \in [Source -> BOOLEAN]
  /\ reader \in {"running", "failed"}
  /\ view \in [Name -> [Id -> Instance \cup {None}]]

Init ==
  /\ servicesNil = TRUE /\ containersNil = TRUE
  /\ services = [n \in Name |-> None]
  /\ containers = [c \in Id |-> None]
  /\ instances = NoInsts
  /\ contInstances = NoNames
  /\ update = NoUpdate
  /\ resetWanted = TRUE                             \* setInstances at its start
  /\ resetAsked = [s \in Source |-> TRUE]           \* si.requestReset()
  /\ reader = "running"
  /\ view \in [Name -> [Id -> Instance \cup {None}]]         \* left by an earlier run

-----------------------------------------------------------------------------
(***************************************************************************)
(* The main loop takes its next input only once the last update is sent.   *)
(***************************************************************************)
Idle == update = NoUpdate

\* An extraction for every service and container: what a full scan may find.
IsMatch(m, svcs, conts) ==
  \A n \in Name, c \in Id : m[n][c] \in Candidates(svcs[n], conts[c])

\* The container.instances that addInstances leaves after a full scan.  (The
\* variant: it records no names.)
NoNamesOf(m) == NoNames
NamesOf(m)   == [c \in Id |-> {n \in Name : m[n][c] # None}]

Send(reset, entries) == update' = [reset |-> reset, instances |-> entries]

\* processContainerUpdate with Reset: fresh containers, all of them added.
ContainersReset(conts) ==
  /\ Idle
  /\ containersNil' = FALSE
  /\ containers' = conts
  /\ IF servicesNil
     THEN /\ instances' = NoInsts /\ contInstances' = NoNames
          /\ UNCHANGED update
     ELSE \E m \in [Name -> [Id -> Instance \cup {None}]] :
            /\ IsMatch(m, services, conts)
            /\ instances' = m
            /\ contInstances' = NamesOf(m)
            /\ Send(TRUE, [n \in Name |-> [c \in Id |->
                         IF m[n][c] # None THEN m[n][c] ELSE Untouched]])
  /\ UNCHANGED <<servicesNil, services, resetWanted, resetAsked, reader, view>>

\* addContainer: ignored before the first reset, and for a known container.
ContainerStarted(id, body) ==
  /\ Idle
  /\ IF containersNil \/ containers[id] # None
     THEN UNCHANGED <<state, update>>
     ELSE /\ containers' = [containers EXCEPT ![id] = body]
          /\ IF servicesNil
             THEN /\ contInstances' = [contInstances EXCEPT ![id] = {}]
                  /\ UNCHANGED <<instances, update>>
             ELSE \E m \in [Name -> Instance \cup {None}] :
                    LET hit == {n \in Name : m[n] # None}
                    IN /\ \A n \in Name : m[n] \in Candidates(services[n], body)
                       /\ instances' = [n \in Name |->
                            IF n \in hit THEN [instances[n] EXCEPT ![id] = m[n]]
                                         ELSE instances[n]]
                       /\ contInstances' = [contInstances EXCEPT ![id] = hit]
                       /\ Send(FALSE, [n \in Name |-> [c \in Id |->
                            IF c = id /\ n \in hit THEN m[n] ELSE Untouched]])
          /\ UNCHANGED <<servicesNil, services, containersNil>>
  /\ UNCHANGED <<resetWanted, resetAsked, reader, view>>

\* removeContainer: every service named in cont.instances loses the container.
ContainerDied(id) ==
  /\ Idle
  /\ IF containersNil \/ containers[id] = None
     THEN UNCHANGED <<state, update>>
     ELSE /\ containers' = [containers EXCEPT ![id] = None]
          /\ contInstances' = [contInstances EXCEPT ![id] = {}]
          /\ IF servicesNil
             THEN UNCHANGED <<instances, update>>
             ELSE /\ instances' = [n \in Name |->
                       IF n \in contInstances[id] THEN [instances[n] EXCEPT ![id] = None]
                                                  ELSE instances[n]]
                  /\ Send(FALSE, [n \in Name |-> [c \in Id |->
                       IF c = id /\ n \in contInstances[id] THEN None ELSE Untouched]])
          /\ UNCHANGED <<servicesNil, services, containersNil>>
  /\ UNCHANGED <<resetWanted, resetAsked, reader, view>>

\* processServiceUpdate with Reset: fresh services, all of them updated.
ServicesReset(svcs) ==
  /\ Idle
  /\ servicesNil' = FALSE
  /\ services' = svcs
  /\ IF containersNil
     THEN /\ instances' = NoInsts /\ contInstances' = NoNames
          /\ UNCHANGED update
     ELSE \E m \in [Name -> [Id -> Instance \cup {None}]] :
            /\ IsMatch(m, svcs, containers)
            /\ instances' = m
            /\ contInstances' = NamesOf(m)
            /\ Send(TRUE, [n \in Name |-> [c \in Id |->
                         IF m[n][c] # None THEN m[n][c] ELSE Untouched]])
  /\ UNCHANGED <<containersNil, containers, resetWanted, resetAsked, reader, view>>

(***************************************************************************)
(* updateService: a fresh service{}, matched against every container; an   *)
(* instance of the old one that is not of the new one goes away.  A name   *)
(* stays in cont.instances even when the service no longer selects it.     *)
(***************************************************************************)
ServiceUpdated(name, info) ==
  /\ Idle
  /\ IF servicesNil
     THEN UNCHANGED <<state, update>>
     ELSE \E m \in [Id -> Instance \cup {None}] :
            LET hit  == {c \in Id : m[c] # None}
                gone == {c \in Id : instances[name][c] # None} \ hit
            IN /\ \A c \in Id : m[c] \in Candidates(info, containers[c])
               /\ services' = [services EXCEPT ![name] = info]
               /\ instances' = [instances EXCEPT ![name] = m]
               /\ contInstances' = [c \in Id |-> contInstances[c] \cup
                                                 IF c \in hit THEN {name} ELSE {}]
               /\ Send(FALSE, [n \in Name |-> [c \in Id |->
                    IF n = name /\ c \in hit THEN m[c]
                    ELSE IF n = name /\ c \in gone THEN None ELSE Untouched]])
               /\ UNCHANGED <<servicesNil, containersNil, containers>>
  /\ UNCHANGED <<resetWanted, resetAsked, reader, view>>

\* removeService: every container in svc.instances loses the service.
ServiceRemoved(name) ==
  /\ Idle
  /\ IF servicesNil \/ services[name] = None
     THEN UNCHANGED <<state, update>>
     ELSE LET had == {c \in Id : instances[name][c] # None}
          IN /\ services' = [services EXCEPT ![name] = None]
             /\ instances' = [instances EXCEPT ![name] = [c \in Id |-> None]]
             /\ IF containersNil
                THEN UNCHANGED <<contInstances, update>>
                ELSE /\ contInstances' = [c \in Id |-> contInstances[c] \
                                                       IF c \in had THEN {name} ELSE {}]
                     /\ Send(FALSE, [n \in Name |-> [c \in Id |->
                       IF n = name /\ c \in had THEN None ELSE Untouched]])
             /\ UNCHANGED <<servicesNil, containersNil, containers>>
  /\ UNCHANGED <<resetWanted, resetAsked, reader, view>>

\* A variant that keeps what it knew of the containers.
InstancesResetHalf ==
  /\ Idle /\ resetWanted
  /\ resetWanted' = FALSE
  /\ servicesNil' = TRUE
  /\ services' = [n \in Name |-> None]
  /\ resetAsked' = [s \in Source |-> TRUE]
  /\ UNCHANGED <<containersNil, containers, instances, contInstances, update, reader, view>>

\* A signal from instanceUpdatesReset: drop the state, ask for resets.
InstancesReset ==
  /\ Idle /\ resetWanted
  /\ resetWanted' = FALSE
  /\ servicesNil' = TRUE /\ containersNil' = TRUE
  /\ services' = [n \in Name |-> None]
  /\ containers' = [c \in Id |-> None]
  /\ instances' = NoInsts
  /\ contInstances' = NoNames
  /\ resetAsked' = [s \in Source |-> TRUE]
  /\ UNCHANGED <<update, reader, view>>

\* Reset (common/daemon) takes the signal and restarts the source.
SourceTakesReset(s) ==
  /\ resetAsked[s]
  /\ resetAsked' = [resetAsked EXCEPT ![s] = FALSE]
  /\ UNCHANGED <<state, update, resetWanted, reader, view>>

-----------------------------------------------------------------------------
(***************************************************************************)
(* setInstances, the reader.                                               *)
(***************************************************************************)
\* processUpdate, no store call failing.
ReaderApplies ==
  /\ ~Idle
  /\ view' = Apply(update, view)
  /\ update' = NoUpdate
  /\ UNCHANGED <<state, resetWanted, resetAsked, reader>>

\* processUpdate with some store calls failing: those keys are not written.
ReaderFails ==
  /\ ~Idle
  /\ \E written \in SUBSET (Name \X Id) :
       view' = [n \in Name |-> [c \in Id |->
                 IF <<n, c>> \in written THEN Apply(update, view)[n][c] ELSE view[n][c]]]
  /\ update' = NoUpdate
  /\ reader' = "failed"
  /\ UNCHANGED <<state, resetWanted, resetAsked>>

\* A variant that only goes on with the next update.
ReaderResumes ==
  /\ reader = "failed"
  /\ reader' = "running"
  /\ UNCHANGED <<state, update, resetWanted, resetAsked, view>>

\* Restart's next incarnation of setInstances asks for a reset as it starts.
ReaderRestarts ==
  /\ reader = "failed"
  /\ reader' = "running"
  /\ resetWanted' = TRUE
  /\ UNCHANGED <<state, update, resetAsked, view>>

Next ==
  \/ \E conts \in [Id -> Body \cup {None}] : ContainersReset(conts)
  \/ \E id \in Id, body \in Body : ContainerStarted(id, body)
  \/ \E id \in Id : ContainerDied(id)
  \/ \E svcs \in [Name -> Info \cup {None}] : ServicesReset(svcs)
  \/ \E name \in Name, info \in Info : ServiceUpdated(name, info)
  \/ \E name \in Name : ServiceRemoved(name)
  \/ InstancesReset
  \/ \E s \in Source : SourceTakesReset(s)
  \/ ReaderApplies \/ ReaderFails \/ ReaderRestarts

Spec == Init /\ [][Next]_vars

-----------------------------------------------------------------------------
Known == ~servicesNil /\ ~containersNil

\* The reader has applied everything it was sent since the last reset.
ReaderSound == reader = "running" /\ ~resetWanted

(***************************************************************************)
(* Once the agent has full information again, what the reader holds after  *)
(* the update in flight is, key for key, an extraction of the services     *)
(* with the containers the agent knows: nothing missed, nothing left over  *)
(* from before the reset, whatever the order of resets, changes and        *)
(* failures (incremental updates of sync_instances.go:132-246).            *)
(***************************************************************************)
InSync ==
  Known /\ ReaderSound =>
    \A n \in Name, c \in Id :
      Apply(update, view)[n][c] \in Candidates(services[n], containers[c])

(***************************************************************************)
(* The two indexes agree: a container names every service that holds an    *)
(* instance for it, so that its death reaches all of them                  *)
(* (sync_instances.go:155 walks cont.instances only), and no service       *)
(* holds an instance of a container that has gone.                         *)
(***************************************************************************)
IndexOK ==
  \A n \in Name, c \in Id :
    instances[n][c] # None =>
      n \in contInstances[c] /\ services[n] # None /\ containers[c] # None

(***************************************************************************)
(* The strengthening of InSync that every step preserves.                  *)
(***************************************************************************)
\* Nothing is remembered while there is no full information.
NilOK ==
  /\ servicesNil => \A n \in Name : services[n] = None
  /\ containersNil => \A c \in Id : containers[c] = None
  /\ ~Known => instances = NoInsts

\* What the agent remembers having extracted is a match of what it knows ...
MemoryOK == Known => IsMatch(instances, services, containers)

\* ... and it is what the reader will hold.
ViewOK ==
  Known /\ ReaderSound =>
    \A n \in Name, c \in Id : Apply(update, view)[n][c] = instances[n][c]

SyncInv == TypeOK /\ IndexOK /\ NilOK /\ MemoryOK /\ ViewOK

-----------------------------------------------------------------------------
(***************************************************************************)
(* The agent keeps the promise of Registry (sync_instances.go:97-246): an  *)
(* update that is no reset changes what the store will hold for the one    *)
(* service or the one container it is about and for no other, the reader   *)
(* is never more than one update behind, and after a failure nothing but a *)
(* full scan settles the agent again.                                      *)
(***************************************************************************)
Promise == INSTANCE Registry WITH
  settled    <- Known /\ ReaderSound,
  target     <- Apply(update, view),
  full       <- update.reset,
  registered <- view

KeepsPromise == Promise!RegSpec

=============================================================================
