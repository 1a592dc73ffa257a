----------------------------- MODULE ServerSide -----------------------------
(***************************************************************************)
(* The edge balancer's server side (balancer/serverside) in fluxd, as      *)
(* cmd/fluxd/main.go wires it: what syncInstances sends goes through a Tee *)
(* (agent/tee.go), first to the server side, then to setInstances, and     *)
(* both ask for resets on the same channel.  The server side keeps a       *)
(* forwarder, and an ingress record in the store, for every service that   *)
(* it knows and that has instances on this host.  Its errors go to the     *)
(* sink of daemon.run and stop fluxd: Fluxd models how, and nothing is     *)
(* said here of what the components do meanwhile.                          *)
(*                                                                         *)
(* SyncInstances is the agent's part; its actions for the reader of the    *)
(* updates are replaced, since the reader is now behind the Tee.  A        *)
(* forwarder is the set of the names in its pool; its port is left out,    *)
(* and of an ingress record only the weight is kept.                       *)
(***************************************************************************)
EXTENDS SyncInstances, FiniteSets

\* A pool is a set of containers, and None is no pool.
ASSUME ServerAssumption == IsFiniteSet(Id) /\ \A pool \in SUBSET Id : pool # None

VARIABLES
  teed,      \* the update that the Tee holds, NoUpdate when it waits for one
  atSecond,  \* it has been sent to the server side, and not yet to setInstances
  known,     \* Name -> svc.service # nil
  addrs,     \* Name -> Id -> svc.instances[id], None when absent
  names,     \* the services for which updateService is still to be called ...
  entries,   \* ... and the entries of an incremental update still to be processed
  fwd,       \* Name -> the names in the forwarder's pool, None without forwarder
  ingress,   \* Name -> the weight of our ingress record, 0 when there is none
  failed     \* an error is in the sink of daemon.run

tee    == <<teed, atSecond>>
server == <<known, addrs, names, entries, fwd, ingress>>
allVars == <<vars, tee, server, failed>>

NoEntries == NoUpdate.instances
Address   == {i.address : i \in Instance} \cup {None}

ServerTypeOK ==
  /\ TypeOK
  /\ teed \in InstanceUpdate /\ atSecond \in BOOLEAN
  /\ known \in [Name -> BOOLEAN]
  /\ addrs \in [Name -> [Id -> Address]]
  /\ names \subseteq Name
  /\ entries \in [Name -> [Id -> Instance \cup {None, Untouched}]]
  /\ fwd \in [Name -> (SUBSET Id) \cup {None}]
  /\ ingress \in [Name -> 0 .. Cardinality(Id)]
  /\ failed \in BOOLEAN

ServerInit ==
  /\ Init
  /\ teed = NoUpdate /\ atSecond = FALSE
  /\ known = [n \in Name |-> FALSE]
  /\ addrs = [n \in Name |-> [c \in Id |-> None]]
  /\ names = {} /\ entries = NoEntries
  /\ fwd = [n \in Name |-> None]
  /\ ingress = [n \in Name |-> 0]
  /\ failed = FALSE

-----------------------------------------------------------------------------
(***************************************************************************)
(* The agent.                                                              *)
(***************************************************************************)
\* syncInstances handles one input, as in SyncInstances; its sources may send
\* anything at any time.
Syncs ==
  /\ \/ \E conts \in [Id -> Body \cup {None}] : ContainersReset(conts)
     \/ \E id \in Id, body \in Body : ContainerStarted(id, body)
     \/ \E id \in Id : ContainerDied(id)
     \/ \E svcs \in [Name -> Info \cup {None}] : ServicesReset(svcs)
     \/ \E name \in Name, info \in Info : ServiceUpdated(name, info)
     \/ \E name \in Name : ServiceRemoved(name)
     \/ InstancesReset
  /\ UNCHANGED <<tee, server, failed>>

\* The Tee receives; syncInstances is free to go on.
TeeReceives ==
  /\ teed = NoUpdate /\ update # NoUpdate
  /\ teed' = update /\ update' = NoUpdate
  /\ UNCHANGED <<state, resetWanted, resetAsked, reader, view, atSecond, server, failed>>

\* A variant in which whoever is ready takes the update.
EitherTakes ==
  /\ teed # NoUpdate
  /\ teed' = NoUpdate /\ atSecond' = FALSE
  /\ UNCHANGED <<state, update, resetWanted, resetAsked, server, failed>>

\* setInstances takes what the Tee sends second and writes all of it, or fails.
SecondTakes ==
  /\ teed # NoUpdate /\ atSecond
  /\ teed' = NoUpdate /\ atSecond' = FALSE
  /\ UNCHANGED <<state, update, resetWanted, resetAsked, server, failed>>

SetApplies == SecondTakes /\ view' = Apply(teed, view) /\ UNCHANGED reader

SetFails ==
  /\ SecondTakes
  /\ \E written \in SUBSET (Name \X Id) :
       view' = [n \in Name |-> [c \in Id |->
                 IF <<n, c>> \in written THEN Apply(teed, view)[n][c] ELSE view[n][c]]]
  /\ reader' = "failed"

SetRestarts ==
  /\ ReaderRestarts
  /\ UNCHANGED <<tee, server, failed>>

-----------------------------------------------------------------------------
(***************************************************************************)
(* The server side.                                                        *)
(***************************************************************************)
Busy == names # {} \/ entries # NoEntries

Instances(n) == {c \in Id : addrs[n][c] # None}

\* processServiceUpdate: Services, or with Reset those of all services.
ServerServices(svcs, touched) ==
  /\ ~Busy
  /\ known' = [n \in Name |-> IF n \in touched THEN n \in svcs ELSE known[n]]
  /\ names' = touched
  /\ UNCHANGED <<vars, tee, addrs, entries, fwd, ingress, failed>>

\* A variant that takes a key that is missing from the update for a value.
MissingAsAddress(entry) ==
  IF entry \in {None, Untouched} THEN entry ELSE entry.address

\* *inst.Address, None when there is no instance or no address.
AddressOf(entry) == IF entry \in {None, Untouched} THEN None ELSE entry.address

\* A variant that forgets the address of an instance that has none any more
\* and, with it, of one that the update does not mention.
AddressOrNone(entry, had) == AddressOf(entry)

\* What an entry of an incremental update makes of the address kept for it:
\* an instance without an address is passed over.
EntryAddress(entry, had) ==
  IF entry # None /\ AddressOf(entry) = None THEN had ELSE AddressOf(entry)

\* All of an update: a reset keeps nothing.
AddressesAfter(u, had) ==
  [n \in Name |-> [c \in Id |->
    IF u.reset THEN AddressOf(u.instances[n][c])
               ELSE EntryAddress(u.instances[n][c], had[n][c])]]

\* The Tee sends to the server side first.
FirstTakes ==
  /\ ~Busy
  /\ teed # NoUpdate /\ ~atSecond
  /\ atSecond' = TRUE
  /\ UNCHANGED <<vars, teed, known, fwd, ingress, failed>>

\* processInstanceReset: instances without an address are left out.
ServerReset ==
  /\ FirstTakes /\ teed.reset
  /\ addrs' = AddressesAfter(teed, addrs)
  /\ names' = Name
  /\ UNCHANGED entries

\* processInstanceUpdate begins: its entries are processed one by one.
ServerIncrement ==
  /\ FirstTakes /\ ~teed.reset
  /\ entries' = teed.instances
  /\ UNCHANGED <<addrs, names>>

\* One entry: the address is put in or taken out, then updateService follows.
ServerEntry(n, c) ==
  /\ names = {} /\ entries[n][c] # Untouched
  /\ addrs' = [addrs EXCEPT ![n][c] = EntryAddress(entries[n][c], @)]
  /\ entries' = [entries EXCEPT ![n][c] = Untouched]
  /\ names' = IF entries[n][c] = None \/ AddressOf(entries[n][c]) # None THEN {n} ELSE {}
  /\ UNCHANGED <<vars, tee, known, fwd, ingress, failed>>

\* A variant that leaves a service without instances its forwarder.
KnownOnly(n) == known[n]

Wanted(n) == known[n] /\ Instances(n) # {}

\* updateService, the service having instances: forwarder, pool and record.
Publish(n) ==
  /\ n \in names /\ Wanted(n)
  /\ names' = names \ {n}
  /\ \/ /\ fwd' = [fwd EXCEPT ![n] = Instances(n)]
        /\ \/ ingress' = [ingress EXCEPT ![n] = Cardinality(Instances(n))]
              /\ UNCHANGED failed
           \/ failed' = TRUE /\ UNCHANGED ingress              \* AddIngressInstance failed
     \/ /\ fwd[n] = None /\ failed' = TRUE                     \* forwarder.New failed
        /\ UNCHANGED <<fwd, ingress>>
  /\ UNCHANGED <<vars, tee, known, addrs, entries>>

\* A variant that takes the record for the forwarder's business.
StopForwarder(n) ==
  /\ n \in names /\ ~Wanted(n)
  /\ names' = names \ {n}
  /\ fwd' = [fwd EXCEPT ![n] = None]
  /\ UNCHANGED <<vars, tee, known, addrs, entries, ingress, failed>>

\* updateService otherwise: the forwarder, if any, is stopped and unpublished.
Withdraw(n) ==
  /\ n \in names /\ ~Wanted(n)
  /\ names' = names \ {n}
  /\ fwd' = [fwd EXCEPT ![n] = None]
  /\ \/ ingress' = [ingress EXCEPT ![n] = IF fwd[n] = None THEN @ ELSE 0]
        /\ UNCHANGED failed
     \/ fwd[n] # None /\ failed' = TRUE /\ UNCHANGED ingress   \* RemoveIngressInstance failed
  /\ UNCHANGED <<vars, tee, known, addrs, entries>>

\* A forwarder's AcceptTCP fails: it stays in place, and accepts no more.
AcceptFails(n) ==
  /\ fwd[n] # None /\ failed' = TRUE
  /\ UNCHANGED <<vars, tee, server>>

ServerNext ==
  \/ Syncs
  \/ TeeReceives \/ SetApplies \/ SetFails \/ SetRestarts
  \/ \E svcs \in SUBSET Name : ServerServices(svcs, Name)
  \/ \E n \in Name, svcs \in SUBSET Name : ServerServices(svcs, {n})
  \/ ServerReset \/ ServerIncrement
  \/ \E n \in Name, c \in Id : ServerEntry(n, c)
  \/ \E n \in Name : Publish(n) \/ Withdraw(n) \/ AcceptFails(n)

ServerSpec == ServerInit /\ [][~failed /\ ServerNext]_allVars

-----------------------------------------------------------------------------
(***************************************************************************)
(* What each of the two receivers will hold once it has all that is on its *)
(* way: first the rest of what it works on, then what the Tee has for it,  *)
(* then what syncInstances is sending.                                     *)
(***************************************************************************)
ServerWillHold ==
  LET rest == AddressesAfter([reset |-> FALSE, instances |-> entries], addrs)
      next == IF atSecond THEN rest ELSE AddressesAfter(teed, rest)
  IN  AddressesAfter(update, next)

(***************************************************************************)
(* The Tee keeps both receivers in step with the agent (tee.go:50), though *)
(* one may fail, sleep and ask for a reset that the other has no need of.  *)
(* The store will hold a match of what the agent knows; the server side    *)
(* will hold the address of every instance that has one, and no instance   *)
(* that has gone.  (One that loses its address in an incremental update    *)
(* keeps the old one, serverside.go:166, until a reset.)                   *)
(***************************************************************************)
BothInSync ==
  Known =>
    \A n \in Name, c \in Id :
      /\ ReaderSound => Apply(update, Apply(teed, view))[n][c] \in
                          Candidates(services[n], containers[c])
      /\ instances[n][c] = None => ServerWillHold[n][c] = None
      /\ instances[n][c] # None /\ instances[n][c].address # None
           => ServerWillHold[n][c] = instances[n][c].address

(***************************************************************************)
(* Between two inputs the forwarders are those of the services that are    *)
(* known and have instances, each with these instances, and its record in  *)
(* the store has their number for its weight: no record is left for a port *)
(* nobody listens on (serverside.go:183-217).  An error lifts this, since  *)
(* it stops fluxd.                                                         *)
(***************************************************************************)
ForwardersMatch ==
  ~Busy /\ ~failed =>
    \A n \in Name :
      IF known[n] /\ \E c \in Id : addrs[n][c] # None
      THEN fwd[n] = Instances(n) /\ ingress[n] = Cardinality(fwd[n])
      ELSE fwd[n] = None /\ ingress[n] = 0

=============================================================================
