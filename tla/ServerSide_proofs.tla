------------------------- MODULE ServerSide_proofs -------------------------
(***************************************************************************)
(* Proofs about ServerSide: for any services, containers, rules and        *)
(* addresses, and any failures of setInstances and the store, both         *)
(* receivers behind the Tee stay in step with the agent, and forwarders    *)
(* and ingress records with what the server side knows.                    *)
(***************************************************************************)
EXTENDS ServerSide, TLAPS, FiniteSetTheorems

(***************************************************************************)
(* To syncInstances the Tee and setInstances are one reader, which holds   *)
(* what the store will hold once it has what the Tee has for it.  So the   *)
(* lemmas about syncInstances with one reader can be used for its steps.   *)
(***************************************************************************)
Front == INSTANCE SyncInstances_proofs WITH view <- Apply(teed, view)

\* What the server side will hold once it has what the Tee has for it.
Rest  == AddressesAfter([reset |-> FALSE, instances |-> entries], addrs)
Ahead == IF atSecond THEN Rest ELSE AddressesAfter(teed, Rest)

\* The address w that is kept for an instance e, possibly absent.
Keeps(e, w) ==
  /\ e = None => w = None
  /\ e # None /\ e.address # None => w = e.address

ServerHolds ==
  Known => \A n \in Name, c \in Id : Keeps(instances[n][c], ServerWillHold[n][c])

Matches(n) ==
  IF Wanted(n)
  THEN fwd[n] = Instances(n) /\ ingress[n] = Cardinality(Instances(n))
  ELSE fwd[n] = None /\ ingress[n] = 0

\* Forwarder and record are right unless updateService is still to be called,
\* and there is no record without a forwarder.
Published ==
  \A n \in Name : (n \in names \/ Matches(n)) /\ (fwd[n] = None => ingress[n] = 0)

ServerInv ==
  /\ ServerTypeOK
  /\ Front!SyncInv
  /\ atSecond => teed # NoUpdate
  /\ ServerHolds
  /\ ~failed => Published

-----------------------------------------------------------------------------
\* The definitions that the two ways of seeing syncInstances share.
LEMMA Shared ==
  /\ Front!Instance = Instance
  /\ \A i, b : Front!Candidates(i, b) = Candidates(i, b)
  /\ \A u, v : Front!Apply(u, v) = Apply(u, v)
  /\ Front!InstanceUpdate = InstanceUpdate
  /\ Front!NoUpdate = NoUpdate /\ Front!NoInsts = NoInsts /\ Front!NoNames = NoNames
  /\ \A m : Front!NamesOf(m) = NamesOf(m)
  /\ \A m, s, b : Front!IsMatch(m, s, b) <=> IsMatch(m, s, b)
<1>1. Front!Instance = Instance
  BY DEF Front!Instance, Instance, Front!AllExtractions, AllExtractions,
    Front!Extractions, Extractions, Front!ExtractInstance, ExtractInstance,
    Front!ExtractAddress, ExtractAddress, Front!MappedPortAddress, MappedPortAddress,
    Front!FixedPortAddress, FixedPortAddress, Front!Includes, Includes, Front!Label, Label
<1>2. \A i, b : Front!Candidates(i, b) = Candidates(i, b)
  BY DEF Front!Candidates, Candidates,
    Front!Extractions, Extractions, Front!ExtractInstance, ExtractInstance,
    Front!ExtractAddress, ExtractAddress, Front!MappedPortAddress, MappedPortAddress,
    Front!FixedPortAddress, FixedPortAddress, Front!Includes, Includes, Front!Label, Label
<1>3. \A u, v : Front!Apply(u, v) = Apply(u, v)
  BY DEF Front!Apply, Apply
<1>4. Front!InstanceUpdate = InstanceUpdate
  BY <1>1 DEF Front!InstanceUpdate, InstanceUpdate
<1>5. Front!NoUpdate = NoUpdate /\ Front!NoInsts = NoInsts /\ Front!NoNames = NoNames
  BY DEF Front!NoUpdate, NoUpdate, Front!NoInsts, NoInsts, Front!NoNames, NoNames
<1>6. \A m : Front!NamesOf(m) = NamesOf(m)
  BY DEF Front!NamesOf, NamesOf
<1>7. \A m, s, b : Front!IsMatch(m, s, b) <=> IsMatch(m, s, b)
  BY <1>2 DEF Front!IsMatch, IsMatch
<1>8. QED
  BY <1>1, <1>2, <1>3, <1>4, <1>5, <1>6, <1>7

\* What the lemmas of SyncInstances_proofs assume of the constants.
LEMMA Premise ==
  None \notin Info \cup Body /\ Untouched \notin Front!Instance \cup {None}
BY SyncAssumption, Shared

\* The types of syncInstances as the Tee's reader sees them are its own.
LEMMA FrontTypes ==
  Front!TypeOK /\ view \in [Name -> [Id -> Instance \cup {None}]] => TypeOK
BY Shared DEF Front!TypeOK, TypeOK, Front!Source, Source

\* A step of syncInstances is one as the Tee's reader sees it.
LEMMA FrontSteps ==
  ASSUME Front!SyncInv, Syncs
  PROVE  Front!SyncInv'
<1>0. UNCHANGED tee
  BY DEF Syncs, tee
<1>1. ASSUME NEW conts \in [Id -> Body \cup {None}], ContainersReset(conts)
      PROVE  Front!SyncInv'
  <2>1. Front!ContainersReset(conts)
    BY <1>0, <1>1, Shared
    DEF ContainersReset, Front!ContainersReset, tee, Idle, Front!Idle, state, Front!state, Send, Front!Send
  <2>2. QED
    BY <2>1, Premise, Front!ContainersResetInv
<1>2. ASSUME NEW id \in Id, NEW body \in Body, ContainerStarted(id, body)
      PROVE  Front!SyncInv'
  <2>1. Front!ContainerStarted(id, body)
    BY <1>0, <1>2, Shared
    DEF ContainerStarted, Front!ContainerStarted, tee, Idle, Front!Idle, state, Front!state, Send, Front!Send
  <2>2. QED
    BY <2>1, Premise, Front!ContainerStartedInv
<1>3. ASSUME NEW id \in Id, ContainerDied(id)
      PROVE  Front!SyncInv'
  <2>1. Front!ContainerDied(id)
    BY <1>0, <1>3, Shared
    DEF ContainerDied, Front!ContainerDied, tee, Idle, Front!Idle, state, Front!state, Send, Front!Send
  <2>2. QED
    BY <2>1, Premise, Front!ContainerDiedInv
<1>4. ASSUME NEW svcs \in [Name -> Info \cup {None}], ServicesReset(svcs)
      PROVE  Front!SyncInv'
  <2>1. Front!ServicesReset(svcs)
    BY <1>0, <1>4, Shared
    DEF ServicesReset, Front!ServicesReset, tee, Idle, Front!Idle, state, Front!state, Send, Front!Send
  <2>2. QED
    BY <2>1, Premise, Front!ServicesResetInv
<1>5. ASSUME NEW name \in Name, NEW info \in Info, ServiceUpdated(name, info)
      PROVE  Front!SyncInv'
  <2>1. Front!ServiceUpdated(name, info)
    BY <1>0, <1>5, Shared
    DEF ServiceUpdated, Front!ServiceUpdated, tee, Idle, Front!Idle, state, Front!state, Send, Front!Send
  <2>2. QED
    BY <2>1, Premise, Front!ServiceUpdatedInv
<1>6. ASSUME NEW name \in Name, ServiceRemoved(name)
      PROVE  Front!SyncInv'
  <2>1. Front!ServiceRemoved(name)
    BY <1>0, <1>6, Shared
    DEF ServiceRemoved, Front!ServiceRemoved, tee, Idle, Front!Idle, state, Front!state, Send, Front!Send
  <2>2. QED
    BY <2>1, Premise, Front!ServiceRemovedInv
<1>7. CASE InstancesReset
  <2>1. Front!InstancesReset
    BY <1>0, <1>7, Shared DEF InstancesReset, Front!InstancesReset, tee, Idle, Front!Idle, Source, Front!Source
  <2>2. QED
    BY <2>1, Premise, Front!InstancesResetInv
<1>8. QED
  BY <1>1, <1>2, <1>3, <1>4, <1>5, <1>6, <1>7 DEF Syncs

-----------------------------------------------------------------------------
\* What an update leaves for one instance.
LEMMA AfterEntry ==
  ASSUME NEW u, NEW had, NEW n \in Name, NEW c \in Id
  PROVE  AddressesAfter(u, had)[n][c] =
           IF u.reset THEN AddressOf(u.instances[n][c])
           ELSE EntryAddress(u.instances[n][c], had[n][c])
BY DEF AddressesAfter

\* Entries that say nothing, or that the instance has gone.
LEMMA NoAddress ==
  /\ AddressOf(None) = None /\ AddressOf(Untouched) = None
  /\ \A had : EntryAddress(None, had) = None /\ EntryAddress(Untouched, had) = had
BY SyncAssumption DEF AddressOf, EntryAddress

\* An entry for an instance keeps its address if it has one.
LEMMA InstanceKeeps ==
  ASSUME NEW e \in Instance \cup {None}, NEW had
  PROVE  Keeps(e, AddressOf(e)) /\ Keeps(e, EntryAddress(e, had))
BY SyncAssumption DEF Keeps, AddressOf, EntryAddress

\* Nothing sent, nothing changed.
LEMMA AfterNothing ==
  ASSUME NEW had, NEW n \in Name, NEW c \in Id
  PROVE  AddressesAfter(NoUpdate, had)[n][c] = had[n][c]
BY AfterEntry, NoAddress DEF NoUpdate

\* An entry makes an address, or none, of an address, or none.
LEMMA EntryType ==
  ASSUME NEW e \in Instance \cup {None, Untouched}, NEW had \in Address
  PROVE  AddressOf(e) \in Address /\ EntryAddress(e, had) \in Address
BY DEF AddressOf, EntryAddress, Address

\* The server side will hold what it will hold after the Tee's update, changed
\* by the update that is being sent.
LEMMA WillHold ==
  /\ ServerWillHold = AddressesAfter(update, Ahead)
  /\ ServerWillHold' = AddressesAfter(update', Ahead')
BY DEF ServerWillHold, Ahead, Rest

(***************************************************************************)
(* What syncInstances sends: an entry is the instance it now remembers, a  *)
(* key without an entry has not changed, or has no instance in a reset.    *)
(***************************************************************************)
Sent ==
  \/ Known /\ UNCHANGED <<instances, update>>
  \/ /\ update = NoUpdate
     /\ \A n \in Name, c \in Id :
          IF update'.instances[n][c] # Untouched
          THEN update'.instances[n][c] = instances'[n][c]
          ELSE IF update'.reset THEN instances'[n][c] = None
               ELSE Known /\ instances'[n][c] = instances[n][c]

\* With full information after it, every step sends what it has changed.
LEMMA SyncsSent ==
  ASSUME Front!SyncInv, Syncs, Known'
  PROVE  Sent
<1> USE DEF Idle
<1>t. /\ instances \in [Name -> [Id -> Instance \cup {None}]]
      /\ contInstances \in [Id -> SUBSET Name]
  BY Shared DEF Front!SyncInv, Front!TypeOK
<1>i. \A n \in Name, c \in Id :
        instances[n][c] # None => n \in contInstances[c] /\ containers[c] # None
  BY DEF Front!SyncInv, Front!IndexOK
<1>n. containersNil \in BOOLEAN /\ servicesNil \in BOOLEAN /\ None # Untouched
  BY SyncAssumption DEF Front!SyncInv, Front!TypeOK
<1>0. ASSUME UNCHANGED <<state, update>>
      PROVE  Sent
  BY <1>0 DEF Sent, state, Known
<1>1. ASSUME NEW conts \in [Id -> Body \cup {None}], ContainersReset(conts)
      PROVE  Sent
  <2>1. ~servicesNil
    BY <1>1 DEF ContainersReset, Known
  <2>2. PICK m \in [Name -> [Id -> Instance \cup {None}]] :
          /\ instances' = m
          /\ Send(TRUE, [n \in Name |-> [c \in Id |->
                           IF m[n][c] # None THEN m[n][c] ELSE Untouched]])
    BY <1>1, <2>1 DEF ContainersReset
  <2>3. update = NoUpdate
    BY <1>1 DEF ContainersReset
  <2>4. \A n \in Name, c \in Id :
          update'.instances[n][c] = IF instances'[n][c] # None THEN instances'[n][c] ELSE Untouched
    BY <2>2 DEF Send
  <2>5. update'.reset
    BY <2>2 DEF Send
  <2>6. \A n \in Name, c \in Id : instances'[n][c] # Untouched
    BY <2>2, SyncAssumption
  <2>7. QED
    BY <2>3, <2>4, <2>5, <2>6 DEF Sent
<1>2. ASSUME NEW svcs \in [Name -> Info \cup {None}], ServicesReset(svcs)
      PROVE  Sent
  <2>1. ~containersNil
    BY <1>2 DEF ServicesReset, Known
  <2>2. PICK m \in [Name -> [Id -> Instance \cup {None}]] :
          /\ instances' = m
          /\ Send(TRUE, [n \in Name |-> [c \in Id |->
                           IF m[n][c] # None THEN m[n][c] ELSE Untouched]])
    BY <1>2, <2>1 DEF ServicesReset
  <2>3. update = NoUpdate
    BY <1>2 DEF ServicesReset
  <2>4. \A n \in Name, c \in Id :
          update'.instances[n][c] = IF instances'[n][c] # None THEN instances'[n][c] ELSE Untouched
    BY <2>2 DEF Send
  <2>5. update'.reset
    BY <2>2 DEF Send
  <2>6. \A n \in Name, c \in Id : instances'[n][c] # Untouched
    BY <2>2, SyncAssumption
  <2>7. QED
    BY <2>3, <2>4, <2>5, <2>6 DEF Sent
<1>3. ASSUME NEW id \in Id, NEW body \in Body, ContainerStarted(id, body)
      PROVE  Sent
  <2>1. CASE containersNil \/ containers[id] # None
    BY <1>0, <1>3, <2>1 DEF ContainerStarted
  <2>2. CASE ~(containersNil \/ containers[id] # None)
    <3>1. UNCHANGED <<servicesNil, containersNil>> /\ ~servicesNil
      BY <1>3, <2>2 DEF ContainerStarted, Known
    <3>2. PICK m \in [Name -> Instance \cup {None}] :
            LET hit == {n \in Name : m[n] # None}
            IN /\ instances' = [n \in Name |->
                    IF n \in hit THEN [instances[n] EXCEPT ![id] = m[n]] ELSE instances[n]]
               /\ Send(FALSE, [n \in Name |-> [c \in Id |->
                    IF c = id /\ n \in hit THEN m[n] ELSE Untouched]])
      BY <1>3, <2>2, <3>1 DEF ContainerStarted
    <3>3. \A n \in Name, c \in Id :
            instances'[n][c] = IF c = id /\ m[n] # None THEN m[n] ELSE instances[n][c]
      BY <1>t, <3>2
    <3>4. \A n \in Name : m[n] # Untouched
      BY SyncAssumption
    <3>5. update = NoUpdate
      BY <1>3 DEF ContainerStarted
    <3>6. /\ ~update'.reset
          /\ \A n \in Name, c \in Id :
               update'.instances[n][c] = IF c = id /\ m[n] # None THEN m[n] ELSE Untouched
      BY <3>2 DEF Send
    <3>7. QED
      BY <3>1, <3>3, <3>4, <3>5, <3>6 DEF Sent, Known
  <2>3. QED
    BY <2>1, <2>2
<1>4. ASSUME NEW id \in Id, ContainerDied(id)
      PROVE  Sent
  <2>1. CASE containersNil \/ containers[id] = None
    BY <1>0, <1>4, <2>1 DEF ContainerDied
  <2>2. CASE ~(containersNil \/ containers[id] = None)
    <3>1. UNCHANGED <<servicesNil, containersNil>> /\ ~servicesNil
      BY <1>4, <2>2 DEF ContainerDied, Known
    <3>2. /\ instances' = [n \in Name |->
                IF n \in contInstances[id] THEN [instances[n] EXCEPT ![id] = None]
                                           ELSE instances[n]]
          /\ Send(FALSE, [n \in Name |-> [c \in Id |->
                IF c = id /\ n \in contInstances[id] THEN None ELSE Untouched]])
      BY <1>4, <2>2, <3>1 DEF ContainerDied
    <3>3. \A n \in Name, c \in Id :
            instances'[n][c] = IF c = id /\ n \in contInstances[id] THEN None ELSE instances[n][c]
      BY <1>t, <3>2
    <3>4. QED
      BY <1>4, <1>n, <2>2, <3>1, <3>2, <3>3 DEF Sent, Send, Known, ContainerDied
  <2>3. QED
    BY <2>1, <2>2
<1>5. ASSUME NEW name \in Name, NEW info \in Info, ServiceUpdated(name, info)
      PROVE  Sent
  <2>1. ~servicesNil
    BY <1>5 DEF ServiceUpdated, state, Known
  <2>2. PICK m \in [Id -> Instance \cup {None}] :
          LET hit  == {c \in Id : m[c] # None}
              gone == {c \in Id : instances[name][c] # None} \ hit
          IN /\ instances' = [instances EXCEPT ![name] = m]
             /\ Send(FALSE, [n \in Name |-> [c \in Id |->
                  IF n = name /\ c \in hit THEN m[c]
                  ELSE IF n = name /\ c \in gone THEN None ELSE Untouched]])
             /\ UNCHANGED <<servicesNil, containersNil>>
    BY <1>5, <2>1 DEF ServiceUpdated
  <2>3. \A n \in Name, c \in Id :
          instances'[n][c] = IF n = name THEN m[c] ELSE instances[n][c]
    BY <1>t, <2>2
  <2>4. \A c \in Id : m[c] # Untouched
    BY SyncAssumption
  <2>5. update = NoUpdate
    BY <1>5 DEF ServiceUpdated
  <2>6. /\ ~update'.reset
        /\ \A n \in Name, c \in Id :
             update'.instances[n][c] =
               IF n = name /\ m[c] # None THEN m[c]
               ELSE IF n = name /\ instances[name][c] # None THEN None ELSE Untouched
    BY <2>2 DEF Send
  <2>7. QED
    BY <1>n, <2>1, <2>2, <2>3, <2>4, <2>5, <2>6 DEF Sent, Known
<1>6. ASSUME NEW name \in Name, ServiceRemoved(name)
      PROVE  Sent
  <2>1. CASE servicesNil \/ services[name] = None
    BY <1>0, <1>6, <2>1 DEF ServiceRemoved
  <2>2. CASE ~(servicesNil \/ services[name] = None)
    <3>1. UNCHANGED <<servicesNil, containersNil>> /\ ~containersNil
      BY <1>6, <2>2 DEF ServiceRemoved, Known
    <3>2. LET had == {c \in Id : instances[name][c] # None}
          IN /\ instances' = [instances EXCEPT ![name] = [c \in Id |-> None]]
             /\ Send(FALSE, [n \in Name |-> [c \in Id |->
                  IF n = name /\ c \in had THEN None ELSE Untouched]])
      BY <1>6, <2>2, <3>1 DEF ServiceRemoved
    <3>3. \A n \in Name, c \in Id :
            instances'[n][c] = IF n = name THEN None ELSE instances[n][c]
      BY <1>t, <3>2
    <3>4. QED
      BY <1>6, <1>n, <2>2, <3>1, <3>2, <3>3 DEF Sent, Send, Known, ServiceRemoved
  <2>3. QED
    BY <2>1, <2>2
<1>7. ~InstancesReset
  BY DEF InstancesReset, Known
<1>8. QED
  BY <1>1, <1>2, <1>3, <1>4, <1>5, <1>6, <1>7 DEF Syncs

(***************************************************************************)
(* What the server side will hold, unless syncInstances takes a step,      *)
(* follows from the entries it will hold after the Tee's update.           *)
(***************************************************************************)
LEMMA HoldsAhead ==
  ASSUME ServerHolds, UNCHANGED <<servicesNil, containersNil, instances, update>>,
         \A n \in Name, c \in Id : Ahead'[n][c] = Ahead[n][c]
  PROVE  ServerHolds'
<1>1. \A n \in Name, c \in Id : ServerWillHold'[n][c] = ServerWillHold[n][c]
  BY WillHold, AfterEntry
<1>2. QED
  BY <1>1 DEF ServerHolds, Known

\* An update sent brings the server side what syncInstances remembers.
LEMMA SyncsHold ==
  ASSUME Front!SyncInv, ServerHolds, Syncs
  PROVE  ServerHolds'
<1> SUFFICES ASSUME Known', NEW n \in Name, NEW c \in Id
             PROVE  Keeps(instances'[n][c], ServerWillHold'[n][c])
  BY DEF ServerHolds
<1>1. Ahead' = Ahead
  BY DEF Syncs, tee, server, Ahead, Rest
<1>2. ServerWillHold'[n][c] =
        IF update'.reset THEN AddressOf(update'.instances[n][c])
        ELSE EntryAddress(update'.instances[n][c], Ahead[n][c])
  BY <1>1, WillHold, AfterEntry
<1>3. instances'[n][c] \in Instance \cup {None}
  <2>1. Front!TypeOK'
    BY FrontSteps DEF Front!SyncInv
  <2>2. QED
    BY <2>1, Shared DEF Front!TypeOK
<1>4. CASE Known /\ UNCHANGED <<instances, update>>
  BY <1>1, <1>4, WillHold DEF ServerHolds
<1>5. CASE /\ update = NoUpdate
           /\ update'.instances[n][c] # Untouched
           /\ update'.instances[n][c] = instances'[n][c]
  BY <1>2, <1>3, <1>5, InstanceKeeps
<1>6. CASE /\ update'.instances[n][c] = Untouched /\ update'.reset
           /\ instances'[n][c] = None
  BY <1>2, <1>6, NoAddress DEF Keeps
<1>7. CASE /\ update = NoUpdate
           /\ update'.instances[n][c] = Untouched /\ ~update'.reset
           /\ Known /\ instances'[n][c] = instances[n][c]
  <2>1. ServerWillHold[n][c] = Ahead[n][c]
    BY <1>7, WillHold, AfterNothing
  <2>2. QED
    BY <1>2, <1>7, <2>1, NoAddress DEF ServerHolds
<1>8. QED
  BY <1>4, <1>5, <1>6, <1>7, SyncsSent DEF Sent

-----------------------------------------------------------------------------
\* What updates make of the entries keeps its type.
LEMMA AfterType ==
  ASSUME NEW u \in InstanceUpdate, NEW had \in [Name -> [Id -> Address]]
  PROVE  AddressesAfter(u, had) \in [Name -> [Id -> Address]]
<1>1. ASSUME NEW n \in Name, NEW c \in Id
      PROVE  /\ AddressOf(u.instances[n][c]) \in Address
             /\ EntryAddress(u.instances[n][c], had[n][c]) \in Address
  BY EntryType DEF InstanceUpdate
<1>2. QED
  BY <1>1 DEF AddressesAfter

\* What setInstances holds keeps its type, and so does what it will hold.
LEMMA ApplyTypes ==
  ASSUME NEW u \in InstanceUpdate, NEW v \in [Name -> [Id -> Instance \cup {None}]]
  PROVE  Apply(u, v) \in [Name -> [Id -> Instance \cup {None}]]
BY DEF Apply, InstanceUpdate

\* An update without entries changes nothing.
LEMMA ApplyNothing ==
  ASSUME NEW v \in [Name -> [Id -> Instance \cup {None}]]
  PROVE  Apply(NoUpdate, v) = v
BY DEF Apply, NoUpdate

\* The weight of an ingress record.
LEMMA WeightType ==
  ASSUME NEW n \in Name
  PROVE  Cardinality(Instances(n)) \in 0 .. Cardinality(Id)
<1>1. Instances(n) \subseteq Id
  BY DEF Instances
<1>2. QED
  BY <1>1, ServerAssumption, FS_Subset, FS_CardinalityType

\* The types of what the initial state and the steps assign.
LEMMA ConstantTypes ==
  /\ NoUpdate \in InstanceUpdate
  /\ NoEntries \in [Name -> [Id -> Instance \cup {None, Untouched}]]
  /\ None \in Address
BY DEF NoUpdate, NoEntries, InstanceUpdate, Address

-----------------------------------------------------------------------------
\* The invariant holds when fluxd starts.
LEMMA ServerInitInv == ServerInit => ServerInv
<1> SUFFICES ASSUME ServerInit PROVE ServerInv
  OBVIOUS
<1>1. ServerTypeOK
  <2>1. TypeOK
    BY ConstantTypes DEF ServerInit, Init, TypeOK, Source, NoInsts, NoNames
  <2>2. 0 \in 0 .. Cardinality(Id)
    BY ServerAssumption, FS_CardinalityType
  <2>3. fwd \in [Name -> (SUBSET Id) \cup {None}]
    BY Zenon DEF ServerInit
  <2>4. ingress \in [Name -> 0 .. Cardinality(Id)]
    BY <2>2, Zenon DEF ServerInit
  <2>5. QED
    BY <2>1, <2>3, <2>4, ConstantTypes DEF ServerInit, ServerTypeOK
<1>2. Front!SyncInv
  <2>1. Apply(teed, view) = view
    BY <1>1, ApplyNothing DEF ServerInit, ServerTypeOK, TypeOK
  <2>2. Front!Init
    BY <2>1, Shared DEF ServerInit, Init, Front!Init, Source, Front!Source
  <2>3. QED
    BY <2>2, Premise, Front!InitInv
<1>3. ServerHolds
  BY DEF ServerInit, Init, ServerHolds, Known
<1>4. Published
  BY DEF ServerInit, Published, Matches, Wanted
<1>5. QED
  BY <1>1, <1>2, <1>3, <1>4 DEF ServerInv, ServerInit

(***************************************************************************)
(* A step that leaves syncInstances, its update and all that the store     *)
(* will hold alone.                                                        *)
(***************************************************************************)
LEMMA FrontStays ==
  ASSUME Front!SyncInv, UNCHANGED <<state, update, resetWanted, resetAsked, reader>>,
         Apply(teed', view') = Apply(teed, view)
  PROVE  Front!SyncInv'
<1>1. UNCHANGED <<Front!state, update, resetWanted, resetAsked, reader, Apply(teed, view)>>
  BY Shared DEF Front!state, state, Apply
<1>2. QED
  BY <1>1, Premise, Front!NothingChanges

\* A step of syncInstances.
LEMMA SyncsInv ==
  ASSUME ServerInv, Syncs
  PROVE  ServerInv'
<1>1. Front!SyncInv'
  BY FrontSteps DEF ServerInv
<1>2. ServerHolds'
  BY SyncsHold DEF ServerInv
<1>3. view' = view
  BY DEF Syncs, ContainersReset, ContainerStarted, ContainerDied, ServicesReset,
         ServiceUpdated, ServiceRemoved, InstancesReset
<1>4. TypeOK'
  <2>1. Front!TypeOK'
    BY <1>1 DEF Front!SyncInv
  <2>2. view' \in [Name -> [Id -> Instance \cup {None}]]
    BY <1>3 DEF ServerInv, ServerTypeOK, TypeOK
  <2>3. QED
    BY <2>1, <2>2, Shared DEF Front!TypeOK, TypeOK, Front!Source, Source
<1>5. ServerTypeOK'
  BY <1>4 DEF ServerInv, ServerTypeOK, Syncs, tee, server
<1>6. (~failed => Published)'
  BY DEF ServerInv, Syncs, server, Published, Matches, Wanted, Instances
<1>7. QED
  BY <1>1, <1>2, <1>5, <1>6 DEF ServerInv, Syncs, tee

\* The Tee takes the update: it is on its way as before.
LEMMA TeeReceivesInv ==
  ASSUME ServerInv, TeeReceives
  PROVE  ServerInv'
<1>1. TypeOK /\ ServerTypeOK'
  BY ConstantTypes DEF ServerInv, ServerTypeOK, TypeOK, TeeReceives, state, server
<1>2. Front!SyncInv'
  <2>1. Apply(teed, view) = view
    BY <1>1, ApplyNothing DEF TeeReceives, TypeOK
  <2>2. Apply(teed', view') = Apply(update, Apply(teed, view))
    BY <2>1 DEF TeeReceives
  <2>3. Apply(teed, view)' = Front!Apply(update, Apply(teed, view))
    BY <2>2, Shared DEF Apply
  <2>4. Front!ReaderApplies
    BY <2>3, Shared DEF TeeReceives, Front!ReaderApplies, Front!Idle, Front!state, state
  <2>5. QED
    BY <2>4, Premise, Front!ReaderAppliesInv DEF ServerInv
<1>3. ServerHolds'
  <2>1. ~atSecond /\ ~atSecond'
    BY DEF ServerInv, ServerTypeOK, TeeReceives
  <2>2. ASSUME NEW n \in Name, NEW c \in Id
        PROVE  ServerWillHold'[n][c] = ServerWillHold[n][c]
    <3>1. Rest' = Rest
      BY DEF Rest, TeeReceives, server
    <3>2. ServerWillHold'[n][c] = AddressesAfter(update, Rest)[n][c]
      BY <2>1, <3>1, WillHold, AfterNothing DEF TeeReceives, Ahead
    <3>3. Ahead[n][c] = Rest[n][c]
      BY <2>1, AfterNothing DEF TeeReceives, Ahead
    <3>4. QED
      BY <3>2, <3>3, WillHold, AfterEntry
  <2>3. QED
    BY <2>2 DEF ServerInv, ServerHolds, TeeReceives, state, Known
<1>4. (~failed => Published)'
  BY DEF ServerInv, TeeReceives, server, Published, Matches, Wanted, Instances
<1>5. QED
  BY <1>1, <1>2, <1>3, <1>4 DEF ServerInv, TeeReceives

\* setInstances takes the update: the server side has taken it already.
LEMMA SecondHolds ==
  ASSUME ServerInv, SecondTakes
  PROVE  ServerHolds'
<1>1. Rest' = Rest
  BY DEF Rest, SecondTakes, server
<1>2. \A n \in Name, c \in Id : Ahead'[n][c] = Ahead[n][c]
  BY <1>1, AfterNothing DEF Ahead, SecondTakes
<1>3. QED
  BY <1>2, HoldsAhead DEF ServerInv, SecondTakes, state

\* setInstances holds what it was going to hold.
LEMMA SetAppliesInv ==
  ASSUME ServerInv, SetApplies
  PROVE  ServerInv'
<1>1. /\ Apply(teed, view) \in [Name -> [Id -> Instance \cup {None}]]
      /\ view' = Apply(teed, view) /\ teed' = NoUpdate
  BY ApplyTypes DEF ServerInv, ServerTypeOK, TypeOK, SetApplies, SecondTakes
<1>2. ServerTypeOK'
  BY <1>1, ConstantTypes
  DEF ServerInv, ServerTypeOK, TypeOK, SetApplies, SecondTakes, state, server
<1>3. Front!SyncInv'
  BY <1>1, ApplyNothing, FrontStays DEF ServerInv, SetApplies, SecondTakes
<1>4. (~failed => Published)'
  BY DEF ServerInv, SetApplies, SecondTakes, server, Published, Matches, Wanted, Instances
<1>5. QED
  BY <1>2, <1>3, <1>4, SecondHolds DEF ServerInv, SetApplies, SecondTakes

\* Whatever setInstances has written of it, it will ask for a reset.
LEMMA SetFailsInv ==
  ASSUME ServerInv, SetFails
  PROVE  ServerInv'
<1>1. /\ view' \in [Name -> [Id -> Instance \cup {None}]]
      /\ teed' = NoUpdate /\ reader' = "failed"
  <2>1. Apply(teed, view) \in [Name -> [Id -> Instance \cup {None}]]
    BY ApplyTypes DEF ServerInv, ServerTypeOK, TypeOK
  <2>2. QED
    BY <2>1 DEF ServerInv, ServerTypeOK, TypeOK, SetFails, SecondTakes
<1>2. ServerTypeOK'
  BY <1>1, ConstantTypes
  DEF ServerInv, ServerTypeOK, TypeOK, SetFails, SecondTakes, state, server
<1>3. Front!SyncInv'
  <2>1. Apply(teed', view') \in [Name -> [Id -> Instance \cup {None}]]
    BY <1>1, ApplyTypes, ConstantTypes
  <2>2. Apply(teed, view)' \in [Name -> [Id -> Instance \cup {None}]]
    BY <2>1 DEF Apply
  <2>3. Front!TypeOK'
    BY <1>1, <2>2, Shared
    DEF ServerInv, Front!SyncInv, Front!TypeOK, SetFails, SecondTakes, state, Front!Source
  <2>4. Front!ViewOK'
    BY <1>1 DEF Front!ViewOK, Front!ReaderSound
  <2>5. Front!IndexOK' /\ Front!NilOK' /\ Front!MemoryOK'
    BY Shared DEF ServerInv, Front!SyncInv, SetFails, SecondTakes, state,
      Front!IndexOK, Front!NilOK, Front!MemoryOK, Front!Known, Front!IsMatch
  <2>6. QED
    BY <2>3, <2>4, <2>5 DEF Front!SyncInv
<1>4. (~failed => Published)'
  BY DEF ServerInv, SetFails, SecondTakes, server, Published, Matches, Wanted, Instances
<1>5. QED
  BY <1>2, <1>3, <1>4, SecondHolds DEF ServerInv, SetFails, SecondTakes

\* setInstances asks for a reset; the server side is not told.
LEMMA SetRestartsInv ==
  ASSUME ServerInv, SetRestarts
  PROVE  ServerInv'
<1>1. ServerTypeOK'
  BY DEF ServerInv, ServerTypeOK, TypeOK, SetRestarts, ReaderRestarts, state, server, tee
<1>2. Front!SyncInv'
  <2>1. Apply(teed, view)' = Apply(teed, view)
    BY DEF SetRestarts, ReaderRestarts, tee, Apply
  <2>2. Front!ReaderRestarts
    BY <2>1 DEF SetRestarts, ReaderRestarts, Front!ReaderRestarts, state, Front!state
  <2>3. QED
    BY <2>2, Premise, Front!ReaderRestartsInv DEF ServerInv
<1>3. ServerHolds'
  <2>1. Ahead' = Ahead
    BY DEF Ahead, Rest, SetRestarts, tee, server
  <2>2. QED
    BY <2>1, HoldsAhead DEF ServerInv, SetRestarts, ReaderRestarts, state
<1>4. (~failed => Published)'
  BY DEF ServerInv, SetRestarts, server, Published, Matches, Wanted, Instances
<1>5. QED
  BY <1>1, <1>2, <1>3, <1>4 DEF ServerInv, SetRestarts, tee

-----------------------------------------------------------------------------
(***************************************************************************)
(* The server side's steps leave all else alone.                           *)
(***************************************************************************)
LEMMA ServerStays ==
  ASSUME ServerInv, UNCHANGED <<vars, teed>>
  PROVE  TypeOK' /\ Front!SyncInv'
<1>1. TypeOK'
  BY DEF ServerInv, ServerTypeOK, TypeOK, vars, state
<1>2. Apply(teed', view') = Apply(teed, view)
  BY DEF vars
<1>3. QED
  BY <1>1, <1>2, FrontStays DEF ServerInv, vars

\* Services become known, or are no longer.
LEMMA ServerServicesInv ==
  ASSUME ServerInv, NEW svcs \in SUBSET Name, NEW touched \in SUBSET Name,
         ServerServices(svcs, touched)
  PROVE  ServerInv'
<1>1. ServerTypeOK'
  <2>1. known' \in [Name -> BOOLEAN]
    <3>1. ASSUME NEW n \in Name
          PROVE  (IF n \in touched THEN n \in svcs ELSE known[n]) \in BOOLEAN
      <4>1. known[n] \in BOOLEAN
        BY DEF ServerInv, ServerTypeOK
      <4>2. (n \in svcs) \in BOOLEAN
        OBVIOUS
      <4>3. QED
        BY <4>1, <4>2, Zenon
    <3>2. QED
      BY <3>1, Zenon DEF ServerServices
  <2>2. QED
    BY <2>1, ServerStays DEF ServerInv, ServerTypeOK, ServerServices, tee
<1>2. ServerHolds'
  <2>1. Ahead' = Ahead
    BY DEF Ahead, Rest, ServerServices, tee
  <2>2. QED
    BY <2>1, HoldsAhead DEF ServerInv, ServerServices, vars, state
<1>3. (~failed => Published)'
  BY DEF ServerInv, ServerTypeOK, ServerServices, Busy, Published, Matches, Wanted, Instances
<1>4. QED
  BY <1>1, <1>2, <1>3, ServerStays DEF ServerInv, ServerServices, tee

\* A reset replaces all addresses by those of the Tee's update.
LEMMA ServerResetInv ==
  ASSUME ServerInv, ServerReset
  PROVE  ServerInv'
<1>1. ServerTypeOK'
  BY ServerStays, AfterType DEF ServerInv, ServerTypeOK, ServerReset, FirstTakes
<1>2. ServerHolds'
  <2>1. ASSUME NEW n \in Name, NEW c \in Id
        PROVE  Ahead'[n][c] = Ahead[n][c]
    <3>1. entries' = NoEntries /\ atSecond' /\ ~atSecond
      BY DEF ServerReset, FirstTakes, Busy
    <3>2. Ahead'[n][c] = addrs'[n][c]
      BY <3>1, AfterEntry, NoAddress DEF Ahead, Rest, NoEntries, NoUpdate
    <3>3. Ahead[n][c] = AddressOf(teed.instances[n][c])
      BY <3>1, AfterEntry DEF Ahead, ServerReset
    <3>4. addrs'[n][c] = AddressOf(teed.instances[n][c])
      BY AfterEntry DEF ServerReset
    <3>5. QED
      BY <3>2, <3>3, <3>4
  <2>2. QED
    BY <2>1, HoldsAhead DEF ServerInv, ServerReset, FirstTakes, vars, state
<1>3. (~failed => Published)'
  BY DEF ServerInv, ServerReset, FirstTakes, Published
<1>4. QED
  BY <1>1, <1>2, <1>3, ServerStays DEF ServerInv, ServerReset, FirstTakes

\* The entries of an incremental update are still to be processed.
LEMMA ServerIncrementInv ==
  ASSUME ServerInv, ServerIncrement
  PROVE  ServerInv'
<1>1. ServerTypeOK'
  BY ServerStays DEF ServerInv, ServerTypeOK, ServerIncrement, FirstTakes, InstanceUpdate
<1>2. ServerHolds'
  <2>1. ASSUME NEW n \in Name, NEW c \in Id
        PROVE  Ahead'[n][c] = Ahead[n][c]
    <3>1. /\ entries = NoEntries /\ ~atSecond /\ atSecond'
          /\ entries' = teed.instances /\ addrs' = addrs /\ teed' = teed /\ ~teed.reset
      BY DEF ServerIncrement, FirstTakes, Busy
    <3>2. Rest[n][c] = addrs[n][c]
      BY <3>1, AfterEntry, NoAddress DEF Rest, NoEntries, NoUpdate
    <3>3. Ahead[n][c] = EntryAddress(teed.instances[n][c], addrs[n][c])
      BY <3>1, <3>2, AfterEntry DEF Ahead
    <3>4. Ahead'[n][c] = EntryAddress(teed.instances[n][c], addrs[n][c])
      BY <3>1, AfterEntry DEF Ahead, Rest
    <3>5. QED
      BY <3>3, <3>4
  <2>2. QED
    BY <2>1, HoldsAhead DEF ServerInv, ServerIncrement, FirstTakes, vars, state
<1>3. (~failed => Published)'
  BY DEF ServerInv, ServerIncrement, FirstTakes, Published, Matches, Wanted, Instances
<1>4. QED
  BY <1>1, <1>2, <1>3, ServerStays DEF ServerInv, ServerIncrement, FirstTakes

\* One entry is processed; an address that is not changed needs no update.
LEMMA ServerEntryInv ==
  ASSUME ServerInv, NEW n \in Name, NEW c \in Id, ServerEntry(n, c)
  PROVE  ServerInv'
<1>1. /\ addrs \in [Name -> [Id -> Address]]
      /\ entries \in [Name -> [Id -> Instance \cup {None, Untouched}]]
  BY DEF ServerInv, ServerTypeOK
<1>2. /\ addrs' = [addrs EXCEPT ![n] = [addrs[n] EXCEPT ![c] = EntryAddress(entries[n][c], @)]]
      /\ entries' = [entries EXCEPT ![n] = [entries[n] EXCEPT ![c] = Untouched]]
      /\ names' = IF entries[n][c] = None \/ AddressOf(entries[n][c]) # None THEN {n} ELSE {}
      /\ UNCHANGED <<vars, teed, atSecond, known, fwd, ingress, failed>>
      /\ names = {}
  BY DEF ServerEntry, tee
<1>3. \A m \in Name, d \in Id :
        /\ addrs'[m][d] = IF m = n /\ d = c THEN EntryAddress(entries[n][c], addrs[n][c])
                                            ELSE addrs[m][d]
        /\ entries'[m][d] = IF m = n /\ d = c THEN Untouched ELSE entries[m][d]
  BY <1>1, <1>2
<1>4. ServerTypeOK'
  <2>1. EntryAddress(entries[n][c], addrs[n][c]) \in Address
    BY <1>1, EntryType
  <2>2. addrs' \in [Name -> [Id -> Address]]
    BY <1>1, <1>2, <2>1
  <2>3. entries' \in [Name -> [Id -> Instance \cup {None, Untouched}]]
    BY <1>1, <1>2
  <2>4. names' \subseteq Name
    BY <1>2
  <2>5. QED
    BY <1>2, <2>2, <2>3, <2>4, ServerStays DEF ServerInv, ServerTypeOK
<1>5. ServerHolds'
  <2>1. ASSUME NEW m \in Name, NEW d \in Id
        PROVE  Rest'[m][d] = Rest[m][d]
    <3>1. /\ Rest[m][d] = EntryAddress(entries[m][d], addrs[m][d])
          /\ Rest'[m][d] = EntryAddress(entries'[m][d], addrs'[m][d])
      BY AfterEntry DEF Rest
    <3>2. QED
      BY <1>3, <3>1, NoAddress
  <2>2. \A m \in Name, d \in Id : Ahead'[m][d] = Ahead[m][d]
    BY <1>2, <2>1, AfterEntry DEF Ahead
  <2>3. QED
    BY <1>2, <2>2, HoldsAhead DEF ServerInv, vars, state
<1>6. (~failed => Published)'
  <2>1. SUFFICES ASSUME ~failed, NEW m \in Name
                 PROVE  (m \in names' \/ Matches(m)') /\ (fwd'[m] = None => ingress'[m] = 0)
    BY <1>2 DEF Published
  <2>2. Matches(m) /\ (fwd[m] = None => ingress[m] = 0)
    BY <1>2, <2>1 DEF ServerInv, Published
  <2>3. CASE m \in names'
    BY <1>2, <2>2, <2>3
  <2>4. CASE m \notin names'
    <3>1. \A d \in Id : addrs'[m][d] = addrs[m][d]
      BY <1>2, <1>3, <2>4 DEF EntryAddress
    <3>2. Instances(m)' = Instances(m)
      BY <3>1 DEF Instances
    <3>3. QED
      BY <1>2, <2>2, <3>2 DEF Matches, Wanted
  <2>5. QED
    BY <2>3, <2>4
<1>7. QED
  BY <1>2, <1>4, <1>5, <1>6, ServerStays DEF ServerInv

\* A step of updateService leaves alone what is on its way.
LEMMA UpdateHolds ==
  ASSUME ServerHolds, UNCHANGED <<vars, tee, known, addrs, entries>>
  PROVE  ServerHolds'
<1>1. Ahead' = Ahead
  BY DEF Ahead, Rest, tee
<1>2. QED
  BY <1>1, HoldsAhead DEF vars, state

\* The pool is changed, then the record, or an error ends it all.
LEMMA PublishInv ==
  ASSUME ServerInv, NEW n \in Name, Publish(n)
  PROVE  ServerInv'
<1>1. ServerTypeOK'
  <2>1. Instances(n) \in (SUBSET Id) \cup {None}
    BY DEF Instances
  <2>2. fwd' \in [Name -> (SUBSET Id) \cup {None}] /\ names' \subseteq Name
    BY <2>1 DEF ServerInv, ServerTypeOK, Publish
  <2>3. ingress' \in [Name -> 0 .. Cardinality(Id)] /\ failed' \in BOOLEAN
    BY WeightType DEF ServerInv, ServerTypeOK, Publish
  <2>4. QED
    BY <2>2, <2>3, ServerStays DEF ServerInv, ServerTypeOK, Publish, tee
<1>2. (~failed => Published)'
  <2>1. SUFFICES ASSUME ~failed', NEW m \in Name
                 PROVE  (m \in names' \/ Matches(m)') /\ (fwd'[m] = None => ingress'[m] = 0)
    BY DEF Published
  <2>2. /\ fwd' = [fwd EXCEPT ![n] = Instances(n)]
        /\ ingress' = [ingress EXCEPT ![n] = Cardinality(Instances(n))]
        /\ names' = names \ {n} /\ UNCHANGED <<known, addrs, failed>>
    BY <2>1 DEF Publish
  <2>3. fwd \in [Name -> (SUBSET Id) \cup {None}] /\ ingress \in [Name -> 0 .. Cardinality(Id)]
    BY DEF ServerInv, ServerTypeOK
  <2>4. Wanted(m)' = Wanted(m) /\ Instances(m)' = Instances(m)
    BY <2>2 DEF Wanted, Instances
  <2>5. (m \in names \/ Matches(m)) /\ (fwd[m] = None => ingress[m] = 0)
    BY <2>1, <2>2 DEF ServerInv, Published
  <2>6. CASE m = n
    <3>1. Wanted(m) /\ Instances(m) # None
      BY <2>6, ServerAssumption DEF Publish, Instances
    <3>2. QED
      BY <2>2, <2>3, <2>4, <2>6, <3>1 DEF Matches
  <2>7. CASE m # n
    BY <2>2, <2>4, <2>5, <2>7 DEF Matches
  <2>8. QED
    BY <2>6, <2>7
<1>3. QED
  BY <1>1, <1>2, ServerStays, UpdateHolds DEF ServerInv, Publish, tee

\* No record is left without a forwarder.
LEMMA WithdrawInv ==
  ASSUME ServerInv, NEW n \in Name, Withdraw(n)
  PROVE  ServerInv'
<1>1. fwd \in [Name -> (SUBSET Id) \cup {None}] /\ ingress \in [Name -> 0 .. Cardinality(Id)]
  BY DEF ServerInv, ServerTypeOK
<1>2. ServerTypeOK'
  <2>1. fwd' \in [Name -> (SUBSET Id) \cup {None}] /\ names' \subseteq Name
    BY DEF ServerInv, ServerTypeOK, Withdraw
  <2>2. ingress' \in [Name -> 0 .. Cardinality(Id)] /\ failed' \in BOOLEAN
    <3>1. 0 \in 0 .. Cardinality(Id)
      BY ServerAssumption, FS_CardinalityType
    <3>2. QED
      BY <3>1 DEF ServerInv, ServerTypeOK, Withdraw
  <2>3. QED
    BY <2>1, <2>2, ServerStays DEF ServerInv, ServerTypeOK, Withdraw, tee
<1>3. (~failed => Published)'
  <2>1. SUFFICES ASSUME ~failed', NEW m \in Name
                 PROVE  (m \in names' \/ Matches(m)') /\ (fwd'[m] = None => ingress'[m] = 0)
    BY DEF Published
  <2>2. /\ fwd' = [fwd EXCEPT ![n] = None]
        /\ ingress' = [ingress EXCEPT ![n] = IF fwd[n] = None THEN @ ELSE 0]
        /\ names' = names \ {n} /\ UNCHANGED <<known, addrs, failed>>
    BY <2>1 DEF Withdraw
  <2>3. Wanted(m)' = Wanted(m) /\ Instances(m)' = Instances(m)
    BY <2>2 DEF Wanted, Instances
  <2>4. /\ m \in names \/ Matches(m)
        /\ fwd[m] = None => ingress[m] = 0
    BY <2>1, <2>2 DEF ServerInv, Published
  <2>5. CASE m = n
    <3>1. ~Wanted(m)
      BY <2>5 DEF Withdraw
    <3>2. QED
      BY <1>1, <2>2, <2>3, <2>4, <2>5, <3>1 DEF Matches
  <2>6. CASE m # n
    BY <2>2, <2>3, <2>4, <2>6 DEF Matches
  <2>7. QED
    BY <2>5, <2>6
<1>4. QED
  BY <1>2, <1>3, ServerStays, UpdateHolds DEF ServerInv, Withdraw, tee

\* An error of the forwarder changes nothing else.
LEMMA AcceptFailsInv ==
  ASSUME ServerInv, NEW n \in Name, AcceptFails(n)
  PROVE  ServerInv'
<1>1. ServerTypeOK'
  BY ServerStays DEF ServerInv, ServerTypeOK, AcceptFails, tee, server
<1>2. QED
  BY <1>1, ServerStays, UpdateHolds DEF ServerInv, AcceptFails, tee, server

\* Every step preserves the invariant: one lemma for each action.
LEMMA ServerStepInv == ServerInv /\ [~failed /\ ServerNext]_allVars => ServerInv'
<1> SUFFICES ASSUME ServerInv, [~failed /\ ServerNext]_allVars
             PROVE  ServerInv'
  OBVIOUS
<1>1. CASE UNCHANGED allVars
  <2>1. ServerTypeOK'
    BY <1>1, ServerStays DEF ServerInv, ServerTypeOK, allVars, tee, server
  <2>2. (~failed => Published)'
    BY <1>1 DEF ServerInv, allVars, server, Published, Matches, Wanted, Instances
  <2>3. QED
    BY <1>1, <2>1, <2>2, ServerStays, UpdateHolds DEF ServerInv, allVars, tee, server
<1>2. CASE ServerNext
  <2>1. Name \subseteq Name /\ \A n \in Name : {n} \subseteq Name
    OBVIOUS
  <2>2. QED
    BY <1>2, <2>1, SyncsInv, TeeReceivesInv, SetAppliesInv, SetFailsInv, SetRestartsInv,
       ServerServicesInv, ServerResetInv, ServerIncrementInv, ServerEntryInv,
       PublishInv, WithdrawInv, AcceptFailsInv DEF ServerNext
<1>3. QED
  BY <1>1, <1>2

-----------------------------------------------------------------------------
\* The inductive invariant holds of every reachable state.
LEMMA ServerInvariance == ServerSpec => []ServerInv
BY ServerInitInv, ServerStepInv, PTL DEF ServerSpec

\* The variables keep their types (tee.go:42-63, serverside.go:58-102).
THEOREM ServerTypeCorrect == ServerSpec => []ServerTypeOK
<1>1. ServerInv => ServerTypeOK
  BY DEF ServerInv
<1> QED BY ServerInvariance, <1>1, PTL

\* Once the agent has full information, the store will hold a match of what
\* it knows unless setInstances is failing, and the server side the addresses.
THEOREM ReceiversInSync == ServerSpec => []BothInSync
<1>1. ServerInv => BothInSync
  <2>1. SUFFICES ASSUME ServerInv, Known, NEW n \in Name, NEW c \in Id
                 PROVE  /\ ReaderSound => Apply(update, Apply(teed, view))[n][c] \in
                                             Candidates(services[n], containers[c])
                        /\ instances[n][c] = None => ServerWillHold[n][c] = None
                        /\ instances[n][c] # None /\ instances[n][c].address # None
                             => ServerWillHold[n][c] = instances[n][c].address
    BY DEF BothInSync
  <2>2. Keeps(instances[n][c], ServerWillHold[n][c])
    BY <2>1 DEF ServerInv, ServerHolds
  <2>3. instances[n][c] \in Candidates(services[n], containers[c])
    BY <2>1, Shared DEF ServerInv, Front!SyncInv, Front!MemoryOK, Front!Known, Known, Front!IsMatch
  <2>4. ReaderSound => Apply(update, Apply(teed, view))[n][c] = instances[n][c]
    BY <2>1, Shared
    DEF ServerInv, Front!SyncInv, Front!ViewOK, Front!Known, Known, Front!ReaderSound, ReaderSound
  <2>5. QED
    BY <2>2, <2>3, <2>4 DEF Keeps
<1> QED BY ServerInvariance, <1>1, PTL

\* Between two inputs there is a forwarder, and a record with the number of its
\* instances, for the services that are known and have instances, and no other.
THEOREM ForwardersAgree == ServerSpec => []ForwardersMatch
<1>1. ServerInv => ForwardersMatch
  BY DEF ServerInv, Published, Matches, Wanted, Busy, ForwardersMatch, Instances
<1> QED BY ServerInvariance, <1>1, PTL

=============================================================================
