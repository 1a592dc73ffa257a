------------------------ MODULE SyncInstances_proofs ------------------------
(***************************************************************************)
(* SyncInstances keeps its reader in step with what the agent knows, for   *)
(* every set of services, containers, definitions and extractions.  The    *)
(* induction is over SyncInv: one lemma per action, then the theorems.     *)
(***************************************************************************)
EXTENDS SyncInstances, TLAPS

\* What the reader will hold, entry by entry.
LEMMA ApplyEntry ==
  ASSUME NEW u, NEW v, NEW n \in Name, NEW c \in Id
  PROVE  Apply(u, v)[n][c] = IF u.instances[n][c] # Untouched THEN u.instances[n][c]
                             ELSE IF u.reset THEN None ELSE v[n][c]
BY DEF Apply

\* The reader's entries keep their type, whatever update it applies.
LEMMA ApplyType ==
  ASSUME TypeOK
  PROVE  Apply(update, view) \in [Name -> [Id -> Instance \cup {None}]]
BY DEF TypeOK, InstanceUpdate, Apply

\* The types of what the handlers assign.
LEMMA Types ==
  /\ NoInsts \in [Name -> [Id -> Instance \cup {None}]]
  /\ NoNames \in [Id -> SUBSET Name]
  /\ NoUpdate \in InstanceUpdate
BY DEF NoInsts, NoNames, NoUpdate, InstanceUpdate

\* A well-typed set of entries makes a well-typed update.
LEMMA SendType ==
  ASSUME NEW reset \in BOOLEAN,
         NEW entries \in [Name -> [Id -> Instance \cup {None, Untouched}]],
         Send(reset, entries)
  PROVE  update' \in InstanceUpdate
BY DEF Send, InstanceUpdate

\* Sending nothing changes nothing.
LEMMA ApplyNoUpdate ==
  ASSUME NEW v, NEW n \in Name, NEW c \in Id
  PROVE  Apply(NoUpdate, v)[n][c] = v[n][c]
BY DEF Apply, NoUpdate

\* A candidate is an instance, or None.
LEMMA CandidateType ==
  ASSUME NEW info \in Info \cup {None}, NEW body \in Body \cup {None},
         NEW x \in Candidates(info, body)
  PROVE  /\ x \in Instance \cup {None}
         /\ x # None => info # None /\ body # None
<1>1. CASE info = None \/ body = None
  BY <1>1 DEF Candidates
<1>2. CASE info \in Info /\ body \in Body /\ info # None /\ body # None
  <2>1. x \in Extractions[info][body]
    BY <1>2 DEF Candidates
  <2>2. \E i \in Info, b \in Body : x \in Extractions[i][b]
    BY <1>2, <2>1
  <2>3. x \in AllExtractions
    BY <2>2 DEF AllExtractions
  <2> QED BY <1>2, <2>3 DEF Instance
<1> QED BY <1>1, <1>2

\* The invariant holds when syncInstances starts, whatever the store holds.
LEMMA InitInv == Init => SyncInv
<1> SUFFICES ASSUME Init PROVE SyncInv
  OBVIOUS
<1>1. TypeOK
  BY Types DEF Init, TypeOK, Source
<1>2. IndexOK /\ NilOK /\ MemoryOK /\ ViewOK
  BY DEF Init, IndexOK, NilOK, MemoryOK, ViewOK, NoInsts, Known
<1> QED BY <1>1, <1>2 DEF SyncInv

(***************************************************************************)
(* A full scan m of services svcs and containers conts, sent as a reset.   *)
(***************************************************************************)
LEMMA FullScan ==
  ASSUME NEW svcs \in [Name -> Info \cup {None}],
         NEW conts \in [Id -> Body \cup {None}],
         NEW m \in [Name -> [Id -> Instance \cup {None}]],
         IsMatch(m, svcs, conts), SyncInv,
         servicesNil' = FALSE, containersNil' = FALSE,
         services' = svcs, containers' = conts,
         instances' = m,
         contInstances' = [c \in Id |-> {n \in Name : m[n][c] # None}],
         Send(TRUE, [n \in Name |-> [c \in Id |->
                       IF m[n][c] # None THEN m[n][c] ELSE Untouched]]),
         UNCHANGED <<resetWanted, resetAsked, reader, view>>
  PROVE  SyncInv'
<1>1. TypeOK'
  <2> DEFINE entries == [n \in Name |-> [c \in Id |->
                           IF m[n][c] # None THEN m[n][c] ELSE Untouched]]
  <2>0. entries \in [Name -> [Id -> Instance \cup {None, Untouched}]]
    OBVIOUS
  <2>1. update' \in InstanceUpdate
    BY <2>0, SendType
  <2>2. contInstances' \in [Id -> SUBSET Name]
    OBVIOUS
  <2> QED BY <2>1, <2>2 DEF SyncInv, TypeOK
<1>2. IndexOK'
  BY CandidateType DEF IndexOK, IsMatch
<1>3. NilOK' /\ MemoryOK'
  BY DEF NilOK, MemoryOK, IsMatch, Known
<1>4. ViewOK'
  <2> SUFFICES ASSUME NEW n \in Name, NEW c \in Id
               PROVE  Apply(update', view')[n][c] = m[n][c]
    BY DEF ViewOK
  <2>1. update'.reset = TRUE
    BY DEF Send
  <2>2. update'.instances[n][c] = IF m[n][c] # None THEN m[n][c] ELSE Untouched
    BY DEF Send
  <2>3. m[n][c] # Untouched
    BY SyncAssumption
  <2> QED BY <2>1, <2>2, <2>3, ApplyEntry
<1> QED BY <1>1, <1>2, <1>3, <1>4 DEF SyncInv

\* A reset of the containers: a full scan, unless the services are not known.
LEMMA ContainersResetInv ==
  ASSUME SyncInv, NEW conts \in [Id -> Body \cup {None}], ContainersReset(conts)
  PROVE  SyncInv'
<1>1. CASE servicesNil
  <2>1. TypeOK'
    BY <1>1, Types DEF SyncInv, TypeOK, ContainersReset, NamesOf
  <2>2. IndexOK' /\ NilOK' /\ MemoryOK' /\ ViewOK'
    BY <1>1 DEF SyncInv, NamesOf, ContainersReset, IndexOK, NilOK, MemoryOK, ViewOK, NoInsts, Known
  <2> QED BY <2>1, <2>2 DEF SyncInv
<1>2. CASE ~servicesNil
  <2>1. services \in [Name -> Info \cup {None}]
    BY DEF SyncInv, TypeOK
  <2>2. PICK m \in [Name -> [Id -> Instance \cup {None}]] :
          /\ IsMatch(m, services, conts)
          /\ instances' = m
          /\ contInstances' = [c \in Id |-> {n \in Name : m[n][c] # None}]
          /\ Send(TRUE, [n \in Name |-> [c \in Id |->
                           IF m[n][c] # None THEN m[n][c] ELSE Untouched]])
    BY <1>2 DEF ContainersReset, NamesOf
  <2>3. /\ servicesNil' = FALSE /\ containersNil' = FALSE
        /\ services' = services /\ containers' = conts
        /\ UNCHANGED <<resetWanted, resetAsked, reader, view>>
    BY <1>2 DEF ContainersReset, NamesOf, SyncInv, TypeOK
  <2> QED BY <2>1, <2>2, <2>3, FullScan
<1> QED BY <1>1, <1>2

\* A reset of the services: a full scan, unless the containers are not known.
LEMMA ServicesResetInv ==
  ASSUME SyncInv, NEW svcs \in [Name -> Info \cup {None}], ServicesReset(svcs)
  PROVE  SyncInv'
<1>1. CASE containersNil
  <2>1. TypeOK'
    BY <1>1, Types DEF SyncInv, TypeOK, ServicesReset, NamesOf
  <2>2. IndexOK' /\ NilOK' /\ MemoryOK' /\ ViewOK'
    BY <1>1 DEF SyncInv, NamesOf, ServicesReset, IndexOK, NilOK, MemoryOK, ViewOK, NoInsts, Known
  <2> QED BY <2>1, <2>2 DEF SyncInv
<1>2. CASE ~containersNil
  <2>1. containers \in [Id -> Body \cup {None}]
    BY DEF SyncInv, TypeOK
  <2>2. PICK m \in [Name -> [Id -> Instance \cup {None}]] :
          /\ IsMatch(m, svcs, containers)
          /\ instances' = m
          /\ contInstances' = [c \in Id |-> {n \in Name : m[n][c] # None}]
          /\ Send(TRUE, [n \in Name |-> [c \in Id |->
                           IF m[n][c] # None THEN m[n][c] ELSE Untouched]])
    BY <1>2 DEF ServicesReset, NamesOf
  <2>3. /\ servicesNil' = FALSE /\ containersNil' = FALSE
        /\ services' = svcs /\ containers' = containers
        /\ UNCHANGED <<resetWanted, resetAsked, reader, view>>
    BY <1>2 DEF ServicesReset, NamesOf, SyncInv, TypeOK
  <2> QED BY <2>1, <2>2, <2>3, FullScan
<1> QED BY <1>1, <1>2

\* An update that is ignored.
LEMMA NothingChanges ==
  ASSUME SyncInv, UNCHANGED <<state, update, resetWanted, resetAsked, reader, view>>
  PROVE  SyncInv'
BY DEF SyncInv, state, TypeOK, IndexOK, NilOK, MemoryOK, ViewOK, IsMatch, Known, ReaderSound

\* addContainer adds entries for the new container only, where there were none.
LEMMA ContainerStartedInv ==
  ASSUME SyncInv, NEW id \in Id, NEW body \in Body, ContainerStarted(id, body)
  PROVE  SyncInv'
<1> USE DEF SyncInv
<1>1. CASE containersNil \/ containers[id] # None
  BY <1>1, NothingChanges DEF ContainerStarted
<1>2. CASE ~containersNil /\ containers[id] = None /\ servicesNil
  <2>1. TypeOK'
    BY <1>2 DEF ContainerStarted, TypeOK
  <2>2. IndexOK' /\ NilOK' /\ MemoryOK' /\ ViewOK'
    BY <1>2 DEF ContainerStarted, TypeOK, IndexOK, NilOK, MemoryOK, ViewOK, NoInsts, Known
  <2> QED BY <2>1, <2>2
<1>3. CASE ~containersNil /\ containers[id] = None /\ ~servicesNil
  <2>1. PICK m \in [Name -> Instance \cup {None}] :
          LET hit == {n \in Name : m[n] # None}
          IN /\ \A n \in Name : m[n] \in Candidates(services[n], body)
             /\ instances' = [n \in Name |->
                  IF n \in hit THEN [instances[n] EXCEPT ![id] = m[n]] ELSE instances[n]]
             /\ contInstances' = [contInstances EXCEPT ![id] = hit]
             /\ Send(FALSE, [n \in Name |-> [c \in Id |->
                  IF c = id /\ n \in hit THEN m[n] ELSE Untouched]])
    BY <1>3 DEF ContainerStarted
  <2>2. /\ containers' = [containers EXCEPT ![id] = body]
        /\ UNCHANGED <<servicesNil, services, containersNil,
                       resetWanted, resetAsked, reader, view>>
        /\ Idle
    BY <1>3 DEF ContainerStarted
  <2> DEFINE hit == {n \in Name : m[n] # None}
             entries == [n \in Name |-> [c \in Id |->
                           IF c = id /\ n \in hit THEN m[n] ELSE Untouched]]
  \* What the new container adds is exactly what was not there before.
  <2>3. \A n \in Name : instances[n][id] = None
    BY <1>3 DEF IndexOK
  <2>4. \A n \in Name, c \in Id :
          instances'[n][c] = IF c = id THEN m[n] ELSE instances[n][c]
    BY <2>1, <2>3 DEF TypeOK
  <2>5. TypeOK'
    <3>1. entries \in [Name -> [Id -> Instance \cup {None, Untouched}]]
      OBVIOUS
    <3>2. update' \in InstanceUpdate
      BY <2>1, <3>1, SendType
    <3>3. instances' \in [Name -> [Id -> Instance \cup {None}]]
      BY <2>1 DEF TypeOK
    <3> QED BY <2>1, <2>2, <3>2, <3>3 DEF TypeOK
  <2>6. IndexOK'
    BY <2>1, <2>2, <2>4, CandidateType, SyncAssumption DEF IndexOK, TypeOK
  <2>7. NilOK' /\ MemoryOK'
    BY <1>3, <2>1, <2>2, <2>4 DEF NilOK, MemoryOK, IsMatch, Known, TypeOK
  <2>8. ViewOK'
    <3> SUFFICES ASSUME Known', ReaderSound', NEW n \in Name, NEW c \in Id
                 PROVE  Apply(update', view')[n][c] = instances'[n][c]
      BY DEF ViewOK
    <3>1. view[n][c] = instances[n][c]
      BY <2>2, ApplyNoUpdate DEF ViewOK, Idle, Known, ReaderSound
    <3>2. update'.instances[n][c] = entries[n][c] /\ update'.reset = FALSE
      BY <2>1 DEF Send
    <3>3. m[n] # Untouched
      BY SyncAssumption
    <3> QED BY <2>2, <2>3, <2>4, <3>1, <3>2, <3>3, ApplyEntry
  <2> QED BY <2>5, <2>6, <2>7, <2>8
<1> QED BY <1>1, <1>2, <1>3 DEF TypeOK

\* removeContainer takes back every entry for the container, thanks to IndexOK.
LEMMA ContainerDiedInv ==
  ASSUME SyncInv, NEW id \in Id, ContainerDied(id)
  PROVE  SyncInv'
<1> USE DEF SyncInv
<1>1. CASE containersNil \/ containers[id] = None
  BY <1>1, NothingChanges DEF ContainerDied
<1>2. CASE ~containersNil /\ containers[id] # None /\ servicesNil
  <2>1. TypeOK'
    BY <1>2 DEF ContainerDied, TypeOK
  <2>2. IndexOK' /\ NilOK' /\ MemoryOK' /\ ViewOK'
    BY <1>2 DEF ContainerDied, TypeOK, IndexOK, NilOK, MemoryOK, ViewOK, NoInsts, Known
  <2> QED BY <2>1, <2>2
<1>3. CASE ~containersNil /\ containers[id] # None /\ ~servicesNil
  <2> DEFINE entries == [n \in Name |-> [c \in Id |->
               IF c = id /\ n \in contInstances[id] THEN None ELSE Untouched]]
  <2>1. /\ containers' = [containers EXCEPT ![id] = None]
        /\ contInstances' = [contInstances EXCEPT ![id] = {}]
        /\ instances' = [n \in Name |->
             IF n \in contInstances[id] THEN [instances[n] EXCEPT ![id] = None]
                                        ELSE instances[n]]
        /\ Send(FALSE, entries)
        /\ UNCHANGED <<servicesNil, services, containersNil,
                       resetWanted, resetAsked, reader, view>>
        /\ Idle
    BY <1>3 DEF ContainerDied
  \* contInstances names every service that holds an instance of the container.
  <2>2. \A n \in Name, c \in Id :
          instances'[n][c] = IF c = id THEN None ELSE instances[n][c]
    BY <2>1 DEF TypeOK, IndexOK
  <2>3. TypeOK'
    <3>1. entries \in [Name -> [Id -> Instance \cup {None, Untouched}]]
      OBVIOUS
    <3>2. update' \in InstanceUpdate
      BY <2>1, <3>1, SendType
    <3>3. instances' \in [Name -> [Id -> Instance \cup {None}]]
      BY <2>1 DEF TypeOK
    <3> QED BY <2>1, <3>2, <3>3 DEF TypeOK
  <2>4. IndexOK'
    BY <2>1, <2>2 DEF IndexOK, TypeOK
  <2>5. NilOK' /\ MemoryOK'
    BY <1>3, <2>1, <2>2 DEF NilOK, MemoryOK, IsMatch, Known, TypeOK, Candidates
  <2>6. ViewOK'
    <3> SUFFICES ASSUME Known', ReaderSound', NEW n \in Name, NEW c \in Id
                 PROVE  Apply(update', view')[n][c] = instances'[n][c]
      BY DEF ViewOK
    <3>1. view[n][c] = instances[n][c]
      BY <2>1, ApplyNoUpdate DEF ViewOK, Idle, Known, ReaderSound
    <3>2. update'.instances[n][c] = entries[n][c] /\ update'.reset = FALSE
      BY <2>1 DEF Send
    <3>3. None # Untouched
      BY SyncAssumption
    <3> QED BY <2>1, <2>2, <3>1, <3>2, <3>3, ApplyEntry DEF IndexOK
  <2> QED BY <2>3, <2>4, <2>5, <2>6
<1> QED BY <1>1, <1>2, <1>3 DEF TypeOK

(***************************************************************************)
(* A service's instances replaced by those m of its new definition; the    *)
(* ones of the old that are not among them are taken back.                 *)
(***************************************************************************)
LEMMA ServiceUpdatedInv ==
  ASSUME SyncInv, NEW name \in Name, NEW info \in Info, ServiceUpdated(name, info)
  PROVE  SyncInv'
<1> USE DEF SyncInv
<1>1. CASE servicesNil
  BY <1>1, NothingChanges DEF ServiceUpdated
<1>2. CASE ~servicesNil
  <2>1. PICK m \in [Id -> Instance \cup {None}] :
          LET hit  == {c \in Id : m[c] # None}
              gone == {c \in Id : instances[name][c] # None} \ hit
          IN /\ \A c \in Id : m[c] \in Candidates(info, containers[c])
             /\ services' = [services EXCEPT ![name] = info]
             /\ instances' = [instances EXCEPT ![name] = m]
             /\ contInstances' = [c \in Id |-> contInstances[c] \cup
                                               IF c \in hit THEN {name} ELSE {}]
             /\ Send(FALSE, [n \in Name |-> [c \in Id |->
                  IF n = name /\ c \in hit THEN m[c]
                  ELSE IF n = name /\ c \in gone THEN None ELSE Untouched]])
             /\ UNCHANGED <<servicesNil, containersNil, containers>>
    BY <1>2 DEF ServiceUpdated
  <2>2. UNCHANGED <<resetWanted, resetAsked, reader, view>> /\ Idle
    BY DEF ServiceUpdated
  <2> DEFINE hit     == {c \in Id : m[c] # None}
             gone    == {c \in Id : instances[name][c] # None} \ hit
             entries == [n \in Name |-> [c \in Id |->
                           IF n = name /\ c \in hit THEN m[c]
                           ELSE IF n = name /\ c \in gone THEN None ELSE Untouched]]
  <2>3. \A n \in Name, c \in Id :
          instances'[n][c] = IF n = name THEN m[c] ELSE instances[n][c]
    BY <2>1 DEF TypeOK
  <2>4. TypeOK'
    <3>1. entries \in [Name -> [Id -> Instance \cup {None, Untouched}]]
      OBVIOUS
    <3>2. update' \in InstanceUpdate
      BY <2>1, <3>1, SendType
    <3>3. instances' \in [Name -> [Id -> Instance \cup {None}]]
      BY <2>1 DEF TypeOK
    <3>4. contInstances' \in [Id -> SUBSET Name]
      BY <2>1 DEF TypeOK
    <3> QED BY <2>1, <2>2, <3>2, <3>3, <3>4 DEF TypeOK
  <2>5. IndexOK'
    BY <2>1, <2>3, CandidateType, SyncAssumption DEF IndexOK, TypeOK
  <2>6. \A c \in Id : containersNil => m[c] = None
    BY <2>1 DEF NilOK, Candidates
  <2>7. NilOK'
    <3>1. ~Known' => instances' = NoInsts
      <4>1. SUFFICES ASSUME containersNil PROVE instances' = NoInsts
        BY <1>2, <2>1 DEF Known
      <4>2. instances = NoInsts
        BY <4>1 DEF NilOK, Known
      <4>3. m = [c \in Id |-> None]
        BY <2>6, <4>1
      <4> QED BY <2>1, <4>2, <4>3 DEF NoInsts
    <3> QED BY <1>2, <2>1, <3>1 DEF NilOK, TypeOK
  <2>8. MemoryOK'
    BY <1>2, <2>1, <2>3 DEF MemoryOK, IsMatch, Known, TypeOK
  <2>9. ViewOK'
    <3> SUFFICES ASSUME Known', ReaderSound', NEW n \in Name, NEW c \in Id
                 PROVE  Apply(update', view')[n][c] = instances'[n][c]
      BY DEF ViewOK
    <3>1. view[n][c] = instances[n][c]
      BY <1>2, <2>1, <2>2, ApplyNoUpdate DEF ViewOK, Idle, Known, ReaderSound
    <3>2. update'.instances[n][c] = entries[n][c] /\ update'.reset = FALSE
      BY <2>1 DEF Send
    <3>3. m[c] # Untouched /\ None # Untouched
      BY SyncAssumption
    <3> QED BY <2>2, <2>3, <3>1, <3>2, <3>3, ApplyEntry
  <2> QED BY <2>4, <2>5, <2>7, <2>8, <2>9
<1> QED BY <1>1, <1>2 DEF TypeOK

\* removeService takes back every entry of the service.
LEMMA ServiceRemovedInv ==
  ASSUME SyncInv, NEW name \in Name, ServiceRemoved(name)
  PROVE  SyncInv'
<1> USE DEF SyncInv
<1>1. CASE servicesNil \/ services[name] = None
  BY <1>1, NothingChanges DEF ServiceRemoved
<1>2. CASE ~servicesNil /\ services[name] # None
  <2> DEFINE had     == {c \in Id : instances[name][c] # None}
             entries == [n \in Name |-> [c \in Id |->
                           IF n = name /\ c \in had THEN None ELSE Untouched]]
  <2>1. /\ services' = [services EXCEPT ![name] = None]
        /\ instances' = [instances EXCEPT ![name] = [c \in Id |-> None]]
        /\ UNCHANGED <<servicesNil, containersNil, containers,
                       resetWanted, resetAsked, reader, view>>
        /\ Idle
    BY <1>2 DEF ServiceRemoved
  <2>2. \A n \in Name, c \in Id :
          instances'[n][c] = IF n = name THEN None ELSE instances[n][c]
    BY <2>1 DEF TypeOK
  <2>3. NilOK'
    <3>1. ~Known' => instances' = NoInsts
      BY <1>2, <2>1, <2>2 DEF NilOK, NoInsts, Known, TypeOK
    <3> QED BY <1>2, <2>1, <3>1 DEF NilOK, TypeOK
  <2>4. MemoryOK'
    BY <1>2, <2>1, <2>2 DEF MemoryOK, IsMatch, Known, TypeOK, Candidates
  <2>5. CASE containersNil
    <3>1. UNCHANGED <<contInstances, update>>
      BY <1>2, <2>5 DEF ServiceRemoved
    <3>2. TypeOK'
      BY <2>1, <3>1 DEF TypeOK
    <3>3. IndexOK' /\ ViewOK'
      BY <2>1, <2>2, <2>5, <3>1 DEF IndexOK, ViewOK, Known, TypeOK
    <3> QED BY <2>3, <2>4, <3>2, <3>3
  <2>6. CASE ~containersNil
    <3>1. /\ contInstances' = [c \in Id |-> contInstances[c] \
                                            IF c \in had THEN {name} ELSE {}]
          /\ Send(FALSE, entries)
      BY <1>2, <2>6 DEF ServiceRemoved
    <3>2. TypeOK'
      <4>1. entries \in [Name -> [Id -> Instance \cup {None, Untouched}]]
        OBVIOUS
      <4>2. update' \in InstanceUpdate
        BY <3>1, <4>1, SendType
      <4>3. contInstances' \in [Id -> SUBSET Name]
        BY <3>1 DEF TypeOK
      <4> QED BY <2>1, <4>2, <4>3 DEF TypeOK
    <3>3. IndexOK'
      BY <2>1, <2>2, <3>1 DEF IndexOK, TypeOK
    <3>4. ViewOK'
      <4> SUFFICES ASSUME Known', ReaderSound', NEW n \in Name, NEW c \in Id
                   PROVE  Apply(update', view')[n][c] = instances'[n][c]
        BY DEF ViewOK
      <4>1. view[n][c] = instances[n][c]
        BY <2>1, ApplyNoUpdate DEF ViewOK, Idle, Known, ReaderSound
      <4>2. update'.instances[n][c] = entries[n][c] /\ update'.reset = FALSE
        BY <3>1 DEF Send
      <4>3. None # Untouched
        BY SyncAssumption
      <4> QED BY <2>1, <2>2, <4>1, <4>2, <4>3, ApplyEntry
    <3> QED BY <2>3, <2>4, <3>2, <3>3, <3>4
  <2> QED BY <2>5, <2>6
<1> QED BY <1>1, <1>2 DEF TypeOK

\* Dropping all state promises nothing.
LEMMA InstancesResetInv ==
  ASSUME SyncInv, InstancesReset
  PROVE  SyncInv'
<1>1. TypeOK'
  BY Types DEF SyncInv, TypeOK, InstancesReset
<1>2. IndexOK' /\ NilOK' /\ MemoryOK' /\ ViewOK'
  BY DEF InstancesReset, IndexOK, NilOK, MemoryOK, ViewOK, NoInsts, Known
<1> QED BY <1>1, <1>2 DEF SyncInv

\* A source taking its reset signal touches nothing the invariant reads.
LEMMA SourceTakesResetInv ==
  ASSUME SyncInv, NEW s \in Source, SourceTakesReset(s)
  PROVE  SyncInv'
BY DEF SyncInv, SourceTakesReset, state, TypeOK, IndexOK, NilOK, MemoryOK, ViewOK,
       IsMatch, Known, ReaderSound

\* Applying the update leaves the reader with what it was promised to hold.
LEMMA ReaderAppliesInv ==
  ASSUME SyncInv, ReaderApplies
  PROVE  SyncInv'
<1>1. TypeOK'
  BY ApplyType, Types DEF SyncInv, TypeOK, ReaderApplies, state
<1>2. IndexOK' /\ NilOK' /\ MemoryOK'
  BY DEF SyncInv, ReaderApplies, state, IndexOK, NilOK, MemoryOK, IsMatch, Known
<1>3. ViewOK'
  BY ApplyNoUpdate DEF SyncInv, ReaderApplies, state, ViewOK, Known, ReaderSound
<1> QED BY <1>1, <1>2, <1>3 DEF SyncInv

\* A failed update breaks the promise, until InstancesReset drops the state.
LEMMA ReaderFailsInv ==
  ASSUME SyncInv, ReaderFails
  PROVE  SyncInv'
<1>1. view' \in [Name -> [Id -> Instance \cup {None}]]
  BY ApplyType DEF SyncInv, TypeOK, ReaderFails
<1>2. TypeOK'
  BY <1>1, Types DEF SyncInv, TypeOK, ReaderFails, state
<1>3. IndexOK' /\ NilOK' /\ MemoryOK' /\ ViewOK'
  BY DEF SyncInv, ReaderFails, state, IndexOK, NilOK, MemoryOK, ViewOK, IsMatch,
         Known, ReaderSound
<1> QED BY <1>2, <1>3 DEF SyncInv

\* A restarted reader has asked for a reset, so nothing is promised to it yet.
LEMMA ReaderRestartsInv ==
  ASSUME SyncInv, ReaderRestarts
  PROVE  SyncInv'
BY DEF SyncInv, ReaderRestarts, state, TypeOK, IndexOK, NilOK, MemoryOK, ViewOK,
       IsMatch, Known, ReaderSound

\* Every step preserves the invariant: one lemma for each action.
LEMMA StepInv == SyncInv /\ [Next]_vars => SyncInv'
<1> SUFFICES ASSUME SyncInv, [Next]_vars PROVE SyncInv'
  OBVIOUS
<1>1. CASE UNCHANGED vars
  BY <1>1, NothingChanges DEF vars
<1>2. CASE Next
  BY <1>2, ContainersResetInv, ContainerStartedInv, ContainerDiedInv, ServicesResetInv,
     ServiceUpdatedInv, ServiceRemovedInv, InstancesResetInv, SourceTakesResetInv,
     ReaderAppliesInv, ReaderFailsInv, ReaderRestartsInv DEF Next
<1> QED BY <1>1, <1>2

\* The inductive invariant holds of every reachable state.
THEOREM Invariance == Spec => []SyncInv
BY InitInv, StepInv, PTL DEF Spec

\* The variables keep their types (sync_instances.go:38-61).
THEOREM TypeCorrect == Spec => []TypeOK
<1>1. SyncInv => TypeOK
  BY DEF SyncInv
<1> QED BY Invariance, <1>1, PTL

\* No container dies unnoticed by a service that counts it as an instance.
THEOREM IndexesAgree == Spec => []IndexOK
<1>1. SyncInv => IndexOK
  BY DEF SyncInv
<1> QED BY Invariance, <1>1, PTL

\* With full information and a sound reader, what the reader will hold is an
\* extraction of the services the agent knows with the containers it knows.
THEOREM ReaderInSync == Spec => []InSync
<1>1. SyncInv => InSync
  BY DEF SyncInv, InSync, MemoryOK, ViewOK, IsMatch
<1> QED BY Invariance, <1>1, PTL

-----------------------------------------------------------------------------
(***************************************************************************)
(* SyncInstances implements Registry.  Each action of the agent is a step  *)
(* of the promise or leaves what the promise is about alone; SyncInv, an   *)
(* invariant of both ends of the step, says that what is decided matches   *)
(* what is known.                                                          *)
(***************************************************************************)
\* The agent knows all and the store follows it.
Settled == Known /\ ReaderSound

\* What the reader will hold.
Target == Apply(update, view)

\* With nothing being sent, the reader holds all that was decided.
LEMMA IdleTarget ==
  ASSUME TypeOK, Idle
  PROVE  Apply(update, view) = view
<1>1. Apply(update, view) = [n \in Name |-> [c \in Id |-> view[n][c]]]
  BY DEF Apply, Idle, NoUpdate
<1>2. \A n \in Name : view[n] = [c \in Id |-> view[n][c]]
  BY DEF TypeOK
<1>3. view = [n \in Name |-> view[n]]
  BY DEF TypeOK
<1>4. view = [n \in Name |-> [c \in Id |-> view[n][c]]]
  BY <1>2, <1>3
<1> QED BY <1>1, <1>4

\* In a settled state, what is decided is a match of what is known.
LEMMA SettledMatch ==
  ASSUME SyncInv
  PROVE  Settled => Promise!Match(Apply(update, view), services, containers)
BY DEF SyncInv, MemoryOK, ViewOK, IsMatch, Settled, Promise!Match

\* A step that writes nothing and leaves or stays out of a settled state.
LEMMA UnsettledStep ==
  ASSUME ~Settled', view' = view
  PROVE  Promise!RegNext
BY DEF Promise!RegNext, Promise!Disturbed, Settled

\* A step that changes nothing the promise speaks of.
LEMMA SilentStep ==
  ASSUME UNCHANGED <<servicesNil, containersNil, services, containers, update,
                     resetWanted, reader, view>>
  PROVE  UNCHANGED Promise!rvars
BY DEF Promise!rvars, Known, ReaderSound

\* A full scan, or nothing promised: both reset handlers end in one of the two.
LEMMA ScanStep ==
  ASSUME SyncInv, SyncInv', Idle, view' = view, Settled' => update'.reset = TRUE
  PROVE  Promise!RegNext
<1>1. CASE ~Settled'
  BY <1>1, UnsettledStep
<1>2. CASE Settled'
  <2>1. view = Apply(update, view)
    BY IdleTarget DEF SyncInv
  <2>2. Promise!Match(Apply(update, view), services, containers)'
    BY <1>2, SettledMatch, PTL
  <2> QED BY <1>2, <2>1, <2>2 DEF Promise!RegNext, Promise!FullScan, Promise!Settling,
          Promise!ChangesOnly, Promise!Match, Settled
<1> QED BY <1>1, <1>2

LEMMA ContainersResetStep ==
  ASSUME SyncInv, SyncInv', NEW conts \in [Id -> Body \cup {None}], ContainersReset(conts)
  PROVE  Promise!RegNext
<1>1. Idle /\ view' = view
  BY DEF ContainersReset
<1>2. Settled' => update'.reset = TRUE
  BY DEF ContainersReset, Send, Settled, Known
<1> QED BY <1>1, <1>2, ScanStep

LEMMA ServicesResetStep ==
  ASSUME SyncInv, SyncInv', NEW svcs \in [Name -> Info \cup {None}], ServicesReset(svcs)
  PROVE  Promise!RegNext
<1>1. Idle /\ view' = view
  BY DEF ServicesReset
<1>2. Settled' => update'.reset = TRUE
  BY DEF ServicesReset, Send, Settled, Known
<1> QED BY <1>1, <1>2, ScanStep

\* An update about one container, empty or not, is a step of the promise.
LEMMA OneContainerStep ==
  ASSUME SyncInv, SyncInv', Idle, NEW id \in Id, NEW body,
         containers' = [containers EXCEPT ![id] = body],
         update'.reset = FALSE,
         \A n \in Name, c \in Id \ {id} : update'.instances[n][c] = Untouched,
         UNCHANGED <<servicesNil, services, containersNil, resetWanted, reader, view>>
  PROVE  Promise!RegNext
<1>1. CASE ~Settled'
  BY <1>1, UnsettledStep
<1>2. CASE Settled'
  <2>1. Settled
    BY <1>2 DEF Settled, Known, ReaderSound
  <2>2. view = Apply(update, view)
    BY IdleTarget DEF SyncInv
  <2>3. Promise!Match(Apply(update, view), services, containers)'
    BY <1>2, SettledMatch, PTL
  <2>4. \A n \in Name, c \in Id \ {id} : Apply(update', view')[n][c] = Apply(update, view)[n][c]
    BY <2>2, ApplyEntry
  <2>5. \A c \in Id \ {id} : containers'[c] = containers[c]
    BY DEF SyncInv, TypeOK
  <2>6. Promise!Settling({}, {id})
    BY <1>2, <2>2, <2>3, <2>4, <2>5
       DEF Promise!Settling, Promise!ChangesOnly, Promise!Match, Settled
  <2> QED BY <2>1, <2>6 DEF Promise!RegNext, Promise!LearnContainer, Settled
<1> QED BY <1>1, <1>2

\* An update about one service, empty or not, is a step of the promise.
LEMMA OneServiceStep ==
  ASSUME SyncInv, SyncInv', Idle, NEW name \in Name, NEW info,
         services' = [services EXCEPT ![name] = info],
         update'.reset = FALSE,
         \A n \in Name \ {name}, c \in Id : update'.instances[n][c] = Untouched,
         UNCHANGED <<servicesNil, containers, containersNil, resetWanted, reader, view>>
  PROVE  Promise!RegNext
<1>1. CASE ~Settled'
  BY <1>1, UnsettledStep
<1>2. CASE Settled'
  <2>1. Settled
    BY <1>2 DEF Settled, Known, ReaderSound
  <2>2. view = Apply(update, view)
    BY IdleTarget DEF SyncInv
  <2>3. Promise!Match(Apply(update, view), services, containers)'
    BY <1>2, SettledMatch, PTL
  <2>4. \A n \in Name \ {name}, c \in Id : Apply(update', view')[n][c] = Apply(update, view)[n][c]
    BY <2>2, ApplyEntry
  <2>5. \A n \in Name \ {name} : services'[n] = services[n]
    BY DEF SyncInv, TypeOK
  <2>6. Promise!Settling({name}, {})
    BY <1>2, <2>2, <2>3, <2>4, <2>5
       DEF Promise!Settling, Promise!ChangesOnly, Promise!Match, Settled
  <2> QED BY <2>1, <2>6 DEF Promise!RegNext, Promise!LearnService, Settled
<1> QED BY <1>1, <1>2

\* An update in the making is empty: NoUpdate.
LEMMA IdleEmpty ==
  ASSUME Idle, UNCHANGED update
  PROVE  /\ update'.reset = FALSE
         /\ \A n \in Name, c \in Id : update'.instances[n][c] = Untouched
BY DEF Idle, NoUpdate

LEMMA ContainerStartedStep ==
  ASSUME SyncInv, SyncInv', NEW id \in Id, NEW body \in Body, ContainerStarted(id, body)
  PROVE  Promise!RegNext \/ UNCHANGED Promise!rvars
<1>1. CASE containersNil \/ containers[id] # None
  BY <1>1, SilentStep DEF ContainerStarted, state
<1>2. CASE ~containersNil /\ containers[id] = None
  <2>1. /\ Idle
        /\ containers' = [containers EXCEPT ![id] = body]
        /\ UNCHANGED <<servicesNil, services, containersNil, resetWanted, reader, view>>
    BY <1>2 DEF ContainerStarted
  <2>2. /\ update'.reset = FALSE
        /\ \A n \in Name, c \in Id \ {id} : update'.instances[n][c] = Untouched
    <3>1. CASE servicesNil
      BY <1>2, <2>1, <3>1, IdleEmpty DEF ContainerStarted
    <3>2. CASE ~servicesNil
      BY <1>2, <3>2 DEF ContainerStarted, Send
    <3> QED BY <3>1, <3>2
  <2> QED BY <2>1, <2>2, OneContainerStep
<1> QED BY <1>1, <1>2

LEMMA ContainerDiedStep ==
  ASSUME SyncInv, SyncInv', NEW id \in Id, ContainerDied(id)
  PROVE  Promise!RegNext \/ UNCHANGED Promise!rvars
<1>1. CASE containersNil \/ containers[id] = None
  BY <1>1, SilentStep DEF ContainerDied, state
<1>2. CASE ~containersNil /\ containers[id] # None
  <2>1. /\ Idle
        /\ containers' = [containers EXCEPT ![id] = None]
        /\ UNCHANGED <<servicesNil, services, containersNil, resetWanted, reader, view>>
    BY <1>2 DEF ContainerDied
  <2>2. /\ update'.reset = FALSE
        /\ \A n \in Name, c \in Id \ {id} : update'.instances[n][c] = Untouched
    <3>1. CASE servicesNil
      BY <1>2, <2>1, <3>1, IdleEmpty DEF ContainerDied
    <3>2. CASE ~servicesNil
      BY <1>2, <3>2 DEF ContainerDied, Send
    <3> QED BY <3>1, <3>2
  <2> QED BY <2>1, <2>2, OneContainerStep
<1> QED BY <1>1, <1>2

LEMMA ServiceUpdatedStep ==
  ASSUME SyncInv, SyncInv', NEW name \in Name, NEW info \in Info, ServiceUpdated(name, info)
  PROVE  Promise!RegNext \/ UNCHANGED Promise!rvars
<1>1. CASE servicesNil
  BY <1>1, SilentStep DEF ServiceUpdated, state
<1>2. CASE ~servicesNil
  <2>1. /\ Idle
        /\ services' = [services EXCEPT ![name] = info]
        /\ UNCHANGED <<servicesNil, containers, containersNil, resetWanted, reader, view>>
    BY <1>2 DEF ServiceUpdated
  <2>2. /\ update'.reset = FALSE
        /\ \A n \in Name \ {name}, c \in Id : update'.instances[n][c] = Untouched
    BY <1>2 DEF ServiceUpdated, Send
  <2> QED BY <2>1, <2>2, OneServiceStep
<1> QED BY <1>1, <1>2

LEMMA ServiceRemovedStep ==
  ASSUME SyncInv, SyncInv', NEW name \in Name, ServiceRemoved(name)
  PROVE  Promise!RegNext \/ UNCHANGED Promise!rvars
<1>1. CASE servicesNil \/ services[name] = None
  BY <1>1, SilentStep DEF ServiceRemoved, state
<1>2. CASE ~servicesNil /\ services[name] # None
  <2>1. /\ Idle
        /\ services' = [services EXCEPT ![name] = None]
        /\ UNCHANGED <<servicesNil, containers, containersNil, resetWanted, reader, view>>
    BY <1>2 DEF ServiceRemoved
  <2>2. /\ update'.reset = FALSE
        /\ \A n \in Name \ {name}, c \in Id : update'.instances[n][c] = Untouched
    <3>1. CASE containersNil
      BY <1>2, <2>1, <3>1, IdleEmpty DEF ServiceRemoved
    <3>2. CASE ~containersNil
      BY <1>2, <3>2 DEF ServiceRemoved, Send
    <3> QED BY <3>1, <3>2
  <2> QED BY <2>1, <2>2, OneServiceStep
<1> QED BY <1>1, <1>2

\* The reader writes what was decided; all of it, unless some store call fails.
LEMMA ReaderAppliesStep ==
  ASSUME SyncInv, SyncInv', ReaderApplies
  PROVE  Promise!RegNext
<1>1. /\ view' = Apply(update, view) /\ update' = NoUpdate
      /\ UNCHANGED <<servicesNil, services, containersNil, containers, resetWanted, reader>>
  BY DEF ReaderApplies, state
<1>2. (Apply(update, view) = view)'
  <2>1. (TypeOK /\ Idle)'
    BY <1>1 DEF SyncInv, Idle
  <2> QED BY <2>1, IdleTarget, PTL
<1>3. CASE Settled
  BY <1>1, <1>2, <1>3 DEF Promise!RegNext, Promise!Write, Settled, Known, ReaderSound, NoUpdate
<1>4. CASE ~Settled
  BY <1>1, <1>4 DEF Promise!RegNext, Promise!Disturbed, Settled, Known, ReaderSound
<1> QED BY <1>3, <1>4

LEMMA ReaderFailsStep ==
  ASSUME SyncInv, ReaderFails
  PROVE  Promise!RegNext
<1>1. \A n \in Name, c \in Id : view'[n][c] \in {view[n][c], Apply(update, view)[n][c]}
  BY DEF ReaderFails
<1>2. ~(Known /\ ReaderSound)'
  BY DEF ReaderFails, ReaderSound
<1> QED BY <1>1, <1>2 DEF Promise!RegNext, Promise!Disturbed

\* One step of the agent is one step of the promise, or none.
LEMMA PromiseStep ==
  ASSUME SyncInv, SyncInv', [Next]_vars
  PROVE  [Promise!RegNext]_(Promise!rvars)
<1>1. CASE UNCHANGED vars
  BY <1>1, SilentStep DEF vars, state
<1>2. CASE InstancesReset
  BY <1>2, UnsettledStep DEF InstancesReset, Settled, Known
<1>3. ASSUME NEW s \in Source, SourceTakesReset(s) PROVE UNCHANGED Promise!rvars
  BY <1>3, SilentStep DEF SourceTakesReset, state
<1>4. CASE ReaderRestarts
  BY <1>4, UnsettledStep DEF ReaderRestarts, Settled, ReaderSound
<1> QED BY <1>1, <1>2, <1>3, <1>4, ContainersResetStep, ContainerStartedStep, ContainerDiedStep,
     ServicesResetStep, ServiceUpdatedStep, ServiceRemovedStep, ReaderAppliesStep,
     ReaderFailsStep DEF Next

\* The agent starts with nothing promised and nothing decided.
LEMMA PromiseInit == Init => Promise!RegInit
<1> SUFFICES ASSUME Init PROVE Promise!RegInit
  OBVIOUS
<1>1. TypeOK /\ Idle
  BY InitInv DEF SyncInv, Init, Idle
<1>2. Apply(update, view) = view
  BY <1>1, IdleTarget
<1>3. ~Known /\ update.reset = FALSE
  BY DEF Init, Known, NoUpdate
<1> QED BY <1>2, <1>3 DEF Promise!RegInit

(***************************************************************************)
(* The agent implements Registry: whatever happens to it, an update that   *)
(* is no reset is about one service or one container, the store is one     *)
(* decision behind at most, and only a full scan settles it.               *)
(***************************************************************************)
THEOREM ImplementsRegistry == Spec => KeepsPromise
<1>1. SyncInv /\ SyncInv' /\ [Next]_vars => [Promise!RegNext]_(Promise!rvars)
  BY PromiseStep
<1> QED BY Invariance, PromiseInit, <1>1, PTL DEF Spec, KeepsPromise, Promise!RegSpec
=============================================================================
