------------------------ MODULE WatchServices_proofs ------------------------
(***************************************************************************)
(* The store and a watch of it, for any numbers of services, hosts,        *)
(* collectors, restarts, writes, lapses and errors.                        *)
(*                                                                         *)
(* The first part is about EtcdStore: a collection never deletes a steady  *)
(* record.  The induction is over GCInv: a step changes the records, the   *)
(* sessions or one of the collections, and there is a lemma for each.  The *)
(* second is about WatchServices: what the callback has been told is       *)
(* current when nothing is on its way.                                     *)
(***************************************************************************)
EXTENDS WatchServices, FiniteSetTheorems, TLAPS


\* The variables that the invariant reads, GCInv's own apart from the types.
LEMMA Framed ==
  ASSUME GCInv, TypeOK', UNCHANGED <<recs, index, live, gc>>
  PROVE  GCInv'
BY DEF GCInv, SteadyOK, IndexOK, TodoOK, Unchanged

\* None is not a record, so that a record is told from a missing key.
LEMMA RecordNotNone == ASSUME NEW r \in Record PROVE r # None
BY StoreAssumption DEF Record, Session

\* The invariant holds of an empty store.
LEMMA InitInv == StoreInit => GCInv
<1> SUFFICES ASSUME StoreInit PROVE GCInv
  OBVIOUS
<1>1. TypeOK
  <2>1. /\ dirs \subseteq Name /\ live \subseteq Session /\ lapsed \subseteq Session
        /\ spec \in [Name -> Detail \cup {None}] /\ rules \in [Name -> Detail \cup {None}]
        /\ recs \in [Key -> Record \cup {None}]
        /\ index \in Nat /\ lapses \in Nat /\ errors \in Nat /\ watching \in BOOLEAN
    BY DEF StoreInit
  <2>2. run \in [Host -> 0 .. MaxRuns]
    BY StoreAssumption DEF StoreInit
  <2>3. /\ stage \in [Host -> {"down", "new", "made", "beating"}]
        /\ \A h \in Host : stage[h] # "down" => run[h] > 0
    BY DEF StoreInit
  <2>4. Resting \in [pc : {"idle", "services", "live", "cull"},
                    seen : SUBSET Seen, todo : SUBSET Seen]
    BY DEF Resting
  <2>5. gc \in [Host -> [pc : {"idle", "services", "live", "cull"},
                        seen : SUBSET Seen, todo : SUBSET Seen]]
    BY <2>4 DEF StoreInit
  <2> QED BY <2>1, <2>2, <2>3, <2>5 DEF TypeOK
<1>2. SteadyOK /\ IndexOK /\ TodoOK
  BY DEF StoreInit, SteadyOK, IndexOK, TodoOK, Resting
<1> QED BY <1>1, <1>2 DEF GCInv

-----------------------------------------------------------------------------
\* Starting a daemon, making its session and failing to read touch no record.
LEMMA DaemonStartsInv ==
  ASSUME GCInv, NEW h \in Host, DaemonStarts(h)
  PROVE  GCInv'
<1>1. TypeOK'
  BY StoreAssumption DEF GCInv, TypeOK, DaemonStarts, tree
<1> QED BY <1>1, Framed DEF DaemonStarts, tree

\* Making a session touches no record either.
LEMMA SessionMadeInv ==
  ASSUME GCInv, NEW h \in Host, SessionMade(h)
  PROVE  GCInv'
<1>1. TypeOK'
  BY DEF GCInv, TypeOK, SessionMade, tree
<1> QED BY <1>1, Framed DEF SessionMade, tree

\* A session whose key is set makes no record steady.
LEMMA HeartbeatLandsInv ==
  ASSUME GCInv, NEW h \in Host, HeartbeatLands(h)
  PROVE  GCInv'
<1>1. Current(h) \in Session
  BY DEF GCInv, TypeOK, HeartbeatLands, Current, Session
<1>2. TypeOK'
  BY <1>1 DEF GCInv, TypeOK, HeartbeatLands, tree
<1>3. SteadyOK' /\ IndexOK' /\ TodoOK'
  BY DEF GCInv, HeartbeatLands, tree, SteadyOK, IndexOK, TodoOK, Unchanged
<1> QED BY <1>2, <1>3 DEF GCInv

\* A session that expires takes the steadiness of its records with it.
LEMMA SessionExpiresInv ==
  ASSUME GCInv, NEW s \in Session, SessionExpires(s)
  PROVE  GCInv'
<1> USE DEF GCInv
<1>1. recs' = [k \in Key |-> IF recs[k] # None /\ recs[k].session = s
                             THEN [recs[k] EXCEPT !.steady = FALSE] ELSE recs[k]]
  BY DEF SessionExpires
<1>2. \A k \in Key : /\ recs'[k] = None <=> recs[k] = None
                     /\ recs[k] # None => /\ recs'[k] \in Record
                                          /\ recs'[k].session = recs[k].session
                                          /\ recs'[k].index = recs[k].index
                                          /\ recs'[k].steady <=>
                                               recs[k].steady /\ recs[k].session # s
  <2> TAKE k \in Key
  <2>1. CASE recs[k] = None
    BY <1>1, <2>1
  <2>2. CASE recs[k] # None /\ recs[k].session # s
    BY <1>1, <2>2 DEF TypeOK, Record
  <2>3. CASE recs[k] # None /\ recs[k].session = s
    <3>1. recs[k] \in Record
      BY <2>3 DEF TypeOK
    <3>2. recs'[k] = [recs[k] EXCEPT !.steady = FALSE]
      BY <1>1, <2>3
    <3>3. recs'[k] \in Record /\ ~recs'[k].steady
      BY <3>1, <3>2 DEF Record
    <3> QED BY <2>3, <3>1, <3>2, <3>3, RecordNotNone DEF Record
  <2> QED BY <2>1, <2>2, <2>3
<1>3. TypeOK'
  <2>1. recs' \in [Key -> Record \cup {None}]
    BY <1>1, <1>2 DEF TypeOK
  <2> QED BY <2>1 DEF TypeOK, SessionExpires
<1>4. SteadyOK'
  BY <1>2 DEF SteadyOK, SessionExpires
<1>5. IndexOK' /\ TodoOK'
  BY <1>2 DEF TypeOK, IndexOK, TodoOK, Unchanged, SessionExpires, Seen
<1> QED BY <1>3, <1>4, <1>5

\* A daemon that stops drops its collection.
LEMMA DaemonStopsInv ==
  ASSUME GCInv, NEW h \in Host, DaemonStops(h)
  PROVE  GCInv'
<1>1. TypeOK'
  BY DEF GCInv, TypeOK, DaemonStops, tree, Resting
<1>2. SteadyOK' /\ IndexOK' /\ TodoOK'
  BY DEF GCInv, TypeOK, DaemonStops, tree, Resting, SteadyOK, IndexOK, TodoOK, Unchanged
<1> QED BY <1>1, <1>2 DEF GCInv

(***************************************************************************)
(* Records may go: nothing that was seen or is to be deleted is Unchanged  *)
(* that was not before.                                                    *)
(***************************************************************************)
LEMMA RecordsGo ==
  ASSUME GCInv, TypeOK', NEW gone \in SUBSET Key,
         recs' = [k \in Key |-> IF k \in gone THEN None ELSE recs[k]],
         UNCHANGED <<index, live>>,
         \A h \in Host : gc'[h].seen \subseteq gc[h].seen /\ gc'[h].todo \subseteq gc[h].todo
  PROVE  GCInv'
<1>1. SteadyOK'
  BY DEF GCInv, SteadyOK
<1>2. IndexOK' /\ TodoOK'
  BY DEF GCInv, TypeOK, Seen, IndexOK, TodoOK, Unchanged
<1> QED BY <1>1, <1>2 DEF GCInv

\* A record that is written has an index that nothing seen has.
LEMMA RegisterInv ==
  ASSUME GCInv, NEW d \in Name \cup HostDirs, NEW h \in Host, Register(d, h)
  PROVE  GCInv'
<1> DEFINE key == <<d, h>>
           rec == [session |-> Current(h), index |-> index + 1,
                   steady |-> Current(h) \in live]
<1>1. key \in Key
  BY DEF Key
<1>2. rec \in Record
  BY DEF GCInv, TypeOK, Register, Record, Session, Current
<1>3. /\ recs' = [recs EXCEPT ![key] = rec]
      /\ index' = index + 1 /\ index \in Nat
      /\ UNCHANGED <<live, gc>>
  BY DEF Register, daemon, GCInv, TypeOK
<1>4. TypeOK'
  <2>1. recs' \in [Key -> Record \cup {None}]
    BY <1>1, <1>2, <1>3 DEF GCInv, TypeOK
  <2> QED BY <1>3, <2>1 DEF GCInv, TypeOK, Register, daemon
<1>5. \A k \in Key : recs'[k] = IF k = key THEN rec ELSE recs[k]
  BY <1>1, <1>3 DEF GCInv, TypeOK
<1>6. SteadyOK'
  <2> SUFFICES ASSUME NEW k \in Key, recs'[k] # None, recs'[k].steady
               PROVE  recs'[k].session \in live
    BY <1>3 DEF SteadyOK
  <2>1. CASE k = key
    <3>1. recs'[k] = rec
      BY <1>5, <2>1
    <3>2. (rec.steady <=> Current(h) \in live) /\ rec.session = Current(h)
      BY Zenon
    <3>3. Current(h) \in live
      BY <3>1, <3>2, Zenon
    <3> QED BY <3>1, <3>2, <3>3, Zenon
  <2>2. CASE k # key
    BY <1>5, <2>2 DEF GCInv, SteadyOK
  <2> QED BY <2>1, <2>2
<1>7. \A g \in Host : \A r \in gc[g].seen \cup gc[g].todo :
        /\ r.key \in Key /\ r.index \in Nat /\ r.index <= index
        /\ Unchanged(r)' => r.key # key /\ Unchanged(r)
  BY <1>3, <1>5 DEF GCInv, TypeOK, Seen, IndexOK, Unchanged
<1>8. IndexOK'
  <2>1. \A k \in Key : recs'[k] # None => recs'[k].index <= index'
    BY <1>3, <1>5 DEF GCInv, TypeOK, Record, IndexOK
  <2> QED BY <1>3, <1>5, <1>7, <2>1 DEF GCInv, IndexOK
<1>9. TodoOK'
  BY <1>3, <1>5, <1>7 DEF GCInv, TodoOK
<1> QED BY <1>4, <1>6, <1>8, <1>9 DEF GCInv

\* Removing one record, a rule, a service or all of them.
LEMMA DeregisterInv ==
  ASSUME GCInv, NEW d \in Name \cup HostDirs, NEW h \in Host, Deregister(d, h)
  PROVE  GCInv'
<1> DEFINE gone == {<<d, h>>}
<1>1. gone \in SUBSET Key
  BY DEF Key
<1>2. /\ recs' = [k \in Key |-> IF k \in gone THEN None ELSE recs[k]]
      /\ UNCHANGED <<index, live, gc>>
  BY <1>1 DEF GCInv, TypeOK, Deregister, daemon
<1>3. TypeOK'
  <2>1. recs' \in [Key -> Record \cup {None}]
    BY <1>2 DEF GCInv, TypeOK
  <2> QED BY <2>1 DEF GCInv, TypeOK, Deregister, daemon
<1> QED BY <1>1, <1>2, <1>3, RecordsGo

\* Erasing services only takes records away.
LEMMA EraseInv ==
  ASSUME GCInv, NEW names \in SUBSET Name, Erase(names),
         UNCHANGED <<index, daemon, gc, watching, errors>>
  PROVE  GCInv'
<1> DEFINE gone == {k \in Key : k[1] \in names}
<1>1. /\ recs' = [k \in Key |-> IF k \in gone THEN None ELSE recs[k]]
      /\ UNCHANGED <<index, live, gc>>
  BY DEF Erase, daemon
<1>2. TypeOK'
  <2>1. recs' \in [Key -> Record \cup {None}]
    BY <1>1 DEF GCInv, TypeOK
  <2> QED BY <2>1 DEF GCInv, TypeOK, Erase, daemon
<1> QED BY <1>1, <1>2, RecordsGo

\* Specifications and rules are none of the collection's business.
LEMMA DetailsInv ==
  ASSUME GCInv, NEW n \in Name, NEW detail \in Detail,
         AddService(n, detail) \/ SetContainerRule(n, detail)
  PROVE  GCInv'
<1> USE DEF GCInv
<1>1. TypeOK'
  BY DEF TypeOK, AddService, SetContainerRule, daemon
<1>2. SteadyOK' /\ IndexOK' /\ TodoOK'
  BY DEF TypeOK, Record, Seen, AddService, SetContainerRule, daemon,
         SteadyOK, IndexOK, TodoOK, Unchanged
<1> QED BY <1>1, <1>2

\* Nor is the removal of a rule.
LEMMA RemoveContainerRuleInv ==
  ASSUME GCInv, NEW n \in Name, RemoveContainerRule(n)
  PROVE  GCInv'
<1>1. TypeOK'
  BY DEF GCInv, TypeOK, RemoveContainerRule, daemon
<1> QED BY <1>1, Framed DEF RemoveContainerRule, daemon

-----------------------------------------------------------------------------
\* What is read is what is there.
LEMMA ReadOK ==
  ASSUME GCInv, NEW d, NEW r \in ReadRecords(d)
  PROVE  /\ r \in Seen /\ r.index <= index
         /\ Unchanged(r) /\ recs[r.key].session = r.session
<1>1. PICK k \in Key : recs[k] # None /\
               r = [key |-> k, session |-> recs[k].session, index |-> recs[k].index]
  BY DEF ReadRecords
<1>2. recs[k] \in Record
  BY <1>1 DEF GCInv, TypeOK
<1> QED BY <1>1, <1>2 DEF GCInv, IndexOK, Unchanged, Seen, Record

(***************************************************************************)
(* A collection takes a step and leaves the store alone: it may see more   *)
(* records, as they are, and put on its list those that are not steady.    *)
(***************************************************************************)
LEMMA CollectionSteps ==
  ASSUME GCInv, NEW h \in Host,
         NEW g \in [pc : {"idle", "services", "live", "cull"},
                    seen : SUBSET Seen, todo : SUBSET Seen],
         gc' = [gc EXCEPT ![h] = g],
         \A r \in g.seen : r.index <= index /\ (Unchanged(r) => recs[r.key].session = r.session),
         \A r \in g.todo : r.index <= index /\ (Unchanged(r) => ~recs[r.key].steady),
         UNCHANGED <<tree, daemon, watching>>, errors' \in Nat
  PROVE  GCInv'
<1> USE DEF GCInv
<1>1. \A x \in Host : gc'[x] = IF x = h THEN g ELSE gc[x]
  BY DEF TypeOK
<1>2. TypeOK'
  <2>1. gc' \in [Host -> [pc : {"idle", "services", "live", "cull"},
                         seen : SUBSET Seen, todo : SUBSET Seen]]
    BY DEF TypeOK
  <2> QED BY <2>1 DEF TypeOK, tree, daemon
<1>3. SteadyOK'
  BY DEF SteadyOK, tree, daemon
<1>4. IndexOK'
  <2>1. \A r : Unchanged(r)' <=> Unchanged(r)
    BY DEF Unchanged, tree
  <2> QED BY <1>1, <2>1 DEF IndexOK, tree
<1>5. TodoOK'
  <2>1. \A r : Unchanged(r)' <=> Unchanged(r)
    BY DEF Unchanged, tree
  <2> QED BY <1>1, <2>1 DEF TodoOK, tree
<1> QED BY <1>2, <1>3, <1>4, <1>5

\* Reading the hosts begins a collection with what is there.
LEMMA GCHostsInv ==
  ASSUME GCInv, NEW h \in Host, GCHosts(h)
  PROVE  GCInv'
<1> DEFINE g == [pc |-> "services", seen |-> ReadRecords(HostDirs), todo |-> {}]
<1>1. ReadRecords(HostDirs) \in SUBSET Seen
  BY ReadOK
<1>2. gc' = [gc EXCEPT ![h] = g] /\ UNCHANGED <<tree, daemon, watching>> /\ errors' \in Nat
  BY DEF GCHosts, GCInv, TypeOK
<1>3. \A r \in g.seen : r.index <= index /\ (Unchanged(r) => recs[r.key].session = r.session)
  BY ReadOK
<1>4. g \in [pc : {"idle", "services", "live", "cull"}, seen : SUBSET Seen, todo : SUBSET Seen]
  BY <1>1
<1>5. g.todo = {}
  OBVIOUS
<1> HIDE DEF g
<1> QED BY <1>2, <1>3, <1>4, <1>5, CollectionSteps

\* Reading the services adds what is there to what was seen.
LEMMA GCServicesInv ==
  ASSUME GCInv, NEW h \in Host, GCServices(h)
  PROVE  GCInv'
<1> DEFINE g == [gc[h] EXCEPT !.pc = "live", !.seen = @ \cup ReadRecords(Name)]
<1>1. ReadRecords(Name) \in SUBSET Seen
  BY ReadOK
<1>2. gc' = [gc EXCEPT ![h] = g] /\ UNCHANGED <<tree, daemon, watching>> /\ errors' \in Nat
  BY DEF GCServices, GCInv, TypeOK
<1>3. g.seen = gc[h].seen \cup ReadRecords(Name) /\ g.todo = gc[h].todo
  BY DEF GCInv, TypeOK
<1>4. g \in [pc : {"idle", "services", "live", "cull"}, seen : SUBSET Seen, todo : SUBSET Seen]
  BY <1>1 DEF GCInv, TypeOK
<1>5. \A r \in g.seen : r.index <= index /\ (Unchanged(r) => recs[r.key].session = r.session)
  BY <1>3, ReadOK DEF GCInv, IndexOK
<1>6. \A r \in g.todo : r.index <= index /\ (Unchanged(r) => ~recs[r.key].steady)
  BY <1>3 DEF GCInv, IndexOK, TodoOK
<1> HIDE DEF g
<1> QED BY <1>2, <1>4, <1>5, <1>6, CollectionSteps

(***************************************************************************)
(* The step that matters: a record that was seen, is as it was and has a   *)
(* session that is not live now is not steady.                             *)
(***************************************************************************)
LEMMA GCLiveInv ==
  ASSUME GCInv, NEW h \in Host, GCLive(h)
  PROVE  GCInv'
<1> DEFINE g == [pc |-> "cull", seen |-> {}, todo |-> Dead(gc[h].seen)]
<1>1. gc' = [gc EXCEPT ![h] = g] /\ UNCHANGED <<tree, daemon, watching>> /\ errors' \in Nat
  BY DEF GCLive, GCInv, TypeOK
<1>2. g \in [pc : {"idle", "services", "live", "cull"}, seen : SUBSET Seen, todo : SUBSET Seen]
  BY DEF GCInv, TypeOK, Dead
<1>3. g.seen = {} /\ g.todo = Dead(gc[h].seen)
  OBVIOUS
<1>4. ASSUME NEW r \in Dead(gc[h].seen)
      PROVE  r.index <= index /\ (Unchanged(r) => ~recs[r.key].steady)
  <2>1. r \in gc[h].seen /\ r.session \notin live /\ r.key \in Key
    BY DEF Dead, GCInv, TypeOK, Seen
  <2>2. Unchanged(r) => recs[r.key].session = r.session /\ recs[r.key] # None
    BY <2>1 DEF GCInv, IndexOK, Unchanged
  <2> QED BY <2>1, <2>2 DEF GCInv, IndexOK, SteadyOK
<1> HIDE DEF g
<1> QED BY <1>1, <1>2, <1>3, <1>4, CollectionSteps

\* A collection that ends or fails is forgotten.
LEMMA GCRestsInv ==
  ASSUME GCInv, NEW h \in Host, GCFails(h) \/ GCEnds(h)
  PROVE  GCInv'
<1> DEFINE g == Resting
<1>1. gc' = [gc EXCEPT ![h] = g] /\ UNCHANGED <<tree, daemon, watching>> /\ errors' \in Nat
  BY DEF GCFails, GCEnds, GCInv, TypeOK
<1>2. g \in [pc : {"idle", "services", "live", "cull"}, seen : SUBSET Seen, todo : SUBSET Seen]
  BY DEF Resting
<1>3. g.seen = {} /\ g.todo = {}
  BY DEF Resting
<1> HIDE DEF g
<1> QED BY <1>1, <1>2, <1>3, CollectionSteps

\* Deleting takes a record and an entry of the list away.
LEMMA GCDeleteInv ==
  ASSUME GCInv, NEW h \in Host, GCDelete(h)
  PROVE  GCInv'
<1>1. PICK r \in gc[h].todo :
        /\ gc' = [gc EXCEPT ![h].todo = @ \ {r}]
        /\ \/ Unchanged(r) /\ recs' = [recs EXCEPT ![r.key] = None]
           \/ UNCHANGED recs
  BY DEF GCDelete
<1>2. r \in Seen /\ r.key \in Key
  BY DEF GCInv, TypeOK, Seen
<1> DEFINE gone == IF recs' = recs THEN {} ELSE {r.key}
<1>3. /\ gone \in SUBSET Key
      /\ recs' = [k \in Key |-> IF k \in gone THEN None ELSE recs[k]]
  BY <1>1, <1>2 DEF GCInv, TypeOK
<1>4. UNCHANGED <<index, live>>
  BY DEF GCDelete, daemon
<1>5. \A x \in Host : gc'[x].seen = gc[x].seen /\ gc'[x].todo \subseteq gc[x].todo
  BY <1>1 DEF GCInv, TypeOK
<1>6. TypeOK'
  <2>1. recs' \in [Key -> Record \cup {None}]
    BY <1>3 DEF GCInv, TypeOK
  <2>2. gc' \in [Host -> [pc : {"idle", "services", "live", "cull"},
                         seen : SUBSET Seen, todo : SUBSET Seen]]
    BY <1>1 DEF GCInv, TypeOK
  <2>3. errors' \in Nat
    BY DEF GCDelete, GCInv, TypeOK
  <2> QED BY <2>1, <2>2, <2>3 DEF GCInv, TypeOK, GCDelete, daemon
<1> QED BY <1>3, <1>4, <1>5, <1>6, RecordsGo

-----------------------------------------------------------------------------
\* Every step preserves the invariant.
LEMMA StepInv == GCInv /\ [StoreNext]_store => GCInv'
<1> SUFFICES ASSUME GCInv, [StoreNext]_store PROVE GCInv'
  OBVIOUS
<1>1. CASE UNCHANGED store
  <2>1. TypeOK'
    BY <1>1 DEF GCInv, TypeOK, store, tree, daemon
  <2> QED BY <1>1, <2>1, Framed DEF store, tree, daemon
<1>2. ASSUME NEW h \in Host,
             \/ DaemonStarts(h) \/ SessionMade(h) \/ HeartbeatLands(h)
             \/ DaemonStops(h) \/ Collect(h) \/ GCFails(h)
      PROVE  GCInv'
  BY <1>2, DaemonStartsInv, SessionMadeInv, HeartbeatLandsInv, DaemonStopsInv, GCHostsInv,
     GCServicesInv, GCLiveInv, GCDeleteInv, GCRestsInv DEF Collect
<1>3. ASSUME NEW s \in Session, SessionExpires(s)
      PROVE  GCInv'
  BY <1>3, SessionExpiresInv
<1>4. ASSUME NEW d \in Name \cup HostDirs, NEW h \in Host,
             Register(d, h) \/ Deregister(d, h)
      PROVE  GCInv'
  BY <1>4, RegisterInv, DeregisterInv
<1>5. ASSUME NEW n \in Name, NEW detail \in Detail,
             AddService(n, detail) \/ SetContainerRule(n, detail)
      PROVE  GCInv'
  BY <1>5, DetailsInv
<1>6. ASSUME NEW n \in Name, RemoveContainerRule(n) \/ RemoveService(n)
      PROVE  GCInv'
  <2>1. CASE RemoveService(n)
    BY <2>1, EraseInv DEF RemoveService
  <2> QED BY <1>6, <2>1, RemoveContainerRuleInv
<1>7. CASE RemoveAllServices
  BY <1>7, EraseInv DEF RemoveAllServices
<1> QED BY <1>1, <1>2, <1>3, <1>4, <1>5, <1>6, <1>7 DEF StoreNext

\* The inductive invariant, its types among it, holds of every reachable state.
THEOREM Invariance == StoreSpec => []GCInv
BY InitInv, StepInv, PTL DEF StoreSpec

\* The variables keep their types, and a daemon that is up has been started.
THEOREM TypeCorrect == StoreSpec => []TypeOK
<1>1. GCInv => TypeOK
  BY DEF GCInv
<1> QED BY Invariance, <1>1, PTL

\* A collection deletes no record whose session has been live ever since the
\* record was written (gc.go:14-27, 62).
THEOREM CollectionSafe == StoreSpec => GCSafe
<1>1. GCInv /\ [StoreNext]_store =>
        [\A h \in Host, k \in Key : Deletes(h, k) => ~recs[k].steady]_store
  <2> SUFFICES ASSUME GCInv, NEW h \in Host, NEW k \in Key, Deletes(h, k)
               PROVE  ~recs[k].steady
    OBVIOUS
  <2>1. PICK r \in gc[h].todo :
          \/ Unchanged(r) /\ recs' = [recs EXCEPT ![r.key] = None]
          \/ UNCHANGED recs
    BY DEF Deletes, GCDelete
  <2>2. recs[k] # None /\ recs'[k] = None
    BY DEF Deletes
  <2>3. Unchanged(r) /\ r.key = k
    BY <2>1, <2>2 DEF GCInv, TypeOK, Seen
  <2> QED BY <2>3 DEF GCInv, TodoOK
<1> QED BY <1>1, Invariance, PTL DEF StoreSpec, GCSafe

-----------------------------------------------------------------------------
(***************************************************************************)
(* The watch.  While it is up, a service is in one of these: an event of   *)
(* it is queued, a change of it is noted, it is being asked for, or what   *)
(* the callback was told of it is current.                                 *)
(***************************************************************************)
\* The events of a watch.
Event ==
  [action : {"delete"}, kind : {"root"}, name : {None}] \cup
  [action : {"delete"}, kind : {"service"}, name : Name] \cup
  [action : {"set"}, kind : {"spec"}, name : Name] \cup
  [action : {"set", "delete", "compareAndDelete"}, kind : {"rule", "instance"}, name : Name]

\* An event ends a service, begins it, or is a reason to ask for it.
Ends(e, n)     == e.kind = "root" \/ (e.kind = "service" /\ e.name = n)
Begins(e, n)   == e.kind = "spec" /\ e.name = n
Concerns(e, n) == Ends(e, n) \/ Begins(e, n) \/ (Heeds(e) /\ e.name = n)

\* The services that the queued events concern, and those that they begin.
Queued    == {n \in Name : \E i \in DOMAIN feed : Concerns(feed[i], n)}
Beginning == {n \in Name : \E i \in DOMAIN feed : Begins(feed[i], n)}

\* The services with a change noted, and with the deletion noted.
Noted  == {n \in Name : \E i \in DOMAIN changes : changes[i].name = n}
Ending == {n \in Name : \E i \in DOMAIN changes : changes[i].name = n /\ changes[i].deleted}

\* The services whose instances, by the sessions that were read, are those
\* in sight now, but for the silent ones.
Counted ==
  {n \in Name : \A h \in Host : <<n, h>> \notin silent =>
     (h \in Visible(n, alive) <=> h \in Visible(n, live))}

\* The services of which the callback has been told what there is.
Told ==
  {n \in Name :
     /\ view[n] = None <=> spec[n] = None
     /\ view[n] # None =>
          /\ view[n].spec = spec[n]
          /\ "rules" \in With => view[n].rule = rules[n]
          /\ "instances" \in With =>
               \A h \in Host : <<n, h>> \notin silent =>
                 (h \in view[n].insts <=> h \in Visible(n, live))}

\* The shapes of the watch's variables at each place of its loop.
Places ==
  /\ feed \in Seq(Event) /\ changes \in Seq([name : Name, deleted : BOOLEAN])
  /\ IsFiniteSet(dirs) /\ svcs \subseteq Name /\ IsFiniteSet(svcs)
  /\ pc \in {"off", "open", "list", "wait", "ask", "get"}
  /\ watching => pc # "off"
  /\ pc \in {"off", "open", "list"} => changes = <<>>
  /\ pc \in {"ask", "get"} => name \in Name
  /\ \A n \in Name : spec[n] # None => n \in dirs

\* A service that there is has its beginning after any end that is on its way;
\* it is known, or will be.
Beginnings ==
  pc # "off" => \A n \in Name : spec[n] # None =>
    /\ \A i \in DOMAIN feed : Ends(feed[i], n) =>
         \E j \in DOMAIN feed : i < j /\ Begins(feed[j], n)
    /\ n \in Ending => n \in Beginning
    /\ n \in svcs \cup Beginning

\* The run loop has had its first answer.
Listed == pc \in {"wait", "ask", "get"}

\* What the callback knows of is known, or is on its way to begin or end.
Knowledge ==
  Listed => \A n \in Name : view[n] # None => n \in svcs \cup Beginning \cup Ending

\* What is neither queued nor noted nor asked for has been told.
Telling ==
  /\ Listed => \A n \in Name \ (Queued \cup Noted) :
                 n \in Told \/ (pc \in {"ask", "get"} /\ n = name)
  /\ "instances" \in With /\ (pc = "list" \/ pc = "get") =>
       \A n \in Name \ (Queued \cup Noted) :
         n \in Counted \/ (pc = "get" /\ n # name)

\* The invariant that the induction needs: the last three of a watch that is up.
Following == Beginnings /\ Knowledge /\ Telling

WatchInv == GCInv /\ WatchTypeOK /\ Places /\ (watching => Following)

-----------------------------------------------------------------------------
(***************************************************************************)
(* What a step of the store does to a watch.                               *)
(***************************************************************************)
\* It sends no event, and the records of the services keep their sessions.
Quiet ==
  /\ UNCHANGED <<feed, spec, rules>>
  /\ \A n \in Name, h \in Host :
       /\ recs'[<<n, h>>] = None <=> recs[<<n, h>>] = None
       /\ recs[<<n, h>>] # None => recs'[<<n, h>>].session = recs[<<n, h>>].session

\* It sends an event: of what the event does not concern nothing has changed,
\* except that a collection may have deleted a record.
Announced(e) ==
  /\ feed' = IF watching THEN Append(feed, e) ELSE feed
  /\ live' = live
  /\ \A n \in Name :
       /\ Ends(e, n) => spec'[n] = None
       /\ ~Ends(e, n) /\ ~Begins(e, n) => spec'[n] = spec[n]
       /\ ~Concerns(e, n) /\ "rules" \in With => rules'[n] = rules[n]
       /\ ~Concerns(e, n) /\ "instances" \in With =>
            \A h \in Host :
              \/ recs'[<<n, h>>] = recs[<<n, h>>]
              \/ recs'[<<n, h>>] = None /\ e.action = "compareAndDelete"

\* Service directories remain a finite set, and hold every specification.
Tidy ==
  /\ IsFiniteSet(dirs')
  /\ \A n \in Name : spec'[n] # None => n \in dirs'

\* Registering and removing records.
LEMMA RecordsAnnounced ==
  ASSUME TypeOK, Places, NEW d \in Name \cup HostDirs, NEW h \in Host,
         Register(d, h) \/ Deregister(d, h)
  PROVE  Tidy /\ (Quiet \/ \E e \in Event : Announced(e))
<1>1. /\ UNCHANGED <<spec, rules, live>>
      /\ \A k \in Key : k # <<d, h>> => recs'[k] = recs[k]
  BY DEF Register, Deregister, TypeOK, daemon
<1>2. Tidy
  <2>1. IsFiniteSet(dirs') /\ dirs \subseteq dirs'
    <3>1. CASE dirs' = dirs \cup {d}
      BY <3>1, FS_AddElement DEF Places
    <3>2. CASE dirs' = dirs
      BY <3>2 DEF Places
    <3> QED BY <3>1, <3>2 DEF Register, Deregister
  <2> QED BY <1>1, <2>1 DEF Tidy, Places
<1>3. CASE d \notin Name
  <2>1. \A n \in Name, g \in Host : recs'[<<n, g>>] = recs[<<n, g>>]
    BY <1>1, <1>3 DEF Key
  <2>2. UNCHANGED feed
    BY <1>3 DEF Register, Deregister
  <2> QED BY <1>1, <1>2, <2>1, <2>2 DEF Quiet
<1>4. CASE d \in Name
  <2>1. PICK a \in {"set", "delete"} : Emit(a, "instance", d)
    BY <1>4 DEF Register, Deregister
  <2> DEFINE e == [action |-> a, kind |-> "instance", name |-> d]
  <2>2. e \in Event
    BY <1>4 DEF Event
  <2>3. feed' = IF watching THEN Append(feed, e) ELSE feed
    BY <2>1 DEF Emit
  <2>4. ASSUME NEW n \in Name
        PROVE  /\ ~Ends(e, n) /\ ~Begins(e, n)
               /\ "instances" \in With /\ ~Concerns(e, n) => n # d
    BY DEF Ends, Begins, Concerns, Heeds, Relevant
  <2>5. \A n \in Name, g \in Host : n # d => recs'[<<n, g>>] = recs[<<n, g>>]
    BY <1>1 DEF Key
  <2> HIDE DEF e
  <2>6. Announced(e)
    BY <1>1, <2>3, <2>4, <2>5 DEF Announced
  <2> QED BY <1>2, <2>2, <2>6
<1> QED BY <1>3, <1>4

\* Writing a specification or a rule, and removing a rule.
LEMMA DetailsAnnounced ==
  ASSUME TypeOK, Places, NEW n \in Name, NEW detail \in Detail,
         AddService(n, detail) \/ SetContainerRule(n, detail)
  PROVE  Tidy /\ \E e \in Event : Announced(e)
<1>1. /\ UNCHANGED <<recs, live>> /\ dirs' = dirs \cup {n}
      /\ \A m \in Name : m # n => spec'[m] = spec[m] /\ rules'[m] = rules[m]
  BY DEF AddService, SetContainerRule, TypeOK, daemon
<1>2. Tidy
  BY <1>1, FS_AddElement DEF Tidy, Places
<1>3. CASE AddService(n, detail)
  <2> DEFINE e == [action |-> "set", kind |-> "spec", name |-> n]
  <2>1. e \in Event
    BY DEF Event
  <2>2. feed' = (IF watching THEN Append(feed, e) ELSE feed) /\ UNCHANGED rules
    BY <1>3 DEF Emit, AddService
  <2>3. \A m \in Name : ~Ends(e, m) /\ (Begins(e, m) <=> m = n)
    BY DEF Ends, Begins
  <2> HIDE DEF e
  <2>4. Announced(e)
    BY <1>1, <2>2, <2>3 DEF Announced
  <2> QED BY <1>2, <2>1, <2>4
<1>4. CASE SetContainerRule(n, detail)
  <2> DEFINE e == [action |-> "set", kind |-> "rule", name |-> n]
  <2>1. e \in Event
    BY DEF Event
  <2>2. feed' = (IF watching THEN Append(feed, e) ELSE feed) /\ UNCHANGED spec
    BY <1>4 DEF Emit, SetContainerRule
  <2>3. \A m \in Name : ~Ends(e, m) /\ ("rules" \in With /\ ~Concerns(e, m) => m # n)
    BY DEF Ends, Begins, Concerns, Heeds, Relevant
  <2> HIDE DEF e
  <2>4. Announced(e)
    BY <1>1, <2>2, <2>3 DEF Announced
  <2> QED BY <1>2, <2>1, <2>4
<1> QED BY <1>3, <1>4

\* Removing a rule.
LEMMA RuleGoes ==
  ASSUME TypeOK, Places, NEW n \in Name, RemoveContainerRule(n)
  PROVE  Tidy /\ \E e \in Event : Announced(e)
<1> DEFINE e == [action |-> "delete", kind |-> "rule", name |-> n]
<1>1. e \in Event
  BY DEF Event
<1>2. /\ feed' = (IF watching THEN Append(feed, e) ELSE feed)
      /\ UNCHANGED <<spec, recs, live, dirs>>
      /\ \A m \in Name : m # n => rules'[m] = rules[m]
  BY DEF Emit, RemoveContainerRule, TypeOK, daemon
<1>3. \A m \in Name : ~Ends(e, m) /\ ("rules" \in With /\ ~Concerns(e, m) => m # n)
  BY DEF Ends, Begins, Concerns, Heeds, Relevant
<1> HIDE DEF e
<1>4. Announced(e)
  BY <1>2, <1>3 DEF Announced
<1>5. Tidy
  BY <1>2 DEF Tidy, Places
<1> QED BY <1>1, <1>4, <1>5

\* Erasing services, one or all.
LEMMA EraseAnnounced ==
  ASSUME TypeOK, Places, NEW names \in SUBSET Name, Erase(names), UNCHANGED live,
         NEW e \in Event, feed' = IF watching THEN Append(feed, e) ELSE feed,
         \A n \in Name : n \in names <=> Ends(e, n)
  PROVE  Tidy /\ Announced(e)
<1>1. /\ \A n \in Name : n \in names => spec'[n] = None
      /\ \A n \in Name : n \notin names => spec'[n] = spec[n] /\ rules'[n] = rules[n]
      /\ \A n \in Name, h \in Host : n \notin names => recs'[<<n, h>>] = recs[<<n, h>>]
  BY DEF Erase, Key
<1>2. Tidy
  <2>1. dirs' = dirs \ names /\ dirs' \subseteq dirs
    BY DEF Erase
  <2>2. IsFiniteSet(dirs')
    BY <2>1, FS_Subset DEF Places
  <2>3. ASSUME NEW n \in Name, spec'[n] # None PROVE n \in dirs'
    BY <1>1, <2>1, <2>3 DEF Places
  <2> QED BY <2>2, <2>3 DEF Tidy
<1>3. Announced(e)
  BY <1>1 DEF Announced, Concerns
<1> QED BY <1>2, <1>3

\* Removing a service, or all of them.
LEMMA ServicesGo ==
  ASSUME TypeOK, Places, RemoveAllServices \/ \E n \in Name : RemoveService(n)
  PROVE  Tidy /\ \E e \in Event : Announced(e)
<1>1. CASE RemoveAllServices
  <2> DEFINE e == [action |-> "delete", kind |-> "root", name |-> None]
  <2>1. e \in Event /\ \A n \in Name : Ends(e, n)
    BY DEF Event, Ends
  <2>2. Erase(Name) /\ feed' = (IF watching THEN Append(feed, e) ELSE feed) /\ UNCHANGED live
    BY <1>1 DEF Emit, RemoveAllServices, daemon
  <2> HIDE DEF e
  <2> QED BY <2>1, <2>2, EraseAnnounced
<1>2. ASSUME NEW n \in Name, RemoveService(n)
      PROVE  Tidy /\ \E e \in Event : Announced(e)
  <2> DEFINE e == [action |-> "delete", kind |-> "service", name |-> n]
  <2>1. e \in Event /\ \A m \in Name : m \in {n} <=> Ends(e, m)
    BY DEF Event, Ends
  <2>2. Erase({n}) /\ feed' = (IF watching THEN Append(feed, e) ELSE feed) /\ UNCHANGED live
    BY <1>2 DEF Emit, RemoveService, daemon
  <2> HIDE DEF e
  <2> QED BY <2>1, <2>2, EraseAnnounced
<1> QED BY <1>1, <1>2

\* A collection deletes a record, or leaves it.
LEMMA CollectionAnnounced ==
  ASSUME TypeOK, Places, NEW h \in Host, GCDelete(h)
  PROVE  Tidy /\ (Quiet \/ \E e \in Event : Announced(e))
<1>1. PICK r \in gc[h].todo :
        \/ /\ recs' = [recs EXCEPT ![r.key] = None]
           /\ IF r.key[1] \notin Name THEN UNCHANGED feed
                                      ELSE Emit("compareAndDelete", "instance", r.key[1])
        \/ UNCHANGED <<recs, feed>>
  BY DEF GCDelete
<1>2. UNCHANGED <<dirs, spec, rules, live>>
  BY DEF GCDelete, daemon
<1>3. Tidy
  BY <1>2 DEF Tidy, Places
<1>4. r.key \in Key
  BY DEF TypeOK, Seen
<1>5. CASE UNCHANGED <<recs, feed>>
  BY <1>2, <1>3, <1>5 DEF Quiet
<1>6. CASE recs' = [recs EXCEPT ![r.key] = None] /\ r.key[1] \notin Name /\ UNCHANGED feed
  <2>1. \A n \in Name, g \in Host : recs'[<<n, g>>] = recs[<<n, g>>]
    BY <1>6
  <2> QED BY <1>2, <1>3, <1>6, <2>1 DEF Quiet
<1>7. CASE /\ recs' = [recs EXCEPT ![r.key] = None] /\ r.key[1] \in Name
           /\ Emit("compareAndDelete", "instance", r.key[1])
  <2> DEFINE e == [action |-> "compareAndDelete", kind |-> "instance", name |-> r.key[1]]
  <2>1. /\ e \in Event /\ e.action = "compareAndDelete"
        /\ \A n \in Name : ~Ends(e, n) /\ ~Begins(e, n)
    BY <1>7 DEF Event, Ends, Begins
  <2>2. feed' = IF watching THEN Append(feed, e) ELSE feed
    BY <1>7 DEF Emit
  <2>3. \A n \in Name, g \in Host : recs'[<<n, g>>] = recs[<<n, g>>] \/ recs'[<<n, g>>] = None
    BY <1>4, <1>7 DEF TypeOK, Key
  <2> HIDE DEF e
  <2> QED BY <1>2, <1>3, <2>1, <2>2, <2>3 DEF Announced
<1> QED BY <1>1, <1>5, <1>6, <1>7

\* A session that expires leaves its records where they are.
LEMMA ExpiryQuiet ==
  ASSUME TypeOK, Places, NEW s \in Session, SessionExpires(s)
  PROVE  Tidy /\ Quiet
<1>1. UNCHANGED <<dirs, spec, rules, feed>>
  BY DEF SessionExpires
<1>2. ASSUME NEW k \in Key
      PROVE  /\ recs'[k] = None <=> recs[k] = None
             /\ recs[k] # None => recs'[k].session = recs[k].session
  <2>1. recs'[k] = IF recs[k] # None /\ recs[k].session = s
                   THEN [recs[k] EXCEPT !.steady = FALSE] ELSE recs[k]
    BY DEF SessionExpires
  <2>2. CASE recs[k] = None
    BY <2>1, <2>2
  <2>3. CASE recs[k] # None
    <3>1. recs[k] \in Record
      BY <2>3 DEF TypeOK
    <3>2. [recs[k] EXCEPT !.steady = FALSE] \in Record
      BY <3>1 DEF Record
    <3>3. [recs[k] EXCEPT !.steady = FALSE].session = recs[k].session
      BY <3>1 DEF Record
    <3> QED BY <2>1, <2>3, <3>1, <3>2, <3>3, RecordNotNone
  <2> QED BY <2>2, <2>3
<1>3. \A n \in Name, h \in Host : <<n, h>> \in Key
  BY DEF Key
<1> QED BY <1>1, <1>2, <1>3 DEF Tidy, Quiet, Places

\* Every step of the store is quiet or announced.
LEMMA StoreEffect ==
  ASSUME TypeOK, Places, StoreNext
  PROVE  Tidy /\ (Quiet \/ \E e \in Event : Announced(e)) /\ watching' = watching
<1>0. watching' = watching
  BY DEF StoreNext, DaemonStarts, SessionMade, HeartbeatLands, DaemonStops, Collect, GCFails,
         GCHosts, GCServices, GCLive, GCDelete, GCEnds, SessionExpires, Register, Deregister,
         AddService, SetContainerRule, RemoveContainerRule, RemoveService, RemoveAllServices
<1>1. ASSUME NEW h \in Host,
             \/ DaemonStarts(h) \/ SessionMade(h) \/ HeartbeatLands(h) \/ DaemonStops(h)
             \/ GCHosts(h) \/ GCServices(h) \/ GCLive(h) \/ GCEnds(h) \/ GCFails(h)
      PROVE  Tidy /\ Quiet
  <2>1. UNCHANGED <<dirs, spec, rules, recs, feed>>
    BY <1>1 DEF DaemonStarts, SessionMade, HeartbeatLands, DaemonStops, GCFails,
                GCHosts, GCServices, GCLive, GCEnds, tree
  <2> QED BY <2>1 DEF Tidy, Quiet, Places
<1>2. ASSUME NEW s \in Session, SessionExpires(s)
      PROVE  Tidy /\ Quiet
  BY <1>2, ExpiryQuiet
<1>3. ASSUME NEW h \in Host, GCDelete(h)
      PROVE  Tidy /\ (Quiet \/ \E e \in Event : Announced(e))
  BY <1>3, CollectionAnnounced
<1>4. ASSUME NEW d \in Name \cup HostDirs, NEW h \in Host, Register(d, h) \/ Deregister(d, h)
      PROVE  Tidy /\ (Quiet \/ \E e \in Event : Announced(e))
  BY <1>4, RecordsAnnounced
<1>5. ASSUME NEW n \in Name, NEW detail \in Detail,
             AddService(n, detail) \/ SetContainerRule(n, detail)
      PROVE  Tidy /\ \E e \in Event : Announced(e)
  BY <1>5, DetailsAnnounced
<1>6. ASSUME NEW n \in Name, RemoveContainerRule(n)
      PROVE  Tidy /\ \E e \in Event : Announced(e)
  BY <1>6, RuleGoes
<1>7. ASSUME RemoveAllServices \/ \E n \in Name : RemoveService(n)
      PROVE  Tidy /\ \E e \in Event : Announced(e)
  BY <1>7, ServicesGo
<1> QED BY <1>0, <1>1, <1>2, <1>3, <1>4, <1>5, <1>6, <1>7 DEF StoreNext, Collect

-----------------------------------------------------------------------------
\* The queue: an event is put at its end, or taken from its head.
LEMMA QueueAppend ==
  ASSUME NEW q, q \in Seq(Event), NEW e \in Event
  PROVE  /\ Append(q, e) \in Seq(Event)
         /\ DOMAIN Append(q, e) = DOMAIN q \cup {Len(q) + 1}
         /\ Append(q, e)[Len(q) + 1] = e
         /\ \A i \in DOMAIN q : Append(q, e)[i] = q[i] /\ i < Len(q) + 1
OBVIOUS

\* A function on an interval from 1 is a sequence.
LEMMA SeqOf == ASSUME NEW S, NEW m \in Nat, NEW f \in [1 .. m -> S] PROVE f \in Seq(S)
OBVIOUS

\* The elements of a sequence.
LEMMA ElementOf == ASSUME NEW S, NEW q \in Seq(S) PROVE \A i \in DOMAIN q : q[i] \in S
OBVIOUS

\* Taking from the head.
LEMMA QueueTail ==
  ASSUME NEW S, NEW q, q \in Seq(S), q # <<>>
  PROVE  /\ Head(q) \in S /\ Tail(q) \in Seq(S)
         /\ \A i \in DOMAIN q : q[i] = Head(q) \/ (i - 1 \in DOMAIN Tail(q) /\ Tail(q)[i - 1] = q[i])
         /\ \A i \in DOMAIN Tail(q) : i + 1 \in DOMAIN q /\ q[i + 1] = Tail(q)[i]
         /\ DOMAIN Tail(q) \subseteq Int /\ DOMAIN q \subseteq Int
         /\ 1 \in DOMAIN q /\ q[1] = Head(q)
OBVIOUS

\* What an event at the end of the queue adds to the sets.
LEMMA QueuedMore ==
  ASSUME feed \in Seq(Event), NEW e \in Event, feed' = Append(feed, e)
  PROVE  /\ \A n \in Name : n \in Queued' <=> n \in Queued \/ Concerns(e, n)
         /\ \A n \in Name : n \in Beginning' <=> n \in Beginning \/ Begins(e, n)
<1>1. /\ DOMAIN feed' = DOMAIN feed \cup {Len(feed) + 1} /\ feed'[Len(feed) + 1] = e
      /\ \A i \in DOMAIN feed : feed'[i] = feed[i]
  BY QueueAppend
<1> QED BY <1>1 DEF Queued, Beginning

\* An instance comes into sight, or goes out of sight, with an event or in
\* silence.
LEMMA SilenceGrows ==
  ASSUME StoreStep
  PROVE  /\ silent \subseteq silent'
         /\ Heeded \/ \A n \in Name, h \in Host :
              \/ <<n, h>> \in silent'
              \/ (recs'[<<n, h>>] # None /\ recs'[<<n, h>>].session \in live') <=>
                   (recs[<<n, h>>] # None /\ recs[<<n, h>>].session \in live)
<1>1. silent' = IF Heeded THEN silent
               ELSE silent \cup {k \in Name \X Host : InSight(k)' # InSight(k)}
  BY DEF StoreStep
<1>2. CASE ~Heeded
  <2> SUFFICES ASSUME NEW n \in Name, NEW h \in Host, <<n, h>> \notin silent'
               PROVE  (recs'[<<n, h>>] # None /\ recs'[<<n, h>>].session \in live') <=>
                        (recs[<<n, h>>] # None /\ recs[<<n, h>>].session \in live)
    BY <1>1, <1>2
  <2> DEFINE k == <<n, h>>
  <2>1. k \in Name \X Host
    OBVIOUS
  <2>2. k \notin silent' => ~(InSight(k)' # InSight(k))
    BY <1>1, <1>2, <2>1
  <2> QED BY <2>2 DEF InSight
<1> QED BY <1>1, <1>2

\* What the store does to a service that no event has been sent of.
LEMMA Unconcerned ==
  ASSUME WatchInv, StoreStep, Quiet \/ \E e \in Event : Announced(e), watching,
         NEW n \in Name, n \notin Queued'
  PROVE  /\ n \notin Queued /\ spec'[n] = spec[n]
         /\ "rules" \in With => rules'[n] = rules[n]
         /\ "instances" \in With => \A h \in Host : <<n, h>> \notin silent' =>
              /\ <<n, h>> \notin silent
              /\ (recs'[<<n, h>>] # None /\ recs'[<<n, h>>].session \in live') <=>
                   (recs[<<n, h>>] # None /\ recs[<<n, h>>].session \in live)
              /\ recs'[<<n, h>>] # None =>
                   recs[<<n, h>>] # None /\ recs'[<<n, h>>].session = recs[<<n, h>>].session
              /\ recs[<<n, h>>] # None /\ recs[<<n, h>>].session \in live => recs'[<<n, h>>] # None
<1>0. feed \in Seq(Event)
  BY DEF WatchInv, Places
<1>1. CASE Quiet
  <2>1. ~Heeded /\ feed' = feed
    BY <1>1 DEF Heeded, Quiet
  <2>2. n \notin Queued
    BY <2>1 DEF Queued
  <2> QED BY <1>1, <2>1, <2>2, SilenceGrows DEF Quiet
<1>2. ASSUME NEW e \in Event, Announced(e)
      PROVE  /\ n \notin Queued /\ spec'[n] = spec[n]
             /\ "rules" \in With => rules'[n] = rules[n]
             /\ "instances" \in With => \A h \in Host : <<n, h>> \notin silent' =>
                  /\ <<n, h>> \notin silent
                  /\ (recs'[<<n, h>>] # None /\ recs'[<<n, h>>].session \in live') <=>
                       (recs[<<n, h>>] # None /\ recs[<<n, h>>].session \in live)
                  /\ recs'[<<n, h>>] # None =>
                       recs[<<n, h>>] # None /\ recs'[<<n, h>>].session = recs[<<n, h>>].session
                  /\ recs[<<n, h>>] # None /\ recs[<<n, h>>].session \in live => recs'[<<n, h>>] # None
  <2>1. feed' = Append(feed, e)
    BY <1>2 DEF Announced
  <2>2. n \notin Queued /\ ~Concerns(e, n)
    BY <1>0, <2>1, QueuedMore
  <2>3. /\ spec'[n] = spec[n] /\ ("rules" \in With => rules'[n] = rules[n]) /\ live' = live
        /\ "instances" \in With => \A h \in Host :
              \/ recs'[<<n, h>>] = recs[<<n, h>>]
              \/ recs'[<<n, h>>] = None /\ e.action = "compareAndDelete"
    BY <1>2, <2>2 DEF Announced, Concerns
  <2>4. e.action = "compareAndDelete" => ~Heeded
    <3>1. Len(feed') = Len(feed) + 1 /\ feed'[Len(feed')] = e
      BY <1>0, <2>1
    <3> QED BY <3>1 DEF Heeded
  <2> QED BY <2>2, <2>3, <2>4, SilenceGrows
<1> QED BY <1>1, <1>2

\* A step of the store preserves the invariant.
LEMMA StoreStepInv ==
  ASSUME WatchInv, StoreStep
  PROVE  WatchInv'
<1> USE DEF WatchInv
<1>1. GCInv' /\ TypeOK'
  BY StepInv DEF StoreStep, GCInv
<1>2. StoreNext /\ UNCHANGED <<pc, svcs, changes, name, alive, view>>
  BY DEF StoreStep, watch
<1>3. Tidy /\ (Quiet \/ \E e \in Event : Announced(e)) /\ watching' = watching
  BY <1>2, StoreEffect DEF GCInv
<1>4. WatchTypeOK'
  <2>1. silent' \subseteq Key
    BY DEF StoreStep, WatchTypeOK, Key
  <2> QED BY <1>1, <1>2, <2>1 DEF WatchTypeOK
<1>5. feed' = feed \/ \E e \in Event : feed' = Append(feed, e)
  BY <1>3 DEF Quiet, Announced
<1>6. Places'
  <2>1. feed' \in Seq(Event)
    BY <1>5, QueueAppend DEF Places
  <2> QED BY <1>2, <1>3, <2>1 DEF Places, Tidy
<1>7. Noted' = Noted /\ Ending' = Ending
  BY <1>2 DEF Noted, Ending
<1>8. Beginning \subseteq Beginning'
  <2>1. ASSUME NEW e \in Event, feed' = Append(feed, e) PROVE Beginning \subseteq Beginning'
    <3>1. \A n \in Name : n \in Beginning => n \in Beginning'
      BY <2>1, QueuedMore DEF Places
    <3> QED BY <3>1 DEF Beginning
  <2> QED BY <1>5, <2>1 DEF Beginning
<1>9. SUFFICES ASSUME watching'
               PROVE  Following'
  BY <1>1, <1>4, <1>6
<1>10. watching /\ Beginnings /\ Knowledge /\ Telling
  BY <1>3, <1>9 DEF Following
<1> USE <1>10
<1>11. Knowledge'
  BY <1>2, <1>7, <1>8 DEF Knowledge, Listed
<1>12. Beginnings'
  <2> SUFFICES ASSUME pc # "off", NEW n \in Name, spec'[n] # None
               PROVE  /\ \A i \in DOMAIN feed' : Ends(feed'[i], n) =>
                           \E j \in DOMAIN feed' : i < j /\ Begins(feed'[j], n)
                      /\ n \in Ending' => n \in Beginning'
                      /\ n \in svcs' \cup Beginning'
    BY <1>2 DEF Beginnings
  <2>1. CASE Quiet
    <3>1. feed' = feed /\ spec' = spec /\ Beginning' = Beginning
      BY <2>1 DEF Quiet, Beginning
    <3> QED BY <1>2, <1>7, <3>1 DEF Beginnings
  <2>2. ASSUME NEW e \in Event, Announced(e)
        PROVE  /\ \A i \in DOMAIN feed' : Ends(feed'[i], n) =>
                    \E j \in DOMAIN feed' : i < j /\ Begins(feed'[j], n)
               /\ n \in Ending' => n \in Beginning'
               /\ n \in svcs' \cup Beginning'
    <3>1. feed' = Append(feed, e) /\ feed \in Seq(Event)
      BY <2>2 DEF Announced, Places
    <3>2. ~Ends(e, n) /\ (~Begins(e, n) => spec'[n] = spec[n])
      BY <2>2 DEF Announced
    <3>3. /\ DOMAIN feed' = DOMAIN feed \cup {Len(feed) + 1} /\ feed'[Len(feed) + 1] = e
          /\ \A i \in DOMAIN feed : feed'[i] = feed[i] /\ i < Len(feed) + 1
      BY <3>1, QueueAppend
    <3>4. CASE Begins(e, n)
      <4>1. n \in Beginning'
        BY <3>1, <3>4, QueuedMore
      <4>2. ASSUME NEW i \in DOMAIN feed', Ends(feed'[i], n)
            PROVE  \E j \in DOMAIN feed' : i < j /\ Begins(feed'[j], n)
        <5>1. i \in DOMAIN feed
          BY <3>2, <3>3, <4>2
        <5> QED BY <3>3, <3>4, <5>1
      <4> QED BY <4>1, <4>2
    <3>5. CASE spec'[n] = spec[n]
      <4>1. /\ \A i \in DOMAIN feed : Ends(feed[i], n) =>
                 \E j \in DOMAIN feed : i < j /\ Begins(feed[j], n)
            /\ n \in Ending => n \in Beginning
            /\ n \in svcs \cup Beginning
        BY <3>5 DEF Beginnings
      <4>2. ASSUME NEW i \in DOMAIN feed', Ends(feed'[i], n)
            PROVE  \E j \in DOMAIN feed' : i < j /\ Begins(feed'[j], n)
        <5>1. i \in DOMAIN feed /\ Ends(feed[i], n)
          BY <3>2, <3>3, <4>2
        <5>2. PICK j \in DOMAIN feed : i < j /\ Begins(feed[j], n)
          BY <4>1, <5>1
        <5> QED BY <3>3, <5>2
      <4> QED BY <1>2, <1>7, <1>8, <4>1, <4>2
    <3> QED BY <3>2, <3>4, <3>5
  <2> QED BY <1>3, <2>1, <2>2
<1>13. Telling'
  <2>1. ASSUME NEW n \in Name, n \notin Queued', pc # "off"
        PROVE  /\ n \notin Queued
               /\ n \in Told => n \in Told'
               /\ "instances" \in With /\ n \in Counted => n \in Counted'
    <3>1. /\ n \notin Queued /\ spec'[n] = spec[n] /\ view' = view /\ alive' = alive
          /\ "rules" \in With => rules'[n] = rules[n]
          /\ "instances" \in With => \A h \in Host : <<n, h>> \notin silent' =>
              /\ <<n, h>> \notin silent
              /\ (recs'[<<n, h>>] # None /\ recs'[<<n, h>>].session \in live') <=>
                   (recs[<<n, h>>] # None /\ recs[<<n, h>>].session \in live)
              /\ recs'[<<n, h>>] # None =>
                   recs[<<n, h>>] # None /\ recs'[<<n, h>>].session = recs[<<n, h>>].session
              /\ recs[<<n, h>>] # None /\ recs[<<n, h>>].session \in live => recs'[<<n, h>>] # None
      BY <1>2, <1>3, <2>1, Unconcerned DEF Places
    <3>2. n \in Told => n \in Told'
      BY <3>1 DEF Told, Visible
    <3>3. "instances" \in With /\ n \in Counted => n \in Counted'
      BY <3>1 DEF Counted, Visible
    <3> QED BY <3>1, <3>2, <3>3
  <2> QED BY <1>2, <1>7, <2>1 DEF Telling, Listed
<1> QED BY <1>11, <1>12, <1>13 DEF Following

-----------------------------------------------------------------------------
\* The watch leaves the store's own variables, and its invariant, alone.
LEMMA WatchLeavesStore ==
  ASSUME WatchInv, UNCHANGED <<tree, daemon, gc>>, errors' \in Nat, watching' \in BOOLEAN
  PROVE  GCInv' /\ TypeOK'
<1>1. TypeOK'
  BY DEF WatchInv, GCInv, TypeOK, tree, daemon
<1> QED BY <1>1, Framed DEF WatchInv, tree, daemon

\* What the callback is told is a service.
LEMMA InfoOfService ==
  ASSUME TypeOK, NEW n \in Name, spec[n] # None, NEW a
  PROVE  /\ Info(n, a) \in ServiceInfo /\ Info(n, a) # None
         /\ Info(n, a).spec = spec[n]
         /\ "rules" \in With => Info(n, a).rule = rules[n]
         /\ "instances" \in With => Info(n, a).insts = Visible(n, a)
<1>1. Info(n, a) \in ServiceInfo
  BY DEF Info, ServiceInfo, Visible, TypeOK
<1> QED BY <1>1, WatchAssumption DEF Info

\* A watch that stops holds nothing.
LEMMA OffInv ==
  ASSUME WatchInv, Off, errors' \in Nat
  PROVE  WatchInv'
<1> USE DEF WatchInv
<1>1. GCInv' /\ TypeOK'
  BY WatchLeavesStore DEF Off
<1>2. /\ pc' = "off" /\ watching' = FALSE /\ feed' = <<>> /\ svcs' = {} /\ changes' = <<>>
      /\ name' = None /\ alive' = {} /\ UNCHANGED <<dirs, spec, view, silent>>
  BY DEF Off, tree
<1>3. WatchTypeOK'
  BY <1>1, <1>2 DEF WatchTypeOK
<1>4. Places'
  BY <1>2, FS_EmptySet DEF Places
<1> QED BY <1>1, <1>2, <1>3, <1>4

\* The watch starts: what it knows of is what there is.
LEMMA WatchStartsInv ==
  ASSUME WatchInv, WatchStarts
  PROVE  WatchInv'
<1> USE DEF WatchInv
<1>1. GCInv' /\ TypeOK'
  BY WatchLeavesStore DEF WatchStarts, GCInv, TypeOK
<1>2. /\ pc = "off" /\ pc' = "open" /\ watching' = TRUE /\ feed' = <<>> /\ svcs' = dirs
      /\ UNCHANGED <<dirs, spec, changes, name, alive, view, silent>>
  BY DEF WatchStarts, tree
<1>3. WatchTypeOK'
  BY <1>1, <1>2 DEF WatchTypeOK, TypeOK
<1>4. Places'
  BY <1>2 DEF Places, GCInv, TypeOK
<1>5. Beginnings'
  BY <1>2 DEF Beginnings, Places, Ending
<1>6. Knowledge' /\ Telling'
  BY <1>2 DEF Knowledge, Telling, Listed
<1> QED BY <1>1, <1>3, <1>4, <1>5, <1>6 DEF Following

\* Without a watch there is nothing to follow.
LEMMA NoWatchInv ==
  ASSUME WatchInv, WatchStartFails \/ WatchBreaks
  PROVE  WatchInv'
<1> USE DEF WatchInv
<1>1. UNCHANGED <<tree, daemon, gc>> /\ errors' \in Nat /\ watching' = FALSE
  BY DEF WatchStartFails, WatchBreaks, GCInv, TypeOK, Places
<1>2. GCInv' /\ TypeOK'
  BY <1>1, WatchLeavesStore
<1>3. /\ UNCHANGED <<dirs, spec, svcs, changes, name, alive, view, silent>>
      /\ pc' = pc \/ (pc' = "open" /\ pc = "off")
      /\ feed' = feed \/ feed' = <<>>
  BY <1>1 DEF WatchStartFails, WatchBreaks, tree, watch
<1>4. WatchTypeOK'
  BY <1>2, <1>3 DEF WatchTypeOK
<1>5. Places'
  <2>1. feed' \in Seq(Event)
    <3>1. feed \in Seq(Event)
      BY DEF Places
    <3>2. <<>> \in Seq(Event)
      OBVIOUS
    <3> QED BY <1>3, <3>1, <3>2, Zenon
  <2>2. pc' \in {"off", "open", "list", "wait", "ask", "get"}
    BY <1>3 DEF Places
  <2>3. /\ pc' \in {"off", "open", "list"} => changes' = <<>>
        /\ pc' \in {"ask", "get"} => name' \in Name
    BY <1>3 DEF Places
  <2>4. /\ changes' \in Seq([name : Name, deleted : BOOLEAN])
        /\ IsFiniteSet(dirs') /\ svcs' \subseteq Name /\ IsFiniteSet(svcs')
        /\ \A n \in Name : spec'[n] # None => n \in dirs'
    BY <1>3 DEF Places
  <2> QED BY <1>1, <2>1, <2>2, <2>3, <2>4 DEF Places
<1> QED BY <1>1, <1>2, <1>4, <1>5

\* The sessions are listed: every service is counted by them.
LEMMA ListSessionsInv ==
  ASSUME WatchInv, ListSessions
  PROVE  WatchInv'
<1> USE DEF WatchInv
<1>1. GCInv' /\ TypeOK'
  BY WatchLeavesStore DEF ListSessions, store, GCInv, TypeOK
<1>2. /\ pc = "open" /\ pc' = "list" /\ alive' = live /\ silent' = {}
      /\ UNCHANGED <<dirs, spec, recs, live, feed, watching, svcs, changes, name, view>>
  BY DEF ListSessions, store, tree, daemon
<1>3. WatchTypeOK'
  BY <1>1, <1>2 DEF WatchTypeOK, TypeOK
<1>4. Places'
  BY <1>2 DEF Places
<1>5. SUFFICES ASSUME watching'
               PROVE  Following'
  BY <1>1, <1>3, <1>4
<1>6. watching /\ Beginnings /\ Knowledge /\ Telling
  BY <1>2, <1>5 DEF Following
<1> USE <1>6
<1>7. Beginnings'
  BY <1>2 DEF Beginnings, Beginning, Ending
<1>8. \A n \in Name : n \in Counted'
  BY <1>2 DEF Counted, Visible
<1>9. Knowledge' /\ Telling'
  BY <1>2, <1>8 DEF Knowledge, Telling, Listed
<1> QED BY <1>7, <1>9 DEF Following

\* The services are listed: of those that no event concerns, the callback is
\* told what there is.
LEMMA ListServicesInv ==
  ASSUME WatchInv, ListServices
  PROVE  WatchInv'
<1> USE DEF WatchInv
<1>1. GCInv' /\ TypeOK' /\ TypeOK
  BY WatchLeavesStore DEF ListServices, store, GCInv, TypeOK
<1>2. /\ pc = "list" /\ pc' = "wait" /\ alive' = {}
      /\ \A n \in dirs : spec[n] # None
      /\ view' = [n \in Name |-> IF n \in dirs THEN Info(n, alive) ELSE None]
      /\ UNCHANGED <<dirs, spec, rules, recs, live, feed, watching, svcs, changes, name, silent>>
  BY DEF ListServices, store, tree, daemon
<1>3. \A n \in Name : (n \in dirs <=> spec[n] # None)
  BY <1>2 DEF Places
<1>4. \A n \in Name : /\ spec[n] = None => view'[n] = None
                      /\ spec[n] # None => view'[n] = Info(n, alive)
  BY <1>2, <1>3
<1>5. WatchTypeOK'
  <2>1. view' \in [Name -> ServiceInfo \cup {None}]
    BY <1>1, <1>2, <1>3, InfoOfService
  <2> QED BY <1>1, <1>2, <2>1 DEF WatchTypeOK
<1>6. Places'
  BY <1>2 DEF Places
<1>7. SUFFICES ASSUME watching'
               PROVE  Following'
  BY <1>1, <1>5, <1>6
<1>8. watching /\ Beginnings /\ Knowledge /\ Telling
  BY <1>2, <1>7 DEF Following
<1> USE <1>8
<1>9. Beginnings'
  BY <1>2 DEF Beginnings, Beginning, Ending
<1>10. Knowledge'
  <2>1. ASSUME NEW n \in Name, view'[n] # None PROVE n \in svcs' \cup Beginning'
    <3>1. n \in svcs \cup Beginning
      BY <1>2, <1>4, <2>1 DEF Beginnings
    <3> QED BY <1>2, <3>1 DEF Beginning
  <2> QED BY <2>1 DEF Knowledge
<1>11. Telling'
  <2>1. Queued' = Queued /\ Noted' = Noted
    BY <1>2 DEF Queued, Noted
  <2>2. ASSUME NEW n \in Name, n \notin Queued \cup Noted PROVE n \in Told'
    <3>1. CASE spec[n] = None
      BY <1>2, <1>4, <3>1 DEF Told
    <3>2. CASE spec[n] # None
      <4>1. /\ view'[n] = Info(n, alive) /\ Info(n, alive) # None
            /\ Info(n, alive).spec = spec[n]
            /\ "rules" \in With => Info(n, alive).rule = rules[n]
            /\ "instances" \in With => Info(n, alive).insts = Visible(n, alive)
        BY <1>1, <1>4, <3>2, InfoOfService
      <4>2. "instances" \in With => n \in Counted
        BY <1>2, <2>2 DEF Telling
      <4>3. "instances" \in With => \A h \in Host : <<n, h>> \notin silent' =>
               (h \in view'[n].insts <=> h \in Visible(n, live)')
        BY <1>2, <4>1, <4>2 DEF Counted, Visible
      <4> QED BY <1>2, <3>2, <4>1, <4>3 DEF Told
    <3> QED BY <3>1, <3>2
  <2> QED BY <1>2, <2>1, <2>2 DEF Telling
<1> QED BY <1>9, <1>10, <1>11 DEF Following

\* An event is handled: what it concerned is noted, or has been told.
LEMMA HandleResponseInv ==
  ASSUME WatchInv, HandleResponse
  PROVE  WatchInv'
<1> USE DEF WatchInv
<1> DEFINE e == Head(feed)
<1>1. GCInv' /\ TypeOK'
  BY WatchLeavesStore DEF HandleResponse, GCInv, TypeOK
<1>2. /\ pc = "wait" /\ changes = <<>> /\ feed # <<>> /\ feed' = Tail(feed)
      /\ UNCHANGED <<dirs, spec, rules, recs, live, watching, pc, name, alive, view, silent>>
  BY DEF HandleResponse, tree, daemon
<1>3. /\ e \in Event /\ feed' \in Seq(Event)
      /\ \A i \in DOMAIN feed : feed[i] = e \/ (i - 1 \in DOMAIN feed' /\ feed'[i - 1] = feed[i])
      /\ \A i \in DOMAIN feed' : i + 1 \in DOMAIN feed /\ feed[i + 1] = feed'[i]
      /\ DOMAIN feed' \subseteq Int /\ DOMAIN feed \subseteq Int
      /\ 1 \in DOMAIN feed /\ feed[1] = e
  BY <1>2, QueueTail DEF Places
<1>4. /\ changes' \in Seq([name : Name, deleted : BOOLEAN])
      /\ svcs' \subseteq Name /\ IsFiniteSet(svcs')
      /\ \A n \in Name :
           /\ Begins(e, n) => n \in svcs'
           /\ n \in svcs => n \in svcs' \/ Ends(e, n)
           /\ Ends(e, n) /\ n \in svcs => n \in Ending'
           /\ n \in Ending' => Ends(e, n)
           /\ Concerns(e, n) => n \in Noted' \/ Ends(e, n)
  <2> HIDE DEF e
  <2>0. /\ svcs \subseteq Name /\ IsFiniteSet(svcs) /\ e \in Event
        /\ <<>> \in Seq([name : Name, deleted : BOOLEAN])
        /\ \A c \in [name : Name, deleted : BOOLEAN] :
             /\ <<c>> \in Seq([name : Name, deleted : BOOLEAN])
             /\ DOMAIN <<c>> = {1} /\ <<c>>[1] = c
    BY <1>3 DEF Places
  <2>1. CASE /\ e.action = "delete" /\ e.kind = "root"
             /\ \E order \in [1 .. Cardinality(svcs) -> svcs] :
                  /\ {order[i] : i \in DOMAIN order} = svcs
                  /\ changes' = [i \in DOMAIN order |-> Change(order[i], TRUE)]
             /\ svcs' = {}
    <3>1. PICK order \in [1 .. Cardinality(svcs) -> svcs] :
            /\ {order[i] : i \in DOMAIN order} = svcs
            /\ changes' = [i \in DOMAIN order |-> Change(order[i], TRUE)]
      BY <2>1
    <3>2. Cardinality(svcs) \in Nat
      BY <2>0, FS_CardinalityType
    <3>3. /\ DOMAIN changes' = 1 .. Cardinality(svcs)
          /\ \A i \in DOMAIN changes' :
               /\ changes'[i] \in [name : Name, deleted : BOOLEAN]
               /\ changes'[i].name = order[i] /\ changes'[i].deleted
               /\ i \in DOMAIN order
      BY <2>0, <3>1 DEF Change
    <3>4. changes' \in [1 .. Cardinality(svcs) -> [name : Name, deleted : BOOLEAN]]
      BY <3>1, <3>3
    <3>5. changes' \in Seq([name : Name, deleted : BOOLEAN])
      BY <3>2, <3>4, SeqOf, Zenon
    <3>6. \A n \in svcs : n \in Name => n \in Ending'
      BY <3>1, <3>3 DEF Ending
    <3>7. \A n \in Name : Ends(e, n) /\ ~Begins(e, n)
      BY <2>1 DEF Ends, Begins
    <3>8. svcs' = {} /\ IsFiniteSet({})
      BY <2>1, FS_EmptySet
    <3> QED BY <3>5, <3>6, <3>7, <3>8
  <2>2. CASE /\ e.action = "delete" /\ e.kind = "service"
             /\ svcs' = svcs \ {e.name} /\ changes' = <<Change(e.name, TRUE)>>
    <3>1. e.name \in Name /\ \A n \in Name : (Ends(e, n) <=> n = e.name) /\ ~Begins(e, n)
      BY <2>0, <2>2 DEF Event, Ends, Begins
    <3>2. \A n \in Name : Concerns(e, n) <=> n = e.name
      BY <2>2, <3>1 DEF Concerns, Heeds, Relevant
    <3>3. Change(e.name, TRUE) \in [name : Name, deleted : BOOLEAN]
      BY <3>1 DEF Change
    <3>4. Change(e.name, TRUE).name = e.name /\ Change(e.name, TRUE).deleted
      BY DEF Change
    <3>5. IsFiniteSet(svcs')
      BY <2>0, <2>2, FS_RemoveElement
    <3>6. /\ changes' \in Seq([name : Name, deleted : BOOLEAN])
          /\ DOMAIN changes' = {1} /\ changes'[1].name = e.name /\ changes'[1].deleted
      BY <2>0, <2>2, <3>3, <3>4, Zenon
    <3>7. Noted' = {e.name} /\ Ending' = {e.name}
      BY <3>1, <3>6 DEF Noted, Ending
    <3> QED BY <2>0, <2>2, <3>1, <3>2, <3>5, <3>6, <3>7
  <2>3. CASE /\ e.action = "set" /\ e.kind = "spec"
             /\ svcs' = svcs \cup {e.name} /\ changes' = <<Change(e.name, FALSE)>>
    <3>1. e.name \in Name /\ \A n \in Name : ~Ends(e, n) /\ (Begins(e, n) <=> n = e.name)
      BY <2>0, <2>3 DEF Event, Ends, Begins
    <3>2. \A n \in Name : Concerns(e, n) <=> n = e.name
      BY <2>3, <3>1 DEF Concerns, Heeds, Relevant
    <3>3. Change(e.name, FALSE) \in [name : Name, deleted : BOOLEAN]
      BY <3>1 DEF Change
    <3>4. Change(e.name, FALSE).name = e.name /\ ~Change(e.name, FALSE).deleted
      BY DEF Change
    <3>5. IsFiniteSet(svcs')
      BY <2>0, <2>3, FS_AddElement
    <3>6. /\ changes' \in Seq([name : Name, deleted : BOOLEAN])
          /\ DOMAIN changes' = {1} /\ changes'[1].name = e.name /\ ~changes'[1].deleted
      BY <2>0, <2>3, <3>3, <3>4, Zenon
    <3>7. Noted' = {e.name} /\ Ending' = {}
      BY <3>1, <3>6 DEF Noted, Ending
    <3> QED BY <2>0, <2>3, <3>1, <3>2, <3>5, <3>6, <3>7
  <2>4. CASE Heeds(e) /\ changes' = <<Change(e.name, FALSE)>> /\ UNCHANGED svcs
    <3>1. e.name \in Name /\ \A n \in Name : ~Ends(e, n) /\ ~Begins(e, n)
      BY <2>0, <2>4 DEF Event, Ends, Begins, Heeds, Relevant
    <3>2. \A n \in Name : Concerns(e, n) <=> n = e.name
      BY <2>4, <3>1 DEF Concerns
    <3>3. Change(e.name, FALSE) \in [name : Name, deleted : BOOLEAN]
      BY <3>1 DEF Change
    <3>4. Change(e.name, FALSE).name = e.name /\ ~Change(e.name, FALSE).deleted
      BY DEF Change
    <3>6. /\ changes' \in Seq([name : Name, deleted : BOOLEAN])
          /\ DOMAIN changes' = {1} /\ changes'[1].name = e.name /\ ~changes'[1].deleted
      BY <2>0, <2>4, <3>3, <3>4, Zenon
    <3>7. Noted' = {e.name} /\ Ending' = {}
      BY <3>1, <3>6 DEF Noted, Ending
    <3> QED BY <2>0, <2>4, <3>1, <3>2, <3>6, <3>7
  <2>5. CASE e.kind \in {"rule", "instance"} /\ ~Heeds(e) /\ UNCHANGED <<svcs, changes>>
    <3>1. \A n \in Name : ~Concerns(e, n) /\ ~Ends(e, n) /\ ~Begins(e, n)
      BY <2>5 DEF Concerns, Ends, Begins
    <3>2. changes' = <<>> /\ DOMAIN <<>> = {}
      BY <1>2, <2>5
    <3>3. Noted' = {} /\ Ending' = {}
      BY <3>2 DEF Noted, Ending
    <3> QED BY <2>0, <2>5, <3>1, <3>2, <3>3
  <2> QED BY <2>1, <2>2, <2>3, <2>4, <2>5 DEF HandleResponse, e
<1> HIDE DEF e
<1>5. \A n \in Name : /\ n \in Beginning => n \in Beginning' \/ Begins(e, n)
                      /\ n \in Queued => n \in Queued' \/ Concerns(e, n)
                      /\ n \notin Ending /\ n \notin Noted
  <2> TAKE n \in Name
  <2>1. n \notin Ending /\ n \notin Noted
    BY <1>2 DEF Ending, Noted
  <2>2. ASSUME NEW i \in DOMAIN feed, feed[i] # e
        PROVE  \E j \in DOMAIN feed' : feed'[j] = feed[i]
    BY <1>3, <2>2
  <2>3. n \in Beginning => n \in Beginning' \/ Begins(e, n)
    BY <2>2 DEF Beginning
  <2>4. n \in Queued => n \in Queued' \/ Concerns(e, n)
    BY <2>2 DEF Queued
  <2> QED BY <2>1, <2>3, <2>4
<1>6. WatchTypeOK'
  <2>1. \A i \in DOMAIN changes' : changes'[i] \in [name : Name, deleted : BOOLEAN]
    BY <1>4, ElementOf, Zenon
  <2> QED BY <1>1, <1>2, <1>4, <2>1 DEF WatchTypeOK
<1>7. Places'
  BY <1>2, <1>3, <1>4 DEF Places
<1>8. SUFFICES ASSUME watching'
               PROVE  Following'
  BY <1>1, <1>6, <1>7
<1>9. watching /\ Beginnings /\ Knowledge /\ Telling
  BY <1>2, <1>8 DEF Following
<1> USE <1>9
<1>10. ASSUME NEW n \in Name, Ends(e, n), spec[n] # None PROVE n \in Beginning'
  <2>1. PICK j \in DOMAIN feed : 1 < j /\ Begins(feed[j], n)
    BY <1>2, <1>3, <1>10 DEF Beginnings
  <2>2. feed[j] # e \/ j - 1 \in DOMAIN feed'
    BY <1>10, <2>1 DEF Ends, Begins
  <2> QED BY <1>3, <2>1, <2>2 DEF Beginning, Ends, Begins
<1>11. Beginnings'
  <2> SUFFICES ASSUME NEW n \in Name, spec[n] # None
               PROVE  /\ \A i \in DOMAIN feed' : Ends(feed'[i], n) =>
                           \E j \in DOMAIN feed' : i < j /\ Begins(feed'[j], n)
                      /\ n \in Ending' => n \in Beginning'
                      /\ n \in svcs' \cup Beginning'
    BY <1>2 DEF Beginnings
  <2>1. ASSUME NEW i \in DOMAIN feed', Ends(feed'[i], n)
        PROVE  \E j \in DOMAIN feed' : i < j /\ Begins(feed'[j], n)
    <3>1. i + 1 \in DOMAIN feed /\ Ends(feed[i + 1], n)
      BY <1>3, <2>1
    <3>2. PICK j \in DOMAIN feed : i + 1 < j /\ Begins(feed[j], n)
      BY <1>2, <3>1 DEF Beginnings
    <3>3. j - 1 \in DOMAIN feed' /\ feed'[j - 1] = feed[j]
      <4>1. feed \in Seq(Event) /\ i \in Int /\ j \in Int /\ i >= 1
        BY <1>3 DEF Places
      <4> QED BY <1>2, <3>2, <4>1
    <3>4. i < j - 1
      BY <1>3, <3>2
    <3> QED BY <3>2, <3>3, <3>4
  <2>2. n \in svcs \cup Beginning
    BY <1>2 DEF Beginnings
  <2> QED BY <1>4, <1>5, <1>10, <2>1, <2>2
<1>12. Knowledge'
  <2>1. ASSUME NEW n \in Name, view'[n] # None PROVE n \in svcs' \cup Beginning' \cup Ending'
    <3>1. n \in svcs \cup Beginning
      BY <1>2, <1>5, <2>1 DEF Knowledge, Listed
    <3> QED BY <1>4, <1>5, <3>1
  <2> QED BY <2>1 DEF Knowledge
<1>13. Telling'
  <2>1. ASSUME NEW n \in Name, n \notin Queued' \cup Noted' PROVE n \in Told'
    <3>1. CASE Concerns(e, n)
      <4>1. Ends(e, n)
        BY <1>4, <2>1, <3>1
      <4>2. n \notin Beginning'
        BY <2>1 DEF Beginning, Queued, Concerns
      <4>3. n \notin Ending'
        BY <2>1 DEF Ending, Noted
      <4>4. spec[n] = None
        BY <1>10, <4>1, <4>2
      <4>5. ~Begins(e, n)
        BY <4>1 DEF Ends, Begins
      <4>6. n \notin svcs /\ n \notin Beginning
        BY <1>4, <1>5, <4>1, <4>2, <4>3, <4>5
      <4>7. view[n] = None
        BY <1>2, <1>5, <4>6 DEF Knowledge, Listed
      <4> QED BY <1>2, <4>4, <4>7 DEF Told
    <3>2. CASE ~Concerns(e, n)
      <4>1. n \notin Queued \cup Noted
        BY <1>5, <2>1, <3>2
      <4>2. n \in Told
        BY <1>2, <4>1 DEF Telling, Listed
      <4> QED BY <1>2, <4>2 DEF Told, Visible
    <3> QED BY <3>1, <3>2
  <2> QED BY <1>2, <2>1 DEF Telling
<1> QED BY <1>11, <1>12, <1>13 DEF Following

\* A change is taken from the list of those noted.
LEMMA TakenFrom ==
  ASSUME changes \in Seq([name : Name, deleted : BOOLEAN]), changes # <<>>,
         changes' = Tail(changes)
  PROVE  /\ Head(changes).name \in Name
         /\ changes' \in Seq([name : Name, deleted : BOOLEAN])
         /\ Head(changes).name \in Noted
         /\ Head(changes).deleted => Head(changes).name \in Ending
         /\ \A n \in Name : /\ n \in Noted => n \in Noted' \/ n = Head(changes).name
                            /\ n \in Ending' => n \in Ending
                            /\ n \in Ending => \/ n \in Ending'
                                               \/ n = Head(changes).name /\ Head(changes).deleted
<1> DEFINE c == Head(changes)
<1>1. /\ c \in [name : Name, deleted : BOOLEAN]
      /\ changes' \in Seq([name : Name, deleted : BOOLEAN])
      /\ \A i \in DOMAIN changes :
           changes[i] = c \/ (i - 1 \in DOMAIN changes' /\ changes'[i - 1] = changes[i])
      /\ \A i \in DOMAIN changes' : i + 1 \in DOMAIN changes /\ changes[i + 1] = changes'[i]
      /\ 1 \in DOMAIN changes /\ changes[1] = c
  <2> DEFINE C == [name : Name, deleted : BOOLEAN]
  <2>1. changes \in Seq(C) /\ changes # <<>>
    OBVIOUS
  <2> HIDE DEF C
  <2>2. /\ Head(changes) \in C /\ Tail(changes) \in Seq(C)
        /\ \A i \in DOMAIN changes :
             \/ changes[i] = Head(changes)
             \/ i - 1 \in DOMAIN Tail(changes) /\ Tail(changes)[i - 1] = changes[i]
        /\ \A i \in DOMAIN Tail(changes) :
             i + 1 \in DOMAIN changes /\ changes[i + 1] = Tail(changes)[i]
        /\ 1 \in DOMAIN changes /\ changes[1] = Head(changes)
    BY <2>1, QueueTail
  <2> QED BY <2>2, Zenon DEF C, c
<1> HIDE DEF c
<1>2. ASSUME NEW i \in DOMAIN changes, changes[i] # c
      PROVE  \E j \in DOMAIN changes' : changes'[j] = changes[i]
  BY <1>1, <1>2
<1>3. ASSUME NEW i \in DOMAIN changes'
      PROVE  \E j \in DOMAIN changes : changes[j] = changes'[i]
  BY <1>1, <1>3
<1>4. c.name \in Name /\ c.name \in Noted /\ (c.deleted => c.name \in Ending)
  BY <1>1 DEF Noted, Ending
<1>5. \A n \in Name : n \in Noted => n \in Noted' \/ n = c.name
  BY <1>2 DEF Noted
<1>6. \A n \in Name : n \in Ending' => n \in Ending
  BY <1>3 DEF Ending
<1>7. \A n \in Name : n \in Ending => n \in Ending' \/ (n = c.name /\ c.deleted)
  BY <1>2 DEF Ending
<1> QED BY <1>1, <1>4, <1>5, <1>6, <1>7 DEF c

\* A service whose deletion was noted is gone, unless its beginning is queued.
LEMMA ServiceDeletedInv ==
  ASSUME WatchInv, ServiceDeleted
  PROVE  WatchInv'
<1> USE DEF WatchInv
<1> DEFINE m == Head(changes).name
<1>1. GCInv' /\ TypeOK'
  BY WatchLeavesStore DEF ServiceDeleted, store, GCInv, TypeOK
<1>2. /\ pc = "wait" /\ changes # <<>> /\ Head(changes).deleted /\ changes' = Tail(changes)
      /\ view' = [view EXCEPT ![m] = None]
      /\ UNCHANGED <<dirs, spec, rules, recs, live, feed, watching, pc, svcs, name, alive, silent>>
  BY DEF ServiceDeleted, store, tree, daemon
<1>3. /\ m \in Name /\ changes' \in Seq([name : Name, deleted : BOOLEAN])
      /\ m \in Ending
      /\ \A n \in Name : /\ n \in Noted => n \in Noted' \/ n = m
                         /\ n \in Ending' => n \in Ending
                         /\ n \in Ending => n \in Ending' \/ n = m
  BY <1>2, TakenFrom DEF Places
<1> HIDE DEF m
<1>4. view'[m] = None /\ \A n \in Name : n # m => view'[n] = view[n]
  BY <1>2, <1>3 DEF WatchTypeOK
<1>5. WatchTypeOK'
  <2>1. view' \in [Name -> ServiceInfo \cup {None}]
    BY <1>2 DEF WatchTypeOK
  <2>2. \A i \in DOMAIN changes' : changes'[i] \in [name : Name, deleted : BOOLEAN]
    BY <1>3, ElementOf, Zenon
  <2> QED BY <1>1, <1>2, <2>1, <2>2 DEF WatchTypeOK
<1>6. Places'
  BY <1>2, <1>3 DEF Places
<1>7. Queued' = Queued /\ Beginning' = Beginning
  BY <1>2 DEF Queued, Beginning
<1>8. SUFFICES ASSUME watching'
               PROVE  Following'
  BY <1>1, <1>5, <1>6
<1>9. watching /\ Beginnings /\ Knowledge /\ Telling
  BY <1>2, <1>8 DEF Following
<1> USE <1>9
<1>10. Beginnings'
  BY <1>2, <1>3, <1>7 DEF Beginnings
<1>11. Knowledge'
  BY <1>2, <1>3, <1>4, <1>7 DEF Knowledge, Listed
<1>12. Telling'
  <2>1. ASSUME NEW n \in Name, n \notin Queued' \cup Noted' PROVE n \in Told'
    <3>1. CASE n = m
      <4>1. n \notin Beginning
        BY <1>7, <2>1 DEF Beginning, Queued, Concerns
      <4>2. spec[n] = None
        BY <1>2, <1>3, <3>1, <4>1 DEF Beginnings
      <4> QED BY <1>2, <1>4, <3>1, <4>2 DEF Told
    <3>2. CASE n # m
      <4>1. n \in Told
        BY <1>2, <1>3, <1>7, <2>1, <3>2 DEF Telling, Listed
      <4> QED BY <1>2, <1>4, <3>2, <4>1 DEF Told, Visible
    <3> QED BY <3>1, <3>2
  <2> QED BY <1>2, <2>1 DEF Telling
<1> QED BY <1>10, <1>11, <1>12 DEF Following

\* The run loop takes up a service to ask for.
LEMMA ServiceChangedInv ==
  ASSUME WatchInv, ServiceChanged
  PROVE  WatchInv'
<1> USE DEF WatchInv
<1> DEFINE m == Head(changes).name
<1>1. GCInv' /\ TypeOK'
  BY WatchLeavesStore DEF ServiceChanged, store, GCInv, TypeOK
<1>2. /\ pc = "wait" /\ pc' = "ask" /\ changes # <<>> /\ ~Head(changes).deleted
      /\ changes' = Tail(changes) /\ name' = m
      /\ UNCHANGED <<dirs, spec, rules, recs, live, feed, watching, svcs, alive, view, silent>>
  BY DEF ServiceChanged, store, tree, daemon
<1>3. /\ m \in Name /\ changes' \in Seq([name : Name, deleted : BOOLEAN])
      /\ \A n \in Name : /\ n \in Noted => n \in Noted' \/ n = m
                         /\ n \in Ending' <=> n \in Ending
  BY <1>2, TakenFrom DEF Places
<1> HIDE DEF m
<1>4. WatchTypeOK'
  <2>1. \A i \in DOMAIN changes' : changes'[i] \in [name : Name, deleted : BOOLEAN]
    BY <1>3, ElementOf, Zenon
  <2> QED BY <1>1, <1>2, <1>3, <2>1 DEF WatchTypeOK
<1>5. Places'
  BY <1>2, <1>3 DEF Places
<1>6. Queued' = Queued /\ Beginning' = Beginning
  BY <1>2 DEF Queued, Beginning
<1>7. SUFFICES ASSUME watching'
               PROVE  Following'
  BY <1>1, <1>4, <1>5
<1>8. watching /\ Beginnings /\ Knowledge /\ Telling
  BY <1>2, <1>7 DEF Following
<1> USE <1>8
<1>9. Beginnings'
  BY <1>2, <1>3, <1>6 DEF Beginnings
<1>10. Knowledge'
  BY <1>2, <1>3, <1>6 DEF Knowledge, Listed
<1>11. Telling'
  <2>1. ASSUME NEW n \in Name, n \notin Queued' \cup Noted', n # m PROVE n \in Told'
    <3>1. n \in Told
      BY <1>2, <1>3, <1>6, <2>1 DEF Telling, Listed
    <3> QED BY <1>2, <3>1 DEF Told, Visible
  <2> QED BY <1>2, <2>1 DEF Telling
<1> QED BY <1>9, <1>10, <1>11 DEF Following

\* The sessions are read: the service asked for is counted by them.
LEMMA AskSessionsInv ==
  ASSUME WatchInv, AskSessions
  PROVE  WatchInv'
<1> USE DEF WatchInv
<1>1. GCInv' /\ TypeOK'
  BY WatchLeavesStore DEF AskSessions, store, GCInv, TypeOK
<1>2. /\ pc = "ask" /\ pc' = "get" /\ alive' = live /\ silent' = {k \in silent : k[1] # name}
      /\ UNCHANGED <<dirs, spec, rules, recs, live, feed, watching, svcs, changes, name, view>>
  BY DEF AskSessions, store, tree, daemon
<1>3. \A n \in Name, h \in Host : n # name => (<<n, h>> \in silent' <=> <<n, h>> \in silent)
  BY <1>2
<1>4. WatchTypeOK'
  BY <1>1, <1>2 DEF WatchTypeOK, TypeOK
<1>5. Places'
  BY <1>2 DEF Places
<1>6. Queued' = Queued /\ Beginning' = Beginning /\ Noted' = Noted /\ Ending' = Ending
  BY <1>2 DEF Queued, Beginning, Noted, Ending
<1>7. SUFFICES ASSUME watching'
               PROVE  Following'
  BY <1>1, <1>4, <1>5
<1>8. watching /\ Beginnings /\ Knowledge /\ Telling
  BY <1>2, <1>7 DEF Following
<1> USE <1>8
<1>9. Beginnings'
  BY <1>2, <1>6 DEF Beginnings
<1>10. Knowledge'
  BY <1>2, <1>6 DEF Knowledge, Listed
<1>11. Telling'
  <2>1. ASSUME NEW n \in Name, n \notin Queued \cup Noted, n # name PROVE n \in Told'
    <3>1. n \in Told
      BY <1>2, <2>1 DEF Telling, Listed
    <3> QED BY <1>2, <1>3, <2>1, <3>1 DEF Told, Visible
  <2>2. \A n \in Name : n \in Counted'
    BY <1>2 DEF Counted, Visible
  <2> QED BY <1>2, <1>6, <2>1, <2>2 DEF Telling
<1> QED BY <1>9, <1>10, <1>11 DEF Following

\* The service is read, and the callback told.
LEMMA GetServiceInv ==
  ASSUME WatchInv, GetService
  PROVE  WatchInv'
<1> USE DEF WatchInv
<1>1. GCInv' /\ TypeOK' /\ TypeOK
  BY WatchLeavesStore DEF GetService, store, GCInv, TypeOK
<1>2. /\ pc = "get" /\ pc' = "wait" /\ name' = None /\ alive' = {} /\ spec[name] # None
      /\ view' = [view EXCEPT ![name] = Info(name, alive)]
      /\ UNCHANGED <<dirs, spec, rules, recs, live, feed, watching, svcs, changes, silent>>
  BY DEF GetService, store, tree, daemon
<1>3. name \in Name
  BY <1>2 DEF Places
<1>4. /\ Info(name, alive) \in ServiceInfo /\ Info(name, alive) # None
      /\ Info(name, alive).spec = spec[name]
      /\ "rules" \in With => Info(name, alive).rule = rules[name]
      /\ "instances" \in With => Info(name, alive).insts = Visible(name, alive)
  BY <1>1, <1>2, <1>3, InfoOfService
<1>5. view'[name] = Info(name, alive) /\ \A n \in Name : n # name => view'[n] = view[n]
  BY <1>2, <1>3 DEF WatchTypeOK
<1>6. WatchTypeOK'
  <2>1. view' \in [Name -> ServiceInfo \cup {None}]
    BY <1>2, <1>4 DEF WatchTypeOK
  <2> QED BY <1>1, <1>2, <2>1 DEF WatchTypeOK
<1>7. Places'
  BY <1>2 DEF Places
<1>8. Queued' = Queued /\ Beginning' = Beginning /\ Noted' = Noted /\ Ending' = Ending
  BY <1>2 DEF Queued, Beginning, Noted, Ending
<1>9. SUFFICES ASSUME watching'
               PROVE  Following'
  BY <1>1, <1>6, <1>7
<1>10. watching /\ Beginnings /\ Knowledge /\ Telling
  BY <1>2, <1>9 DEF Following
<1> USE <1>10
<1>11. Beginnings'
  BY <1>2, <1>8 DEF Beginnings
<1>12. Knowledge'
  <2>1. ASSUME NEW n \in Name, view'[n] # None PROVE n \in svcs \cup Beginning \cup Ending
    <3>1. CASE n = name
      BY <1>2, <3>1 DEF Beginnings
    <3>2. CASE n # name
      BY <1>2, <1>5, <2>1, <3>2 DEF Knowledge, Listed
    <3> QED BY <3>1, <3>2
  <2> QED BY <1>2, <1>8, <2>1 DEF Knowledge
<1>13. Telling'
  <2>1. ASSUME NEW n \in Name, n \notin Queued \cup Noted PROVE n \in Told'
    <3>1. CASE n = name
      <4>1. "instances" \in With => n \in Counted
        BY <1>2, <2>1, <3>1 DEF Telling
      <4>2. "instances" \in With => \A h \in Host : <<n, h>> \notin silent' =>
               (h \in view'[n].insts <=> h \in Visible(n, live)')
        BY <1>2, <1>4, <1>5, <3>1, <4>1 DEF Counted, Visible
      <4> QED BY <1>2, <1>4, <1>5, <3>1, <4>2 DEF Told
    <3>2. CASE n # name
      <4>1. n \in Told
        BY <1>2, <2>1, <3>2 DEF Telling, Listed
      <4> QED BY <1>2, <1>5, <3>2, <4>1 DEF Told, Visible
    <3> QED BY <3>1, <3>2
  <2> QED BY <1>2, <1>8, <2>1 DEF Telling
<1> QED BY <1>11, <1>12, <1>13 DEF Following

-----------------------------------------------------------------------------
\* The watch's invariant holds at first.
LEMMA WatchInitInv == Init => WatchInv
<1> SUFFICES ASSUME Init PROVE WatchInv
  OBVIOUS
<1>1. GCInv /\ TypeOK
  BY InitInv DEF Init, GCInv
<1>2. WatchTypeOK
  BY <1>1 DEF Init, WatchTypeOK
<1>3. Places
  BY FS_EmptySet DEF Init, StoreInit, Places
<1>4. ~watching
  BY DEF Init, StoreInit
<1> QED BY <1>1, <1>2, <1>3, <1>4 DEF WatchInv

\* A step that changes nothing.
LEMMA WatchStutterInv ==
  ASSUME WatchInv, UNCHANGED vars
  PROVE  WatchInv'
<1> USE DEF vars, store, watch, tree, daemon
<1>1. GCInv' /\ TypeOK'
  BY WatchLeavesStore DEF WatchInv, GCInv, TypeOK
<1>2. WatchTypeOK'
  BY <1>1 DEF WatchInv, WatchTypeOK
<1>3. Places'
  BY DEF WatchInv, Places
<1>4. /\ Queued' = Queued /\ Beginning' = Beginning /\ Noted' = Noted /\ Ending' = Ending
      /\ Told' = Told /\ Counted' = Counted
  BY DEF Queued, Beginning, Noted, Ending, Told, Counted, Visible
<1>5. watching' => Following'
  BY <1>4 DEF WatchInv, Following, Beginnings, Knowledge, Telling, Listed
<1> QED BY <1>1, <1>2, <1>3, <1>5 DEF WatchInv

\* Every step preserves the watch's invariant.
LEMMA WatchStepInv == WatchInv /\ [Next]_vars => WatchInv'
<1> SUFFICES ASSUME WatchInv, [Next]_vars PROVE WatchInv'
  OBVIOUS
<1>1. errors \in Nat
  BY DEF WatchInv, GCInv, TypeOK
<1>2. CASE UNCHANGED vars
  BY <1>2, WatchStutterInv
<1>3. CASE StoreStep
  BY <1>3, StoreStepInv
<1>4. CASE WatchFails \/ ListServicesFails \/ GetServiceFails \/ RestartSeesError
  <2>1. Off /\ errors' \in Nat
    BY <1>1, <1>4 DEF WatchFails, ListServicesFails, GetServiceFails, RestartSeesError
  <2> QED BY <2>1, OffInv
<1>5. CASE \/ WatchStarts \/ ListSessions \/ ListServices \/ HandleResponse
           \/ ServiceDeleted \/ ServiceChanged \/ AskSessions \/ GetService
  BY <1>5, WatchStartsInv, ListSessionsInv, ListServicesInv, HandleResponseInv,
     ServiceDeletedInv, ServiceChangedInv, AskSessionsInv, GetServiceInv
<1>6. CASE WatchStartFails \/ WatchBreaks
  BY <1>6, NoWatchInv
<1> QED BY <1>2, <1>3, <1>4, <1>5, <1>6 DEF Next, Watch

\* The watch's inductive invariant holds of every reachable state.
THEOREM WatchInvariance == Spec => []WatchInv
BY WatchInitInv, WatchStepInv, PTL DEF Spec

\* The variables of the watch keep their types.
THEOREM WatchTypeCorrect == Spec => []WatchTypeOK
<1>1. WatchInv => WatchTypeOK
  BY DEF WatchInv
<1> QED BY WatchInvariance, <1>1, PTL

\* A watch that is up and has nothing left to do has told its callback what is in
\* the store, but for the instances that came or went in silence (watch.go:52-93,
\* etcdstore.go:392-485).
THEOREM ViewIsCurrent == Spec => []ViewCurrent
<1>1. ASSUME WatchInv PROVE ViewCurrent
  <2> SUFFICES ASSUME Settled, NEW n \in Name PROVE n \in Told
    BY DEF ViewCurrent, Told
  <2>1. watching /\ pc = "wait" /\ Queued = {} /\ Noted = {}
    BY DEF Settled, Queued, Noted
  <2> QED BY <1>1, <2>1 DEF WatchInv, Following, Telling, Listed
<1>2. WatchInv => ViewCurrent
  BY <1>1
<1> QED BY <1>2, WatchInvariance, PTL
=============================================================================
