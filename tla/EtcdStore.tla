----------------------------- MODULE EtcdStore -----------------------------
(***************************************************************************)
(* The store (common/store/etcdstore) as its daemons and the command line  *)
(* use it: services with their specification and rules, the records that   *)
(* daemons register under their session (hosts, instances and ingress      *)
(* instances), the sessions' heartbeats and expiry, and the garbage        *)
(* collection that every daemon runs.  Each etcd request is one step; a    *)
(* collection makes several, and everybody else's come between them.       *)
(*                                                                         *)
(* A daemon of host h is started up to MaxRuns times, its r-th run having  *)
(* the session <<h, r>>.  A record's key is <<directory, host>>: under     *)
(* HostDirs the host's own; under a service, the instance that the host    *)
(* registers for it (or the ingress instance, which is kept the same way). *)
(* index counts the writes to records, and is etcd's ModifiedIndex.        *)
(***************************************************************************)
EXTENDS Naturals, Sequences, FiniteSets

CONSTANTS
  Name,        \* service names
  Detail,      \* contents of a service's specification, and of its rule
  Host,
  HostDirs,    \* the directory of the host records, in a set; or {} without it
  Collector,   \* the hosts whose daemon collects garbage
  None,
  MaxRuns, MaxIndex, MaxLapses, MaxErrors

ASSUME StoreAssumption ==
  /\ HostDirs \cap Name = {} /\ None \notin Detail /\ Collector \subseteq Host
  /\ None \notin [session : Host \X Nat, index : Nat, steady : BOOLEAN]
  /\ MaxRuns \in Nat /\ MaxIndex \in Nat /\ MaxLapses \in Nat /\ MaxErrors \in Nat

Session == Host \X (1 .. MaxRuns)
Key     == (Name \cup HostDirs) \X Host

VARIABLES
  dirs,      \* the services whose directory exists
  spec,      \* SERVICE_ROOT/name/spec, None when it is missing
  rules,     \* SERVICE_ROOT/name/rules, with one rule at most
  recs,      \* the registered records: [session, index, steady]
  live,      \* the sessions whose key exists
  run,       \* which run of the host's daemon this is
  stage,     \* "down"; "new": no heartbeat yet; "made": session made, its key
             \* not set yet; "beating": it has been set
  index,
  gc,        \* the collection of each daemon: [pc, seen, todo]
  watching, feed,    \* whether a watch is open, and the events it has not delivered
  lapses, errors,
  lapsed     \* history: the sessions that have ever expired

tree   == <<dirs, spec, rules, recs, index>>
daemon == <<live, run, stage, lapses, lapsed>>
store  == <<tree, daemon, gc, watching, feed, errors>>

(***************************************************************************)
(* steady is history: whether the record's session has been live ever      *)
(* since the record was written.                                           *)
(***************************************************************************)
Record  == [session : Session, index : Nat, steady : BOOLEAN]
Seen    == [key : Key, session : Session, index : Nat]
Resting == [pc |-> "idle", seen |-> {}, todo |-> {}]

TypeOK ==
  /\ dirs \subseteq Name
  /\ spec \in [Name -> Detail \cup {None}] /\ rules \in [Name -> Detail \cup {None}]
  /\ recs \in [Key -> Record \cup {None}]
  /\ live \subseteq Session /\ lapsed \subseteq Session
  /\ run \in [Host -> 0 .. MaxRuns]
  /\ stage \in [Host -> {"down", "new", "made", "beating"}]
  /\ index \in Nat /\ lapses \in Nat /\ errors \in Nat
  /\ gc \in [Host -> [pc : {"idle", "services", "live", "cull"},
                      seen : SUBSET Seen, todo : SUBSET Seen]]
  /\ watching \in BOOLEAN
  /\ \A h \in Host : stage[h] # "down" => run[h] > 0

StoreInit ==
  /\ dirs = {} /\ spec = [n \in Name |-> None] /\ rules = [n \in Name |-> None]
  /\ recs = [k \in Key |-> None] /\ index = 0
  /\ live = {} /\ lapsed = {} /\ lapses = 0 /\ errors = 0
  /\ run = [h \in Host |-> 0] /\ stage = [h \in Host |-> "down"]
  /\ gc = [h \in Host |-> Resting]
  /\ watching = FALSE /\ feed = <<>>

-----------------------------------------------------------------------------
(***************************************************************************)
(* Every write under SERVICE_ROOT is an event for the open watch.          *)
(***************************************************************************)
Emit(action, kind, name) ==
  feed' = IF watching THEN Append(feed, [action |-> action, kind |-> kind, name |-> name])
                      ELSE feed

Current(h) == <<h, run[h]>>

\* A variant whose restarted daemon goes by the session it had.
DaemonResumes(h) ==
  /\ stage[h] = "down" /\ run[h] < MaxRuns
  /\ stage' = [stage EXCEPT ![h] = "new"]
  /\ UNCHANGED <<tree, live, run, lapses, lapsed, gc, watching, feed, errors>>

\* A daemon is started; then initSession makes its session and lets the
\* registrations go ahead, before the session's key is set for the first time.
DaemonStarts(h) ==
  /\ stage[h] = "down" /\ run[h] < MaxRuns
  /\ run' = [run EXCEPT ![h] = @ + 1]
  /\ stage' = [stage EXCEPT ![h] = "new"]
  /\ UNCHANGED <<tree, live, lapses, lapsed, gc, watching, feed, errors>>

SessionMade(h) ==
  /\ stage[h] = "new"
  /\ stage' = [stage EXCEPT ![h] = "made"]
  /\ UNCHANGED <<tree, live, run, lapses, lapsed, gc, watching, feed, errors>>

\* Heartbeat's Set: makes the session's key, or makes it again.
HeartbeatLands(h) ==
  /\ stage[h] \in {"made", "beating"} /\ Current(h) \notin live
  /\ live' = live \cup {Current(h)}
  /\ stage' = [stage EXCEPT ![h] = "beating"]
  /\ UNCHANGED <<tree, run, lapses, lapsed, gc, watching, feed, errors>>

\* The session of a daemon that is running.
Running(s) == stage[s[1]] # "down" /\ run[s[1]] = s[2]

\* The time-to-live of a session's key runs out: the daemon has gone, or its
\* heartbeats did not get through for that long.
SessionExpires(s) ==
  /\ s \in live
  /\ IF Running(s) THEN lapses < MaxLapses /\ lapses' = lapses + 1 ELSE UNCHANGED lapses
  /\ live' = live \ {s} /\ lapsed' = lapsed \cup {s}
  /\ recs' = [k \in Key |-> IF recs[k] # None /\ recs[k].session = s
                            THEN [recs[k] EXCEPT !.steady = FALSE] ELSE recs[k]]
  /\ UNCHANGED <<dirs, spec, rules, index, run, stage, gc, watching, feed, errors>>

DaemonStops(h) ==
  /\ stage[h] # "down"
  /\ stage' = [stage EXCEPT ![h] = "down"]
  /\ gc' = [gc EXCEPT ![h] = Resting]
  /\ UNCHANGED <<tree, live, run, lapses, lapsed, watching, feed, errors>>

-----------------------------------------------------------------------------
\* RegisterHost, AddInstance, AddIngressInstance: they wait for the session.
Register(d, h) ==
  /\ stage[h] \in {"made", "beating"} /\ index < MaxIndex
  /\ index' = index + 1
  /\ recs' = [recs EXCEPT ![<<d, h>>] = [session |-> Current(h), index |-> index + 1,
                                         steady  |-> Current(h) \in live]]
  /\ dirs' = dirs \cup ({d} \cap Name)
  /\ IF d \in Name THEN Emit("set", "instance", d) ELSE UNCHANGED feed
  /\ UNCHANGED <<spec, rules, daemon, gc, watching, errors>>

\* DeregisterHost, RemoveInstance, RemoveIngressInstance; an error if missing.
Deregister(d, h) ==
  /\ recs[<<d, h>>] # None
  /\ recs' = [recs EXCEPT ![<<d, h>>] = None]
  /\ IF d \in Name THEN Emit("delete", "instance", d) ELSE UNCHANGED feed
  /\ UNCHANGED <<dirs, spec, rules, index, daemon, gc, watching, errors>>

AddService(n, detail) ==
  /\ index < MaxIndex /\ index' = index + 1
  /\ dirs' = dirs \cup {n}
  /\ spec' = [spec EXCEPT ![n] = detail]
  /\ Emit("set", "spec", n)
  /\ UNCHANGED <<rules, recs, daemon, gc, watching, errors>>

SetContainerRule(n, detail) ==
  /\ index < MaxIndex /\ index' = index + 1
  /\ dirs' = dirs \cup {n}
  /\ rules' = [rules EXCEPT ![n] = detail]
  /\ Emit("set", "rule", n)
  /\ UNCHANGED <<spec, recs, daemon, gc, watching, errors>>

RemoveContainerRule(n) ==
  /\ rules[n] # None
  /\ rules' = [rules EXCEPT ![n] = None]
  /\ Emit("delete", "rule", n)
  /\ UNCHANGED <<dirs, spec, recs, index, daemon, gc, watching, errors>>

\* The whole directory of each of these services, and what is in it.
Erase(names) ==
  /\ dirs' = dirs \ names
  /\ spec' = [n \in Name |-> IF n \in names THEN None ELSE spec[n]]
  /\ rules' = [n \in Name |-> IF n \in names THEN None ELSE rules[n]]
  /\ recs' = [k \in Key |-> IF k[1] \in names THEN None ELSE recs[k]]

RemoveService(n) ==
  /\ n \in dirs
  /\ Erase({n})
  /\ Emit("delete", "service", n)
  /\ UNCHANGED <<index, daemon, gc, watching, errors>>

RemoveAllServices ==
  /\ dirs # {}
  /\ Erase(Name)
  /\ Emit("delete", "root", None)
  /\ UNCHANGED <<index, daemon, gc, watching, errors>>

-----------------------------------------------------------------------------
(***************************************************************************)
(* doCollection: read the hosts, then the services, then which sessions    *)
(* are live, and delete the records of the others, one at a time and only  *)
(* if they are as they were read; a deletion that fails is passed over.    *)
(***************************************************************************)
ReadRecords(d) ==
  {[key |-> k, session |-> recs[k].session, index |-> recs[k].index] :
     k \in {x \in Key : x[1] \in d /\ recs[x] # None}}

\* Records whose session is not among the live ones.
Dead(seen) == {r \in seen : r.session \notin live}

Collecting(h, pc) == h \in Collector /\ stage[h] # "down" /\ gc[h].pc = pc

GCHosts(h) ==
  /\ Collecting(h, "idle")
  /\ gc' = [gc EXCEPT ![h] = [pc |-> "services", seen |-> ReadRecords(HostDirs), todo |-> {}]]
  /\ UNCHANGED <<tree, daemon, watching, feed, errors>>

\* (The variant forgets the hosts.)
GCServicesOnly(h) ==
  /\ Collecting(h, "services")
  /\ gc' = [gc EXCEPT ![h].pc = "live", ![h].seen = ReadRecords(Name)]
  /\ UNCHANGED <<tree, daemon, watching, feed, errors>>

GCServices(h) ==
  /\ Collecting(h, "services")
  /\ gc' = [gc EXCEPT ![h].pc = "live", ![h].seen = @ \cup ReadRecords(Name)]
  /\ UNCHANGED <<tree, daemon, watching, feed, errors>>

GCLive(h) ==
  /\ Collecting(h, "live")
  /\ gc' = [gc EXCEPT ![h] = [pc |-> "cull", seen |-> {}, todo |-> Dead(gc[h].seen)]]
  /\ UNCHANGED <<tree, daemon, watching, feed, errors>>

\* A read failed: the collection ends, to be tried again later.
GCFails(h) ==
  /\ \E pc \in {"idle", "services", "live"} : Collecting(h, pc)
  /\ errors < MaxErrors /\ errors' = errors + 1
  /\ gc' = [gc EXCEPT ![h] = Resting]
  /\ UNCHANGED <<tree, daemon, watching, feed>>

\* Delete with PrevIndex: the key must not have been written since.  (The
\* variant deletes without it.)
StillThere(r) == recs[r.key] # None

Unchanged(r) == recs[r.key] # None /\ recs[r.key].index = r.index

GCDelete(h) ==
  /\ Collecting(h, "cull")
  /\ \E r \in gc[h].todo :
       /\ r.key[1] \in Name => \A x \in gc[h].todo : x.key[1] \in Name
       /\ gc' = [gc EXCEPT ![h].todo = @ \ {r}]
       /\ \/ /\ Unchanged(r)
             /\ recs' = [recs EXCEPT ![r.key] = None]
             /\ IF r.key[1] \notin Name THEN UNCHANGED feed
                                       ELSE Emit("compareAndDelete", "instance", r.key[1])
             /\ UNCHANGED errors
          \/ ~Unchanged(r) /\ UNCHANGED <<recs, feed, errors>>
          \/ errors < MaxErrors /\ errors' = errors + 1 /\ UNCHANGED <<recs, feed>>
  /\ UNCHANGED <<dirs, spec, rules, index, daemon, watching>>

GCEnds(h) ==
  /\ Collecting(h, "cull") /\ gc[h].todo = {}
  /\ gc' = [gc EXCEPT ![h] = Resting]
  /\ UNCHANGED <<tree, daemon, watching, feed, errors>>

Collect(h) == GCHosts(h) \/ GCServices(h) \/ GCLive(h) \/ GCDelete(h) \/ GCEnds(h)

StoreNext ==
  \/ \E h \in Host : \/ DaemonStarts(h) \/ SessionMade(h) \/ HeartbeatLands(h)
                     \/ DaemonStops(h) \/ Collect(h) \/ GCFails(h)
  \/ \E s \in Session : SessionExpires(s)
  \/ \E d \in Name \cup HostDirs, h \in Host : Register(d, h) \/ Deregister(d, h)
  \/ \E n \in Name, detail \in Detail : AddService(n, detail) \/ SetContainerRule(n, detail)
  \/ \E n \in Name : RemoveContainerRule(n) \/ RemoveService(n)
  \/ RemoveAllServices

\* A running daemon's collections go on, tick after tick; and keys expire.
StoreFairness ==
  /\ \A h \in Host : WF_store(Collect(h))
  /\ \A h \in Host, r \in 1 .. MaxRuns : WF_store(~Running(<<h, r>>) /\ SessionExpires(<<h, r>>))

StoreSpec == StoreInit /\ [][StoreNext]_store /\ StoreFairness

-----------------------------------------------------------------------------
(***************************************************************************)
(* A collection deletes no record whose session has been live ever since   *)
(* the record was written, however the reads, the sessions, the removals   *)
(* and the registrations interleave: the records are read before the live  *)
(* sessions, and a record written again is not the one that was read       *)
(* (gc.go:14-27, 62).                                                      *)
(***************************************************************************)
Deletes(h, k) == GCDelete(h) /\ recs[k] # None /\ recs'[k] = None

GCSafe == [][\A h \in Host, k \in Key : Deletes(h, k) => ~recs[k].steady]_store

(***************************************************************************)
(* The invariant behind it.                                                *)
(***************************************************************************)
\* A steady record's session is live.
SteadyOK == \A k \in Key : recs[k] # None /\ recs[k].steady => recs[k].session \in live

\* Indices are handed out once: what was seen with the index of a record is
\* that record, and nothing seen is newer than index.
IndexOK ==
  /\ \A k \in Key : recs[k] # None => recs[k].index <= index
  /\ \A h \in Host : \A r \in gc[h].seen \cup gc[h].todo : r.index <= index
  /\ \A h \in Host : \A r \in gc[h].seen : Unchanged(r) => recs[r.key].session = r.session

\* What is to be deleted, if it is still as it was, is not steady.
TodoOK == \A h \in Host : \A r \in gc[h].todo : Unchanged(r) => ~recs[r.key].steady

GCInv == TypeOK /\ SteadyOK /\ IndexOK /\ TodoOK

(***************************************************************************)
(* As long as some daemon collects, the records of a session that is gone  *)
(* for good are gone in the end (gc.go:13-67).                             *)
(***************************************************************************)
DeadCollected ==
  <>[](\E h \in Collector : stage[h] # "down") =>
    \A s \in Session :
      <>[](s \notin live) => <>[](\A k \in Key : recs[k] = None \/ recs[k].session # s)

(***************************************************************************)
(* dep.go:40, "The daemon will give its records this time-to-live in       *)
(* seconds, and refresh them while it is running": a record of a session   *)
(* that is live and has never expired is not taken away by a collection.   *)
(* It may be: sessionReady is closed before the session's key is set, so   *)
(* that a record can be there before its session is.                       *)
(***************************************************************************)
KeptWhileRunning ==
  [][\A h \in Host, k \in Key :
       Deletes(h, k) => ~(recs[k].session \in live /\ recs[k].session \notin lapsed)]_store

=============================================================================
