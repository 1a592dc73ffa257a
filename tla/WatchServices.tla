--------------------------- MODULE WatchServices ---------------------------
(***************************************************************************)
(* A watch of the services: WatchServices of the etcd store and the run    *)
(* loop of common/store/watch.go, under Restart, with the store beneath    *)
(* it.  The agent watches with the rules, the balancer with the instances. *)
(*                                                                         *)
(* The goroutine that turns events into changes hands each change over     *)
(* before it takes the next event, so that it and the run loop are         *)
(* modelled as one process.  view is what the callback has been told; the  *)
(* receiver keeps it while the watch is restarted.                         *)
(***************************************************************************)
EXTENDS EtcdStore

CONSTANT With     \* QueryServiceOptions: a subset of {"rules", "instances"}

VARIABLES
  pc,       \* where the run loop is
  svcs,     \* the services that WatchServices knows of
  changes,  \* the ServiceChanges of the event being handled
  name,     \* the service being asked for by GetService
  alive,    \* the answer of liveSessions
  view,     \* name -> what the callback was last told, None for no service
  silent    \* history: instances that came into or went out of sight with no
            \* event that the watch heeds, since their service was last read

watch == <<pc, svcs, changes, name, alive>>
vars  == <<store, watch, view, silent>>

\* A ServiceInfo, with what the options ask for.
ServiceInfo == [spec : Detail, rule : Detail \cup {None}, insts : SUBSET Host]

ASSUME WatchAssumption == None \notin ServiceInfo

WatchTypeOK ==
  /\ TypeOK
  /\ pc \in {"off", "open", "list", "wait", "ask", "get"}
  /\ svcs \subseteq Name /\ name \in Name \cup {None} /\ alive \subseteq Session
  /\ \A i \in DOMAIN changes : changes[i] \in [name : Name, deleted : BOOLEAN]
  /\ view \in [Name -> ServiceInfo \cup {None}]
  /\ silent \subseteq Key

Init ==
  /\ StoreInit
  /\ pc = "off" /\ svcs = {} /\ changes = <<>> /\ name = None /\ alive = {}
  /\ view = [n \in Name |-> None]
  /\ silent = {}

-----------------------------------------------------------------------------
\* The instances of service n that are registered by one of the sessions.
Visible(n, sessions) ==
  {h \in Host : recs[<<n, h>>] # None /\ recs[<<n, h>>].session \in sessions}

\* serviceInfoFromNode, of a directory that has a specification.
Info(n, sessions) ==
  [spec  |-> spec[n],
   rule  |-> IF "rules" \in With THEN rules[n] ELSE None,
   insts |-> IF "instances" \in With THEN Visible(n, sessions) ELSE {}]

\* relevantTo: is the watch interested in this kind of key?  And of what is
\* done to it only "set" and "delete" count.
Relevant(kind) ==
  \/ kind = "rule" /\ "rules" \in With
  \/ kind = "instance" /\ "instances" \in With

Heeds(e) == e.action \in {"set", "delete"} /\ Relevant(e.kind)

(***************************************************************************)
(* Stopping, after an error: the watch and what it holds are gone, and     *)
(* Restart starts it anew.                                                 *)
(***************************************************************************)
Off ==
  /\ pc' = "off" /\ watching' = FALSE /\ feed' = <<>>
  /\ svcs' = {} /\ changes' = <<>> /\ name' = None /\ alive' = {}
  /\ UNCHANGED <<tree, daemon, gc, view, silent>>

\* A request of the run loop fails, and it returns.
WatchFails ==
  /\ pc \notin {"off", "wait"} /\ errors < MaxErrors
  /\ errors' = errors + 1
  /\ Off

\* Variants: the names are not asked for; a missing SERVICE_ROOT is an error.
WatchStartsBlank ==
  /\ pc = "off"
  /\ watching' = TRUE /\ feed' = <<>>
  /\ pc' = "open"
  /\ UNCHANGED <<tree, daemon, gc, errors, svcs, changes, name, alive, view, silent>>

WatchStartsIfAny == dirs # {} /\ WatchStartsBlank

\* WatchServices: the names there are, and the watch from that index on.
WatchStarts ==
  /\ pc = "off"
  /\ svcs' = dirs
  /\ watching' = TRUE /\ feed' = <<>>
  /\ pc' = "open"
  /\ UNCHANGED <<tree, daemon, gc, errors, changes, name, alive, view, silent>>

\* The names cannot be read: there is an error and no watch, and the run loop goes
\* on as it does with one.
WatchStartFails ==
  /\ pc = "off" /\ errors < MaxErrors
  /\ errors' = errors + 1
  /\ pc' = "open"
  /\ UNCHANGED <<tree, daemon, gc, watching, feed, svcs, changes, name, alive, view, silent>>

\* The watch itself fails: its goroutine ends, and the run loop goes on.
WatchBreaks ==
  /\ watching /\ changes = <<>> /\ errors < MaxErrors
  /\ errors' = errors + 1
  /\ watching' = FALSE /\ feed' = <<>>
  /\ UNCHANGED <<tree, daemon, gc, watch, view, silent>>

\* Restart sees the error of a watch, and stops the run loop.
RestartSeesError ==
  /\ pc # "off" /\ ~watching
  /\ Off
  /\ UNCHANGED errors

\* GetAllServices, first the sessions ...
ListSessions ==
  /\ pc = "open"
  /\ alive' = live /\ silent' = {}
  /\ pc' = "list"
  /\ UNCHANGED <<store, svcs, changes, name, view>>

\* ... then the services; the callback gets a Reset.
ListServices ==
  /\ pc = "list"
  /\ \A n \in dirs : spec[n] # None
  /\ view' = [n \in Name |-> IF n \in dirs THEN Info(n, alive) ELSE None]
  /\ pc' = "wait" /\ alive' = {}
  /\ UNCHANGED <<store, svcs, changes, name, silent>>

\* A directory without specification is an error for the whole query.
ListServicesFails ==
  /\ pc = "list" /\ \E n \in dirs : spec[n] = None
  /\ Off
  /\ UNCHANGED errors

\* handleResponse.
Change(n, deleted) == [name |-> n, deleted |-> deleted]

HandleResponse ==
  /\ pc = "wait" /\ changes = <<>> /\ feed # <<>>
  /\ feed' = Tail(feed)
  /\ LET e == Head(feed)
     IN \/ /\ e.action = "delete" /\ e.kind = "root"
           /\ \E order \in [1 .. Cardinality(svcs) -> svcs] :
                /\ {order[i] : i \in DOMAIN order} = svcs
                /\ changes' = [i \in DOMAIN order |-> Change(order[i], TRUE)]
           /\ svcs' = {}
        \/ /\ e.action = "delete" /\ e.kind = "service"
           /\ svcs' = svcs \ {e.name} /\ changes' = <<Change(e.name, TRUE)>>
        \/ /\ e.action = "set" /\ e.kind = "spec"
           /\ svcs' = svcs \cup {e.name} /\ changes' = <<Change(e.name, FALSE)>>
        \/ /\ Heeds(e)
           /\ changes' = <<Change(e.name, FALSE)>> /\ UNCHANGED svcs
        \/ /\ e.kind \in {"rule", "instance"} /\ ~Heeds(e)
           /\ UNCHANGED <<svcs, changes>>
  /\ UNCHANGED <<tree, daemon, gc, watching, errors, pc, name, alive, view, silent>>

\* The run loop takes a change.
ServiceDeleted ==
  /\ pc = "wait" /\ changes # <<>> /\ Head(changes).deleted
  /\ changes' = Tail(changes)
  /\ view' = [view EXCEPT ![Head(changes).name] = None]
  /\ UNCHANGED <<store, pc, svcs, name, alive, silent>>

ServiceChanged ==
  /\ pc = "wait" /\ changes # <<>> /\ ~Head(changes).deleted
  /\ changes' = Tail(changes)
  /\ name' = Head(changes).name
  /\ pc' = "ask"
  /\ UNCHANGED <<store, svcs, alive, view, silent>>

\* GetService, first the sessions ...
AskSessions ==
  /\ pc = "ask"
  /\ alive' = live /\ silent' = {k \in silent : k[1] # name}
  /\ pc' = "get"
  /\ UNCHANGED <<store, svcs, changes, name, view>>

\* ... then the service.
\* (The variant does not look whether there is a specification.)
GetServiceUnchecked ==
  /\ pc = "get"
  /\ view' = [view EXCEPT ![name] = Info(name, alive)]
  /\ pc' = "wait" /\ name' = None /\ alive' = {}
  /\ UNCHANGED <<store, svcs, changes, silent>>

GetService ==
  /\ pc = "get" /\ spec[name] # None
  /\ view' = [view EXCEPT ![name] = Info(name, alive)]
  /\ pc' = "wait" /\ name' = None /\ alive' = {}
  /\ UNCHANGED <<store, svcs, changes, silent>>

GetServiceFails ==
  /\ pc = "get" /\ spec[name] = None
  /\ Off
  /\ UNCHANGED errors

Watch ==
  \/ WatchStarts \/ ListSessions \/ ListServices \/ ListServicesFails
  \/ HandleResponse \/ ServiceDeleted \/ ServiceChanged
  \/ AskSessions \/ GetService \/ GetServiceFails
  \/ RestartSeesError

-----------------------------------------------------------------------------
\* The store goes on meanwhile.
Heeded == feed' # feed /\ feed'[Len(feed')].action \in {"set", "delete"}

InSight(k) == recs[k] # None /\ recs[k].session \in live

StoreStep ==
  /\ StoreNext
  /\ silent' = IF Heeded THEN silent
               ELSE silent \cup {k \in Name \X Host : InSight(k)' # InSight(k)}
  /\ UNCHANGED <<watch, view>>

Next == StoreStep \/ Watch \/ WatchStartFails \/ WatchBreaks \/ WatchFails

\* Restart starts the watch again, and its goroutines run.
Spec == Init /\ [][Next]_vars /\ WF_vars(Watch)

-----------------------------------------------------------------------------
Settled == watching /\ pc = "wait" /\ feed = <<>> /\ changes = <<>>

(***************************************************************************)
(* A watch that is up and has nothing left to do has told its callback     *)
(* what is in the store: which services there are, what their              *)
(* specifications are, and their rules and instances if it asked for them; *)
(* whatever was changed between its requests, and whatever made it start   *)
(* again.  Only instances that a session or a collection has brought into  *)
(* or out of sight are excepted (watch.go:52-93, etcdstore.go:392-485): no *)
(* event tells of it, and a watcher keeps the instances of a host that has *)
(* gone, though test/suite.go:140 has "Instances disappear with the        *)
(* session".                                                               *)
(***************************************************************************)
ViewCurrent ==
  Settled =>
    \A n \in Name :
      /\ view[n] = None <=> spec[n] = None
      /\ view[n] # None =>
           /\ view[n].spec = spec[n]
           /\ "rules" \in With => view[n].rule = rules[n]
           /\ "instances" \in With =>
                \A h \in Host : <<n, h>> \notin silent =>
                  (h \in view[n].insts <=> h \in Visible(n, live))

(***************************************************************************)
(* The watch always gets there again, after any error, unless a directory  *)
(* without specification stands in the way of every query                  *)
(* (etcdstore.go:293-296).                                                 *)
(***************************************************************************)
Ghost == \E n \in dirs : spec[n] = None

WatchRecovers == []<>(Settled \/ Ghost)

=============================================================================
