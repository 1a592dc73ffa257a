---------------------------- MODULE BalancerAgent ----------------------------
(***************************************************************************)
(* The balancer agent of edgebal (balancer/balagent): a watch of the       *)
(* services, an updater that keeps their state and hands snapshots of it   *)
(* to a generator over a channel with one place, and the generator, which  *)
(* writes a file from a template, puts it in place and runs a command that *)
(* has it loaded (by nginx, say).  An error of the generator goes to the   *)
(* sink of daemon.run and ends edgebal.                                    *)
(*                                                                         *)
(* A service is one of the values Value.  How the watch comes by what it   *)
(* sends is WatchServices; here it sends what the store holds when it      *)
(* reads.  A file is the snapshot it was made from.  A command reads the   *)
(* file when it ends.  Without a reload command it is one that does        *)
(* nothing.                                                                *)
(***************************************************************************)
EXTENDS Naturals, Functions

CONSTANTS
  Name,        \* names of services
  Value,       \* what is known of a service
  None,        \* the absence of a service, or of a snapshot
  Untouched,   \* the absence of a name from an update
  MaxChanges,  \* bound: changes in the store
  MaxFails,    \* bound: failures of the watch
  MaxLate      \* bound: commands that outlive the wait for them

ASSUME NoneAssumption == None \notin Value /\ None \notin [Name -> Value \cup {None}]
ASSUME UntouchedAssumption == Untouched \notin Value \cup {None}

VARIABLES
  truth,     \* Name -> the service in the store, None when there is none
  changes,   \* number of changes made so far
  silent,    \* the names whose service has changed since it was read, with no event
  watch,     \* where the watch is
  pending,   \* the names with changes that the watch has still to report
  sent,      \* the update that the watch is sending
  fails,     \* number of times the watch has failed
  services,  \* updater.run's services
  updater,   \* where the updater is
  channel,   \* the snapshot in the channel, None when it is empty
  generator, \* where the generator is
  snapshot,  \* the snapshot that it generates the file from
  temp,      \* a temporary file exists
  file,      \* the contents of the file, None before the first
  loaded,    \* the contents that were last loaded
  late,      \* number of commands that still run though nobody waits for them
  sink,      \* the sink of daemon.run holds an error
  stopping   \* daemon.run is in d.Stop()

store  == <<truth, changes, silent>>
source == <<watch, pending, sent, fails>>
update == <<services, updater, channel>>
output == <<generator, snapshot, temp, file, loaded, late>>
ending == <<sink, stopping>>
vars   == <<store, source, update, output, ending>>

Snapshot == [Name -> Value \cup {None}]
Update   == [reset : BOOLEAN, services : [Name -> Value \cup {None, Untouched}]]
Nothing  == [reset |-> FALSE, services |-> [n \in Name |-> Untouched]]

TypeOK ==
  /\ truth \in Snapshot /\ changes \in Nat /\ silent \subseteq Name
  /\ watch \in {"querying", "watching", "sending", "sleeping", "ended"}
  /\ pending \subseteq Name /\ sent \in Update /\ fails \in Nat
  /\ services \in Snapshot
  /\ updater \in {"receiving", "draining", "sending", "ended"}
  /\ channel \in Snapshot \cup {None}
  /\ generator \in {"waiting", "creating", "writing", "renaming", "reloading", "ended"}
  /\ snapshot \in Snapshot /\ file \in Snapshot \cup {None} /\ loaded \in Snapshot \cup {None}
  /\ late \in Nat
  /\ {temp, sink, stopping} \subseteq BOOLEAN

NoServices == [n \in Name |-> None]

Init ==
  /\ truth \in Snapshot /\ changes = 0 /\ silent = {}
  /\ watch = "querying" /\ pending = {} /\ sent = Nothing /\ fails = 0
  /\ services = NoServices /\ updater = "receiving" /\ channel = None
  /\ generator = "waiting" /\ snapshot = NoServices /\ temp = FALSE
  /\ file = None /\ loaded = None /\ late = 0
  /\ sink = FALSE /\ stopping = FALSE

-----------------------------------------------------------------------------
(***************************************************************************)
(* The store and the watch.                                                *)
(***************************************************************************)
\* A service is put, changed or removed, one of its instances is put or deleted:
\* a watch that is up will hear of it.
StoreChanges(n, v) ==
  /\ changes < MaxChanges /\ truth[n] # v
  /\ truth' = [truth EXCEPT ![n] = v]
  /\ changes' = changes + 1
  /\ pending' = IF watch \in {"sleeping", "ended"} THEN {} ELSE pending \cup {n}
  /\ UNCHANGED <<silent, watch, sent, fails, update, output, ending>>

\* A session ends, or is renewed after its end: the service loses or regains the
\* instances put under it in what a query returns.  No key under the root that is
\* watched has changed, and handleResponse passes over the deletion by collection
\* that follows.
SessionChanges(n, v) ==
  /\ changes < MaxChanges /\ truth[n] \notin {None, v}
  /\ truth' = [truth EXCEPT ![n] = v]
  /\ changes' = changes + 1
  /\ silent' = silent \cup {n}
  /\ UNCHANGED <<source, update, output, ending>>

\* doInitialQuery: the watch has begun, and all services are read.
WatchQueries ==
  /\ watch = "querying"
  /\ sent' = [reset |-> TRUE, services |-> truth]
  /\ silent' = {}
  /\ watch' = "sending"
  /\ UNCHANGED <<truth, changes, pending, fails, update, output, ending>>

\* A change: the service is read, or known to be deleted.
WatchReads(n) ==
  /\ watch = "watching" /\ n \in pending
  /\ sent' = [reset |-> FALSE, services |-> [Nothing.services EXCEPT ![n] = truth[n]]]
  /\ pending' = pending \ {n} /\ silent' = silent \ {n}
  /\ watch' = "sending"
  /\ UNCHANGED <<truth, changes, fails, update, output, ending>>

\* The watch or a read fails; Restart stops what is left, and sleeps.
WatchFails ==
  /\ watch \in {"querying", "watching", "sending"} /\ fails < MaxFails
  /\ watch' = "sleeping" /\ pending' = {} /\ fails' = fails + 1
  /\ UNCHANGED <<store, sent, update, output, ending>>

WatchRestarts ==
  /\ watch = "sleeping" /\ watch' = "querying"
  /\ UNCHANGED <<store, pending, sent, fails, update, output, ending>>

WatchSeesStop ==
  /\ stopping /\ watch # "ended"
  /\ watch' = "ended" /\ pending' = {}
  /\ UNCHANGED <<store, sent, fails, update, output, ending>>

-----------------------------------------------------------------------------
(***************************************************************************)
(* updater.run                                                             *)
(***************************************************************************)
\* A variant that goes over all names, whether or not the update has them.
AllOf(u) == u.services

\* What an update makes of the services.
Applied(u) ==
  [n \in Name |-> IF u.services[n] # Untouched THEN u.services[n]
                  ELSE IF u.reset THEN None ELSE services[n]]

UpdaterTakes ==
  /\ updater = "receiving" /\ watch = "sending"
  /\ services' = Applied(sent)
  /\ watch' = "watching" /\ updater' = "draining"
  /\ UNCHANGED <<store, pending, sent, fails, channel, output, ending>>

\* A variant that leaves the pending item where it is ...
LeavesPending ==
  /\ updater = "draining" /\ updater' = "sending"
  /\ UNCHANGED <<store, source, services, channel, output, ending>>

\* ... and one that gives up the new item for it.
KeepsPending ==
  /\ updater = "draining"
  /\ updater' = IF channel = None THEN "sending" ELSE "receiving"
  /\ UNCHANGED <<store, source, services, channel, output, ending>>

\* The pending item, if any, is removed ...
UpdaterDrains ==
  /\ updater = "draining" /\ updater' = "sending"
  /\ channel' = None
  /\ UNCHANGED <<store, source, services, output, ending>>

\* ... and the copy is sent.
UpdaterSends ==
  /\ updater = "sending" /\ channel = None
  /\ channel' = services /\ updater' = "receiving"
  /\ UNCHANGED <<store, source, services, output, ending>>

UpdaterSeesStop ==
  /\ stopping /\ updater = "receiving" /\ updater' = "ended"
  /\ UNCHANGED <<store, source, services, channel, output, ending>>

-----------------------------------------------------------------------------
(***************************************************************************)
(* generator.run, regenerate and runReloadCmd                              *)
(***************************************************************************)
Goes(place) == generator' = place

GeneratorTakes ==
  /\ generator = "waiting" /\ channel # None
  /\ snapshot' = channel /\ channel' = None
  /\ Goes("creating")
  /\ UNCHANGED <<store, source, services, updater, temp, file, loaded, late, ending>>

CreatesTemp ==
  /\ generator = "creating"
  /\ temp' = TRUE
  /\ Goes("writing")
  /\ UNCHANGED <<store, source, update, snapshot, file, loaded, late, ending>>

\* The template is executed into the temporary file, which is closed.
WritesTemp ==
  /\ generator = "writing"
  /\ Goes("renaming")
  /\ UNCHANGED <<store, source, update, snapshot, temp, file, loaded, late, ending>>

Renames ==
  /\ generator = "renaming"
  /\ file' = snapshot /\ temp' = FALSE
  /\ Goes("reloading")
  /\ UNCHANGED <<store, source, update, snapshot, loaded, late, ending>>

Generating == generator \in {"creating", "writing", "renaming"}

\* A variant that cleans up only after a failure of the template.
LeavesTemp ==
  /\ Generating
  /\ temp' = (temp /\ generator # "writing") /\ sink' = TRUE
  /\ Goes("waiting")
  /\ UNCHANGED <<store, source, update, snapshot, file, loaded, late, stopping>>

\* One of the steps before fails: the temporary file is closed and removed.
GenerateFails ==
  /\ Generating
  /\ temp' = FALSE /\ sink' = TRUE
  /\ Goes("waiting")
  /\ UNCHANGED <<store, source, update, snapshot, file, loaded, late, stopping>>

\* The command ends in time, and well.
Reloads ==
  /\ generator = "reloading"
  /\ loaded' = file
  /\ Goes("waiting")
  /\ UNCHANGED <<store, source, update, snapshot, temp, file, late, ending>>

\* The command cannot be started, or ends in time but with an error.
ReloadFails ==
  /\ generator = "reloading"
  /\ loaded' \in {loaded, file} /\ sink' = TRUE
  /\ Goes("waiting")
  /\ UNCHANGED <<store, source, update, snapshot, temp, file, late, stopping>>

\* A variant that reports nothing.
GivesUp ==
  /\ generator = "reloading" /\ late < MaxLate
  /\ late' = late + 1
  /\ Goes("waiting")
  /\ UNCHANGED <<store, source, update, snapshot, temp, file, loaded, ending>>

\* Ten seconds pass first: the command goes on, and nobody waits for it.
ReloadTimesOut ==
  /\ generator = "reloading" /\ late < MaxLate
  /\ late' = late + 1 /\ sink' = TRUE
  /\ Goes("waiting")
  /\ UNCHANGED <<store, source, update, snapshot, temp, file, loaded, stopping>>

\* It ends; the goroutine that ran it stays where it sends the outcome.
LateCommandEnds ==
  /\ late > 0 /\ late' = late - 1
  /\ loaded' \in {loaded, file}
  /\ UNCHANGED <<store, source, update, generator, snapshot, temp, file, ending>>

GeneratorSeesStop ==
  /\ stopping /\ generator = "waiting"
  /\ Goes("ended")
  /\ UNCHANGED <<store, source, update, snapshot, temp, file, loaded, late, ending>>

-----------------------------------------------------------------------------
\* daemon.run receives a signal, or the error.
ReceivesSignal ==
  /\ ~stopping /\ stopping' = TRUE
  /\ UNCHANGED <<store, source, update, output, sink>>

ReceivesError ==
  /\ sink /\ ~stopping
  /\ sink' = FALSE /\ stopping' = TRUE
  /\ UNCHANGED <<store, source, update, output>>

Generates ==
  GeneratorTakes \/ CreatesTemp \/ WritesTemp \/ Renames \/ GenerateFails

AgentNext ==
  \/ \E n \in Name, v \in Value \cup {None} : StoreChanges(n, v)
  \/ \E n \in Name, v \in Value : SessionChanges(n, v)
  \/ WatchQueries \/ WatchFails \/ WatchRestarts \/ WatchSeesStop
  \/ \E n \in Name : WatchReads(n)
  \/ UpdaterTakes \/ UpdaterDrains \/ UpdaterSends \/ UpdaterSeesStop
  \/ Generates \/ Reloads \/ ReloadFails \/ ReloadTimesOut \/ LateCommandEnds
  \/ GeneratorSeesStop
  \/ ReceivesSignal \/ ReceivesError

(***************************************************************************)
(* Goroutines are scheduled, the store and the disk answer, a select that  *)
(* is offered stop again and again takes it in the end.  A command may run *)
(* for ever: what ends the wait for it is the timer.                       *)
(***************************************************************************)
Watches == WatchQueries \/ WatchRestarts \/ \E n \in Name : WatchReads(n)

ReloadEnds == Reloads \/ ReloadFails \/ ReloadTimesOut

Fairness ==
  /\ WF_vars(Watches) /\ WF_vars(WatchSeesStop)
  /\ WF_vars(UpdaterTakes) /\ WF_vars(UpdaterDrains) /\ WF_vars(UpdaterSends)
  /\ SF_vars(UpdaterSeesStop)
  /\ WF_vars(Generates) /\ WF_vars(ReloadEnds)
  /\ SF_vars(GeneratorSeesStop)
  /\ WF_vars(ReceivesError)

AgentSpec == Init /\ [][AgentNext]_vars /\ Fairness

-----------------------------------------------------------------------------
(***************************************************************************)
(* The updater's send never waits (balagent.go:138-144): it could not see  *)
(* a stop there.  That the channel was drained is not enough: nobody else  *)
(* may put anything into it in between.                                    *)
(***************************************************************************)
SendsAtOnce == updater = "sending" => channel = None

(***************************************************************************)
(* No temporary file is left between two generations, nor after the last,  *)
(* wherever one of them failed (balagent.go:179-184).                      *)
(***************************************************************************)
NoLitter == temp => Generating

(***************************************************************************)
(* When nothing is on its way the file is what the store holds, but for    *)
(* the services that a session changed since they were read, which nobody  *)
(* is told of (etcdstore.go:400-449); and what has been loaded is the      *)
(* file.  This although snapshots are dropped for later ones and the watch *)
(* fails and starts anew; unless an error of the generator, which nothing  *)
(* tries again, is about to end edgebal.                                   *)
(***************************************************************************)
AtRest ==
  /\ watch = "watching" /\ pending = {}
  /\ updater = "receiving" /\ channel = None /\ generator = "waiting"

Shown(f) == f # None /\ \A n \in Name \ silent : f[n] = truth[n]

FileCurrent == AtRest /\ ~sink /\ ~stopping => Shown(file) /\ loaded = file

(***************************************************************************)
(* The generator comes to see the last of the services that the watch      *)
(* reports: once the store is left alone, it gets into the file and is     *)
(* loaded, or edgebal is stopped, by an error or by a signal.              *)
(***************************************************************************)
FileSettles == <>[](stopping \/ (Shown(file) /\ loaded = file))

(***************************************************************************)
(* A stop ends all three goroutines, whatever they are doing: although the *)
(* updater sends, and the generator waits for a command, without looking   *)
(* at stop.                                                                *)
(***************************************************************************)
StopEnds ==
  stopping ~> (watch = "ended" /\ updater = "ended" /\ generator = "ended")

=============================================================================
