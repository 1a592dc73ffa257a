# A verification of ambergreen in TLA+

ambergreen (Flux) routes connections to services over a set of hosts. An
operator defines *services* in a shared store (etcd). On each host an **agent**
looks at the Docker containers there, decides by the services' rules which of
them are instances, and registers them in the store. A **balancer** on each host
reads services and instances back, and makes a service's address reach one of
its instances: an iptables rule sends the packets to a local **forwarder**,
which picks an instance for each connection.

The same program, `fluxd`, also runs the **server side** of an edge balancer: a
forwarder, and an ingress record in the store, for each service with instances on
the host. `edgebal` is a program of its own that turns the services in the store into a
configuration file for a proxy.

The modules here model these: containers, reconciliation, store, watch, iptables,
instance pool, server side, the balancer agent of edgebal, and how all of fluxd is
supervised and stopped. TLC checks each module on small instances. TLAPS proves every
invariant and action property that the passing runs check, for all instances, and that the
agent implements an abstract specification; liveness is left to TLC. Paths below are
relative to `src/`.

1. [Inventory](#1-inventory)
2. [Modules and how they correspond to the code](#2-modules-and-how-they-correspond-to-the-code)
3. [Runs](#3-runs)
4. [Findings](#4-findings)
5. [Proofs](#5-proofs)
6. [What is not modelled](#6-what-is-not-modelled)
7. [Plan](#7-plan)
8. [Running it](#8-running-it)

## 1. Inventory

### How the parts interact

```
 Docker --events, list, inspect--> dockerListener --ContainerUpdate--+
                                        ^                            v
                                        +------- reset ------- syncInstances --InstanceUpdate--> Tee --> setInstances
                                        +------- reset --------+     ^                            |           |
                                        v                            |                            v           |
 etcd <-- Heartbeat, GC, records -- etcdstore --WatchServices--> store.watch                 server side      | AddInstance,
   ^                                    |                                          ingress records |           | RemoveInstance
   +------------------------------------+-----------------------------------------------------+-----------+
                                        |
                              store.watch --ServiceUpdate--> balancer.services --rules--> iptables
                                        |                           |
                                        |                           +--UpdateInstances--> forwarder, instance pool
                                        |
       (edgebal)              store.watch --ServiceUpdate--> updater --snapshot--> generator --> file, reload command
```

A daemon is a tree of *components* (`common/daemon`): functions that start
goroutines and give a function to stop them. `Restart` starts a component again
some time after it posted an error; `Reset` stops and starts it when a channel
is signalled; `Ticker` calls a function at random intervals. The goroutines
communicate over unbuffered channels, and over channels of one place for resets;
errors go to sinks of one place. An error that reaches the sink of `daemon.run`
stops the program.

### Components

| Component (code) | State | Operations | What is hard | What makes it correct |
|---|---|---|---|---|
| **syncInstances** (`agent/sync_instances.go`) | services, containers, and the instances matched, indexed both ways | full and incremental updates from two sources, resets asked by the reader, starting full scans | two sources and one reader that each restart by themselves; incremental updates against two indexes kept by hand | with full information, the reader holds exactly a matching of what is known; the indexes agree |
| **setInstances** (`agent/set_instances.go`) | none: what it registers is in the store | apply an update, register the host | some calls fail in the middle of an update; restart asks for a reset | as above; nothing from before a reset survives it |
| **dockerListener** (`agent/docker_listener.go`) | what was heard while listing, a buffer of updates, the containers announced | list, follow events, buffer, inspect, deliver | containers change while they are listed and inspected; three goroutines; restarts with updates buffered | in the end the consumer holds the running containers with the details of their latest start |
| **wiring and supervision** (`agent/agent.go`, `agent/tee.go`, `common/daemon`) | reset channels, error sinks, what each goroutine waits for | Restart, Reset, Tee, Aggregate, run | signals that coalesce; stopping while a goroutine sends | no two of one component at once; no reset is lost; the pipeline does not jam; a stop ends |
| **store** (`common/store/etcdstore/etcdstore.go`) | service specifications and rules, host, instance and ingress records, sessions | writes, deletions, queries in several requests, watches | each request is atomic and nothing else is; records hide when their session ends | queries show records of live sessions only |
| **heartbeat and collection** (`common/heartbeat`, `common/store/etcdstore/gc.go`) | the session's key; what a collection has read | refresh, expiry, collect | the collection's reads and deletions interleave with starts, stops and registrations of every daemon | a record whose session has been live all along is never collected; a dead one is in the end |
| **watch** (`common/store/watch.go`, `WatchServices` of the etcd store) | the services known, changes in flight, the service being asked for | start, first query, handle an event, ask for a service, fail, restart | changes between the watch, the query for sessions and the query for services | once it has caught up, the callback was told what is there |
| **balancer services** (`balancer/services.go`) | a state per service: rejecting, or forwarding with a forwarder | updates, close | one command at a time while packets arrive; commands fail | never a gap between old and new state; no rule or forwarder left over |
| **iptables chains** (`balancer/iptables.go`) | the chains, their rules and hooks, in the kernel, beyond the process | set up, add and delete rules, take down | what a crashed run left behind; commands that fail | hooked once, whatever came before; taken down by a stop |
| **balancer start and stop** (`balancer/balancer.go`) | flags of what was set up | start, Stop, Restart | a start that fails half way | as above |
| **forwarder** (`balancer/forwarder/forwarder.go`) | listener, shim, pool | accept, connect with retries, stop, SetInstances | an attempt that ends after the instances were replaced | no connection to an instance known to have failed; no panic |
| **instance pool** (`balancer/forwarder/pool.go`) | ready instances, heap of waiting ones, a timer | pick, fail, succeed, update, retry | indices kept in the elements; a timer that races its resets | as many entries as instances; every retry happens |
| **server side** (`balancer/serverside`) | forwarders for the instances of this host; ingress records | service and instance updates, resets | shares its updates and resets with setInstances; errors end the daemon; addresses that vanish | in step with the agent, whatever setInstances does; a forwarder and a record exactly where there are instances |
| **balancer agent** (`balancer/balagent`) | pending services, generated configuration | update, generate, reload | a one-place channel that drops; failures half way through a generation; reloads that time out | the last services get into the file in the end; nothing left over; a stop ends |
| **in-memory store** (`common/store/inmem`) | as the store | as the store | - | the store's test suite; no daemon uses it |
| **fluxctl, web, prometheus handler, main programs, netutil, etcdutil, version** | none of interest | commands, pages, counters, start-up, pure functions | - | - |

`PROJECT.json` lists the same components, finer and with their status, and under
"hazards" each place in the code where something could go wrong that a test
would hardly reach, with the properties that cover it.

## 2. Modules and how they correspond to the code

Each action is one handler, one goroutine step between two points where others
may run, or one request to an outside system. `PROJECT.json` maps each
definition to the lines it models. A definition that no action uses and whose
comment calls it a *variant* is what a plausible bug would make of its
neighbour; the properties are tested against those.

### Extract and SyncInstances

`Extract` holds the pure part of `sync_instances.go`: whether a rule's selector
includes a container (`Includes`, `Label`), and which address the container has
(`ExtractAddress`: host network, mapped port of the first binding on a usable
address, or the container's own address). Containers and services are records
with what these look at. `Extractions` is a set: `ContainerRules` is a Go map,
and with two matching rules its order decides.

`SyncInstances` is the main loop. `servicesNil` and `containersNil` are the nil
maps of the code; `instances` and `contInstances` are its two indexes;
`update` is the `InstanceUpdate` being sent (the loop takes nothing else
meanwhile); `resetWanted` and `resetAsked` are the one-place reset channels.
`ContainersReset`, `ContainerStarted`, `ContainerDied`, `ServicesReset`,
`ServiceUpdated`, `ServiceRemoved` are the branches of
`processContainerUpdate` and `processServiceUpdate` (an update with several keys
is handled key by key in the code too, without effect of the order, and is
modelled as several); `InstancesReset` is the reader's reset. The reader,
`setInstances`, applies an update (`ReaderApplies`), or fails with any part of it
applied (`ReaderFails`) and is restarted and asks for a reset
(`ReaderRestarts`). `view` is what it has registered, and starts arbitrary,
because an earlier run may have left anything.

### Registry

What the agent promises, without its indexes, channels and updates: a decision
(`target`) that matches what it knows, one change at a time, and a store
(`registered`) at most one decision behind. A change to one service or container
may touch that one's instances only (`LearnService`, `LearnContainer`); everything
may change in a `FullScan` only, which is also the only way out of a
disturbance (`Disturbed`: a failure, a reset or a restart), during which the
store takes nothing that was not decided. It stands for no code of its own.

`SyncInstances` implements it: `Promise` is the INSTANCE with the refinement
mapping (`target` is what the reader will hold once the update in flight is
applied), and `KeepsPromise` the property.

### DockerListener

Docker (`Starts`, `Dies`, `Removed`) changes between any two steps of the
listener: `ListenerStarts`, `ListTaken`, `HearsEvent`, `ListingEnds`,
`FollowsEvent` are the reader goroutine, `TakesUpdate`, `Inspects`, `Delivers`
the inspector, and `buf` the buffer between them. `Reset` around the listener is
`TakesReset`, `Restart` is `RestartStops` and a start. `Delivers` includes what
`processContainerUpdate` does with the update, so that `held` is
`si.containers`. A container's details are the number of the start they belong
to: enough to tell stale details from present ones.

### EtcdStore and WatchServices

`EtcdStore` is the tree in etcd and everybody who writes to it. One host's
daemon is started several times, each run with a session of its own
(`DaemonStarts`, `SessionMade`, `HeartbeatLands`, `SessionExpires`,
`DaemonStops`). `Register` and `Deregister` stand for the six operations on
host, instance and ingress records, which differ in the directory only.
`GCHosts`, `GCServices`, `GCLive`, `GCDelete`, `GCEnds`, `GCFails` are the
requests of one `doCollection`, one step each. `index` is etcd's
`ModifiedIndex`; `steady` is a history variable in a record: its session was
live when it was written and has been since.

`WatchServices` extends it with one watch: the goroutine of `WatchServices` in
`etcdstore.go` (`HandleResponse`, with its filter of actions and keys) and the
loop of `watch.go` (`WatchStarts`, `ListSessions`, `ListServices`,
`ServiceChanged`, `AskSessions`, `GetService`, ...). `feed` holds the events etcd
has for the watch, and `view` what the callback was told. A query asks for the
sessions and then for the services, in two requests, as in the code. What fails is one
of three: the start of the watch (`WatchStartFails`: the run loop goes on to its query
with no watch behind it), the watch (`WatchBreaks`: the run loop still finishes what it has), or a
request of the run loop (`WatchFails`). The first two are errors in a sink until Restart
sees them (`RestartSeesError`).

### IPTables and Balancer

`IPTables` is the kernel's tables: what `-N`, `-X`, `-F`, `-A`, `-D`, `-I` do to a
chain, when they are refused, and the command sequences of `setupChain` and
`deleteChain`. The rules of a chain are a sequence: `-A` appends, and the first rule that
matches a packet decides. A chain that is referred to cannot be deleted, and `-D` takes out
the first copy of a rule. These are properties of iptables, and marked external.

`Balancer` runs those commands one by one (`SetupCommand`, `TeardownCommand`), and
between them processes updates of services: `Keep`, `StartRejecting`,
`StartForwarding`, `AddRule`, `StopForwarder`, `DeleteRule`, `Close`. A service
state in the code is a value with a stop function; here it is a record with the
service it was started for. `Crash` loses the process and keeps the tables.
`Serves` is what a packet for an address meets: the first redirection of the nat table that
matches, and whether somebody listens on its port; only without one, the filter table.
`undeleted` keeps account of the rules whose deletion failed.

### InstancePool

Each method of the pool is a step, since each holds the lock. Between them,
goroutines hold an instance while they connect (`conn`). `Tick`, `Fire`,
`ProcessRetries` are time, the timer, and the goroutine reading its channel:
a value sent before the timer was reset may be read after it. Stale
indices are kept exactly as the code keeps them, including the panic on one out
of range. `UpdateInstances` picks the places to keep (`Kept`), and `Replace` makes the two
rows from them; which objects are new and how retries that are due together are
arranged in the heap makes no difference, and is left open or fixed as is shortest.

### ServerSide

`ServerSide` extends `SyncInstances` with the Tee of `agent/tee.go` (`TeeReceives`;
`teed` is what it holds, `atSecond` whether the first receiver has it) and both
receivers. `setInstances` is the second (`SetApplies`, `SetFails`, `SetRestarts`). The server
side is the first: `ServerReset`, and `ServerIncrement` with one `ServerEntry` for each
entry, are `processInstanceReset` and `processInstanceUpdate`; `ServerServices` is
`processServiceUpdate`; each leaves in `names` the services for which
`updateService` is to be called, and `Publish` and `Withdraw` are those calls, in any
order, as Go's maps have it. Each may fail, and so may a forwarder's accept
(`AcceptFails`): `failed`, after which fluxd stops and this module says nothing.

### Fluxd

The goroutines of fluxd that wait for each other, and what each waits for; what
the updates say is left out. `restart` and `child` are Restart's goroutine and its
component, `wrapper` and `signal` Reset's and its channel, `at` where
`syncInstances`, the Tee and the server side are, `wantReset` the channel on
which `setInstances` asks for resets. The actions named `Restart...` and `Reset...`
are the steps of `component.go`, the others those of the components: `SyncTakes`,
`SyncResets`, `TeeTakes`, `ServerTakesUpdate`, `SetInstancesTakes` are the meetings at an
unbuffered channel, in the order in which the code makes them. `Stops` is
`daemon.run` when it receives a signal or an error; from then on every
goroutine may see its stop channel, where the code looks at it and nowhere else.
A component is its own goroutine, the one its `Stop` waits for. A watch has started another,
which its `Stop` does not wait for: `left` has the watches of which that one was sending when
they ended, and waits for ever.

### BalancerAgent

`watch` is the store's watch, which sends what it read. The store changes in two ways: by
`StoreChanges`, of which a watch is told, and by `SessionChanges` (a session ends or comes back,
its instances with it), of which it is not; `silent` has the services changed so since they
were last read. `UpdaterTakes`, `UpdaterDrains`, `UpdaterSends` are the three parts of
`updater.run`, with the one-place channel between it and the generator; `GeneratorTakes`,
`CreatesTemp`, `WritesTemp`, `Renames` and the three outcomes of the reload command (`Reloads`,
`ReloadFails`, `ReloadTimesOut`) are `generator.run` with what it calls. `GenerateFails` is any of
the returns with an error before the command, together with the deferred removal of the
temporary file. A command that has timed out runs on (`late`).

## 3. Runs

Nine runs pass; three show a disagreement between the code and what the
repository says of it, each with one property (section 4). The three configurations in the
last rows of the table show lesser disagreements; they are kept beside the runs that
`PROJECT.json` lists, and TLC finds a counterexample to each within a second or two.

| Run | Instance | Shows | Distinct states |
|---|---|---|---|
| `sync_instances` | 2 services, 2 containers, 2 service definitions (no rule that matches; one that does not and two that do) | `TypeOK`, `InSync`, `IndexOK`, `SyncInv`, `KeepsPromise` | 220,476 |
| `docker_listener` | 2 containers, 2 starts in all, 1 error or reset | `CaughtUp`, `BothOrNeither`, `Settles`, `TypeOK` | 1,166,274 |
| `balancer` | 2 services over 2 addresses, with and without an instance, 3 ports, 1 failing command, 1 crash, 2 starts | `NoGap`, `AsWanted`, `NoLeftovers`, `HookedOnce`, `StopClears`, `StartSucceeds`, `TypeOK` | 842,688 |
| `pool` | 2 instances, 2 connections, 2 updates | `NeverDry`, `UpdateHeals`, `RetryHappens`, `TypeOK` | 353,005 |
| `etcd_store` | 1 service with one specification and rule, host records, 2 hosts, 2 runs of each daemon, 2 writes, 1 error; one host collects | `GCInv`, `GCSafe`, `DeadCollected`, `TypeOK` | 888,474 |
| `watch_services` | 2 services, 1 host, 2 writes, 1 error, a watch with rules and instances | `ViewCurrent`, `WatchRecovers`, `WatchTypeOK` | 1,893,350 |
| `server_side` | 1 service with and without a port, 2 containers, both receivers | `BothInSync`, `ForwardersMatch`, `ServerTypeOK` | 1,467,460 |
| `fluxd` | one source, everything else as in fluxd | `NoResetLost`, `StopEnds`, `ResetHappens`, `TypeOK` | 82,172 |
| `balancer_agent` | 2 services, one of them in the store, that come, change and go, 2 changes with an event or without, 1 failing watch, 1 late command | `SendsAtOnce`, `NoLitter`, `FileCurrent`, `FileSettles`, `StopEnds`, `TypeOK` | 610,570 |
| `balancer_stale` | 1 service, 3 instance maps | `SameInstances` violated | |
| `pool_stale` | as `pool`, connections of 2 attempts | `Withdrawn` violated | |
| `etcd_race` | as `etcd_store`, no error | `KeptWhileRunning` violated | |
| `MCBalancerShadow.cfg` (`MCBalancer`) | as `balancer`, 1 service, no crash | `NoWindow` violated | |
| `MCBalancerCleanup.cfg` (`MCBalancer`) | as `balancer`, 1 service, no failure, no crash | `CleanedUp` violated | |
| `MCFluxdLeft.cfg` (`Fluxd`) | as `fluxd`, the source a watch | `StopsWhole` violated | |

### What the properties say

* `InSync`: once the agent has heard from both sources, and unless the reader is
  failed or is owed a reset, what the reader holds after the update in flight is,
  key for key, an extraction of the services known with the containers known.
  This is the point of `syncInstances`, and takes its two indexes to be right
  (`IndexOK`). `KeepsPromise`: every step of it is one that `Registry` allows, so that a
  change to one service or container leaves the others' instances alone, and a reader
  that has failed gets a full scan before anything else counts.
* `CaughtUp`, `Settles`: with nothing on its way, the consumer holds the running
  containers with their latest details; and once changes, errors and resets
  come to an end, this is so for good. `BothOrNeither`: it is never told of the
  end of a container it did not know.
* `GCSafe`: a collection deletes no record whose session has been live since the
  record was written. `DeadCollected`: if somebody goes on collecting, the
  records of a session that is gone for good are gone in the end.
* `ViewCurrent`: a watch that is up and has nothing left to do has told its callback what
  is in the store, except for instances whose visibility was changed by a session
  or a collection (the variable `silent` keeps account of those).
  `WatchRecovers`: it gets there again after any error, unless a directory
  without specification makes every query fail.
* `NoGap`: at every moment until a service is closed, a connection to its address, or, while
  it moves, to its old or its new one, gets what its state stands for: the first redirection
  that matches leads to the service's own forwarder, and that is running; or, for a rejecting
  service, no redirection that somebody listens to comes before the `REJECT`. This whatever
  command fails, with two exceptions: another service has the same address, or a rule for the
  address could not be deleted (section 4, and `MCBalancerShadow.cfg`).
  `NoLeftovers`: whatever failed, a chain has each rule as often as states need it, and more only
  of one that could not be deleted, and the forwarders are those of the states. `AsWanted`:
  while no command has failed, the states are those of the last update. `HookedOnce`,
  `StartSucceeds`: a start copes with anything an earlier run left. `StopClears`: where only
  deletions of rules have failed, a stop leaves no rule in either chain, though the nat chain
  itself cannot be deleted (section 4) and its error comes before the filter chain's turn.
* `NeverDry`: the pool has as many entries as it was given instances, even where
  indices are stale. `UpdateHeals`: an update leaves a sound pool, whatever it
  found. `RetryHappens`: no waiting instance is forgotten while the pool is sound.
* `BothInSync`: `InSync` for both receivers behind the Tee, though one may fail and ask
  for resets that the other has no need of. `ForwardersMatch`: between two inputs,
  forwarders, their pools and ingress records are those of the services that are
  known and have instances here.
* `NoResetLost`, `ResetHappens`: a source that is asked for a reset is started anew,
  whatever Reset and Restart are doing when the signal comes. `StopEnds` (`Fluxd`): a stop ends
  every goroutine, except where one was sending to another that saw the stop
  first. `TypeOK` of `Fluxd` also says that a component's own goroutine has ended where its
  supervisor may start the next. The contract of `Stop` (`component.go:17-22`) asks for more,
  and is not kept by a watch (`StopsWhole`, section 4).
* `FileSettles`, `FileCurrent`: the last services get into the file and are loaded although
  the updater drops what the generator has not taken, unless an error ends edgebal. Excepted are
  services that a session changed after they were read (`silent`), of which nobody is told.
  `SendsAtOnce`: its send never waits. `NoLitter`: no temporary file stays.

### Bounds, and why they are enough

* *sync_instances* has no counters: its state is finite and is explored
  completely. Two services and two containers are what the indexes need to go
  wrong (a name missed for one of two). With one definition whose rules match twice and
  differently, the choice among extractions matters. Deadlock is checked: the
  loop can always take an update.
* *docker_listener*: two starts let a container die and be started again between
  being heard of and being inspected; one fault is one restart, with or
  without updates buffered.
* *balancer*: a failure and a crash, each at any command, and one more start after
  it. Ports are one more than services, for the moment in which the new and the old
  forwarder of one run together with the other's. Two addresses let a service move, and let
  two services have the same one. One failing command lets one rule stay; one service that
  gets a forwarder again is then enough for it to come first (`MCBalancerShadow.cfg`).
* *pool*: two connections and two updates give every order of an attempt with the
  replacement of the instance it was made to. How often a connection has tried before is
  nothing the pool sees, and a goroutine that gave up may start again, so that
  `MaxAttempts` = 1 has every order of calls. Four objects (`MaxObj`) are never too few:
  those that nobody holds are used again. The backoff doubles `MaxBackoff` = 1
  time, and the timer's goroutine is at most one unit late (`MaxLag`).
* *etcd_store*: two runs of a daemon give its record's key a dead and a live
  owner in turn; two writes give a key that was written again since it was read.
  `MaxLapses` is 0 in this run, so that the sessions of running daemons do not
  expire; the proof of `GCSafe` covers lapses.
* *watch_services*: one error is a failed start, a broken watch or a failed request. With two
  writes a service is written, removed and written
  again while the watch is between its requests, or another one is. Removals are
  not bounded.

* *server_side* has no counters. One service is enough for its two receivers to
  disagree; updates of different services do not meet in the server side. Two containers
  let an update have several entries, and the service lose one instance and keep the other.
* *fluxd* has no counters. The sources differ in nothing but what a watch may leave behind;
  with two, `TypeOK` and `NoResetLost` hold as well (9,990,812 states), and both are proved for
  any number. The source of `fluxd` is the containers' (`Watch` is empty), because no property of
  that run reads `left`; `MCFluxdLeft.cfg` has a watch.
* *balancer_agent*: two services, so that an update may leave one alone; two changes are what
  it takes for a second snapshot to meet a first in the channel and a third
  (the first query's) in the generator. The run starts with one service in the store and one
  not: names and values are interchangeable, and a service that is there can change and go as
  one that is not can come.

Deadlock is not checked where the counters are bounded, or, in the pool, where
the process may have panicked: those systems do stop. Nor is it in `server_side`, `fluxd` and
`balancer_agent`, which an error or a signal ends.

### Fairness, and why the code justifies it

* *DockerListener*: the listener's goroutines are scheduled, `Restart` and `Reset`
  wait on timers and channels and do not give up (`component.go:26-69,
  144-173`). None for Docker, nor for failures, and `HearsEvent` needs none:
  an event not received while listing is received later, by `FollowsEvent`.
* *EtcdStore*: weak fairness of each host's `Collect`: a daemon that is
  running goes on collecting (`Ticker`). It is no assumption on a daemon that is
  down, because the action is then disabled. A session's key expires if nobody
  refreshes it: etcd's time-to-live. None for daemons to start or for heartbeats.
* *WatchServices*: weak fairness of `Watch`: `Restart` starts it again, its goroutines
  are scheduled, and a request is answered or fails.
* *Balancer*: `Step` and `StartBalancer`: the goroutine finishes what it began, and
  `Restart` starts again. None for updates, stops, failures or crashes.
* *InstancePool*: time passes, the timer fires, its goroutine is scheduled.
  None for connections: they may take for ever.
* *Fluxd*: goroutines are scheduled (weak fairness). Strong fairness where a `select` is
  offered a case again and again among others, since Go chooses at random among those that
  are ready: a stop (`SeesStop`), a reset (`SyncResets`), the receipt of what the Tee
  sends (`TeeSends`). And for `ResetStarts`: Reset drains its channel and starts the
  source within microseconds, while those who signal it start at most every ten
  seconds, so that it is not signalled each time it tries. Docker and the store
  answer. None for errors, for what the sources send, or for signals.
* *BalancerAgent*: goroutines are scheduled, store and disk answer; strong fairness for
  seeing a stop, as above. None for the reload command: it may run for ever, and
  what ends the wait is the timer (`ReloadTimesOut` is part of `ReloadEnds`).
* *SyncInstances* and *ServerSide* state safety only and have no fairness.

## 4. Findings

Six places where the code does something else than the repository says. The first three are the
graver, and each has a run that shows it; the others have a configuration of their own:

1. **A forwarder keeps old instances** (`balancer_stale`,
   `balancer/services.go:260`). An update is compared with the service that the
   forwarder was *started* for, not with the last one it was given; so instances
   {a}, {a, b}, {a} leave it with {a, b}.
2. **Another instance is withdrawn** (`pool_stale`, `balancer/forwarder/pool.go:118`).
   `fail` moves the last ready instance and does not update its index.
3. **A collection can take a starting daemon's records** (`etcd_race`,
   `etcdstore.go:599`). `sessionReady` is closed before the session's key is set.
4. **A rule that could not be deleted comes first** (`MCBalancerShadow.cfg`,
   `balancer/services.go:251`). "Start the new
   forwarder before stopping the old one, to avoid a window where there is no rule for the
   service" (`services.go:146`); but the error of `deleteRule` is dropped, nothing deletes the rule
   later, and new rules are appended: a service that is given a forwarder again has its
   connections sent to the old one's port, where nobody listens; and those to a rejecting one
   get to whichever forwarder is given that port.
5. **A stop leaves the nat chain** (`MCBalancerCleanup.cfg`, `balancer/iptables.go:50`). `start` hooks
   it into PREROUTING and OUTPUT, `stop` takes out the first hook only, and the deletion is
   refused. `balancer_test.go:86` says "check that iptables was cleaned up"; its mock iptables
   allows the deletion.
6. **A stopped watch leaves a goroutine** (`MCFluxdLeft.cfg`, `etcdstore.go:404`). It sends its
   change without looking at the context, to a run loop that has returned; "When it returns, all
   resources of the component should have been released" (`component.go:18`).

`PROJECT.json` quotes the lines that the first three contradict. The passing properties are
stated so that they say what holds in spite of these: `UpdateHeals` and `NeverDry`
in spite of 2, `GCSafe` (about `steady` records) in spite of 3, `NoGap`, `NoLeftovers` and
`StopClears` in spite of 4, `StopClears` and `StartSucceeds` in spite of 5, `StopEnds` of
`Fluxd` in spite of 6.

Met while modelling, and stated by passing properties or kept in the models as they
are:

* **A watch does not hear of dead sessions** (`etcdstore.go:400`): queries hide the
  instances of dead sessions ("Instances disappear with the session",
  `common/store/test/suite.go:140`), but neither their expiry nor their collection is a change
  to a watch. `ViewCurrent`, and `FileCurrent` and `FileSettles` for edgebal's file, except
  them (`silent`).
* **A stop of fluxd can hang** (`agent/sync_instances.go:98`, `agent/tee.go:51`): those sends do
  not look at stop. If the receiver has seen it first they wait for ever, and so does
  `d.Stop()`; `StopEnds` says that this is the only way. A component of Restart that does
  not stop is reported after ten seconds, but to a sink that nobody reads any more
  (`component.go:41`).
* **An error of the store in the server side ends fluxd** (`serverside.go:193, 203, 209`),
  since it is under no Restart; `CHANGELOG.md:15` has it "Survive restarts of
  etcd, rather than crashing". On a stop it leaves its forwarders and its
  ingress records as they are; the records go with the session.
* **Order in the server side**: a forwarder is stopped before its record is removed
  (`serverside.go:207`), so that for a moment the record names a port nobody listens on; an
  incremental update with the removal of one instance and the addition of another stops and
  starts the forwarder, or not, depending on the order of a Go map (`:160`); a service's
  protocol is set when its forwarder is made and never again (`:197`).
* **An instance that loses its address keeps the old one** in the server side until a
  reset (`serverside.go:166`), and one that changes it keeps the old one in the pool
  (`pool.go:143`).
* **A reload command that timed out goes on** (`balagent.go:223`): the goroutine that waits for
  it then waits for ever to send the outcome, and the generator may start
  another command before edgebal has stopped.

## 5. Proofs

### SyncInstances_proofs

`Invariance`: `Spec => []SyncInv`, for any sets of services, containers, service
and container definitions, under `SyncAssumption` (None and Untouched are no
values). It gives `TypeCorrect`, `IndexesAgree` (`IndexOK`) and `ReaderInSync`
(`InSync`).

`InSync` is not inductive: it says nothing of what the agent remembers, and the
next incremental update is computed from that. `SyncInv` adds
`NilOK` (nothing is remembered without full information, so that a reset
starts clean), `MemoryOK` (the instances remembered are a match of what is known),
and `ViewOK` (they are what the reader will hold once it has applied the update
in flight). The death of a container is where `IndexOK` is needed: the code walks
the container's list of services only, and `MemoryOK` requires that none was missing.
The four are proved action by action. The two resets rest on one lemma (`FullScan`): a
full scan sent as a reset makes the reader's future equal to the memory whatever
it held. The incremental actions rest on `ApplyEntry` and `ApplyNoUpdate`, about
what the reader makes of an entry.

The second half of the module is the refinement, `ImplementsRegistry`: `Spec => KeepsPromise`,
for any instance of `SyncInstances`. The initial state maps to an initial one because nothing
is settled in it. Each action of `SyncInstances` has a lemma that says which action of
`Registry` it is, or that it is a stutter: a container's update is `LearnContainer` when there
is full information, a service's is `LearnService`, the second of the two first updates after
a reset is the `FullScan`, `ReaderApplies` is the `Write`, everything else a disturbance. The
steps need `SyncInv` on both sides of the step: `ViewOK` makes `target` the memory, `MemoryOK`
makes it a match, and the lemma `FullScan` closes the disturbance.

### DockerListener_proofs

`TypeCorrect`, `ConsumerCaughtUp` (`CaughtUp`) and `ToldBothOrNeither` (`BothOrNeither`), for any
containers and bounds, under `ListenerAssumption` (`None` is no number and `Untouched` no Boolean).

`CaughtUp` speaks of a listener that has nothing left to do. The invariant `ListenerInv` says what
is still to come of each container while there is something. An event or a buffered update
may be out of date, but then a later one is not (`EventsEndTrue`, `BufEndsTrue`); and what the
consumer will hold of a container after the update in hand is the truth, unless its death, or
its start, is on the way (`Following`; `Listing` before that). Where the consumer
holds details of an earlier start, the death that ended it is still on the way. `Announced`
says that the containers announced are those that the consumer will hold, and `Stages` what
there can be at each step of the listener. `Listing` and `Following` claim nothing while
something is being stopped, since the next start begins afresh.

### WatchServices_proofs

The first part is about the store alone. `Invariance`: `StoreSpec => []GCInv`, for any services,
hosts, collectors, bounds, and any numbers of lapses and errors, under `StoreAssumption`. It
gives `TypeCorrect`, and `CollectionSafe` (`GCSafe`), an action property, since every deletion is of an
`Unchanged` member of `todo`.

The argument: a record that was read and has the same index is the same record
(`IndexOK`: indices are handed out once, and nothing seen is newer than `index`).
A collection reads the sessions *after* the records. A session that is not live
then has either not begun or ended; in either case no record of it that was
read can be steady (`SteadyOK`), and it cannot become so, because `steady` is only
set by a new write, with a new index. So `TodoOK`: what is to be deleted is not
steady if it is unchanged. `GCLiveInv` is where the order of the reads matters, and
`RegisterInv` is where the indices do.

The second part is about the watch: `WatchTypeCorrect` (`WatchTypeOK`) and `ViewIsCurrent`
(`ViewCurrent`), for the store and its watch together, under `WatchAssumption` too (`None` is no
service information). `ViewCurrent` is about a watch at rest. The invariant `WatchInv` follows each
service while the watch is up and not at rest (`Following`; a run loop with no watch behind it
is claimed nothing of, but its types): an event that concerns it is queued in the feed, or a change of it is
noted, or it is being asked for, or the callback has been told what there is (`Telling`).
`Beginnings` says that a service that there is has its beginning after any end that is on its way, and
`Knowledge` that what the callback knows of is among the services the watch knows of, or on its way to
be; between them, a deletion is always reported and a service that came back is not lost.
The watch asks for the sessions before it asks for services: `Counted` says that what those
sessions bring into sight is what is in sight, but for the `silent` instances and whatever is queued
or noted. `Places` says what the variables can be at each step. Every action of the store has a
lemma that says what it adds to the feed and to `silent`; the watch's own steps move a
service from one of these places to the next.

### Balancer_proofs

`TypeCorrect`, `NoServiceGap` (`NoGap`), `UpdatesTakeEffect` (`AsWanted`), `NothingLeftOver`
(`NoLeftovers`), `ChainsHookedOnce` (`HookedOnce`) and `StopEmptiesChains` (`StopClears`), for any
services, states and ports, any number of failing commands, crashes and starts, under
`BalancerAssumption` (the names are finitely many) and `StateAssumption` (`None` is no state).

The first lemmas are about `IPTables`: what each command makes of a table, and when it is
not refused. Rules are sequences, and what `-A` and `-D` make of the places of a rule is
counted (`PlacesAppended`, `PlacesDeleted`). `BalancerInv` has a part for each of the things that
must be in step. `ChainsOK` says how far the seven commands of `SetupChain`, or those of
`DeleteChain`, have got, and what they have made of the table by then, whatever was there before
(`HookedOnce`); where nothing has failed but deletions of rules, also that none of them is
refused that must not be, for which `StopsOrderly` says what a stop leaves (`StopClears`). That
this many failures are all accounted for by `undeleted` is `FailuresOK`. `RulesOK` and
`ForwardersOK` count: each rule is there at least as often as states need it, and as often
unless it is in `undeleted`, where a state and the one that replaces it both need theirs; there
is a forwarder for each port that a state listens on, or is about to, and no two states share
one (`NoLeftovers`). The counting rests on `FiniteSetTheorems`: a state that comes or goes changes
the number of those that need a rule by one.

`NoGap` follows from the counts and not from the order of the rules: where no other service has
the address and no rule for it was left, every rule that matches is needed by a state or job
of this service (`NeededBy`), so the first one is (`FirstMatch`), and `ForwardersOK` says that its
forwarder is running, or that there is none to get in the way of a rejecting state. `WantedOK`
relates a service's state to its latest update while no command has failed (`AsWanted`). `JobOK`
and `ServicesOff` say at which steps any of this can be.

### InstancePool_proofs

`TypeCorrect`, `NeverRunsDry` (`NeverDry`) and `UpdatesHeal` (`UpdateHeals`), for any instances,
goroutines and bounds, under `PoolAssumption` (the names are finitely many). With the attempts
that a goroutine has left, the two invariants are inductive (`PoolInv`): `Fail`, `ConnectSucceeds`
and `ProcessRetries` move entries from one row to the other, whatever the indices are. That an
update gives as many entries as names (`KeptOnce`, `KeptParts`) is an argument about
cardinalities: the first entry with each wanted name is kept, so that those kept and their names
correspond one to one. `UpdateSound` is the theorem behind `UpdateHeals`; it takes the types only, not
that the pool was sound. It goes by what the rows are filled from (`Sources`, `Filled`), that nothing
is in them twice (`Apart`), and what they are labelled with (`Labelled`, `Settled`).

### Fluxd_proofs

`StopsSynchronously` (`Spec => []TypeOK`) and `ResetsKept` (`Spec => []NoResetLost`), for any
set of sources. The two together are inductive (`InductiveFluxd`). Restart takes its
component as stopped only in `RestartGoesOn`, once it has ended, and Reset its Restart only in
`ResetGoesOn`, both for its own goroutine; a signal leaves the channel only in `ResetTakesSignal`, which leads to a
start; and only a start settles what is `owed`.

### BalancerAgent_proofs

`TypeCorrect`, `UpdaterFree` (`SendsAtOnce`), `Tidy` (`NoLitter`) and `CurrentAtRest`
(`FileCurrent`), for any services, values and bounds. `FileCurrent` speaks of the two ends of
a line, store and file, when nothing is in between; it is not inductive. The invariant
`AgentInv` follows a service along the line: what the updater holds, or is about to take, is
what is in the store, unless the watch has still to report it, or is not told of it
(`Reported`); the newest
of what is in the channel, with the generator and in the file is what the updater holds
(`HandedOn`); what is in the file is loaded, or about to be (`Loaded`). The last two hold
until there is an error.

### ServerSide_proofs

`ServerTypeCorrect` (`ServerTypeOK`), `ReceiversInSync` (`BothInSync`) and `ForwardersAgree`
(`ForwardersMatch`), for any services, rules and addresses and any finite set of
containers (`ServerAssumption`: a weight is the number of instances, and no set of containers is
`None`).

To `syncInstances`, the Tee and `setInstances` are one reader that holds what the store
will hold once it has what the Tee has for it. `Front` is `SyncInstances_proofs` with that
for its `view`, so the lemmas about the actions of `SyncInstances` are used again:
`TeeReceives` is its `ReaderApplies`, and what setInstances does later changes nothing it sees
(`FrontStays`). The server side gets what `syncInstances` sends, and no reset of its own.
`ServerHolds` says that with full information it will have an address that fits what
is remembered for each instance. `SyncsSent` is why: an entry sent is what
is now remembered, and a key without an entry has not changed, or has no instance in a reset.
The other steps move entries along and leave what will come of them as it is
(`HoldsAhead`). `Published` strengthens `ForwardersMatch` to the steps between
two inputs: a service is right or updateService is still to be called for it, and there is no
record without a forwarder.

### What is only model-checked

The liveness properties (`Settles`, `WatchRecovers`, `DeadCollected`,
`StartSucceeds`, `RetryHappens`, `ResetHappens`, `FileSettles`, both `StopEnds`): the prover
does not reach fairness and ENABLED. Every other property of a passing run is stated by a
theorem. No module has a RECURSIVE operator, so that all can be proved about. The inductive
invariants of the proof modules are conjunctions of named parts in those modules; `GCInv` and
`SyncInv` are checked by runs as well.

## 6. What is not modelled

* **Flags and dependency injection** (`common/daemon/deps.go`): run once, in one
  goroutine, before anything starts.
* **Hosts queries and watches** (`GetHosts`, `WatchHosts`), `Ping`,
  `CheckRegisteredService`: reads for fluxctl and the web interface. `WatchHosts`, `EndSession` and
  `DeregisterHost` are used by no program.
* **The HTTP shim and the copying of data** in a forwarder: input and output. Its
  ports and its protocol in the server side.
* **The balancer and the stop of fluxd**: the balancer's own goroutines under a stop are in
  `Balancer`; `Fluxd` has the agent and the server side, which are those that wait for
  each other.
* **Prometheus handler, fluxctl, web, in-memory store, main programs, utilities**:
  no state that the properties are about; fluxctl's commands are calls of the
  store and are actions of `EtcdStore`.
* **Parsing**: image names and environment variables of a container are a set of
  labels (`Label`). Addresses are values.
* **Directories without specification** (a late registration after the
  service was removed): in `EtcdStore` and `WatchServices`, not in `SyncInstances`.
* **An instance that changes its address under the same name** in the pool: a
  name stands for an address there.

## 7. Plan

Done, in this order, the most important behaviour first: `Extract`,
`SyncInstances` and its proof; `IPTables`, `Balancer`; `InstancePool`; `EtcdStore` and
its proof; `WatchServices`; `DockerListener`; `Registry`, the refinement and its
proof; `ServerSide` and its proof; `Fluxd` and its proof; `BalancerAgent` and its proof;
then the proofs of `DockerListener`, `Balancer`, `WatchServices` and `InstancePool`.

Theorems to come, in order of worth: abstract specifications in the manner of `Registry`, with
the refinement proved, for the balancer (a service is in force as one rule at a time) and for
the watch (a view that follows the store).

Modules to come: an **Agent** with `DockerListener` and a watch as the two sources of
`SyncInstances`, if it can be kept small enough to be checked; addresses in
`InstancePool`; a forwarder's stop against its connections.

## 8. Running it

```
tlc -config MCSyncInstances.cfg MCSyncInstances
tlapm SyncInstances_proofs.tla
```

`PROJECT.json` names the module and the configuration of every run, and for each
property of a passing run a mutant: a definition and the variant that replaces it,
with which the run must fail. The largest run (`watch_services`) has 1.9 million
distinct states and takes about two minutes.
