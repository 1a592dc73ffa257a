------------------------------ MODULE Balancer ------------------------------
(***************************************************************************)
(* The balancer: balancer/balancer.go (start and stop under Restart),      *)
(* balancer/iptables.go (its chains) and balancer/services.go (what it     *)
(* does for each service), one iptables command or forwarder call a step,  *)
(* because packets arrive between any two of them.                         *)
(*                                                                         *)
(* A service of the model package is [addr, insts]; insts stands for the   *)
(* instance map together with the protocol, the other thing a forwarder    *)
(* copies from the service.  A forwarder is known by the port it listens   *)
(* on.  Commands may fail, and the process may crash, MaxFailures and      *)
(* MaxCrashes times, and it is started MaxStarts times.                    *)
(***************************************************************************)
EXTENDS IPTables, FiniteSets

CONSTANTS
  Name,         \* service names
  Service,      \* model.Service values that may be delivered
  Port,         \* local ports that forwarders may be given
  None,
  Skip,         \* the update says nothing, or nothing more, of a name
  MaxFailures, MaxCrashes, MaxStarts

ASSUME BalancerAssumption ==
  /\ IsFiniteSet(Name)
  /\ None \notin Service \cup Port /\ Skip \notin Service \cup {None}
  /\ MaxFailures \in Nat /\ MaxCrashes \in Nat /\ MaxStarts \in Nat

VARIABLES
  ipt,        \* the tables, outliving the process
  phase,      \* "down", "starting", "running", "closing", "stopping"
  table,      \* the table being set up or taken down
  prog,       \* the iptables commands still to run for it
  setup,      \* ipt.natChainSetup, ipt.filterChainSetup
  svcs,       \* svcs.services[name].state, None when there is no such service
  forwarders, \* the running forwarders: port -> insts it was last given
  work,       \* the update being processed: name -> service, None, or Skip
  job,        \* where doUpdate is with one name
  wanted,     \* history: the latest value delivered for each name
  undeleted,  \* history: <<table, rule>> whose deletion failed since the start
  failures, crashes, starts   \* counted against the bounds

tables == <<ipt, phase, table, prog, setup, undeleted>>
serv   == <<svcs, forwarders, work, job, wanted>>
counts == <<failures, crashes, starts>>
vars   == <<tables, serv, counts>>

NoWork == [n \in Name |-> Skip]

\* A serviceState: what was started, and the service it was started for.
Rejecting(s)     == [kind |-> "rejecting", service |-> s, port |-> None]
Forwarding(s, p) == [kind |-> "forwarding", service |-> s, port |-> p]
State ==
  {Rejecting(s) : s \in {x \in Service : x.insts = {}}} \cup
  {Forwarding(s, p) : s \in {x \in Service : x.insts # {}}, p \in Port}

ASSUME StateAssumption == None \notin State

\* The rule of a state, and the table it is in.
Rule(st)    == [addr |-> st.service.addr, to |-> st.port]
TableOf(st) == IF st.kind = "rejecting" THEN "filter" ELSE "nat"
AnyRule     == {Rule(st) : st \in State}

NoJob == [name |-> None, pc |-> "idle", new |-> None]

TypeOK ==
  /\ \A t \in Table : /\ ipt[t].exists \in BOOLEAN
                      /\ ipt[t].refs \in [Hook(t) -> Nat]
                      /\ ipt[t].rules \in Seq(AnyRule)
  /\ phase \in {"down", "starting", "running", "closing", "stopping"}
  /\ table \in Table
  /\ setup \in [Table -> BOOLEAN]
  /\ svcs \in [Name -> State \cup {None}]
  /\ DOMAIN forwarders \subseteq Port
  /\ work \in [Name -> Service \cup {None, Skip}]
  /\ job.name \in Name \cup {None} /\ job.new \in State \cup {None}
  /\ job.pc \in {"idle", "add", "stop", "delete"}
  /\ wanted \in [Name -> Service \cup {None}]
  /\ undeleted \subseteq Table \X AnyRule
  /\ failures \in 0 .. MaxFailures /\ crashes \in 0 .. MaxCrashes /\ starts \in 0 .. MaxStarts

Init ==
  /\ ipt = [t \in Table |-> NoChain(t)]
  /\ phase = "down" /\ table = "nat" /\ prog = <<>>
  /\ setup = [t \in Table |-> FALSE]
  /\ svcs = [n \in Name |-> None]
  /\ forwarders = [p \in {} |-> None]
  /\ work = NoWork /\ job = NoJob
  /\ wanted = [n \in Name |-> None]
  /\ undeleted = {}
  /\ failures = 0 /\ crashes = 0 /\ starts = 0

-----------------------------------------------------------------------------
(***************************************************************************)
(* How command c on table t may end; a failure that the table does not     *)
(* explain is counted.                                                     *)
(***************************************************************************)
Ends(t, c, end) ==
  \/ /\ end = "ok" /\ Accepts(ipt[t], c)
     /\ ipt' = [ipt EXCEPT ![t] = Effect(@, c)]
     /\ UNCHANGED failures
  \/ /\ end = "refused" /\ ~Accepts(ipt[t], c)
     /\ UNCHANGED <<ipt, failures>>
  \/ /\ end \in {"refused", "broken"} /\ failures < MaxFailures
     /\ failures' = failures + 1
     /\ UNCHANGED ipt

(***************************************************************************)
(* balancer.start: set up both chains, then start the services goroutine.  *)
(* An error makes Restart stop the component again.                        *)
(***************************************************************************)
StartBalancer ==
  /\ phase = "down" /\ starts < MaxStarts
  /\ starts' = starts + 1
  /\ phase' = "starting" /\ table' = "nat"
  /\ prog' = SetupChain(StartHooks("nat"))
  /\ setup' = [t \in Table |-> FALSE]
  /\ undeleted' = {}
  /\ UNCHANGED <<ipt, serv, failures, crashes>>

\* ipTables.stop: the first table whose flag is set, if any.
StopTables(flags) ==
  \/ /\ \E t \in Table :
          /\ flags[t] /\ (t = "nat" \/ ~flags["nat"])
          /\ table' = t /\ prog' = DeleteChain(StopHooks(t))
          /\ setup' = [flags EXCEPT ![t] = FALSE]
     /\ phase' = "stopping"
  \/ /\ \A t \in Table : ~flags[t]
     /\ phase' = "down" /\ prog' = <<>> /\ setup' = flags
     /\ UNCHANGED table

SetupCommand ==
  /\ phase = "starting"
  /\ \E end \in {"ok", "refused", "broken"} :
       /\ Ends(table, Head(prog), end)
       /\ LET rest == Rest(prog, end)
          IN \/ /\ rest = Fail
                /\ StopTables(setup)
             \/ /\ rest \notin {Fail, <<>>}
                /\ prog' = rest /\ UNCHANGED <<phase, table, setup>>
             \/ /\ rest = <<>> /\ table = "nat"
                /\ setup' = [setup EXCEPT !["nat"] = TRUE]
                /\ table' = "filter" /\ prog' = SetupChain(StartHooks("filter"))
                /\ UNCHANGED phase
             \/ /\ rest = <<>> /\ table = "filter"
                /\ setup' = [setup EXCEPT !["filter"] = TRUE]
                /\ phase' = "running" /\ prog' = <<>> /\ UNCHANGED table
  /\ UNCHANGED <<undeleted, serv, crashes, starts>>

\* A variant that an error of the first table keeps from the second.
TeardownUntilError ==
  /\ phase = "stopping"
  /\ \E end \in {"ok", "refused", "broken"} :
       /\ Ends(table, Head(prog), end)
       /\ LET rest == Rest(prog, end)
          IN \/ /\ rest \notin {Fail, <<>>}
                /\ prog' = rest /\ UNCHANGED <<phase, table, setup>>
             \/ rest = <<>> /\ StopTables(setup)
             \/ rest = Fail /\ StopTables([t \in Table |-> FALSE])
  /\ UNCHANGED <<undeleted, serv, crashes, starts>>

\* A step of ipTables.stop; an error ends the table's commands and is logged.
TeardownCommand ==
  /\ phase = "stopping"
  /\ \E end \in {"ok", "refused", "broken"} :
       /\ Ends(table, Head(prog), end)
       /\ LET rest == Rest(prog, end)
          IN \/ /\ rest \notin {Fail, <<>>}
                /\ prog' = rest /\ UNCHANGED <<phase, table, setup>>
             \/ /\ rest \in {Fail, <<>>}
                /\ StopTables(setup)
  /\ UNCHANGED <<undeleted, serv, crashes, starts>>

\* The process dies: its sockets go with it, the iptables rules stay.
Crash ==
  /\ phase # "down" /\ crashes < MaxCrashes
  /\ crashes' = crashes + 1
  /\ phase' = "down" /\ prog' = <<>>
  /\ setup' = [t \in Table |-> FALSE]
  /\ svcs' = [n \in Name |-> None]
  /\ forwarders' = [p \in {} |-> None]
  /\ work' = NoWork /\ job' = NoJob
  /\ wanted' = [n \in Name |-> None]
  /\ UNCHANGED <<ipt, table, undeleted, failures, starts>>

-----------------------------------------------------------------------------
Busy == job # NoJob
Idle == ~Busy /\ work = NoWork

\* run takes an update: a Reset stands for every name, a change for one.
TakeUpdate ==
  /\ phase = "running" /\ Idle
  /\ \/ \E all \in [Name -> Service \cup {None}] :
          work' = all /\ wanted' = all
     \/ \E n \in Name, s \in Service \cup {None} :
          /\ work' = [work EXCEPT ![n] = s]
          /\ wanted' = [wanted EXCEPT ![n] = s]
  /\ UNCHANGED <<tables, svcs, forwarders, job, counts>>

Done(n) == work' = [work EXCEPT ![n] = Skip]

\* state.update: the state stays as it is.  (The variant forgets that the
\* address may have changed.)
KeepsAnyAddress(st, s) == (st.kind = "rejecting") = (s.insts = {})

Keeps(st, s) ==
  IF st.kind = "rejecting" THEN s.insts = {}
  ELSE s.insts # {} /\ s.addr = st.service.addr

\* doUpdate: nothing to do, or only the forwarder's instances to be set.
Keep(n) ==
  /\ phase = "running" /\ ~Busy /\ work[n] # Skip
  /\ \/ svcs[n] = None /\ work[n] = None /\ UNCHANGED forwarders
     \/ /\ svcs[n] # None /\ work[n] # None
        /\ Keeps(svcs[n], work[n])
        /\ IF svcs[n].kind = "forwarding" /\ work[n] # svcs[n].service
           THEN forwarders' = [forwarders EXCEPT ![svcs[n].port] = work[n].insts]
           ELSE UNCHANGED forwarders
  /\ Done(n)
  /\ UNCHANGED <<tables, svcs, job, wanted, counts>>

Starts(n) ==
  /\ phase = "running" /\ ~Busy /\ work[n] \in Service
  /\ svcs[n] # None => ~Keeps(svcs[n], work[n])

\* Variants: the kind of state is not looked at; the old state is stopped first.
StartRejectingAll(n) ==
  /\ Starts(n)
  /\ job' = [name |-> n, pc |-> "add", new |-> Rejecting(work[n])]
  /\ UNCHANGED <<tables, svcs, forwarders, work, wanted, counts>>

StopThenReject(n) ==
  /\ Starts(n) /\ work[n].insts = {}
  /\ job' = [name |-> n, new |-> Rejecting(work[n]),
             pc |-> IF svcs[n] = None THEN "add" ELSE "stop"]
  /\ UNCHANGED <<tables, svcs, forwarders, work, wanted, counts>>

StartRejecting(n) ==
  /\ Starts(n) /\ work[n].insts = {}
  /\ job' = [name |-> n, pc |-> "add", new |-> Rejecting(work[n])]
  /\ UNCHANGED <<tables, svcs, forwarders, work, wanted, counts>>

\* A listener on a free port, with the service's instances.
StartForwarding(n) ==
  /\ Starts(n) /\ work[n].insts # {}
  /\ \E p \in Port \ DOMAIN forwarders :
       /\ forwarders' = [q \in DOMAIN forwarders \cup {p} |->
                          IF q = p THEN work[n].insts ELSE forwarders[q]]
       /\ job' = [name |-> n, pc |-> "add", new |-> Forwarding(work[n], p)]
  /\ UNCHANGED <<tables, svcs, work, wanted, counts>>

\* bridgeIP or forwarder.New failed: the service keeps the state it had.
StartForwardingFails(n) ==
  /\ Starts(n) /\ work[n].insts # {} /\ failures < MaxFailures
  /\ failures' = failures + 1
  /\ Done(n)
  /\ UNCHANGED <<tables, svcs, forwarders, job, wanted, crashes, starts>>

Without(p) == [q \in DOMAIN forwarders \ {p} |-> forwarders[q]]

\* addRule; on an error the new forwarder is stopped and the old state kept.
AddRule ==
  /\ job.pc = "add"
  /\ \E end \in {"ok", "refused", "broken"} :
       /\ Ends(TableOf(job.new), Cmd("A", Rule(job.new)), end)
       /\ \/ /\ end = "ok" /\ svcs[job.name] = None
             /\ svcs' = [svcs EXCEPT ![job.name] = job.new]
             /\ Done(job.name) /\ job' = NoJob
             /\ UNCHANGED forwarders
          \/ /\ end = "ok" /\ svcs[job.name] # None
             /\ job' = [job EXCEPT !.pc = "stop"]
             /\ UNCHANGED <<svcs, work, forwarders>>
          \/ /\ end # "ok"
             /\ forwarders' = IF job.new.kind = "forwarding" THEN Without(job.new.port)
                                                             ELSE forwarders
             /\ Done(job.name) /\ job' = NoJob
             /\ UNCHANGED svcs
  /\ UNCHANGED <<phase, table, prog, setup, undeleted, wanted, crashes, starts>>

\* close, for a service removed by an update or when the balancer stops.
Close(n) ==
  /\ ~Busy /\ svcs[n] # None
  /\ \/ phase = "running" /\ work[n] = None
     \/ phase = "closing"
  /\ job' = [name |-> n, pc |-> "stop", new |-> None]
  /\ UNCHANGED <<tables, svcs, forwarders, work, wanted, counts>>

\* A variant that forgets the forwarder.
StopNothing ==
  /\ job.pc = "stop"
  /\ job' = [job EXCEPT !.pc = "delete"]
  /\ UNCHANGED <<tables, svcs, forwarders, work, wanted, counts>>

\* state.stop, first half: the forwarder, if there is one.
StopForwarder ==
  /\ job.pc = "stop"
  /\ forwarders' = IF svcs[job.name].kind = "forwarding"
                   THEN Without(svcs[job.name].port) ELSE forwarders
  /\ job' = [job EXCEPT !.pc = "delete"]
  /\ UNCHANGED <<tables, svcs, work, wanted, counts>>

\* state.stop, second half: the rule; an error is ignored.
DeleteRule ==
  /\ job.pc = "delete"
  /\ LET st == svcs[job.name]
     IN \E end \in {"ok", "refused", "broken"} :
          /\ Ends(TableOf(st), Cmd("R", Rule(st)), end)
          /\ undeleted' = IF end = "ok" THEN undeleted ELSE undeleted \cup {<<TableOf(st), Rule(st)>>}
  /\ svcs' = [svcs EXCEPT ![job.name] = job.new]
  /\ Done(job.name) /\ job' = NoJob
  /\ UNCHANGED <<phase, table, prog, setup, forwarders, wanted, crashes, starts>>

\* balancer.Stop, on shutdown or because an error was posted: services.stop
\* waits for the update being processed, then closes every service ...
StopBalancer ==
  /\ phase = "running" /\ Idle
  /\ phase' = "closing"
  /\ UNCHANGED <<ipt, table, prog, setup, undeleted, serv, counts>>

\* ... and the chains are taken down.
ServicesClosed ==
  /\ phase = "closing" /\ ~Busy /\ \A n \in Name : svcs[n] = None
  /\ StopTables(setup)
  /\ wanted' = [n \in Name |-> None]
  /\ UNCHANGED <<ipt, undeleted, svcs, forwarders, work, job, counts>>

Step ==
  \/ SetupCommand \/ TeardownCommand
  \/ AddRule \/ StopForwarder \/ DeleteRule \/ ServicesClosed
  \/ \E n \in Name : Keep(n) \/ StartRejecting(n) \/ StartForwarding(n)
                     \/ StartForwardingFails(n) \/ Close(n)

Next == StartBalancer \/ TakeUpdate \/ StopBalancer \/ Crash \/ Step

\* Restart starts the balancer again; the goroutine finishes what it began.
Fairness == WF_vars(StartBalancer) /\ WF_vars(Step)

Spec == Init /\ [][Next]_vars /\ Fairness

-----------------------------------------------------------------------------
(***************************************************************************)
(* What becomes of a connection to an address.  The nat table is looked at *)
(* before filter, and once a rule of it has matched the packet goes to the *)
(* forwarder's port: no rule of filter matches it any more.  Where nobody  *)
(* listens on that port the connection is refused.                         *)
(***************************************************************************)
Matching(t, a) == {i \in DOMAIN ipt[t].rules : ipt[t].rules[i].addr = a}
Redirects(a)   == Matching("nat", a) # {}
Destination(a) == ipt["nat"].rules[Min(Matching("nat", a))].to
Listening(p)   == p \in DOMAIN forwarders

\* Connections to the address of a state get what the state stands for.
Serves(st) ==
  LET a == st.service.addr
  IN  IF st.kind = "forwarding"
      THEN Redirects(a) /\ Destination(a) = st.port /\ Listening(st.port)
      ELSE Matching("filter", a) # {} /\ (Redirects(a) => ~Listening(Destination(a)))

\* The states of a service that have their rules, between two commands.
Standing(n) == {svcs[n]} \cup IF job.name = n /\ job.pc # "add" THEN {job.new} ELSE {}

\* No other service has the address, or is being given it.
Sole(n, a) ==
  \A m \in Name \ {n} :
    /\ svcs[m] # None => svcs[m].service.addr # a
    /\ job.name = m /\ job.new # None => job.new.service.addr # a

\* No rule for the address is left that could not be deleted.
Unshadowed(a) == \A r \in AnyRule : <<"nat", r>> \in undeleted => r.addr # a

Open(n) == svcs[n] # None /\ ~(job.name = n /\ job.new = None)

(***************************************************************************)
(* "start the new forwarder before stopping the old one, to avoid a window *)
(* where there is no rule for the service" (services.go:146-147): at every *)
(* moment until the service is closed, connections to its old or its new   *)
(* address get what its state stands for: a forwarder that is listening    *)
(* and is its own, or a refusal; whichever forwarder or rule could not be  *)
(* made in between.  Two things may come first in the chain and are        *)
(* excepted: a rule of another service with the same address, and one that *)
(* could not be deleted (see NoWindow).                                    *)
(***************************************************************************)
NoGap ==
  \A n \in Name :
    Open(n) /\ (\A st \in Standing(n) : Sole(n, st.service.addr) /\ Unshadowed(st.service.addr))
      => \E st \in Standing(n) : Serves(st)

(***************************************************************************)
(* While no command has failed, the update that was delivered last has its *)
(* effect: a wanted service is rejecting or forwarding as it has instances *)
(* or not, at its present address if it is forwarding, and one that is no  *)
(* longer wanted has no state (services.go:77-115, 138-166, 254-274).      *)
(***************************************************************************)
Settled == phase = "running" /\ Idle /\ failures = 0

AsWanted ==
  Settled =>
    \A n \in Name :
      /\ svcs[n] = None <=> wanted[n] = None
      /\ svcs[n] # None =>
           /\ svcs[n].kind = "forwarding" <=> wanted[n].insts # {}
           /\ svcs[n].kind = "forwarding" => svcs[n].service.addr = wanted[n].addr

(***************************************************************************)
(* What is left over between updates, whatever commands failed: a chain    *)
(* has each rule that a state needs as often as there are states that need *)
(* it, and no other; only of a rule that could not be deleted may there be *)
(* more.  The forwarders that run are those of the states: one for which   *)
(* no rule could be added is gone (services.go:155-164, 240-251).          *)
(***************************************************************************)
NoLeftovers ==
  phase = "running" /\ Idle =>
    LET holders(t, r) == {n \in Name : svcs[n] # None /\ TableOf(svcs[n]) = t /\ Rule(svcs[n]) = r}
        copies(t, r)  == Cardinality(Places(ipt[t].rules, r))
    IN  /\ \A t \in Table, r \in AnyRule :
             /\ copies(t, r) >= Cardinality(holders(t, r))
             /\ <<t, r>> \notin undeleted => copies(t, r) = Cardinality(holders(t, r))
        /\ DOMAIN forwarders = {svcs[n].port : n \in {m \in Name : svcs[m] # None /\ svcs[m].kind = "forwarding"}}

(***************************************************************************)
(* A running balancer's chains are there and each is hooked exactly once,  *)
(* whatever crashed, failed or half-finished runs came before: setupChain  *)
(* does not trust what it finds (iptables.go:128-186).                     *)
(***************************************************************************)
HookedOnce ==
  phase \in {"running", "closing"} =>
    \A t \in Table : ipt[t].exists /\ \A h \in Hook(t) : ipt[t].refs[h] = 1

(***************************************************************************)
(* What an earlier run left in the tables never defeats a start: one that  *)
(* no command of its own fails and that does not crash gets to run.        *)
(***************************************************************************)
StartBegun == phase = "starting" /\ table = "nat" /\ prog = SetupChain(StartHooks("nat"))

StartSucceeds ==
  \A f \in 0 .. MaxFailures, c \in 0 .. MaxCrashes :
    (StartBegun /\ failures = f /\ crashes = c)
      ~> (phase = "running" \/ failures > f \/ crashes > c)

(***************************************************************************)
(* A rule that could not be deleted goes when the balancer stops: where no *)
(* other command has failed, a stop leaves no rule in either chain, and    *)
(* packets go where they went before; although the nat chain itself never  *)
(* goes (see CleanedUp), and its error must not keep the filter chain from *)
(* being emptied (iptables.go:47-57, services.go:251).                     *)
(***************************************************************************)
OnlyDeletionsFailed == crashes = 0 /\ failures = Cardinality(undeleted)

StopClears ==
  phase = "down" /\ starts > 0 /\ OnlyDeletionsFailed => \A t \in Table : ipt[t].rules = <<>>

-----------------------------------------------------------------------------
(***************************************************************************)
(* services.go:260-262, "Same address and same set of instances; stay as   *)
(* it is": a forwarder has the instances of the last update.  It does not: *)
(* the comparison is with the service the forwarder was started for, not   *)
(* with the last one it was given.                                         *)
(***************************************************************************)
SameInstances ==
  Settled =>
    \A n \in Name :
      svcs[n] # None /\ svcs[n].kind = "forwarding" =>
        forwarders[svcs[n].port] = wanted[n].insts

(***************************************************************************)
(* The same promise as in NoGap, "to avoid a window where there is no rule *)
(* for the service" (services.go:146), for a service that has its address  *)
(* to itself.  It is not kept: deleteRule's error is dropped               *)
(* (services.go:251), and a redirection that could not be deleted comes    *)
(* before the one that is appended for the service later.                  *)
(***************************************************************************)
NoWindow ==
  \A n \in Name :
    Open(n) /\ (\A st \in Standing(n) : Sole(n, st.service.addr))
      => \E st \in Standing(n) : Serves(st)

(***************************************************************************)
(* balancer_test.go:86, "check that iptables was cleaned up": after a stop *)
(* none of the balancer's chains is there.  The nat chain always is: stop  *)
(* does not unhook it from OUTPUT (iptables.go:50, and :32 for the start), *)
(* so that -X is refused.  The test's mock iptables lets a chain go that   *)
(* is still jumped to.                                                     *)
(***************************************************************************)
CleanedUp ==
  phase = "down" /\ starts > 0 /\ failures = 0 /\ crashes = 0 =>
    \A t \in Table : ipt[t] = NoChain(t)

=============================================================================
