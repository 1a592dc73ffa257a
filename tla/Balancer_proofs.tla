-------------------------- MODULE Balancer_proofs --------------------------
(***************************************************************************)
(* Proofs about Balancer: for any services, ports, failing commands and    *)
(* crashes.  One invariant carries them all; its parts are about the       *)
(* chains, the forwarders and rules that the services need, and what is    *)
(* left where nothing fails.                                               *)
(***************************************************************************)
EXTENDS Balancer, FiniteSetTheorems, SequenceTheorems, WellFoundedInduction, TLAPS

\* A table: its type, and that a chain that is not there has no rules and
\* nothing jumps to it.
TableOK(t, x) ==
  /\ x = [exists |-> x.exists, refs |-> x.refs, rules |-> x.rules]
  /\ x.exists \in BOOLEAN
  /\ x.refs \in [Hook(t) -> Nat]
  /\ x.rules \in Seq(AnyRule)
  /\ ~x.exists => x.refs = [h \in Hook(t) |-> 0] /\ x.rules = <<>>

\* Both tables.
TablesOK ==
  /\ ipt = [t \in Table |-> ipt[t]]
  /\ \A t \in Table : TableOK(t, ipt[t])

\* Where the services' goroutine is with a name.
JobOK ==
  /\ job \in [name : Name \cup {None}, pc : {"idle", "add", "stop", "delete"},
              new : State \cup {None}]
  /\ job.pc = "idle" => job = NoJob
  /\ job.pc # "idle" => job.name \in Name
  /\ job.pc = "add" => phase = "running" /\ job.new # None
  /\ job.pc \in {"stop", "delete"} => svcs[job.name] # None
  /\ job.pc # "idle" /\ phase = "running" => work[job.name] # Skip
  /\ phase = "closing" => work = NoWork /\ job.new = None
  /\ job.new # None /\ svcs[job.name] # None => ~Keeps(svcs[job.name], job.new.service)

\* Only while it runs or closes has the balancer any services.
ServicesOff ==
  phase \notin {"running", "closing"} =>
    /\ svcs = [n \in Name |-> None] /\ wanted = [n \in Name |-> None]
    /\ work = NoWork /\ job = NoJob

-----------------------------------------------------------------------------
(***************************************************************************)
(* The chains.  The commands of a table's set-up are numbered from 1 to 7: *)
(* -F, -D and -D, -X; then -N, -I and -I.                                  *)
(***************************************************************************)
\* The commands that set a table up, and that take it down.
Setup(t)    == SetupChain(StartHooks(t))
Teardown(t) == DeleteChain(StopHooks(t))

\* Those from the i-th on.
SetupFrom(t, i)    == SubSeq(Setup(t), i, 7)
TeardownFrom(t, i) == SubSeq(Teardown(t), i, Len(Teardown(t)))

\* The balancer has got to the i-th.
SettingUp(t, i)  == phase = "starting" /\ table = t /\ prog = SetupFrom(t, i)
TakingDown(t, i) == phase = "stopping" /\ table = t /\ prog = TeardownFrom(t, i)

\* The chain is there and empty; hooked once into each built-in chain; or not
\* at all.
Bare(t)     == ipt[t].exists /\ ipt[t].rules = <<>>
Hooked(t) == ipt[t].exists /\ \A h \in Hook(t) : ipt[t].refs[h] = 1
Unhooked(t) == \A h \in Hook(t) : ipt[t].refs[h] = 0

\* How far the set-up of a table has got.
HalfWay(t, i) ==
  /\ i = 6 => Bare(t) /\ Unhooked(t)
  /\ i = 7 => Bare(t) /\ ipt[t].refs[StartHooks(t)[1]] = 1 /\ ipt[t].refs[StartHooks(t)[2]] = 0

(***************************************************************************)
(* Where nothing but deletions of rules has failed and nothing has         *)
(* crashed: what is found by a start, and what the set-up and the taking   *)
(* down of the chains have got to.                                         *)
(***************************************************************************)
Orderly == OnlyDeletionsFailed

\* The nat table as an orderly stop leaves it.
Left ==
  /\ Bare("nat")
  /\ ipt["nat"].refs = [h \in Hook("nat") |-> IF h = "OUTPUT" THEN 1 ELSE 0]

\* Nothing in the set-up can be refused.
SetupOrderly(t, i) ==
  /\ t = "nat" => ipt["filter"] = NoChain("filter")
  /\ i = 1 => ipt[t] = NoChain(t) \/ (t = "nat" /\ Left)
  /\ i \in {2, 3, 4} => Bare(t)
  /\ i \in {3, 4} => ipt[t].refs[StartHooks(t)[1]] = 0
  /\ i = 4 => Unhooked(t)
  /\ i = 5 => ipt[t] = NoChain(t)

\* -X is refused for the nat table, whose hook in OUTPUT is still there.
StopOrderly(t, i) ==
  /\ ipt[t].exists /\ (i # 1 => Bare(t))
  /\ t = "nat" => /\ ipt["nat"].refs["OUTPUT"] = 1 /\ Hooked("filter")
                  /\ i = 3 => ipt["nat"].refs["PREROUTING"] = 0
  /\ t = "filter" => /\ Left
                     /\ i \in {3, 4} => ipt["filter"].refs["FORWARD"] = 0
                     /\ i = 4 => Unhooked("filter")

\* The chains at every step; nothing is refused where nothing fails.
ChainsOK ==
  /\ phase = "starting" => \E t \in Table, i \in 1 .. 7 :
       SettingUp(t, i) /\ HalfWay(t, i) /\ (Orderly => SetupOrderly(t, i))
  /\ phase = "starting" /\ table = "filter" => Bare("nat") /\ Hooked("nat")
  /\ phase = "stopping" => \E t \in Table : \E i \in 1 .. Len(Teardown(t)) :
       TakingDown(t, i) /\ (Orderly => StopOrderly(t, i))
  /\ phase \in {"running", "closing"} => \A t \in Table : Hooked(t)

\* No more rules were not deleted than commands failed.
FailuresOK == IsFiniteSet(undeleted) /\ Cardinality(undeleted) <= failures

\* What an orderly stop leaves, and what it will stop.
StopsOrderly ==
  Orderly =>
    /\ phase = "down" =>
         IF starts = 0 THEN \A t \in Table : ipt[t] = NoChain(t)
                       ELSE Left /\ ipt["filter"] = NoChain("filter")
    /\ phase # "down" => starts # 0
    /\ phase = "starting" => setup = [u \in Table |-> u = "nat" /\ table = "filter"]
    /\ phase \in {"running", "closing"} => setup = [t \in Table |-> TRUE]
    /\ phase = "stopping" => setup = [u \in Table |-> u = "filter" /\ table = "nat"]

-----------------------------------------------------------------------------
(***************************************************************************)
(* The rules and forwarders.  A state needs its rule, and its forwarder.   *)
(* While one is being replaced both are needed.                            *)
(***************************************************************************)
\* Whether a state needs a rule, and the names whose states do.
Needs(st, t, r) == IF st # None /\ TableOf(st) = t /\ Rule(st) = r THEN 1 ELSE 0
Holding(s, t, r) == {n \in Name : s[n] # None /\ TableOf(s[n]) = t /\ Rule(s[n]) = r}

\* The names that hold the rule, the state that replaces one, and how many
\* need the rule.
Holders(t, r)   == Holding(svcs, t, r)
Pending         == IF job.pc \in {"stop", "delete"} THEN job.new ELSE None
Needed(t, r)    == Cardinality(Holders(t, r)) + Needs(Pending, t, r)

\* How many times a rule is among the rules of a chain.
Count(rules, r) == Cardinality(Places(rules, r))
Present(t, r)   == Count(ipt[t].rules, r)

\* Every rule that is needed is there as often; and, unless it could not be
\* deleted, no oftener.
RulesOK ==
  phase \in {"running", "closing"} =>
    \A t \in Table, r \in AnyRule :
      /\ Needed(t, r) <= Present(t, r)
      /\ <<t, r>> \notin undeleted => Needed(t, r) = Present(t, r)

\* The port that a state's forwarder listens on.
Ports(st) == IF st # None /\ st.kind = "forwarding" THEN {st.port} ELSE {}

\* The forwarder of the state being stopped is stopped before its rule goes.
Listens ==
  [n \in Name |-> IF job.pc = "delete" /\ job.name = n THEN {} ELSE Ports(svcs[n])]

\* A forwarder for each port that a state listens on, and for no other; no two
\* states share a port.
ForwardersOK ==
  /\ \A p \in Port :
       p \in DOMAIN forwarders <=> (\E n \in Name : p \in Listens[n]) \/ p \in Ports(job.new)
  /\ \A n, m \in Name : n # m => Ports(svcs[n]) \cap Ports(svcs[m]) = {}
  /\ \A n \in Name : Ports(svcs[n]) \cap Ports(job.new) = {}

-----------------------------------------------------------------------------
\* A state that the value wanted asks for.
Matches(st, w) ==
  /\ st = None <=> w = None
  /\ st # None => /\ st.kind = "forwarding" <=> w.insts # {}
                  /\ st.kind = "forwarding" => st.service.addr = w.addr

\* Where nothing has failed, each name has what is wanted, or will be given it.
WantedOK ==
  failures = 0 /\ phase # "closing" =>
    \A n \in Name :
      /\ work[n] = Skip => Matches(svcs[n], wanted[n])
      /\ work[n] # Skip => work[n] = wanted[n]
      /\ job.pc # "idle" /\ job.name = n => Matches(job.new, wanted[n])

\* The invariant that the induction needs.
BalancerInv ==
  /\ TypeOK /\ TablesOK /\ JobOK /\ ServicesOff
  /\ ChainsOK /\ RulesOK /\ ForwardersOK /\ WantedOK /\ FailuresOK /\ StopsOrderly

-----------------------------------------------------------------------------
(***************************************************************************)
(* The sequences of commands.                                              *)
(***************************************************************************)
\* The built-in chains, and the commands on the balancer's own.
HookName == {"PREROUTING", "OUTPUT", "FORWARD", "INPUT"}
Command == [op : {"F", "D", "X", "N", "I"}, arg : HookName \cup {""}]

\* A single command.
LEMMA OneCommand ==
  ASSUME NEW c \in Command
  PROVE  <<c>> \in Seq(Command) /\ Len(<<c>>) = 1 /\ <<c>>[1] = c
OBVIOUS

\* A row of commands after a single one.
LEMMA OneAndMore ==
  ASSUME NEW c \in Command, NEW d \in Seq(Command)
  PROVE  /\ <<c>> \o d \in Seq(Command) /\ Len(<<c>> \o d) = Len(d) + 1
         /\ (<<c>> \o d)[1] = c
         /\ \A i \in 1 .. Len(d) : (<<c>> \o d)[i + 1] = d[i]
<1> DEFINE f == <<c>>
<1>0. f \in Seq(Command) /\ Len(f) = 1 /\ f[1] = c
  BY OneCommand
<1> HIDE DEF f
<1> DEFINE g == f \o d
<1>1. /\ g \in Seq(Command) /\ Len(g) = Len(f) + Len(d)
      /\ \A i \in 1 .. Len(f) + Len(d) : g[i] = IF i <= Len(f) THEN f[i] ELSE d[i - Len(f)]
  BY <1>0, ConcatProperties, Zenon
<1> HIDE DEF g
<1>2. /\ g \in Seq(Command) /\ Len(g) = Len(d) + 1
      /\ \A i \in 1 .. Len(d) + 1 : g[i] = IF i <= 1 THEN c ELSE d[i - 1]
  <2>1. Len(d) \in Nat
    OBVIOUS
  <2> QED BY <1>0, <1>1, <2>1
<1>4. \A i \in 1 .. Len(d) : i + 1 \in 1 .. Len(d) + 1 /\ ~(i + 1 <= 1) /\ (i + 1) - 1 = i
  OBVIOUS
<1>5. \A i \in 1 .. Len(d) : g[i + 1] = d[i]
  BY <1>2, <1>4
<1>6. g[1] = c
  <2>1. 1 \in 1 .. Len(d) + 1
    OBVIOUS
  <2> QED BY <1>2, <2>1
<1> QED BY <1>2, <1>5, <1>6 DEF f, g

\* A row of commands before a single one.
LEMMA MoreAndOne ==
  ASSUME NEW d \in Seq(Command), NEW c \in Command
  PROVE  /\ d \o <<c>> \in Seq(Command) /\ Len(d \o <<c>>) = Len(d) + 1
         /\ (d \o <<c>>)[Len(d) + 1] = c
         /\ \A i \in 1 .. Len(d) : (d \o <<c>>)[i] = d[i]
<1> DEFINE f == <<c>>
<1>0. f \in Seq(Command) /\ Len(f) = 1 /\ f[1] = c
  BY OneCommand
<1> HIDE DEF f
<1> DEFINE g == d \o f
<1>1. /\ g \in Seq(Command) /\ Len(g) = Len(d) + Len(f)
      /\ \A i \in 1 .. Len(d) + Len(f) : g[i] = IF i <= Len(d) THEN d[i] ELSE f[i - Len(d)]
  BY <1>0, ConcatProperties, Zenon
<1> HIDE DEF g
<1>2. Len(d) \in Nat
  OBVIOUS
<1>3. /\ g \in Seq(Command) /\ Len(g) = Len(d) + 1
      /\ \A i \in 1 .. Len(d) + 1 : g[i] = IF i <= Len(d) THEN d[i] ELSE f[i - Len(d)]
  BY <1>0, <1>1, <1>2
<1>4. /\ Len(d) + 1 \in 1 .. Len(d) + 1 /\ ~(Len(d) + 1 <= Len(d)) /\ (Len(d) + 1) - Len(d) = 1
      /\ \A i \in 1 .. Len(d) : i \in 1 .. Len(d) + 1 /\ i <= Len(d)
  BY <1>2
<1>5. \A i \in 1 .. Len(d) : g[i] = d[i]
  BY <1>3, <1>4
<1>6. g[Len(d) + 1] = c
  BY <1>0, <1>3, <1>4
<1> QED BY <1>3, <1>5, <1>6 DEF f, g

\* The commands of deleteChain for one hook, and for two.
LEMMA DeleteOne ==
  ASSUME NEW a \in HookName
  PROVE  LET c == DeleteChain(<<a>>)
         IN  /\ c \in Seq(Command) /\ Len(c) = 3
             /\ c[1] = Cmd("F", "") /\ c[2] = Cmd("D", a) /\ c[3] = Cmd("X", "")
<1> DEFINE d == [i \in 1 .. Len(<<a>>) |-> Cmd("D", <<a>>[i])]
           m == <<Cmd("F", "")>> \o d
           c == m \o <<Cmd("X", "")>>
<1>1. Cmd("F", "") \in Command /\ Cmd("X", "") \in Command /\ Cmd("D", a) \in Command
  BY DEF Command, Cmd, HookName
<1>2. d \in Seq(Command) /\ Len(d) = 1 /\ d[1] = Cmd("D", a)
  <2>1. d = <<Cmd("D", a)>>
    OBVIOUS
  <2> QED BY <1>1, <2>1, OneCommand
<1> HIDE DEF d
<1>3. m \in Seq(Command) /\ Len(m) = 2 /\ m[1] = Cmd("F", "") /\ m[2] = Cmd("D", a)
  <2>1. /\ m \in Seq(Command) /\ Len(m) = Len(d) + 1 /\ m[1] = Cmd("F", "")
        /\ \A i \in 1 .. Len(d) : m[i + 1] = d[i]
    BY <1>1, <1>2, OneAndMore, Zenon
  <2> HIDE DEF m
  <2>2. 1 \in 1 .. Len(d) /\ 1 + 1 = 2
    BY <1>2
  <2> QED BY <1>2, <2>1, <2>2
<1> HIDE DEF m
<1>4. c \in Seq(Command) /\ Len(c) = 3 /\ c[1] = m[1] /\ c[2] = m[2] /\ c[3] = Cmd("X", "")
  <2>1. /\ c \in Seq(Command) /\ Len(c) = Len(m) + 1 /\ c[Len(m) + 1] = Cmd("X", "")
        /\ \A i \in 1 .. Len(m) : c[i] = m[i]
    BY <1>1, <1>3, MoreAndOne, Zenon
  <2> HIDE DEF c
  <2>0. Len(m) = 2
    BY <1>3
  <2>2. 1 \in 1 .. Len(m) /\ 2 \in 1 .. Len(m) /\ Len(m) + 1 = 3
    BY <2>0
  <2> QED BY <2>1, <2>2
<1>5. DeleteChain(<<a>>) = c
  BY Zenon DEF DeleteChain, c, m, d
<1> HIDE DEF c
<1> QED BY <1>3, <1>4, <1>5

\* The teardown of a chain with two hooks: -F, -D twice, -X.
LEMMA DeleteTwo ==
  ASSUME NEW a \in HookName, NEW b \in HookName
  PROVE  LET c == DeleteChain(<<a, b>>)
         IN  /\ c \in Seq(Command) /\ Len(c) = 4
             /\ c[1] = Cmd("F", "") /\ c[2] = Cmd("D", a) /\ c[3] = Cmd("D", b)
             /\ c[4] = Cmd("X", "")
<1> DEFINE d == [i \in 1 .. Len(<<a, b>>) |-> Cmd("D", <<a, b>>[i])]
           m == <<Cmd("F", "")>> \o d
           c == m \o <<Cmd("X", "")>>
<1>1. /\ Cmd("F", "") \in Command /\ Cmd("X", "") \in Command
      /\ Cmd("D", a) \in Command /\ Cmd("D", b) \in Command
  BY DEF Command, Cmd, HookName
<1>2. d \in Seq(Command) /\ Len(d) = 2 /\ d[1] = Cmd("D", a) /\ d[2] = Cmd("D", b)
  <2> DEFINE q == <<a, b>>
  <2>1. Len(q) = 2 /\ q[1] = a /\ q[2] = b
    OBVIOUS
  <2> HIDE DEF q
  <2>0. \A i \in 1 .. 2 : i = 1 \/ i = 2
    OBVIOUS
  <2>2. \A i \in 1 .. 2 : Cmd("D", q[i]) \in Command
    BY <1>1, <2>0, <2>1, Zenon
  <2>3. [i \in 1 .. 2 |-> Cmd("D", q[i])] \in Seq(Command)
    BY <2>2
  <2>4. d = [i \in 1 .. 2 |-> Cmd("D", q[i])]
    BY <2>1 DEF q
  <2> HIDE DEF d
  <2> QED BY <2>1, <2>3, <2>4
<1> HIDE DEF d
<1>3. /\ m \in Seq(Command) /\ Len(m) = 3
      /\ m[1] = Cmd("F", "") /\ m[2] = Cmd("D", a) /\ m[3] = Cmd("D", b)
  <2>1. /\ m \in Seq(Command) /\ Len(m) = Len(d) + 1 /\ m[1] = Cmd("F", "")
        /\ \A i \in 1 .. Len(d) : m[i + 1] = d[i]
    BY <1>1, <1>2, OneAndMore, Zenon
  <2> HIDE DEF m
  <2>2. 1 \in 1 .. Len(d) /\ 1 + 1 = 2 /\ 2 \in 1 .. Len(d) /\ 2 + 1 = 3
    BY <1>2
  <2> QED BY <1>2, <2>1, <2>2
<1> HIDE DEF m
<1>4. /\ c \in Seq(Command) /\ Len(c) = 4
      /\ c[1] = m[1] /\ c[2] = m[2] /\ c[3] = m[3] /\ c[4] = Cmd("X", "")
  <2>1. /\ c \in Seq(Command) /\ Len(c) = Len(m) + 1 /\ c[Len(m) + 1] = Cmd("X", "")
        /\ \A i \in 1 .. Len(m) : c[i] = m[i]
    BY <1>1, <1>3, MoreAndOne, Zenon
  <2> HIDE DEF c
  <2>0. Len(m) = 3
    BY <1>3
  <2>2. 1 \in 1 .. Len(m) /\ 2 \in 1 .. Len(m) /\ 3 \in 1 .. Len(m) /\ Len(m) + 1 = 4
    BY <2>0
  <2> QED BY <2>1, <2>2
<1>5. DeleteChain(<<a, b>>) = c
  BY Zenon DEF DeleteChain, c, m, d
<1> HIDE DEF c
<1> QED BY <1>3, <1>4, <1>5

\* The commands of setupChain: those of deleteChain, then three more.
LEMMA SetupTwo ==
  ASSUME NEW a \in HookName, NEW b \in HookName
  PROVE  LET c == SetupChain(<<a, b>>)
         IN  /\ c \in Seq(Command) /\ Len(c) = 7
             /\ c[1] = Cmd("F", "") /\ c[2] = Cmd("D", a) /\ c[3] = Cmd("D", b)
             /\ c[4] = Cmd("X", "") /\ c[5] = Cmd("N", "")
             /\ c[6] = Cmd("I", a) /\ c[7] = Cmd("I", b)
<1> DEFINE del == DeleteChain(<<a, b>>)
           i2 == [i \in 1 .. Len(<<a, b>>) |-> Cmd("I", <<a, b>>[i])]
           new == <<Cmd("N", "")>> \o i2
           c == del \o new
<1>1. /\ del \in Seq(Command) /\ Len(del) = 4
      /\ del[1] = Cmd("F", "") /\ del[2] = Cmd("D", a) /\ del[3] = Cmd("D", b)
      /\ del[4] = Cmd("X", "")
  BY DeleteTwo
<1>2. Cmd("N", "") \in Command /\ Cmd("I", a) \in Command /\ Cmd("I", b) \in Command
  BY DEF Command, Cmd, HookName
<1>3. i2 \in Seq(Command) /\ Len(i2) = 2 /\ i2[1] = Cmd("I", a) /\ i2[2] = Cmd("I", b)
  <2> DEFINE q == <<a, b>>
  <2>1. Len(q) = 2 /\ q[1] = a /\ q[2] = b
    OBVIOUS
  <2> HIDE DEF q
  <2>0. \A i \in 1 .. 2 : i = 1 \/ i = 2
    OBVIOUS
  <2>2. \A i \in 1 .. 2 : Cmd("I", q[i]) \in Command
    BY <1>2, <2>0, <2>1, Zenon
  <2>3. [i \in 1 .. 2 |-> Cmd("I", q[i])] \in Seq(Command)
    BY <2>2
  <2>4. i2 = [i \in 1 .. 2 |-> Cmd("I", q[i])]
    BY <2>1 DEF q
  <2> HIDE DEF i2
  <2> QED BY <2>1, <2>3, <2>4
<1> HIDE DEF i2, del
<1>4. /\ new \in Seq(Command) /\ Len(new) = 3
      /\ new[1] = Cmd("N", "") /\ new[2] = Cmd("I", a) /\ new[3] = Cmd("I", b)
  <2>1. /\ new \in Seq(Command) /\ Len(new) = Len(i2) + 1 /\ new[1] = Cmd("N", "")
        /\ \A i \in 1 .. Len(i2) : new[i + 1] = i2[i]
    BY <1>2, <1>3, OneAndMore, Zenon
  <2> HIDE DEF new
  <2>2. 1 \in 1 .. Len(i2) /\ 1 + 1 = 2 /\ 2 \in 1 .. Len(i2) /\ 2 + 1 = 3
    BY <1>3
  <2> QED BY <1>3, <2>1, <2>2
<1> HIDE DEF new
<1>5. /\ c \in Seq(Command) /\ Len(c) = Len(del) + Len(new)
      /\ \A i \in 1 .. Len(del) + Len(new) :
           c[i] = IF i <= Len(del) THEN del[i] ELSE new[i - Len(del)]
  BY <1>1, <1>4, ConcatProperties, Zenon
<1>6. SetupChain(<<a, b>>) = c
  BY Zenon DEF SetupChain, NewChain, c, new, del, i2
<1> HIDE DEF c
<1>9. Len(del) = 4 /\ Len(new) = 3
  BY <1>1, <1>4
<1>7. c \in Seq(Command) /\ Len(c) = 7 /\ \A i \in 1 .. 7 : c[i] = IF i <= 4 THEN del[i] ELSE new[i - 4]
  BY <1>5, <1>9
<1>8. /\ c[1] = del[1] /\ c[2] = del[2] /\ c[3] = del[3] /\ c[4] = del[4]
      /\ c[5] = new[1] /\ c[6] = new[2] /\ c[7] = new[3]
  BY <1>7
<1> QED BY <1>1, <1>4, <1>6, <1>7, <1>8
-----------------------------------------------------------------------------
\* The operations of the commands.
LEMMA CmdOp ==
  /\ Cmd("F", "").op = "F" /\ Cmd("X", "").op = "X" /\ Cmd("N", "").op = "N"
  /\ \A h : Cmd("D", h).op = "D" /\ Cmd("I", h).op = "I"
  /\ \A h : Cmd("D", h).arg = h /\ Cmd("I", h).arg = h
BY DEF Cmd

\* The commands that set a table's chain up.
LEMMA SetupCommands ==
  ASSUME NEW t \in Table
  PROVE  /\ StartHooks(t)[1] \in Hook(t) /\ StartHooks(t)[2] \in Hook(t)
         /\ StartHooks(t)[1] # StartHooks(t)[2]
         /\ \A h \in Hook(t) : h = StartHooks(t)[1] \/ h = StartHooks(t)[2]
         /\ Setup(t) \in Seq(Command) /\ Len(Setup(t)) = 7
         /\ Setup(t)[1] = Cmd("F", "")
         /\ Setup(t)[2] = Cmd("D", StartHooks(t)[1]) /\ Setup(t)[3] = Cmd("D", StartHooks(t)[2])
         /\ Setup(t)[4] = Cmd("X", "") /\ Setup(t)[5] = Cmd("N", "")
         /\ Setup(t)[6] = Cmd("I", StartHooks(t)[1]) /\ Setup(t)[7] = Cmd("I", StartHooks(t)[2])
<1>1. CASE t = "nat"
  <2>1. StartHooks(t) = <<"PREROUTING", "OUTPUT">> /\ Hook(t) = {"PREROUTING", "OUTPUT"}
    BY <1>1 DEF StartHooks, Hook
  <2>2. "PREROUTING" \in HookName /\ "OUTPUT" \in HookName
    BY DEF HookName
  <2>3. StartHooks(t)[1] = "PREROUTING" /\ StartHooks(t)[2] = "OUTPUT"
    BY <2>1
  <2> DEFINE c == SetupChain(<<"PREROUTING", "OUTPUT">>)
  <2>4. /\ c \in Seq(Command) /\ Len(c) = 7
        /\ c[1] = Cmd("F", "") /\ c[2] = Cmd("D", "PREROUTING") /\ c[3] = Cmd("D", "OUTPUT")
        /\ c[4] = Cmd("X", "") /\ c[5] = Cmd("N", "")
        /\ c[6] = Cmd("I", "PREROUTING") /\ c[7] = Cmd("I", "OUTPUT")
    BY <2>2, SetupTwo, Zenon
  <2>5. Setup(t) = c
    BY <2>1, Zenon DEF Setup
  <2> HIDE DEF c
  <2> QED BY <2>1, <2>3, <2>4, <2>5
<1>2. CASE t = "filter"
  <2>1. StartHooks(t) = <<"FORWARD", "INPUT">> /\ Hook(t) = {"FORWARD", "INPUT"}
    BY <1>2 DEF StartHooks, Hook
  <2>2. "FORWARD" \in HookName /\ "INPUT" \in HookName
    BY DEF HookName
  <2>3. StartHooks(t)[1] = "FORWARD" /\ StartHooks(t)[2] = "INPUT"
    BY <2>1
  <2> DEFINE c == SetupChain(<<"FORWARD", "INPUT">>)
  <2>4. /\ c \in Seq(Command) /\ Len(c) = 7
        /\ c[1] = Cmd("F", "") /\ c[2] = Cmd("D", "FORWARD") /\ c[3] = Cmd("D", "INPUT")
        /\ c[4] = Cmd("X", "") /\ c[5] = Cmd("N", "")
        /\ c[6] = Cmd("I", "FORWARD") /\ c[7] = Cmd("I", "INPUT")
    BY <2>2, SetupTwo, Zenon
  <2>5. Setup(t) = c
    BY <2>1, Zenon DEF Setup
  <2> HIDE DEF c
  <2> QED BY <2>1, <2>3, <2>4, <2>5
<1> QED BY <1>1, <1>2 DEF Table

\* The commands that take a table's chain down: one less for the nat table.
LEMMA TeardownCommands ==
  ASSUME NEW t \in Table
  PROVE  LET n == Len(Teardown(t))
         IN  /\ n = (IF t = "nat" THEN 3 ELSE 4)
             /\ Teardown(t) \in Seq(Command)
             /\ Teardown(t)[1] = Cmd("F", "") /\ Teardown(t)[n] = Cmd("X", "")
             /\ t = "nat" => Teardown(t)[2] = Cmd("D", "PREROUTING")
             /\ t = "filter" => /\ Teardown(t)[2] = Cmd("D", "FORWARD")
                                /\ Teardown(t)[3] = Cmd("D", "INPUT")
<1>1. CASE t = "nat"
  <2>1. "PREROUTING" \in HookName
    BY DEF HookName
  <2> DEFINE c == DeleteChain(<<"PREROUTING">>)
  <2>2. /\ c \in Seq(Command) /\ Len(c) = 3
        /\ c[1] = Cmd("F", "") /\ c[2] = Cmd("D", "PREROUTING") /\ c[3] = Cmd("X", "")
    BY <2>1, DeleteOne, Zenon
  <2>3. Teardown(t) = c
    BY <1>1, Zenon DEF Teardown, StopHooks
  <2> HIDE DEF c
  <2> QED BY <1>1, <2>2, <2>3
<1>2. CASE t = "filter"
  <2>1. "FORWARD" \in HookName /\ "INPUT" \in HookName
    BY DEF HookName
  <2> DEFINE c == DeleteChain(<<"FORWARD", "INPUT">>)
  <2>2. /\ c \in Seq(Command) /\ Len(c) = 4
        /\ c[1] = Cmd("F", "") /\ c[2] = Cmd("D", "FORWARD") /\ c[3] = Cmd("D", "INPUT")
        /\ c[4] = Cmd("X", "")
    BY <2>1, DeleteTwo, Zenon
  <2>4. t # "nat"
    BY <1>2
  <2>3. Teardown(t) = c
    BY <2>4, Zenon DEF Teardown, StopHooks
  <2> HIDE DEF c
  <2> QED BY <1>2, <2>2, <2>3
<1> QED BY <1>1, <1>2 DEF Table

\* What is left of a row of commands.
LEMMA RestOfCommands ==
  ASSUME NEW c \in Seq(Command), NEW n \in Nat, Len(c) = n, NEW i \in 1 .. n
  PROVE  /\ Head(SubSeq(c, i, n)) = c[i]
         /\ Tail(SubSeq(c, i, n)) = SubSeq(c, i + 1, n)
         /\ SubSeq(c, n + 1, n) = <<>>
         /\ SubSeq(c, i, n) # <<>> /\ SubSeq(c, i, n) # Fail
         /\ SubSeq(c, 1, n) = c
<1>1. i \in 1 .. Len(c) /\ Len(c) \in i .. Len(c)
  OBVIOUS
<1>2. /\ Head(SubSeq(c, i, Len(c))) = c[i]
      /\ Tail(SubSeq(c, i, Len(c))) = SubSeq(c, i + 1, Len(c))
  BY <1>1, HeadTailOfSubSeq, Zenon
<1>3. SubSeq(c, 1, Len(c)) = c
  BY SubSeqFull, Zenon
<1>4. SubSeq(c, n + 1, n) = <<>>
  <2>1. n + 1 \in Int /\ n \in Int /\ n < n + 1
    OBVIOUS
  <2> QED BY <2>1, SubSeqEmpty, Zenon
<1>5. SubSeq(c, i, n) # <<>>
  <2>1. \A j \in i .. n : c[j] \in Command
    <3>1. \A j \in i .. n : j \in 1 .. Len(c)
      OBVIOUS
    <3> QED BY <3>1, ElementOfSeq
  <2>2. i \in Int /\ n \in Int
    OBVIOUS
  <2> DEFINE s == SubSeq(c, i, n)
  <2>3. Len(s) = IF i <= n THEN n - i + 1 ELSE 0
    BY <2>1, <2>2, SubSeqProperties
  <2> HIDE DEF s
  <2>4. Len(s) # 0
    BY <2>3
  <2>5. s # <<>>
    BY <2>4
  <2> QED BY <2>5 DEF s
<1>6. SubSeq(c, i, n) # Fail
  <2>1. c[i] \in Command
    BY <1>1, ElementOfSeq
  <2>2. Head(Fail) = Cmd("fail", "")
    BY DEF Fail
  <2>3. Cmd("fail", "").op = "fail" /\ c[i].op # "fail"
    BY <2>1 DEF Cmd, Command
  <2>4. Head(SubSeq(c, i, n)) = c[i]
    BY <1>2
  <2>5. Head(SubSeq(c, i, n)) # Head(Fail)
    BY <2>2, <2>3, <2>4, Zenon
  <2> QED BY <2>5, Zenon
<1> QED BY <1>2, <1>3, <1>4, <1>5, <1>6

\* What AfterDelete skips ends with the only -X there is.
LEMMA AfterDeleteIs ==
  ASSUME NEW c \in Seq(Command), NEW x \in 1 .. Len(c),
         \A i \in 1 .. Len(c) : c[i].op = "X" <=> i = x
  PROVE  AfterDelete(c) = SubSeq(c, x + 1, Len(c))
<1>1. (CHOOSE i \in 1 .. Len(c) : c[i].op = "X") = x
  OBVIOUS
<1> QED BY <1>1, Zenon DEF AfterDelete

\* How the end of a command changes what is left of a set-up.
LEMMA SetupRest ==
  ASSUME NEW t \in Table, NEW i \in 1 .. 7, NEW end \in {"ok", "refused", "broken"}
  PROVE  LET c == SetupFrom(t, i)
             rest == Rest(c, end)
         IN  /\ c # <<>> /\ c # Fail
             /\ Head(c) = Setup(t)[i]
             /\ i = 1 => rest = SetupFrom(t, IF end = "refused" THEN 5 ELSE 2)
             /\ i \in {2, 3} => rest = IF end = "ok" THEN SetupFrom(t, i)
                                  ELSE IF end = "refused" THEN SetupFrom(t, i + 1) ELSE Fail
             /\ i \in 4 .. 7 => rest = IF end = "ok" THEN SetupFrom(t, i + 1) ELSE Fail
<1> DEFINE s == Setup(t)
           c == SubSeq(s, i, 7)
<1>0. s \in Seq(Command) /\ Len(s) = 7
  BY SetupCommands
<1>1. /\ s[1].op = "F" /\ s[2].op = "D" /\ s[3].op = "D" /\ s[4].op = "X"
      /\ s[5].op = "N" /\ s[6].op = "I" /\ s[7].op = "I"
  <2>1. /\ s[1] = Cmd("F", "") /\ s[4] = Cmd("X", "") /\ s[5] = Cmd("N", "")
        /\ \E g, h \in Hook(t) : /\ s[2] = Cmd("D", g) /\ s[3] = Cmd("D", h)
                               /\ s[6] = Cmd("I", g) /\ s[7] = Cmd("I", h)
    BY SetupCommands, Zenon
  <2> HIDE DEF s
  <2> QED BY <2>1, CmdOp
<1>2. SetupFrom(t, i) = c /\ SetupFrom(t, i + 1) = SubSeq(s, i + 1, 7)
  BY DEF SetupFrom
<1>6. SetupFrom(t, 2) = SubSeq(s, 2, 7) /\ SetupFrom(t, 5) = SubSeq(s, 5, 7)
  BY DEF SetupFrom
<1> HIDE DEF s
<1>3. /\ Head(c) = s[i] /\ Tail(c) = SubSeq(s, i + 1, 7)
      /\ c # <<>> /\ c # Fail /\ SubSeq(s, 1, 7) = s
  <2>1. 7 \in Nat
    OBVIOUS
  <2> QED BY <1>0, <2>1, RestOfCommands, Zenon
<1>4. i = 1 => AfterDelete(c) = SubSeq(s, 5, 7)
  <2>1. 4 \in 1 .. Len(s) /\ \A k \in 1 .. Len(s) : s[k].op = "X" <=> k = 4
    BY <1>0, <1>1
  <2>2. AfterDelete(s) = SubSeq(s, 4 + 1, Len(s))
    BY <1>0, <2>1, AfterDeleteIs, Zenon
  <2>3. 4 + 1 = 5
    OBVIOUS
  <2> QED BY <1>0, <1>3, <2>2, <2>3, Zenon
<1> HIDE DEF c
<1>5. /\ i = 1 => Head(c).op = "F"
      /\ i \in {2, 3} => Head(c).op = "D"
      /\ i \in 4 .. 7 => Head(c).op \notin {"F", "D"}
  BY <1>1, <1>3
<1>7. /\ i = 1 => Rest(c, end) = IF end = "refused" THEN AfterDelete(c) ELSE Tail(c)
      /\ i \in {2, 3} => Rest(c, end) = IF end = "ok" THEN c
                                        ELSE IF end = "refused" THEN Tail(c) ELSE Fail
      /\ i \in 4 .. 7 => Rest(c, end) = IF end = "ok" THEN Tail(c) ELSE Fail
  <2>1. i = 1 => Rest(c, end) = IF end = "refused" THEN AfterDelete(c) ELSE Tail(c)
    BY <1>5 DEF Rest
  <2>2. i \in {2, 3} => Rest(c, end) = IF end = "ok" THEN c
                                        ELSE IF end = "refused" THEN Tail(c) ELSE Fail
    BY <1>5 DEF Rest
  <2>3. i \in 4 .. 7 => Rest(c, end) = IF end = "ok" THEN Tail(c) ELSE Fail
    BY <1>5 DEF Rest
  <2> QED BY <2>1, <2>2, <2>3
<1> HIDE DEF s
<1>8. /\ c # <<>> /\ c # Fail /\ Head(c) = s[i]
      /\ i = 1 => Rest(c, end) = SetupFrom(t, IF end = "refused" THEN 5 ELSE 2)
      /\ i \in {2, 3} => Rest(c, end) = IF end = "ok" THEN SetupFrom(t, i)
                                   ELSE IF end = "refused" THEN SetupFrom(t, i + 1) ELSE Fail
      /\ i \in 4 .. 7 => Rest(c, end) = IF end = "ok" THEN SetupFrom(t, i + 1) ELSE Fail
  <2>1. i = 1 => i + 1 = 2
    OBVIOUS
  <2>2. i = 1 => Rest(c, end) = SetupFrom(t, IF end = "refused" THEN 5 ELSE 2)
    BY <1>2, <1>3, <1>4, <1>6, <1>7, <2>1
  <2> QED BY <1>2, <1>3, <1>7, <2>2
<1> QED BY <1>2, <1>8, Zenon DEF s

\* ... and what is left of a taking down.
LEMMA TeardownRest ==
  ASSUME NEW t \in Table, NEW i \in 1 .. Len(Teardown(t)),
         NEW end \in {"ok", "refused", "broken"}
  PROVE  LET n == Len(Teardown(t))
             c == TeardownFrom(t, i)
             rest == Rest(c, end)
         IN  /\ c # <<>> /\ c # Fail
             /\ Head(c) = Teardown(t)[i]
             /\ i = 1 => rest = IF end = "refused" THEN <<>> ELSE TeardownFrom(t, 2)
             /\ i \in 2 .. n - 1 => rest = IF end = "ok" THEN TeardownFrom(t, i)
                                  ELSE IF end = "refused" THEN TeardownFrom(t, i + 1) ELSE Fail
             /\ i = n => rest = IF end = "ok" THEN <<>> ELSE Fail
<1> DEFINE s == Teardown(t)
           n == Len(s)
           c == SubSeq(s, i, n)
<1>0. /\ s \in Seq(Command) /\ n \in Nat /\ n \in {3, 4}
      /\ n = 3 => s[1].op = "F" /\ s[2].op = "D" /\ s[3].op = "X"
      /\ n = 4 => s[1].op = "F" /\ s[2].op = "D" /\ s[3].op = "D" /\ s[4].op = "X"
  <2>1. CASE t = "nat"
    <3>1. s \in Seq(Command) /\ n = 3
      BY <2>1, TeardownCommands, Zenon
    <3>2. s[1] = Cmd("F", "") /\ s[2] = Cmd("D", "PREROUTING") /\ s[n] = Cmd("X", "")
      BY <2>1, TeardownCommands, Zenon
    <3> HIDE DEF s
    <3> HIDE DEF n
    <3>4. s[1].op = "F" /\ s[2].op = "D" /\ s[n].op = "X"
      BY <3>2, CmdOp
    <3> QED BY <3>1, <3>4
  <2>2. CASE t = "filter"
    <3>0. t # "nat"
      BY <2>2
    <3>1. s \in Seq(Command) /\ n = 4
      BY <3>0, TeardownCommands, Zenon
    <3>2. /\ s[1] = Cmd("F", "") /\ s[2] = Cmd("D", "FORWARD") /\ s[3] = Cmd("D", "INPUT")
          /\ s[n] = Cmd("X", "")
      BY <2>2, TeardownCommands, Zenon
    <3> HIDE DEF s
    <3> HIDE DEF n
    <3>4. s[1].op = "F" /\ s[2].op = "D" /\ s[3].op = "D" /\ s[n].op = "X"
      BY <3>2, CmdOp
    <3> QED BY <3>1, <3>4
  <2> QED BY <2>1, <2>2 DEF Table
<1>2. TeardownFrom(t, i) = c /\ TeardownFrom(t, i + 1) = SubSeq(s, i + 1, n)
  BY DEF TeardownFrom
<1>6. TeardownFrom(t, 2) = SubSeq(s, 2, n)
  BY DEF TeardownFrom
<1>8. i \in 1 .. n
  OBVIOUS
<1>9. Len(s) = n /\ Len(Teardown(t)) = n
  OBVIOUS
<1> HIDE DEF n
<1> HIDE DEF s
<1>1. \A k \in 1 .. n : s[k].op = (IF k = 1 THEN "F" ELSE IF k = n THEN "X" ELSE "D")
  <2>1. CASE n = 3
    BY <1>0, <2>1
  <2>2. CASE n = 4
    BY <1>0, <2>2
  <2> QED BY <1>0, <2>1, <2>2
<1>3. /\ Head(c) = s[i] /\ Tail(c) = SubSeq(s, i + 1, n) /\ SubSeq(s, n + 1, n) = <<>>
      /\ c # <<>> /\ c # Fail /\ SubSeq(s, 1, n) = s
  BY <1>0, <1>8, <1>9, RestOfCommands, Zenon
<1>4. i = 1 => AfterDelete(c) = <<>>
  <2>1. n \in 1 .. Len(s) /\ \A k \in 1 .. Len(s) : s[k].op = "X" <=> k = n
    BY <1>0, <1>1, <1>9
  <2>2. AfterDelete(s) = SubSeq(s, n + 1, Len(s))
    BY <1>0, <2>1, AfterDeleteIs, Zenon
  <2> QED BY <1>9, <1>3, <2>2, Zenon
<1> HIDE DEF c
<1>5. /\ i = 1 => Head(c).op = "F"
      /\ i \in 2 .. n - 1 => Head(c).op = "D"
      /\ i = n => Head(c).op \notin {"F", "D"}
  BY <1>0, <1>1, <1>3, <1>8
<1>7. /\ i = 1 => Rest(c, end) = IF end = "refused" THEN AfterDelete(c) ELSE Tail(c)
      /\ i \in 2 .. n - 1 => Rest(c, end) = IF end = "ok" THEN c
                                        ELSE IF end = "refused" THEN Tail(c) ELSE Fail
      /\ i = n => Rest(c, end) = IF end = "ok" THEN Tail(c) ELSE Fail
  BY <1>5 DEF Rest
<1>10. i = 1 => SubSeq(s, i + 1, n) = SubSeq(s, 2, n)
  OBVIOUS
<1> QED BY <1>2, <1>3, <1>4, <1>6, <1>7, <1>9, <1>10 DEF s
-----------------------------------------------------------------------------
(***************************************************************************)
(* The rules of a chain, in their order, and how often each is there.      *)
(***************************************************************************)
\* A set of numbers has a least one.
LEMMA LeastOne ==
  ASSUME NEW T, T \subseteq Nat, T # {}
  PROVE  Min(T) \in T
<1> DEFINE R == OpToRel(<, Nat)
<1>1. IsWellFoundedOn(R, Nat)
  BY NatLessThanWellFounded
<1>2. \A x, y \in Nat : ~(<<y, x>> \in R) => x =< y
  BY DEF OpToRel
<1> HIDE DEF R
<1>3. PICK x \in T : \A y \in T : ~(<<y, x>> \in R)
  BY <1>1, WFMin
<1>4. \A y \in T : x =< y
  BY <1>2, <1>3
<1> QED BY <1>4 DEF Min

\* Where a rule is in a sequence: finitely many places.
LEMMA PlacesFinite ==
  ASSUME NEW s \in Seq(AnyRule), NEW r
  PROVE  /\ Places(s, r) \subseteq 1 .. Len(s) /\ Places(s, r) \subseteq Nat
         /\ IsFiniteSet(Places(s, r)) /\ Cardinality(Places(s, r)) \in Nat
         /\ Cardinality(Places(s, r)) > 0 <=> Places(s, r) # {}
<1>1. /\ Len(s) \in Nat /\ DOMAIN s = 1 .. Len(s)
  OBVIOUS
<1>2. Places(s, r) \subseteq 1 .. Len(s)
  BY <1>1 DEF Places
<1>3. Places(s, r) \subseteq Nat
  BY <1>2
<1>4. IsFiniteSet(Places(s, r))
  <2>1. IsFiniteSet(1 .. Len(s))
    BY <1>1, FS_Interval
  <2> QED BY <1>2, <2>1, FS_Subset, Zenon
<1>5. Cardinality(Places(s, r)) \in Nat
  BY <1>4, FS_CardinalityType
<1>6. Cardinality(Places(s, r)) = 0 <=> Places(s, r) = {}
  BY <1>4, FS_EmptySet
<1> QED BY <1>2, <1>3, <1>4, <1>5, <1>6

\* -A: the rule is there once more, the others as they were.
LEMMA PlacesAppended ==
  ASSUME NEW s \in Seq(AnyRule), NEW r \in AnyRule, NEW q
  PROVE  /\ AppendRule(s, r) \in Seq(AnyRule)
         /\ Cardinality(Places(AppendRule(s, r), q))
              = Cardinality(Places(s, q)) + (IF q = r THEN 1 ELSE 0)
<1> DEFINE n == Len(s) + 1
           a == Append(s, r)
<1>1. /\ a \in Seq(AnyRule) /\ Len(a) = n
      /\ \A i \in 1 .. Len(s) : a[i] = s[i]
      /\ a[n] = r
  BY AppendProperties
<1>2. Len(s) \in Nat /\ DOMAIN s = 1 .. Len(s) /\ DOMAIN a = 1 .. n
  BY <1>1
<1> HIDE DEF a
<1>3. 1 .. n = (1 .. Len(s)) \cup {n} /\ n \notin 1 .. Len(s)
  BY <1>2
<1>4. /\ q = r => Places(a, q) = Places(s, q) \cup {n}
      /\ q # r => Places(a, q) = Places(s, q)
      /\ n \notin Places(s, q)
  <2> HIDE DEF n
  <2> QED BY <1>1, <1>2, <1>3 DEF Places
<1>5. IsFiniteSet(Places(s, q)) /\ Cardinality(Places(s, q)) \in Nat
  BY PlacesFinite
<1>6. q = r => Cardinality(Places(a, q)) = Cardinality(Places(s, q)) + 1
  BY <1>4, <1>5, FS_AddElement
<1>7. Cardinality(Places(a, q)) = Cardinality(Places(s, q)) + (IF q = r THEN 1 ELSE 0)
  BY <1>4, <1>5, <1>6
<1> QED BY <1>1, <1>7 DEF a, AppendRule

\* Without its i-th element a sequence is as it was before it, and has moved up
\* after it.
LEMMA WithoutPlace ==
  ASSUME NEW s \in Seq(AnyRule), NEW i \in 1 .. Len(s)
  PROVE  /\ RemoveAt(s, i) \in Seq(AnyRule) /\ Len(RemoveAt(s, i)) = Len(s) - 1
         /\ \A j \in 1 .. Len(s) - 1 : RemoveAt(s, i)[j] = IF j < i THEN s[j] ELSE s[j + 1]
<1> DEFINE b == SubSeq(s, 1, i - 1)
           e == SubSeq(s, i + 1, Len(s))
<1>1. Len(s) \in Nat /\ i \in Nat /\ i >= 1 /\ i <= Len(s)
  OBVIOUS
<1>2. \A j \in 1 .. Len(s) : s[j] \in AnyRule
  BY ElementOfSeq
<1>3. /\ b \in Seq(AnyRule) /\ Len(b) = i - 1
      /\ \A j \in 1 .. i - 1 : b[j] = s[j]
  <2>1. 1 \in Int /\ i - 1 \in Int /\ \A j \in 1 .. i - 1 : s[j] \in AnyRule
    BY <1>1, <1>2
  <2>2. /\ b \in Seq(AnyRule) /\ Len(b) = (IF 1 <= i - 1 THEN (i - 1) - 1 + 1 ELSE 0)
        /\ \A j \in 1 .. (i - 1) - 1 + 1 : b[j] = s[1 + j - 1]
    BY <2>1, SubSeqProperties
  <2> HIDE DEF b
  <2>3. (i - 1) - 1 + 1 = i - 1 /\ \A j \in 1 .. i - 1 : 1 + j - 1 = j
    BY <1>1
  <2> QED BY <1>1, <2>2, <2>3
<1>4. /\ e \in Seq(AnyRule) /\ Len(e) = Len(s) - i
      /\ \A j \in 1 .. Len(s) - i : e[j] = s[i + j]
  <2>1. i + 1 \in Int /\ Len(s) \in Int /\ \A j \in i + 1 .. Len(s) : s[j] \in AnyRule
    BY <1>1, <1>2
  <2>2. /\ e \in Seq(AnyRule)
        /\ Len(e) = (IF i + 1 <= Len(s) THEN Len(s) - (i + 1) + 1 ELSE 0)
        /\ \A j \in 1 .. Len(s) - (i + 1) + 1 : e[j] = s[i + 1 + j - 1]
    BY <2>1, SubSeqProperties
  <2> HIDE DEF e
  <2>3. Len(s) - (i + 1) + 1 = Len(s) - i /\ \A j \in 1 .. Len(s) - i : i + 1 + j - 1 = i + j
    BY <1>1
  <2>4. Len(e) = Len(s) - i
    <3>1. Len(e) = (IF i + 1 <= Len(s) THEN Len(s) - (i + 1) + 1 ELSE 0)
      BY <2>2
    <3> QED BY <1>1, <3>1
  <2>5. ASSUME NEW j \in 1 .. Len(s) - i PROVE e[j] = s[i + j]
    BY <1>1, <2>2, <2>3
  <2> QED BY <2>2, <2>4, <2>5
<1> HIDE DEF b, e
<1> DEFINE c == b \o e
<1>5. /\ c \in Seq(AnyRule) /\ Len(c) = Len(b) + Len(e)
      /\ \A j \in 1 .. Len(b) + Len(e) : c[j] = IF j <= Len(b) THEN b[j] ELSE e[j - Len(b)]
  BY <1>3, <1>4, ConcatProperties, Zenon
<1> HIDE DEF c
<1>6. Len(b) + Len(e) = Len(s) - 1
  BY <1>1, <1>3, <1>4
<1>7. ASSUME NEW j \in 1 .. Len(s) - 1 PROVE c[j] = IF j < i THEN s[j] ELSE s[j + 1]
  <2>1. c[j] = IF j <= i - 1 THEN b[j] ELSE e[j - (i - 1)]
    BY <1>3, <1>5, <1>6
  <2>2. CASE j < i
    <3>1. j \in 1 .. i - 1 /\ j <= i - 1
      BY <1>1, <2>2
    <3> QED BY <1>3, <2>1, <2>2, <3>1
  <2>3. CASE ~(j < i)
    <3>1. j - (i - 1) \in 1 .. Len(s) - i /\ ~(j <= i - 1) /\ i + (j - (i - 1)) = j + 1
      BY <1>1, <2>3
    <3> QED BY <1>4, <2>1, <2>3, <3>1
  <2> QED BY <2>2, <2>3
<1> QED BY <1>5, <1>6, <1>7 DEF RemoveAt, b, c, e

\* -D: the rule is there once less, the others as they were.
LEMMA PlacesDeleted ==
  ASSUME NEW s \in Seq(AnyRule), NEW r, Places(s, r) # {}, NEW q
  PROVE  /\ DeleteFirstRule(s, r) \in Seq(AnyRule)
         /\ Cardinality(Places(DeleteFirstRule(s, r), q))
              = Cardinality(Places(s, q)) - (IF q = r THEN 1 ELSE 0)
<1> DEFINE i == Min(Places(s, r))
           d == RemoveAt(s, i)
           n == Len(s)
<1>1. i \in Places(s, r)
  BY PlacesFinite, LeastOne, Zenon
<1> HIDE DEF i
<1>2. n \in Nat /\ DOMAIN s = 1 .. n /\ i \in 1 .. n /\ s[i] = r
  BY <1>1 DEF Places
<1>3. /\ d \in Seq(AnyRule) /\ Len(d) = n - 1
      /\ \A j \in 1 .. n - 1 : d[j] = IF j < i THEN s[j] ELSE s[j + 1]
  BY <1>2, WithoutPlace
<1>4. DOMAIN d = 1 .. n - 1
  BY <1>3
<1> HIDE DEF d, n
<1> DEFINE P == Places(s, q) \ {i}
           D == Places(d, q)
           f == [j \in P |-> IF j < i THEN j ELSE j - 1]
<1>5. ASSUME NEW j \in P PROVE f[j] \in D
  <2>1. j \in 1 .. n /\ s[j] = q /\ j # i
    BY <1>2 DEF Places
  <2>2. CASE j < i
    <3>1. j \in 1 .. n - 1
      BY <1>2, <2>1, <2>2
    <3> QED BY <1>3, <1>4, <2>1, <2>2, <3>1 DEF Places
  <2>3. CASE ~(j < i)
    <3>1. j - 1 \in 1 .. n - 1 /\ ~(j - 1 < i) /\ (j - 1) + 1 = j
      BY <1>2, <2>1, <2>3
    <3> QED BY <1>3, <1>4, <2>1, <2>3, <3>1 DEF Places
  <2> QED BY <2>2, <2>3
<1>6. ASSUME NEW k \in D PROVE \E j \in P : f[j] = k
  <2>1. k \in 1 .. n - 1 /\ d[k] = q
    BY <1>4 DEF Places
  <2>2. CASE k < i
    <3>1. k \in 1 .. n /\ k # i
      BY <1>2, <2>1, <2>2
    <3>2. k \in P
      BY <1>2, <1>3, <2>1, <2>2, <3>1 DEF Places
    <3> QED BY <2>2, <3>2
  <2>3. CASE ~(k < i)
    <3>1. k + 1 \in 1 .. n /\ k + 1 # i /\ ~(k + 1 < i) /\ (k + 1) - 1 = k
      BY <1>2, <2>1, <2>3
    <3>2. k + 1 \in P
      BY <1>2, <1>3, <2>1, <2>3, <3>1 DEF Places
    <3>3. f[k + 1] = k
      BY <3>1, <3>2
    <3> QED BY <3>2, <3>3
  <2> QED BY <2>2, <2>3
<1>7. \A j, k \in P : f[j] = f[k] => j = k
  <2>1. P \subseteq Nat
    BY <1>2 DEF Places
  <2>2. i \in Nat /\ i \notin P
    BY <1>2
  <2> HIDE DEF P
  <2> QED BY <2>1, <2>2
<1>8. ExistsBijection(P, D)
  <2>1. f \in [P -> D]
    BY <1>5
  <2> HIDE DEF f
  <2>2. f \in Bijection(P, D)
    BY <1>6, <1>7, <2>1 DEF Bijection, Injection, Surjection, IsInjective
  <2> QED BY <2>2 DEF ExistsBijection
<1>9. IsFiniteSet(Places(s, q)) /\ Cardinality(Places(s, q)) \in Nat
  BY PlacesFinite
<1>10. IsFiniteSet(P) /\ Cardinality(P) = IF i \in Places(s, q) THEN Cardinality(Places(s, q)) - 1
                                          ELSE Cardinality(Places(s, q))
  BY <1>9, FS_RemoveElement
<1>11. Cardinality(D) = Cardinality(P)
  BY <1>8, <1>10, FS_Bijection, Zenon
<1>12. i \in Places(s, q) <=> q = r
  BY <1>2 DEF Places
<1>13. Cardinality(D) = Cardinality(Places(s, q)) - (IF q = r THEN 1 ELSE 0)
  BY <1>9, <1>10, <1>11, <1>12
<1> QED BY <1>3, <1>13 DEF DeleteFirstRule, d, i
-----------------------------------------------------------------------------
(***************************************************************************)
(* The commands' effects.                                                  *)
(***************************************************************************)
\* -F leaves the chain empty.
LEMMA FlushEffect ==
  ASSUME NEW t \in Table, NEW x, TableOK(t, x), NEW c, c.op = "F", Accepts(x, c)
  PROVE  LET y == Effect(x, c)
         IN  TableOK(t, y) /\ y.exists /\ y.refs = x.refs /\ y.rules = <<>>
<1>1. x.exists
  BY DEF Accepts
<1>2. Effect(x, c) = [x EXCEPT !.rules = <<>>]
  BY DEF Effect
<1>3. x = [exists |-> x.exists, refs |-> x.refs, rules |-> x.rules]
  BY DEF TableOK
<1> DEFINE y == Effect(x, c)
<1>4. /\ y = [exists |-> x.exists, refs |-> x.refs, rules |-> <<>>]
  BY <1>2, <1>3
<1> HIDE DEF y
<1>5. y.exists = x.exists /\ y.refs = x.refs /\ y.rules = <<>>
  BY <1>4
<1>6. <<>> \in Seq(AnyRule)
  OBVIOUS
<1>7. TableOK(t, y)
  BY <1>1, <1>4, <1>5, <1>6 DEF TableOK
<1> QED BY <1>1, <1>5, <1>7 DEF y

\* -D takes one jump from a built-in chain.
LEMMA UnhookEffect ==
  ASSUME NEW t \in Table, NEW x, TableOK(t, x), NEW c, c.op = "D", NEW h \in Hook(t),
         c.arg = h, Accepts(x, c)
  PROVE  LET y == Effect(x, c)
         IN  /\ TableOK(t, y) /\ y.exists /\ x.exists /\ y.rules = x.rules
             /\ y.refs = [x.refs EXCEPT ![h] = @ - 1] /\ x.refs[h] > 0
<1>1. x.refs[h] > 0
  BY DEF Accepts
<1>2. Effect(x, c) = [x EXCEPT !.refs[h] = @ - 1]
  BY DEF Effect
<1>3. /\ x = [exists |-> x.exists, refs |-> x.refs, rules |-> x.rules]
      /\ x.refs \in [Hook(t) -> Nat]
  BY DEF TableOK
<1>8. x.exists
  BY <1>1 DEF TableOK
<1> DEFINE y == Effect(x, c)
           n == [x.refs EXCEPT ![h] = @ - 1]
<1>4. y = [exists |-> x.exists, refs |-> n, rules |-> x.rules]
  BY <1>2, <1>3
<1>9. n \in [Hook(t) -> Nat]
  <2>1. x.refs[h] - 1 \in Nat
    BY <1>1, <1>3
  <2> QED BY <1>3, <2>1
<1> HIDE DEF y, n
<1>5. y.exists = x.exists /\ y.refs = n /\ y.rules = x.rules
  BY <1>4
<1>7. TableOK(t, y)
  BY <1>4, <1>5, <1>8, <1>9 DEF TableOK
<1> QED BY <1>1, <1>5, <1>7, <1>8 DEF y, n

\* -X leaves nothing.
LEMMA DeleteEffect ==
  ASSUME NEW t \in Table, NEW x, TableOK(t, x), NEW c, c.op = "X", Accepts(x, c)
  PROVE  LET y == Effect(x, c) IN TableOK(t, y) /\ y = NoChain(t)
<1>1. x.exists /\ x.rules = <<>> /\ \A h \in DOMAIN x.refs : x.refs[h] = 0
  BY DEF Accepts
<1>2. Effect(x, c) = [x EXCEPT !.exists = FALSE]
  BY DEF Effect
<1>3. /\ x = [exists |-> x.exists, refs |-> x.refs, rules |-> x.rules]
      /\ x.refs \in [Hook(t) -> Nat]
  BY DEF TableOK
<1>5. x.refs = [h \in Hook(t) |-> 0]
  BY <1>1, <1>3
<1> DEFINE y == Effect(x, c)
<1>6. y = [exists |-> FALSE, refs |-> x.refs, rules |-> x.rules]
  BY <1>2, <1>3
<1> HIDE DEF y
<1>7. y = NoChain(t)
  BY <1>1, <1>5, <1>6 DEF NoChain
<1>8. y.exists = FALSE /\ y.refs = x.refs /\ y.rules = x.rules
  BY <1>6
<1>9. TableOK(t, y)
  BY <1>1, <1>5, <1>6, <1>8 DEF TableOK
<1> QED BY <1>7, <1>9 DEF y

\* -N makes an empty chain that nothing jumps to.
LEMMA NewEffect ==
  ASSUME NEW t \in Table, NEW x, TableOK(t, x), NEW c, c.op = "N", Accepts(x, c)
  PROVE  LET y == Effect(x, c)
         IN  TableOK(t, y) /\ y.exists /\ y.rules = <<>> /\ \A h \in Hook(t) : y.refs[h] = 0
<1>1. ~x.exists
  BY DEF Accepts
<1>2. Effect(x, c) = [x EXCEPT !.exists = TRUE]
  BY DEF Effect
<1>3. /\ x = [exists |-> x.exists, refs |-> x.refs, rules |-> x.rules]
      /\ x.refs = [h \in Hook(t) |-> 0] /\ x.rules = <<>>
  BY <1>1 DEF TableOK
<1> DEFINE y == Effect(x, c)
<1>6. y = [exists |-> TRUE, refs |-> x.refs, rules |-> x.rules]
  BY <1>2, <1>3
<1> HIDE DEF y
<1>8. y.exists = TRUE /\ y.refs = x.refs /\ y.rules = x.rules
  BY <1>6
<1>9. TableOK(t, y)
  BY <1>6, <1>8 DEF TableOK
<1> QED BY <1>3, <1>8, <1>9 DEF y

\* -I adds a jump to a built-in chain.
LEMMA HookEffect ==
  ASSUME NEW t \in Table, NEW x, TableOK(t, x), NEW c, c.op = "I", NEW h \in Hook(t),
         c.arg = h, Accepts(x, c)
  PROVE  LET y == Effect(x, c)
         IN  /\ TableOK(t, y) /\ y.exists /\ y.rules = x.rules
             /\ y.refs = [x.refs EXCEPT ![h] = @ + 1]
<1>1. x.exists
  BY DEF Accepts
<1>2. Effect(x, c) = [x EXCEPT !.refs[h] = @ + 1]
  BY DEF Effect
<1>3. /\ x = [exists |-> x.exists, refs |-> x.refs, rules |-> x.rules]
      /\ x.refs \in [Hook(t) -> Nat]
  BY DEF TableOK
<1> DEFINE y == Effect(x, c)
           n == [x.refs EXCEPT ![h] = @ + 1]
<1>4. y = [exists |-> x.exists, refs |-> n, rules |-> x.rules]
  BY <1>2, <1>3
<1>9. n \in [Hook(t) -> Nat]
  BY <1>3
<1> HIDE DEF y, n
<1>5. y.exists = x.exists /\ y.refs = n /\ y.rules = x.rules
  BY <1>4
<1>7. TableOK(t, y)
  BY <1>1, <1>4, <1>5, <1>9 DEF TableOK
<1> QED BY <1>1, <1>5, <1>7 DEF y, n

\* -A adds a rule once more.
LEMMA AddEffect ==
  ASSUME NEW t \in Table, NEW x, TableOK(t, x), NEW c, c.op = "A", NEW r \in AnyRule,
         c.arg = r, Accepts(x, c)
  PROVE  LET y == Effect(x, c)
         IN  /\ TableOK(t, y) /\ y.exists = x.exists /\ y.refs = x.refs
             /\ \A q : Count(y.rules, q) = Count(x.rules, q) + (IF q = r THEN 1 ELSE 0)
<1>1. x.exists
  BY DEF Accepts
<1> DEFINE n == AppendRule(x.rules, r)
<1>2. Effect(x, c) = [x EXCEPT !.rules = n]
  BY DEF Effect
<1>3. x = [exists |-> x.exists, refs |-> x.refs, rules |-> x.rules] /\ x.rules \in Seq(AnyRule)
  BY DEF TableOK
<1>4. /\ n \in Seq(AnyRule)
      /\ \A q : Count(n, q) = Count(x.rules, q) + (IF q = r THEN 1 ELSE 0)
  BY <1>3, PlacesAppended DEF Count
<1> HIDE DEF n
<1> DEFINE y == Effect(x, c)
<1>5. y = [exists |-> x.exists, refs |-> x.refs, rules |-> n]
  BY <1>2, <1>3
<1> HIDE DEF y
<1>6. y.exists = x.exists /\ y.refs = x.refs /\ y.rules = n
  BY <1>5
<1>8. TableOK(t, y)
  BY <1>1, <1>4, <1>5, <1>6 DEF TableOK
<1> QED BY <1>4, <1>6, <1>8 DEF y

\* -D of a rule takes it away once.
LEMMA RemoveEffect ==
  ASSUME NEW t \in Table, NEW x, TableOK(t, x), NEW c, c.op = "R", NEW r,
         c.arg = r, Accepts(x, c)
  PROVE  LET y == Effect(x, c)
         IN  /\ TableOK(t, y) /\ y.exists = x.exists /\ y.refs = x.refs
             /\ \A q : Count(y.rules, q) = Count(x.rules, q) - (IF q = r THEN 1 ELSE 0)
<1>1. Places(x.rules, r) # {}
  BY DEF Accepts
<1> DEFINE n == DeleteFirstRule(x.rules, r)
<1>2. Effect(x, c) = [x EXCEPT !.rules = n]
  BY DEF Effect
<1>3. x = [exists |-> x.exists, refs |-> x.refs, rules |-> x.rules] /\ x.rules \in Seq(AnyRule)
  BY DEF TableOK
<1>10. x.exists
  BY <1>1 DEF TableOK, Places
<1>4. /\ n \in Seq(AnyRule)
      /\ \A q : Count(n, q) = Count(x.rules, q) - (IF q = r THEN 1 ELSE 0)
  BY <1>1, <1>3, PlacesDeleted DEF Count
<1> HIDE DEF n
<1> DEFINE y == Effect(x, c)
<1>5. y = [exists |-> x.exists, refs |-> x.refs, rules |-> n]
  BY <1>2, <1>3
<1> HIDE DEF y
<1>6. y.exists = x.exists /\ y.refs = x.refs /\ y.rules = n
  BY <1>5
<1>8. TableOK(t, y)
  BY <1>4, <1>5, <1>6, <1>10 DEF TableOK
<1> QED BY <1>4, <1>6, <1>8 DEF y

\* The ends of a command: it had its effect, or changed nothing.
LEMMA EndsDo ==
  ASSUME TypeOK, TablesOK, NEW t \in Table, NEW c, NEW end, Ends(t, c, end),
         Accepts(ipt[t], c) => TableOK(t, Effect(ipt[t], c))
  PROVE  /\ TablesOK'
         /\ failures' \in 0 .. MaxFailures /\ failures' \in {failures, failures + 1}
         /\ failures' = 0 => failures = 0
         /\ \A u \in Table : u # t => ipt'[u] = ipt[u]
         /\ \/ end = "ok" /\ Accepts(ipt[t], c) /\ ipt'[t] = Effect(ipt[t], c)
            \/ end # "ok" /\ ipt' = ipt
         /\ end = "ok" => failures' = failures
         /\ end = "refused" /\ failures' = failures => ~Accepts(ipt[t], c)
         /\ failures' = failures => end # "broken"
<1>0. failures \in 0 .. MaxFailures /\ MaxFailures \in Nat
  BY BalancerAssumption DEF TypeOK
<1>1. CASE end = "ok" /\ Accepts(ipt[t], c) /\ ipt' = [ipt EXCEPT ![t] = Effect(@, c)]
           /\ UNCHANGED failures
  <2>0. ipt = [u \in Table |-> ipt[u]] /\ \A u \in Table : TableOK(u, ipt[u])
    BY DEF TablesOK
  <2>1. ipt' = [u \in Table |-> IF u = t THEN Effect(ipt[t], c) ELSE ipt[u]]
    BY <1>1, <2>0
  <2>2. ipt'[t] = Effect(ipt[t], c) /\ \A u \in Table : u # t => ipt'[u] = ipt[u]
    BY <2>1
  <2>3. ipt' = [u \in Table |-> ipt'[u]]
    BY <2>1
  <2>4. TableOK(t, ipt'[t])
    BY <1>1, <2>2
  <2>5. \A u \in Table : TableOK(u, ipt'[u])
    <3> TAKE u \in Table
    <3> QED BY <2>0, <2>2, <2>4, Zenon
  <2>6. TablesOK'
    BY <2>3, <2>5 DEF TablesOK
  <2> QED BY <1>0, <1>1, <2>2, <2>6
<1>2. CASE end = "refused" /\ ~Accepts(ipt[t], c) /\ UNCHANGED <<ipt, failures>>
  BY <1>0, <1>2 DEF TablesOK
<1>3. CASE end \in {"refused", "broken"} /\ failures < MaxFailures
           /\ failures' = failures + 1 /\ UNCHANGED ipt
  <2>1. failures' \in 0 .. MaxFailures /\ failures' # 0 /\ failures' # failures
    BY <1>0, <1>3
  <2>2. TablesOK'
    BY <1>3 DEF TablesOK
  <2> QED BY <1>3, <2>1, <2>2
<1> QED BY <1>1, <1>2, <1>3 DEF Ends
-----------------------------------------------------------------------------
\* There is a first command to take a table down.
LEMMA TeardownLength ==
  ASSUME NEW t \in Table
  PROVE  /\ Teardown(t) \in Seq(Command) /\ Len(Teardown(t)) \in {3, 4}
         /\ 1 \in 1 .. Len(Teardown(t))
<1>1. Teardown(t) \in Seq(Command) /\ Len(Teardown(t)) = (IF t = "nat" THEN 3 ELSE 4)
  BY TeardownCommands, Zenon
<1>2. Len(Teardown(t)) \in {3, 4}
  BY <1>1
<1> QED BY <1>1, <1>2

-----------------------------------------------------------------------------
(***************************************************************************)
(* The chains come and go.                                                 *)
(***************************************************************************)
\* While no rule is deleted, another failure leaves more than deletions failed.
LEMMA StillOrderly ==
  ASSUME TypeOK, FailuresOK, UNCHANGED <<undeleted, crashes>>, failures' \in {failures, failures + 1}
  PROVE  FailuresOK' /\ (Orderly' => Orderly /\ failures' = failures)
<1>1. failures \in Nat /\ Cardinality(undeleted) \in Nat /\ Cardinality(undeleted) <= failures
  BY FS_CardinalityType, BalancerAssumption DEF TypeOK, FailuresOK
<1>2. IsFiniteSet(undeleted') /\ Cardinality(undeleted') = Cardinality(undeleted)
  BY DEF FailuresOK
<1>3. FailuresOK'
  BY <1>1, <1>2 DEF FailuresOK
<1>4. Orderly' => failures' = Cardinality(undeleted) /\ crashes = 0
  BY DEF Orderly, OnlyDeletionsFailed
<1>5. Orderly' => Orderly /\ failures' = failures
  BY <1>1, <1>4 DEF Orderly, OnlyDeletionsFailed
<1> QED BY <1>3, <1>5

\* A step of the chains' leaves the services as they are.
LEMMA ServicesQuiet ==
  ASSUME TypeOK, JobOK, ServicesOff, ForwardersOK, WantedOK,
         phase \notin {"running", "closing"}, phase' # "closing", UNCHANGED serv,
         failures' = 0 => failures = 0
  PROVE  JobOK' /\ ServicesOff' /\ ForwardersOK' /\ WantedOK'
<1>1. /\ svcs' = svcs /\ forwarders' = forwarders /\ work' = work /\ job' = job
      /\ wanted' = wanted
  BY DEF serv
<1>2. /\ svcs = [n \in Name |-> None] /\ wanted = [n \in Name |-> None]
      /\ work = NoWork /\ job = NoJob
  BY DEF ServicesOff
<1>3. job.pc = "idle" /\ job.new = None
  BY <1>2 DEF NoJob
<1>4. JobOK'
  <2>1. job \in [name : Name \cup {None}, pc : {"idle", "add", "stop", "delete"},
                 new : State \cup {None}]
    BY DEF JobOK
  <2> QED BY <1>1, <1>2, <1>3, <2>1 DEF JobOK
<1>5. ServicesOff'
  BY <1>1, <1>2 DEF ServicesOff
<1>6. ForwardersOK'
  BY <1>1 DEF ForwardersOK, Listens
<1>7. WantedOK'
  <2>1. failures' = 0 => failures = 0 /\ phase # "closing"
    OBVIOUS
  <2> QED BY <1>1, <2>1 DEF WantedOK
<1> QED BY <1>4, <1>5, <1>6, <1>7

\* The type of what the chains' steps do not touch, with that of the tables.
LEMMA TypeFromTables ==
  ASSUME TypeOK, TablesOK', undeleted' \subseteq undeleted \cup (Table \X AnyRule),
         table' \in Table, setup' \in [Table -> BOOLEAN],
         phase' \in {"down", "starting", "running", "closing", "stopping"},
         UNCHANGED <<svcs, forwarders, work, job>>, wanted' \in [Name -> Service \cup {None}],
         failures' \in 0 .. MaxFailures, crashes' = crashes, starts' \in 0 .. MaxStarts
  PROVE  TypeOK'
<1>1. \A t \in Table : TableOK(t, ipt'[t])
  BY DEF TablesOK
<1>2. \A t \in Table : /\ ipt'[t].exists \in BOOLEAN
                      /\ ipt'[t].refs \in [Hook(t) -> Nat]
                      /\ ipt'[t].rules \in Seq(AnyRule)
  BY <1>1 DEF TableOK
<1> QED BY <1>2 DEF TypeOK

\* What is taken down first, and that it is begun at the beginning.
LEMMA StopBegins ==
  ASSUME NEW flags, flags \in [Table -> BOOLEAN], StopTables(flags), TypeOK
  PROVE  /\ table' \in Table /\ setup' \in [Table -> BOOLEAN]
         /\ \/ /\ phase' = "stopping" /\ table' = "nat" /\ flags["nat"]
               /\ prog' = TeardownFrom("nat", 1)
               /\ setup' = [t \in Table |-> t = "filter" /\ flags["filter"]]
            \/ /\ phase' = "stopping" /\ table' = "filter" /\ ~flags["nat"] /\ flags["filter"]
               /\ prog' = TeardownFrom("filter", 1)
               /\ setup' = [t \in Table |-> FALSE]
            \/ /\ phase' = "down" /\ ~flags["nat"] /\ ~flags["filter"]
<1>0. "nat" \in Table /\ "filter" \in Table /\ table \in Table /\ \A t \in Table : t = "nat" \/ t = "filter"
  BY DEF Table, TypeOK
<1>1. ASSUME NEW t \in Table PROVE DeleteChain(StopHooks(t)) = TeardownFrom(t, 1)
  <2> DEFINE c == Teardown(t)
  <2>1. c \in Seq(Command) /\ 1 \in 1 .. Len(c)
    BY TeardownLength
  <2>2. SubSeq(c, 1, Len(c)) = c
    BY <2>1, SubSeqFull, Zenon
  <2> QED BY <2>2 DEF Teardown, TeardownFrom
<1>2. CASE \A t \in Table : ~flags[t]
  BY <1>0, <1>2 DEF StopTables
<1>3. ASSUME NEW t \in Table, flags[t], t = "nat" \/ ~flags["nat"],
             table' = t, prog' = DeleteChain(StopHooks(t)),
             setup' = [flags EXCEPT ![t] = FALSE], phase' = "stopping"
      PROVE  /\ table' \in Table /\ setup' \in [Table -> BOOLEAN]
             /\ \/ /\ phase' = "stopping" /\ table' = "nat" /\ flags["nat"]
                   /\ prog' = TeardownFrom("nat", 1)
                   /\ setup' = [u \in Table |-> u = "filter" /\ flags["filter"]]
                \/ /\ phase' = "stopping" /\ table' = "filter" /\ ~flags["nat"]
                   /\ flags["filter"] /\ prog' = TeardownFrom("filter", 1)
                   /\ setup' = [u \in Table |-> FALSE]
  <2>1. prog' = TeardownFrom(t, 1)
    BY <1>1, <1>3
  <2>2. setup' \in [Table -> BOOLEAN]
    BY <1>3
  <2>3. CASE t = "nat"
    <3>1. setup' = [u \in Table |-> u = "filter" /\ flags["filter"]]
      <4>1. \A u \in Table : setup'[u] = (u = "filter" /\ flags["filter"])
        BY <1>0, <1>3, <2>3
      <4> QED BY <2>2, <4>1
    <3> QED BY <1>3, <2>1, <2>2, <2>3, <3>1
  <2>4. CASE t = "filter"
    <3>1. setup' = [u \in Table |-> FALSE]
      <4>1. \A u \in Table : setup'[u] = FALSE
        BY <1>0, <1>3, <2>4
      <4> QED BY <2>2, <4>1
    <3> QED BY <1>3, <2>1, <2>2, <2>4, <3>1
  <2> QED BY <1>0, <2>3, <2>4
<1> QED BY <1>2, <1>3 DEF StopTables

\* After it, the chains are as is due to a balancer that stops.
LEMMA StopBeginsOK ==
  ASSUME NEW flags, flags \in [Table -> BOOLEAN], StopTables(flags), TypeOK,
         \A t \in Table : Orderly' /\ phase' = "stopping" /\ table' = t => StopOrderly(t, 1)'
  PROVE  /\ ChainsOK' /\ RulesOK' /\ table' \in Table /\ setup' \in [Table -> BOOLEAN]
         /\ phase' \in {"stopping", "down"}
<1>1. /\ table' \in Table /\ setup' \in [Table -> BOOLEAN]
      /\ phase' \in {"stopping", "down"}
      /\ phase' = "stopping" => prog' = TeardownFrom(table', 1)
  BY StopBegins
<1>2. ASSUME phase' = "stopping"
      PROVE  \E t \in Table : \E i \in 1 .. Len(Teardown(t)) :
               TakingDown(t, i)' /\ (Orderly' => StopOrderly(t, i)')
  <2>1. PICK t \in Table : t = table'
    BY <1>1
  <2>2. 1 \in 1 .. Len(Teardown(t))
    BY TeardownLength
  <2>3. TakingDown(t, 1)'
    BY <1>1, <1>2, <2>1 DEF TakingDown
  <2>4. Orderly' => StopOrderly(t, 1)'
    BY <1>2, <2>1
  <2> QED BY <2>2, <2>3, <2>4
<1>3. ChainsOK'
  <2>1. phase' \notin {"starting", "running", "closing"}
    BY <1>1
  <2> QED BY <1>2, <2>1 DEF ChainsOK
<1>4. RulesOK'
  BY <1>1 DEF RulesOK
<1> QED BY <1>1, <1>3, <1>4

\* The start.
LEMMA StartBalancerInv ==
  ASSUME BalancerInv, StartBalancer
  PROVE  BalancerInv'
<1> USE DEF BalancerInv
<1>0. /\ phase = "down" /\ phase' = "starting" /\ table' = "nat"
      /\ prog' = SetupChain(StartHooks("nat"))
      /\ setup' = [t \in Table |-> FALSE] /\ ipt' = ipt /\ UNCHANGED serv
      /\ failures' = failures /\ crashes' = crashes /\ starts' = starts + 1 /\ starts < MaxStarts
      /\ undeleted' = {}
  BY DEF StartBalancer
<1>1. JobOK' /\ ServicesOff' /\ ForwardersOK' /\ WantedOK'
  BY <1>0, ServicesQuiet
<1>2. "nat" \in Table /\ "filter" \in Table
  BY DEF Table
<1>3. TablesOK'
  BY <1>0 DEF TablesOK
<1>9. FailuresOK' /\ (Orderly' => Orderly)
  <2>1. IsFiniteSet({}) /\ Cardinality({}) = 0
    BY FS_EmptySet
  <2>2. failures \in Nat
    BY BalancerAssumption DEF TypeOK
  <2>3. FailuresOK'
    BY <1>0, <2>1, <2>2 DEF FailuresOK
  <2>4. Cardinality(undeleted) \in Nat /\ Cardinality(undeleted) <= failures
    BY FS_CardinalityType DEF FailuresOK
  <2>5. Orderly' => Orderly
    BY <1>0, <2>1, <2>2, <2>4 DEF Orderly, OnlyDeletionsFailed
  <2> QED BY <2>3, <2>5
<1>4. TypeOK'
  <2>1. starts' \in 0 .. MaxStarts /\ starts' # 0
    BY <1>0, BalancerAssumption DEF TypeOK
  <2>2. failures' \in 0 .. MaxFailures /\ wanted' \in [Name -> Service \cup {None}]
        /\ UNCHANGED <<svcs, forwarders, work, job>>
    BY <1>0 DEF TypeOK, serv
  <2> QED BY <1>0, <1>2, <1>3, <2>1, <2>2, TypeFromTables
<1>5. SettingUp("nat", 1)'
  <2>1. Setup("nat") \in Seq(Command) /\ Len(Setup("nat")) = 7
    BY <1>2, SetupCommands
  <2>2. SubSeq(Setup("nat"), 1, 7) = Setup("nat")
    <3>1. 7 \in Nat /\ 1 \in 1 .. 7
      OBVIOUS
    <3> QED BY <2>1, <3>1, RestOfCommands, Zenon
  <2>3. prog' = SetupFrom("nat", 1)
    BY <1>0, <2>2 DEF SetupFrom, Setup
  <2> QED BY <1>0, <2>3 DEF SettingUp
<1>6. ChainsOK'
  <2>1. HalfWay("nat", 1)'
    BY DEF HalfWay
  <2>2. ASSUME Orderly' PROVE SetupOrderly("nat", 1)'
    <3>1. Orderly
      BY <1>9, <2>2
    <3>2. ipt["filter"] = NoChain("filter") /\ (ipt["nat"] = NoChain("nat") \/ Left)
      BY <1>0, <1>2, <3>1 DEF StopsOrderly
    <3>3. Left => Left'
      BY <1>0 DEF Left, Bare
    <3> QED BY <1>0, <3>2, <3>3 DEF SetupOrderly
  <2>3. \E t \in Table, i \in 1 .. 7 :
          SettingUp(t, i)' /\ HalfWay(t, i)' /\ (Orderly' => SetupOrderly(t, i)')
    BY <1>2, <1>5, <2>1, <2>2
  <2> QED BY <1>0, <2>3 DEF ChainsOK
<1>7. RulesOK'
  BY <1>0 DEF RulesOK
<1>8. StopsOrderly'
  <2>1. starts' # 0
    BY <1>0, BalancerAssumption DEF TypeOK
  <2>2. setup' = [u \in Table |-> u = "nat" /\ table' = "filter"]
    BY <1>0
  <2> QED BY <1>0, <2>1, <2>2 DEF StopsOrderly
<1> QED BY <1>1, <1>3, <1>4, <1>6, <1>7, <1>8, <1>9
-----------------------------------------------------------------------------
(***************************************************************************)
(* The set-up of the chains, command by command.                           *)
(***************************************************************************)
\* What the invariant says of a set-up under way, and what a command does.
SetupContext(t, i, end) ==
  /\ TypeOK /\ TablesOK /\ TablesOK'
  /\ \/ /\ end = "ok" /\ Accepts(ipt[t], Setup(t)[i])
        /\ ipt'[t] = Effect(ipt[t], Setup(t)[i])
     \/ end # "ok" /\ ipt' = ipt
  /\ \A u \in Table : u # t => ipt'[u] = ipt[u]
  /\ Orderly' => Orderly /\ end # "broken"
  /\ Orderly' /\ end = "refused" => ~Accepts(ipt[t], Setup(t)[i])
  /\ HalfWay(t, i) /\ (Orderly => SetupOrderly(t, i))
  /\ end \in {"ok", "refused", "broken"}

\* -F: to -D, or on to -N where there was no chain.
LEMMA SetupFlush ==
  ASSUME NEW t \in Table, NEW end, SetupContext(t, 1, end)
  PROVE  Orderly' => SetupOrderly(t, IF end = "refused" THEN 5 ELSE 2)'
<1> SUFFICES ASSUME Orderly' PROVE SetupOrderly(t, IF end = "refused" THEN 5 ELSE 2)'
  OBVIOUS
<1>1. Orderly /\ end # "broken" /\ SetupOrderly(t, 1)
  BY DEF SetupContext, Orderly
<1>2. Setup(t)[1].op = "F"
  BY SetupCommands, CmdOp, Zenon
<1>3. t = "nat" => ipt'["filter"] = NoChain("filter")
  BY <1>1 DEF SetupContext, SetupOrderly, Table
<1>4. TableOK(t, ipt[t])
  BY DEF SetupContext, TablesOK
<1>5. CASE end = "ok"
  <2>1. ipt'[t] = Effect(ipt[t], Setup(t)[1]) /\ Accepts(ipt[t], Setup(t)[1])
    BY <1>5 DEF SetupContext
  <2>2. ipt'[t].exists /\ ipt'[t].rules = <<>>
    BY <1>2, <1>4, <2>1, FlushEffect
  <2>3. SetupOrderly(t, 2)'
    BY <1>3, <2>2 DEF SetupOrderly, Bare
  <2> QED BY <1>5, <2>3
<1>6. CASE end = "refused"
  <2>1. ~Accepts(ipt[t], Setup(t)[1]) /\ ipt' = ipt
    BY <1>6 DEF SetupContext, Orderly
  <2>2. ~ipt[t].exists
    BY <1>2, <2>1 DEF Accepts
  <2>3. ipt[t] = NoChain(t)
    BY <1>1, <2>2 DEF SetupOrderly, Left, Bare
  <2>4. SetupOrderly(t, 5)'
    BY <1>3, <2>1, <2>3 DEF SetupOrderly
  <2> QED BY <1>6, <2>4
<1> QED BY <1>1, <1>5, <1>6 DEF SetupContext

\* -D: again, or to the next.
LEMMA SetupUnhook ==
  ASSUME NEW t \in Table, NEW i \in {2, 3}, NEW end, SetupContext(t, i, end)
  PROVE  Orderly' => end # "broken" /\ SetupOrderly(t, IF end = "refused" THEN i + 1 ELSE i)'
<1> SUFFICES ASSUME Orderly'
             PROVE  end # "broken" /\ SetupOrderly(t, IF end = "refused" THEN i + 1 ELSE i)'
  OBVIOUS
<1>1. Orderly /\ end # "broken" /\ SetupOrderly(t, i)
  BY DEF SetupContext, Orderly
<1> DEFINE a == StartHooks(t)[1]
           b == StartHooks(t)[2]
           c == Setup(t)[i]
           h == IF i = 2 THEN a ELSE b
<1>2. /\ c.op = "D" /\ c.arg = h
      /\ a \in Hook(t) /\ b \in Hook(t) /\ a # b /\ \A k \in Hook(t) : k = a \/ k = b
  <2>1. c = Cmd("D", h)
    <3>1. Setup(t)[2] = Cmd("D", a) /\ Setup(t)[3] = Cmd("D", b)
      BY SetupCommands, Zenon
    <3> QED BY <3>1
  <2>2. c.op = "D" /\ c.arg = h
    BY <2>1, CmdOp
  <2> QED BY <2>2, SetupCommands, Zenon
<1>3. t = "nat" => ipt'["filter"] = NoChain("filter")
  BY <1>1 DEF SetupContext, SetupOrderly, Table
<1>4. TableOK(t, ipt[t]) /\ ipt[t].refs \in [Hook(t) -> Nat]
  BY DEF SetupContext, TablesOK, TableOK
<1>7. ipt[t].exists /\ ipt[t].rules = <<>> /\ (i = 3 => ipt[t].refs[a] = 0)
  BY <1>1 DEF SetupOrderly, Bare
<1>5. CASE end = "ok"
  <2>1. ipt'[t] = Effect(ipt[t], c) /\ Accepts(ipt[t], c)
    BY <1>5 DEF SetupContext
  <2>2. h \in Hook(t)
    BY <1>2
  <2>3. /\ ipt'[t].exists /\ ipt'[t].rules = ipt[t].rules
        /\ ipt'[t].refs = [ipt[t].refs EXCEPT ![h] = @ - 1]
    BY <1>2, <1>4, <2>1, <2>2, UnhookEffect
  <2>4. i = 3 => ipt'[t].refs[a] = 0
    BY <1>2, <1>4, <1>7, <2>3
  <2>5. SetupOrderly(t, i)'
    BY <1>3, <1>7, <2>3, <2>4 DEF SetupOrderly, Bare
  <2> QED BY <1>1, <1>5, <2>5
<1>6. CASE end = "refused"
  <2>1. ~Accepts(ipt[t], c) /\ ipt' = ipt
    BY <1>6 DEF SetupContext, Orderly
  <2>2. ipt[t].refs[h] = 0
    BY <1>2, <1>4, <2>1 DEF Accepts
  <2>3. ipt'[t].refs[a] = 0 /\ (i = 3 => ipt'[t].refs[b] = 0)
    BY <1>7, <2>1, <2>2
  <2>4. i = 3 => Unhooked(t)'
    BY <1>2, <2>3 DEF Unhooked
  <2>5. SetupOrderly(t, i + 1)'
    BY <1>3, <1>7, <2>1, <2>3, <2>4 DEF SetupOrderly, Bare
  <2> QED BY <1>6, <2>5
<1> QED BY <1>1, <1>5, <1>6 DEF SetupContext

\* -X: to -N, and orderly only if it was not refused.
LEMMA SetupDelete ==
  ASSUME NEW t \in Table, NEW end, SetupContext(t, 4, end)
  PROVE  Orderly' => end = "ok" /\ SetupOrderly(t, 5)'
<1> SUFFICES ASSUME Orderly' PROVE end = "ok" /\ SetupOrderly(t, 5)'
  OBVIOUS
<1>1. Orderly /\ end # "broken" /\ SetupOrderly(t, 4)
  BY DEF SetupContext, Orderly
<1>2. Setup(t)[4].op = "X"
  BY SetupCommands, CmdOp, Zenon
<1>3. t = "nat" => ipt'["filter"] = NoChain("filter")
  BY <1>1 DEF SetupContext, SetupOrderly, Table
<1>4. TableOK(t, ipt[t]) /\ ipt[t].refs \in [Hook(t) -> Nat]
  BY DEF SetupContext, TablesOK, TableOK
<1>5. Accepts(ipt[t], Setup(t)[4])
  <2>1. ipt[t].exists /\ ipt[t].rules = <<>> /\ \A h \in Hook(t) : ipt[t].refs[h] = 0
    BY <1>1 DEF SetupOrderly, Bare, Unhooked
  <2>3. DOMAIN ipt[t].refs = Hook(t)
    BY <1>4
  <2> QED BY <1>2, <2>1, <2>3 DEF Accepts
<1>6. end = "ok"
  BY <1>1, <1>5 DEF SetupContext, Orderly
<1>7. ipt'[t] = NoChain(t)
  <2>1. ipt'[t] = Effect(ipt[t], Setup(t)[4])
    BY <1>6 DEF SetupContext
  <2> QED BY <1>2, <1>4, <1>5, <2>1, DeleteEffect
<1> QED BY <1>3, <1>6, <1>7 DEF SetupOrderly

\* -N: to -I, with an empty chain that nothing jumps to.
LEMMA SetupNew ==
  ASSUME NEW t \in Table, NEW end, SetupContext(t, 5, end)
  PROVE  /\ end = "ok" => HalfWay(t, 6)'
         /\ Orderly' => end = "ok" /\ SetupOrderly(t, 6)'
<1>2. Setup(t)[5].op = "N"
  BY SetupCommands, CmdOp, Zenon
<1>4. TableOK(t, ipt[t])
  BY DEF SetupContext, TablesOK
<1>5. ASSUME end = "ok" PROVE HalfWay(t, 6)'
  <2>1. ipt'[t] = Effect(ipt[t], Setup(t)[5]) /\ Accepts(ipt[t], Setup(t)[5])
    BY <1>5 DEF SetupContext
  <2>2. ipt'[t].exists /\ ipt'[t].rules = <<>> /\ \A h \in Hook(t) : ipt'[t].refs[h] = 0
    BY <1>2, <1>4, <2>1, NewEffect
  <2> QED BY <2>2 DEF HalfWay, Bare, Unhooked
<1>6. ASSUME Orderly' PROVE end = "ok" /\ SetupOrderly(t, 6)'
  <2>1. Orderly /\ end # "broken" /\ SetupOrderly(t, 5)
    BY <1>6 DEF SetupContext, Orderly
  <2>2. Accepts(ipt[t], Setup(t)[5])
    <3>1. ipt[t] = NoChain(t)
      BY <2>1 DEF SetupOrderly
    <3>2. ~NoChain(t).exists
      BY DEF NoChain
    <3> QED BY <1>2, <3>1, <3>2 DEF Accepts
  <2>3. end = "ok"
    BY <1>6, <2>1, <2>2 DEF SetupContext, Orderly
  <2>4. t = "nat" => ipt'["filter"] = NoChain("filter")
    BY <2>1 DEF SetupContext, SetupOrderly, Table
  <2> QED BY <2>3, <2>4 DEF SetupOrderly
<1> QED BY <1>5, <1>6

\* -I: the chain is hooked, once, in the first and then in the second.
LEMMA SetupHook ==
  ASSUME NEW t \in Table, NEW i \in {6, 7}, NEW end, SetupContext(t, i, end)
  PROVE  /\ end = "ok" /\ i = 6 => HalfWay(t, 7)'
         /\ end = "ok" /\ i = 7 => Bare(t)' /\ Hooked(t)'
         /\ Orderly' => end = "ok" /\ SetupOrderly(t, 7)'
<1> DEFINE a == StartHooks(t)[1]
           b == StartHooks(t)[2]
           c == Setup(t)[i]
           h == IF i = 6 THEN a ELSE b
<1>2. /\ c.op = "I" /\ c.arg = h
      /\ a \in Hook(t) /\ b \in Hook(t) /\ a # b /\ \A k \in Hook(t) : k = a \/ k = b
  <2>1. c = Cmd("I", h)
    <3>1. Setup(t)[6] = Cmd("I", a) /\ Setup(t)[7] = Cmd("I", b)
      BY SetupCommands, Zenon
    <3> QED BY <3>1
  <2>2. c.op = "I" /\ c.arg = h
    BY <2>1, CmdOp
  <2> QED BY <2>2, SetupCommands, Zenon
<1>4. TableOK(t, ipt[t]) /\ ipt[t].refs \in [Hook(t) -> Nat]
  BY DEF SetupContext, TablesOK, TableOK
<1>7. /\ ipt[t].exists /\ ipt[t].rules = <<>> /\ ipt[t].refs[b] = 0
      /\ ipt[t].refs[a] = (IF i = 6 THEN 0 ELSE 1)
  <2>1. HalfWay(t, i)
    BY DEF SetupContext
  <2> QED BY <1>2, <2>1 DEF HalfWay, Bare, Unhooked
<1>8. Accepts(ipt[t], c)
  BY <1>2, <1>7 DEF Accepts
<1>5. ASSUME end = "ok"
      PROVE  (i = 6 => HalfWay(t, 7)') /\ (i = 7 => Bare(t)' /\ Hooked(t)')
  <2>1. ipt'[t] = Effect(ipt[t], c)
    BY <1>5 DEF SetupContext
  <2>2. h \in Hook(t)
    BY <1>2
  <2>3. /\ ipt'[t].exists /\ ipt'[t].rules = ipt[t].rules
        /\ ipt'[t].refs = [ipt[t].refs EXCEPT ![h] = @ + 1]
    BY <1>2, <1>4, <1>8, <2>1, <2>2, HookEffect
  <2>4. Bare(t)'
    BY <1>7, <2>3 DEF Bare
  <2>5. ipt'[t].refs[a] = 1 /\ ipt'[t].refs[b] = IF i = 6 THEN 0 ELSE 1
    BY <1>2, <1>4, <1>7, <2>3
  <2>6. i = 6 => HalfWay(t, 7)'
    BY <2>4, <2>5 DEF HalfWay
  <2>7. i = 7 => Hooked(t)'
    BY <1>2, <2>3, <2>5 DEF Hooked
  <2> QED BY <2>4, <2>6, <2>7
<1>6. ASSUME Orderly' PROVE end = "ok" /\ SetupOrderly(t, 7)'
  <2>1. Orderly /\ end # "broken" /\ SetupOrderly(t, i)
    BY <1>6 DEF SetupContext, Orderly
  <2>3. end = "ok"
    BY <1>6, <1>8, <2>1 DEF SetupContext, Orderly
  <2>4. t = "nat" => ipt'["filter"] = NoChain("filter")
    BY <2>1 DEF SetupContext, SetupOrderly, Table
  <2> QED BY <2>3, <2>4 DEF SetupOrderly
<1> QED BY <1>5, <1>6
\* Where a command leaves the set-up.
LEMMA SetupGoes ==
  ASSUME NEW t \in Table, NEW i \in 1 .. 7, NEW end, SetupContext(t, i, end),
         NEW rest, rest = Rest(SetupFrom(t, i), end)
  PROVE  \/ rest = Fail /\ rest # <<>> /\ ~Orderly'
         \/ /\ rest = <<>> /\ rest # Fail /\ Bare(t)' /\ Hooked(t)'
            /\ Orderly' => SetupOrderly(t, 7)'
         \/ \E j \in 1 .. 7 : /\ rest = SetupFrom(t, j) /\ rest # <<>> /\ rest # Fail
                              /\ HalfWay(t, j)' /\ (Orderly' => SetupOrderly(t, j)')
<1>1. end \in {"ok", "refused", "broken"}
  BY DEF SetupContext
<1>2. /\ i = 1 => rest = SetupFrom(t, IF end = "refused" THEN 5 ELSE 2)
      /\ i \in {2, 3} => rest = IF end = "ok" THEN SetupFrom(t, i)
                           ELSE IF end = "refused" THEN SetupFrom(t, i + 1) ELSE Fail
      /\ i \in 4 .. 7 => rest = IF end = "ok" THEN SetupFrom(t, i + 1) ELSE Fail
  BY <1>1, SetupRest
<1>3. \A j \in 1 .. 7 : SetupFrom(t, j) # <<>> /\ SetupFrom(t, j) # Fail
  BY SetupRest
<1>4. SetupFrom(t, 8) = <<>>
  <2>1. 8 \in Int /\ 7 \in Int /\ 7 < 8
    OBVIOUS
  <2> QED BY <2>1, SubSeqEmpty, Zenon DEF SetupFrom
<1>5. Fail # <<>>
  BY DEF Fail
<1>6. \A j \in {2, 3, 4, 5} : HalfWay(t, j)'
  BY DEF HalfWay
<1>7. CASE i = 1
  <2>1. PICK j \in {2, 5} : j = IF end = "refused" THEN 5 ELSE 2
    OBVIOUS
  <2>2. rest = SetupFrom(t, j) /\ (Orderly' => SetupOrderly(t, j)')
    BY <1>2, <1>7, <2>1, SetupFlush
  <2> QED BY <1>3, <1>6, <2>1, <2>2
<1>8. CASE i \in {2, 3}
  <2>1. CASE end = "broken"
    <3>1. rest = Fail
      BY <1>2, <1>8, <2>1
    <3>2. ~Orderly'
      BY <1>8, <2>1, SetupUnhook
    <3> QED BY <1>5, <3>1, <3>2
  <2>2. CASE end # "broken"
    <3>1. PICK j \in {2, 3, 4} : j = IF end = "refused" THEN i + 1 ELSE i
      BY <1>8
    <3>2. Orderly' => SetupOrderly(t, j)'
      BY <1>8, <3>1, SetupUnhook
    <3>3. rest = SetupFrom(t, j)
      BY <1>1, <1>2, <1>8, <2>2, <3>1
    <3> QED BY <1>3, <1>6, <3>1, <3>2, <3>3
  <2> QED BY <2>1, <2>2
<1>9. CASE i \in 4 .. 7 /\ end # "ok"
  <2>1. rest = Fail
    BY <1>2, <1>9
  <2>2. i \in {4, 5, 6, 7}
    BY <1>9
  <2>3. ~Orderly'
    BY <1>9, <2>2, SetupDelete, SetupNew, SetupHook
  <2> QED BY <1>5, <2>1, <2>3
<1>10. CASE i = 4 /\ end = "ok"
  <2>1. rest = SetupFrom(t, 5)
    BY <1>2, <1>10
  <2> QED BY <1>3, <1>6, <1>10, <2>1, SetupDelete
<1>11. CASE i = 5 /\ end = "ok"
  <2>1. rest = SetupFrom(t, 6)
    BY <1>2, <1>11
  <2> QED BY <1>3, <1>11, <2>1, SetupNew
<1>12. CASE i = 6 /\ end = "ok"
  <2>1. rest = SetupFrom(t, 7)
    BY <1>2, <1>12
  <2> QED BY <1>3, <1>12, <2>1, SetupHook
<1>13. CASE i = 7 /\ end = "ok"
  <2>1. rest = SetupFrom(t, 8)
    BY <1>2, <1>13
  <2> QED BY <1>4, <1>5, <1>13, <2>1, SetupHook
<1>14. i = 1 \/ i \in {2, 3} \/ i = 4 \/ i = 5 \/ i = 6 \/ i = 7
  OBVIOUS
<1> QED BY <1>7, <1>8, <1>9, <1>10, <1>11, <1>12, <1>13, <1>14

\* Every command of the set-up leaves a table as it should be.
LEMMA SetupKeepsTable ==
  ASSUME NEW t \in Table, NEW i \in 1 .. 7, NEW x, TableOK(t, x), Accepts(x, Setup(t)[i])
  PROVE  TableOK(t, Effect(x, Setup(t)[i]))
<1>1. CASE i = 1
  <2>1. Setup(t)[1].op = "F"
    BY SetupCommands, CmdOp, Zenon
  <2> QED BY <1>1, <2>1, FlushEffect
<1>2. CASE i \in {2, 3}
  <2>1. PICK h \in Hook(t) : Setup(t)[i] = Cmd("D", h)
    BY <1>2, SetupCommands
  <2>2. Setup(t)[i].op = "D" /\ Setup(t)[i].arg = h
    BY <2>1, CmdOp
  <2> QED BY <2>2, UnhookEffect
<1>3. CASE i = 4
  <2>1. Setup(t)[4].op = "X"
    BY SetupCommands, CmdOp, Zenon
  <2> QED BY <1>3, <2>1, DeleteEffect
<1>4. CASE i = 5
  <2>1. Setup(t)[5].op = "N"
    BY SetupCommands, CmdOp, Zenon
  <2> QED BY <1>4, <2>1, NewEffect
<1>5. CASE i \in {6, 7}
  <2>1. PICK h \in Hook(t) : Setup(t)[i] = Cmd("I", h)
    BY <1>5, SetupCommands
  <2>2. Setup(t)[i].op = "I" /\ Setup(t)[i].arg = h
    BY <2>1, CmdOp
  <2> QED BY <2>2, HookEffect
<1> QED BY <1>1, <1>2, <1>3, <1>4, <1>5

\* A command of the set-up keeps the invariant.
LEMMA SetupCommandInv ==
  ASSUME BalancerInv, SetupCommand
  PROVE  BalancerInv'
<1> USE DEF BalancerInv
<1>0. phase = "starting" /\ UNCHANGED <<serv, undeleted, crashes, starts>>
  BY DEF SetupCommand
<1>1. PICK t \in Table, i \in 1 .. 7 :
        SettingUp(t, i) /\ HalfWay(t, i) /\ (Orderly => SetupOrderly(t, i))
  BY <1>0 DEF ChainsOK
<1>2. table = t /\ prog = SetupFrom(t, i)
  BY <1>1 DEF SettingUp
<1>3. PICK end \in {"ok", "refused", "broken"} :
        /\ Ends(t, Head(prog), end)
        /\ LET rest == Rest(prog, end)
           IN \/ /\ rest = Fail
                 /\ StopTables(setup)
              \/ /\ rest \notin {Fail, <<>>}
                 /\ prog' = rest /\ UNCHANGED <<phase, table, setup>>
              \/ /\ rest = <<>> /\ table = "nat"
                 /\ setup' = [setup EXCEPT !["nat"] = TRUE]
                 /\ table' = "filter" /\ prog' = SetupChain(StartHooks("filter"))
                 /\ UNCHANGED phase
              \/ /\ rest = <<>> /\ table = "filter"
                 /\ setup' = [setup EXCEPT !["filter"] = TRUE]
                 /\ phase' = "running" /\ prog' = <<>> /\ UNCHANGED table
  BY <1>2, Zenon DEF SetupCommand
<1>4. Head(prog) = Setup(t)[i]
  BY <1>2, SetupRest
<1>5. /\ TablesOK'
      /\ failures' \in 0 .. MaxFailures /\ failures' \in {failures, failures + 1}
      /\ failures' = 0 => failures = 0
      /\ \A u \in Table : u # t => ipt'[u] = ipt[u]
      /\ \/ end = "ok" /\ Accepts(ipt[t], Setup(t)[i]) /\ ipt'[t] = Effect(ipt[t], Setup(t)[i])
         \/ end # "ok" /\ ipt' = ipt
      /\ end = "refused" /\ failures' = failures => ~Accepts(ipt[t], Setup(t)[i])
      /\ failures' = failures => end # "broken"
  <2>1. TableOK(t, ipt[t])
    BY DEF TablesOK
  <2>2. Accepts(ipt[t], Setup(t)[i]) => TableOK(t, Effect(ipt[t], Setup(t)[i]))
    BY <2>1, SetupKeepsTable
  <2>3. Ends(t, Setup(t)[i], end)
    BY <1>3, <1>4
  <2> QED BY <2>2, <2>3, EndsDo
<1>19. FailuresOK' /\ (Orderly' => Orderly /\ failures' = failures)
  BY <1>0, <1>5, StillOrderly
<1>6. SetupContext(t, i, end)
  BY <1>1, <1>3, <1>5, <1>19 DEF SetupContext
<1> DEFINE rest == Rest(prog, end)
<1>7. rest = Rest(SetupFrom(t, i), end)
  BY <1>2
<1>8. \/ rest = Fail /\ StopTables(setup)
      \/ rest \notin {Fail, <<>>} /\ prog' = rest /\ UNCHANGED <<phase, table, setup>>
      \/ /\ rest = <<>> /\ t = "nat"
         /\ setup' = [setup EXCEPT !["nat"] = TRUE]
         /\ table' = "filter" /\ prog' = SetupChain(StartHooks("filter"))
         /\ UNCHANGED phase
      \/ /\ rest = <<>> /\ t = "filter"
         /\ setup' = [setup EXCEPT !["filter"] = TRUE]
         /\ phase' = "running" /\ prog' = <<>> /\ UNCHANGED table
  BY <1>2, <1>3
<1> HIDE DEF rest
<1>9. \/ rest = Fail /\ rest # <<>> /\ ~Orderly'
      \/ /\ rest = <<>> /\ rest # Fail /\ Bare(t)' /\ Hooked(t)'
         /\ Orderly' => SetupOrderly(t, 7)'
      \/ \E j \in 1 .. 7 : /\ rest = SetupFrom(t, j) /\ rest # <<>> /\ rest # Fail
                           /\ HalfWay(t, j)' /\ (Orderly' => SetupOrderly(t, j)')
  BY <1>6, <1>7, SetupGoes
<1>10. "nat" \in Table /\ "filter" \in Table /\ setup \in [Table -> BOOLEAN]
       /\ \A u \in Table : u = "nat" \/ u = "filter"
  BY DEF Table, TypeOK
<1>11. Orderly' => Orderly
  BY <1>19
\* What is the same of them all.
<1>12. ASSUME phase' \in {"down", "starting", "running", "stopping"},
              table' \in Table, setup' \in [Table -> BOOLEAN]
       PROVE  TypeOK' /\ JobOK' /\ ServicesOff' /\ ForwardersOK' /\ WantedOK' /\ FailuresOK'
  <2>1. JobOK' /\ ServicesOff' /\ ForwardersOK' /\ WantedOK'
    BY <1>0, <1>5, <1>12, ServicesQuiet
  <2>2. UNCHANGED <<svcs, forwarders, work, job>> /\ wanted' \in [Name -> Service \cup {None}]
        /\ starts' \in 0 .. MaxStarts /\ undeleted' \subseteq undeleted \cup (Table \X AnyRule)
    BY <1>0 DEF serv, TypeOK
  <2>3. TypeOK'
    BY <1>0, <1>5, <1>12, <2>2, TypeFromTables
  <2> QED BY <1>19, <2>1, <2>3
<1>13. CASE rest = Fail /\ StopTables(setup) /\ ~Orderly'
  <2>1. /\ ChainsOK' /\ RulesOK' /\ table' \in Table /\ setup' \in [Table -> BOOLEAN]
        /\ phase' \in {"stopping", "down"}
    BY <1>10, <1>13, StopBeginsOK
  <2>2. StopsOrderly'
    BY <1>13 DEF StopsOrderly
  <2> QED BY <1>5, <1>12, <2>1, <2>2
<1>14. CASE rest \notin {Fail, <<>>} /\ prog' = rest /\ UNCHANGED <<phase, table, setup>>
  <2>1. PICK j \in 1 .. 7 : /\ rest = SetupFrom(t, j)
                            /\ HalfWay(t, j)' /\ (Orderly' => SetupOrderly(t, j)')
    BY <1>9, <1>14
  <2>2. SettingUp(t, j)'
    BY <1>0, <1>2, <1>14, <2>1 DEF SettingUp
  <2>3. phase' = "starting" /\ table' = t /\ setup' = setup
    BY <1>0, <1>2, <1>14
  <2>4. table' = "filter" => Bare("nat")' /\ Hooked("nat")'
    BY <1>0, <1>2, <1>5, <1>10, <2>3 DEF ChainsOK, Bare, Hooked
  <2>5. ChainsOK'
    BY <2>1, <2>2, <2>3, <2>4 DEF ChainsOK
  <2>6. RulesOK'
    BY <2>3 DEF RulesOK
  <2>7. StopsOrderly'
    <3>1. Orderly => starts # 0 /\ setup = [u \in Table |-> u = "nat" /\ table = "filter"]
      BY <1>0 DEF StopsOrderly
    <3> QED BY <1>0, <1>2, <1>11, <2>3, <3>1 DEF StopsOrderly
  <2>8. setup' \in [Table -> BOOLEAN] /\ table' \in Table
    BY <1>10, <2>3
  <2> QED BY <1>5, <1>12, <2>3, <2>5, <2>6, <2>7, <2>8
<1>15. CASE /\ rest = <<>> /\ t = "nat"
            /\ setup' = [setup EXCEPT !["nat"] = TRUE]
            /\ table' = "filter" /\ prog' = SetupChain(StartHooks("filter"))
            /\ UNCHANGED phase
  <2>1. Bare("nat")' /\ Hooked("nat")' /\ (Orderly' => SetupOrderly("nat", 7)')
    BY <1>9, <1>15
  <2>2. SettingUp("filter", 1)'
    <3>1. Setup("filter") \in Seq(Command) /\ Len(Setup("filter")) = 7
      BY <1>10, SetupCommands
    <3>2. SubSeq(Setup("filter"), 1, 7) = Setup("filter")
      <4>1. 7 \in Nat /\ 1 \in 1 .. 7
        OBVIOUS
      <4> QED BY <3>1, <4>1, RestOfCommands, Zenon
    <3>3. prog' = SetupFrom("filter", 1)
      BY <1>15, <3>2 DEF SetupFrom, Setup
    <3> QED BY <1>0, <1>15, <3>3 DEF SettingUp
  <2>3. HalfWay("filter", 1)' /\ (Orderly' => SetupOrderly("filter", 1)')
    BY <2>1 DEF HalfWay, SetupOrderly
  <2>4. ChainsOK'
    <3>1. \E u \in Table, j \in 1 .. 7 :
            SettingUp(u, j)' /\ HalfWay(u, j)' /\ (Orderly' => SetupOrderly(u, j)')
      BY <1>10, <2>2, <2>3
    <3>2. phase' = "starting"
      BY <1>0, <1>15
    <3> QED BY <2>1, <3>1, <3>2 DEF ChainsOK
  <2>5. RulesOK'
    BY <1>0, <1>15 DEF RulesOK
  <2>6. StopsOrderly'
    <3>1. Orderly => starts # 0 /\ setup = [u \in Table |-> u = "nat" /\ table = "filter"]
      BY <1>0 DEF StopsOrderly
    <3>2. Orderly => setup' = [u \in Table |-> u = "nat" /\ table' = "filter"]
      BY <1>10, <1>2, <1>15, <3>1
    <3> QED BY <1>0, <1>11, <1>15, <3>1, <3>2 DEF StopsOrderly
  <2>7. setup' \in [Table -> BOOLEAN]
    BY <1>10, <1>15
  <2> QED BY <1>0, <1>5, <1>10, <1>12, <1>15, <2>4, <2>5, <2>6, <2>7
<1>16. CASE /\ rest = <<>> /\ t = "filter"
            /\ setup' = [setup EXCEPT !["filter"] = TRUE]
            /\ phase' = "running" /\ prog' = <<>> /\ UNCHANGED table
  <2>1. Bare("filter")' /\ Hooked("filter")'
    BY <1>9, <1>16
  <2>2. Bare("nat")' /\ Hooked("nat")'
    BY <1>0, <1>2, <1>5, <1>10, <1>16 DEF ChainsOK, Bare, Hooked
  <2>4. ChainsOK'
    <3>1. \A u \in Table : Hooked(u)'
      BY <1>10, <2>1, <2>2
    <3> QED BY <1>16, <3>1 DEF ChainsOK
  <2>5. RulesOK'
    <3>1. svcs' = [n \in Name |-> None] /\ job' = NoJob
      BY <1>0 DEF ServicesOff, serv
    <3>2. Pending' = None
      BY <3>1 DEF Pending, NoJob
    <3>3. ASSUME NEW u \in Table, NEW r \in AnyRule
          PROVE  Needed(u, r)' = 0 /\ Present(u, r)' = 0
      <4>1. Holders(u, r)' = {}
        BY <3>1 DEF Holders, Holding
      <4>2. Cardinality({}) = 0
        BY FS_EmptySet
      <4>3. Needed(u, r)' = 0
        BY <3>2, <4>1, <4>2 DEF Needed, Needs
      <4>4. ipt'[u].rules = <<>>
        BY <1>10, <2>1, <2>2 DEF Bare
      <4>5. Places(ipt'[u].rules, r) = {}
        BY <4>4 DEF Places
      <4> QED BY <4>2, <4>3, <4>5 DEF Present, Count
    <3>4. ASSUME NEW u \in Table, NEW r \in AnyRule
          PROVE  Needed(u, r)' <= Present(u, r)' /\ Needed(u, r)' = Present(u, r)'
      BY <3>3
    <3> QED BY <3>4 DEF RulesOK
  <2>6. StopsOrderly'
    <3>1. Orderly => starts # 0 /\ setup = [u \in Table |-> u = "nat" /\ table = "filter"]
      BY <1>0 DEF StopsOrderly
    <3>2. Orderly => setup' = [u \in Table |-> TRUE]
      BY <1>10, <1>2, <1>16, <3>1
    <3> QED BY <1>0, <1>11, <1>16, <3>1, <3>2 DEF StopsOrderly
  <2>7. setup' \in [Table -> BOOLEAN] /\ table' \in Table
    BY <1>2, <1>10, <1>16
  <2> QED BY <1>0, <1>5, <1>12, <1>16, <2>4, <2>5, <2>6, <2>7
<1>17. \/ rest = Fail /\ StopTables(setup) /\ ~Orderly'
       \/ rest \notin {Fail, <<>>} /\ prog' = rest /\ UNCHANGED <<phase, table, setup>>
       \/ /\ rest = <<>> /\ t = "nat"
          /\ setup' = [setup EXCEPT !["nat"] = TRUE]
          /\ table' = "filter" /\ prog' = SetupChain(StartHooks("filter"))
          /\ UNCHANGED phase
       \/ /\ rest = <<>> /\ t = "filter"
          /\ setup' = [setup EXCEPT !["filter"] = TRUE]
          /\ phase' = "running" /\ prog' = <<>> /\ UNCHANGED table
  BY <1>8, <1>9
<1> QED BY <1>13, <1>14, <1>15, <1>16, <1>17
-----------------------------------------------------------------------------
(***************************************************************************)
(* The chains are taken down, command by command.                          *)
(***************************************************************************)
\* What the invariant says of a taking down under way, and a command does.
StopContext(t, i, end) ==
  /\ TypeOK /\ TablesOK /\ TablesOK'
  /\ \/ /\ end = "ok" /\ Accepts(ipt[t], Teardown(t)[i])
        /\ ipt'[t] = Effect(ipt[t], Teardown(t)[i])
     \/ end # "ok" /\ ipt' = ipt
  /\ \A u \in Table : u # t => ipt'[u] = ipt[u]
  /\ Orderly' => Orderly /\ end # "broken"
  /\ Orderly' /\ end = "refused" => ~Accepts(ipt[t], Teardown(t)[i])
  /\ Orderly => StopOrderly(t, i)
  /\ end \in {"ok", "refused", "broken"}

\* The hook that a command takes the chain out of.
UnhookedBy(t, i) == IF t = "nat" THEN "PREROUTING" ELSE IF i = 2 THEN "FORWARD" ELSE "INPUT"

\* The operations of the commands.
LEMMA TeardownOps ==
  ASSUME NEW t \in Table, NEW i \in 1 .. Len(Teardown(t))
  PROVE  /\ Len(Teardown(t)) = (IF t = "nat" THEN 3 ELSE 4)
         /\ i = 1 => Teardown(t)[i].op = "F"
         /\ i \in 2 .. Len(Teardown(t)) - 1 =>
              /\ Teardown(t)[i].op = "D" /\ Teardown(t)[i].arg = UnhookedBy(t, i)
              /\ UnhookedBy(t, i) \in Hook(t)
         /\ i = Len(Teardown(t)) => Teardown(t)[i].op = "X"
<1> DEFINE s == Teardown(t)
           n == Len(s)
<1>1. CASE t = "nat"
  <2>1. n = 3
    BY <1>1, TeardownCommands, Zenon
  <2>2. s[1] = Cmd("F", "") /\ s[2] = Cmd("D", "PREROUTING") /\ s[n] = Cmd("X", "")
    BY <1>1, TeardownCommands, Zenon
  <2>4. i \in 1 .. n
    OBVIOUS
  <2> HIDE DEF s
  <2> HIDE DEF n
  <2>3. /\ s[1].op = "F" /\ s[2].op = "D" /\ s[n].op = "X" /\ s[2].arg = "PREROUTING"
    BY <2>2, CmdOp
  <2>5. UnhookedBy(t, 2) = "PREROUTING" /\ "PREROUTING" \in Hook(t)
    BY <1>1 DEF UnhookedBy, Hook
  <2>6. i \in 2 .. n - 1 => i = 2
    BY <2>1
  <2>7. n # 1
    BY <2>1
  <2> QED BY <1>1, <2>1, <2>3, <2>4, <2>5, <2>6 DEF s, n
<1>2. CASE t = "filter"
  <2>0. t # "nat"
    BY <1>2
  <2>1. n = 4
    BY <2>0, TeardownCommands, Zenon
  <2>2. /\ s[1] = Cmd("F", "") /\ s[2] = Cmd("D", "FORWARD") /\ s[3] = Cmd("D", "INPUT")
        /\ s[n] = Cmd("X", "")
    BY <1>2, TeardownCommands, Zenon
  <2>4. i \in 1 .. n
    OBVIOUS
  <2> HIDE DEF s
  <2> HIDE DEF n
  <2>3. /\ s[1].op = "F" /\ s[2].op = "D" /\ s[3].op = "D" /\ s[n].op = "X"
        /\ s[2].arg = "FORWARD" /\ s[3].arg = "INPUT"
    BY <2>2, CmdOp
  <2>5. /\ UnhookedBy(t, 2) = "FORWARD" /\ "FORWARD" \in Hook(t)
        /\ UnhookedBy(t, 3) = "INPUT" /\ "INPUT" \in Hook(t)
    BY <1>2 DEF UnhookedBy, Hook
  <2>6. i \in 2 .. n - 1 => i = 2 \/ i = 3
    BY <2>1
  <2> QED BY <1>2, <2>1, <2>3, <2>4, <2>5, <2>6 DEF s, n
<1> QED BY <1>1, <1>2 DEF Table

\* Every command keeps the table as it should be.
LEMMA TeardownKeepsTable ==
  ASSUME NEW t \in Table, NEW i \in 1 .. Len(Teardown(t)), NEW x, TableOK(t, x),
         Accepts(x, Teardown(t)[i])
  PROVE  TableOK(t, Effect(x, Teardown(t)[i]))
<1> DEFINE n == Len(Teardown(t))
           c == Teardown(t)[i]
<1>0. /\ i = 1 => c.op = "F"
      /\ i \in 2 .. n - 1 => c.op = "D" /\ c.arg \in Hook(t)
      /\ i = n => c.op = "X"
      /\ i = 1 \/ i \in 2 .. n - 1 \/ i = n
  <2>1. n \in {3, 4} /\ i \in 1 .. n
    BY TeardownLength
  <2>2. i = 1 \/ i \in 2 .. n - 1 \/ i = n
    BY <2>1
  <2> QED BY <2>2, TeardownOps
<1> HIDE DEF c, n
<1>4. TableOK(t, x) /\ Accepts(x, c)
  BY DEF c
<1>1. CASE c.op = "F"
  BY <1>1, <1>4, FlushEffect DEF c
<1>2. CASE c.op = "D" /\ c.arg \in Hook(t)
  BY <1>2, <1>4, UnhookEffect DEF c
<1>3. CASE c.op = "X"
  BY <1>3, <1>4, DeleteEffect DEF c
<1> QED BY <1>0, <1>1, <1>2, <1>3

\* What a table's taking down leaves for the next one, or at the end.
NextOrderly(t) ==
  /\ t = "nat" => StopOrderly("filter", 1)
  /\ t = "filter" => Left /\ ipt["filter"] = NoChain("filter")

\* -F: to -D; there is a chain where nothing has failed.
LEMMA TeardownFlush ==
  ASSUME NEW t \in Table, NEW end, StopContext(t, 1, end)
  PROVE  Orderly' => end = "ok" /\ StopOrderly(t, 2)'
<1> SUFFICES ASSUME Orderly' PROVE end = "ok" /\ StopOrderly(t, 2)'
  OBVIOUS
<1>1. Orderly /\ end # "broken" /\ StopOrderly(t, 1)
  BY DEF StopContext, Orderly
<1>2. Teardown(t)[1].op = "F"
  BY TeardownOps, TeardownLength
<1>4. TableOK(t, ipt[t])
  BY DEF StopContext, TablesOK
<1>5. ipt[t].exists
  BY <1>1 DEF StopOrderly
<1>6. end = "ok" /\ Accepts(ipt[t], Teardown(t)[1])
  BY <1>1, <1>2, <1>5 DEF StopContext, Orderly, Accepts
<1>7. ipt'[t] = Effect(ipt[t], Teardown(t)[1])
  BY <1>6 DEF StopContext
<1>8. ipt'[t].exists /\ ipt'[t].rules = <<>> /\ ipt'[t].refs = ipt[t].refs
  BY <1>2, <1>4, <1>6, <1>7, FlushEffect
<1>9. \A u \in Table : u # t => ipt'[u] = ipt[u]
  BY DEF StopContext
<1>10. StopOrderly(t, 2)'
  BY <1>1, <1>8, <1>9 DEF StopOrderly, Left, Bare, Hooked, Table
<1> QED BY <1>6, <1>10

\* -D: again, or to the next command.
LEMMA TeardownUnhook ==
  ASSUME NEW t \in Table, NEW i \in 2 .. Len(Teardown(t)) - 1, NEW end, StopContext(t, i, end)
  PROVE  Orderly' => end # "broken" /\ StopOrderly(t, IF end = "refused" THEN i + 1 ELSE i)'
<1> SUFFICES ASSUME Orderly'
             PROVE  end # "broken" /\ StopOrderly(t, IF end = "refused" THEN i + 1 ELSE i)'
  OBVIOUS
<1>1. Orderly /\ end # "broken" /\ StopOrderly(t, i)
  BY DEF StopContext, Orderly
<1> DEFINE c == Teardown(t)[i]
           h == UnhookedBy(t, i)
<1>2. /\ c.op = "D" /\ c.arg = h /\ h \in Hook(t)
      /\ i = 2 \/ (i = 3 /\ t = "filter")
      /\ i # 1
  <2>0. i \in 1 .. Len(Teardown(t))
    BY TeardownLength
  <2>1. Len(Teardown(t)) = (IF t = "nat" THEN 3 ELSE 4) /\ i \in 1 .. Len(Teardown(t))
    BY <2>0, TeardownOps
  <2>2. (i = 2 \/ (i = 3 /\ t = "filter")) /\ i # 1
    BY <2>1 DEF Table
  <2> QED BY <2>1, <2>2, TeardownOps
<1>3. /\ t = "nat" => h = "PREROUTING"
      /\ t = "filter" /\ i = 2 => h = "FORWARD"
      /\ t = "filter" /\ i = 3 => h = "INPUT"
  BY DEF UnhookedBy
<1>4. TableOK(t, ipt[t]) /\ ipt[t].refs \in [Hook(t) -> Nat]
  BY DEF StopContext, TablesOK, TableOK
<1>5. \A u \in Table : u # t => ipt'[u] = ipt[u]
  BY DEF StopContext
<1>6. Bare(t) /\ ipt[t].exists /\ ipt[t].rules = <<>>
  BY <1>1, <1>2 DEF StopOrderly, Bare
<1>7. CASE end = "ok"
  <2>1. ipt'[t] = Effect(ipt[t], c) /\ Accepts(ipt[t], c)
    BY <1>7 DEF StopContext
  <2> HIDE DEF c, h
  <2>2. /\ ipt'[t].exists /\ ipt'[t].rules = ipt[t].rules
        /\ ipt'[t].refs = [ipt[t].refs EXCEPT ![h] = @ - 1]
    BY <1>2, <1>4, <2>1, UnhookEffect
  <2>3. \A k \in Hook(t) : k # h => ipt'[t].refs[k] = ipt[t].refs[k]
    BY <1>2, <1>4, <2>2
  <2>4. StopOrderly(t, i)'
    <3>1. Bare(t)'
      BY <1>6, <2>2 DEF Bare
    <3>2. CASE t = "nat"
      <4>1. ipt'["nat"].refs["OUTPUT"] = 1
        BY <1>1, <1>3, <2>3, <3>2 DEF StopOrderly, Hook
      <4>2. Hooked("filter")'
        BY <1>1, <1>5, <3>2 DEF StopOrderly, Hooked, Table
      <4> QED BY <1>2, <2>2, <3>1, <3>2, <4>1, <4>2 DEF StopOrderly
    <3>3. CASE t = "filter"
      <4>1. Left'
        BY <1>1, <1>5, <3>3 DEF StopOrderly, Left, Bare, Table
      <4>2. i = 3 => ipt'["filter"].refs["FORWARD"] = 0
        BY <1>1, <1>3, <2>3, <3>3 DEF StopOrderly, Hook
      <4> QED BY <1>2, <2>2, <3>1, <3>3, <4>1, <4>2 DEF StopOrderly
    <3> QED BY <3>2, <3>3 DEF Table
  <2> QED BY <1>1, <1>7, <2>4
<1>8. CASE end = "refused"
  <2>1. ~Accepts(ipt[t], c) /\ ipt' = ipt
    BY <1>8 DEF StopContext, Orderly
  <2>2. ipt[t].refs[h] = 0
    BY <1>2, <1>4, <2>1 DEF Accepts
  <2> HIDE DEF c, h
  <2>3. StopOrderly(t, i + 1)
    <3>2. CASE t = "nat"
      BY <1>1, <1>2, <1>3, <1>6, <2>2, <3>2 DEF StopOrderly
    <3>3. CASE t = "filter" /\ i = 2
      BY <1>1, <1>3, <1>6, <2>2, <3>3 DEF StopOrderly
    <3>4. CASE t = "filter" /\ i = 3
      <4>1. Unhooked("filter") /\ ipt["filter"].refs["FORWARD"] = 0
        BY <1>1, <1>3, <2>2, <3>4 DEF StopOrderly, Unhooked, Hook
      <4> QED BY <1>1, <1>6, <3>4, <4>1 DEF StopOrderly
    <3> QED BY <1>2, <3>2, <3>3, <3>4 DEF Table
  <2>4. StopOrderly(t, i + 1)'
    BY <2>1, <2>3 DEF StopOrderly, Left, Bare, Hooked, Unhooked
  <2> QED BY <1>8, <2>4
<1> QED BY <1>1, <1>7, <1>8 DEF StopContext

\* -X: refused for the nat table, and then it is left; done for the other.
LEMMA TeardownDelete ==
  ASSUME NEW t \in Table, NEW end, StopContext(t, Len(Teardown(t)), end)
  PROVE  Orderly' => NextOrderly(t)'
<1> SUFFICES ASSUME Orderly' PROVE NextOrderly(t)'
  OBVIOUS
<1> DEFINE n == Len(Teardown(t))
           c == Teardown(t)[n]
<1>1. Orderly /\ end # "broken" /\ StopOrderly(t, n)
  BY DEF StopContext, Orderly
<1>2. c.op = "X" /\ n = (IF t = "nat" THEN 3 ELSE 4)
  <2>1. n \in {3, 4} /\ n \in 1 .. n
    BY TeardownLength
  <2> QED BY <2>1, TeardownOps
<1>4. TableOK(t, ipt[t]) /\ ipt[t].refs \in [Hook(t) -> Nat] /\ DOMAIN ipt[t].refs = Hook(t)
  BY DEF StopContext, TablesOK, TableOK
<1>5. \A u \in Table : u # t => ipt'[u] = ipt[u]
  BY DEF StopContext
<1>6. Bare(t) /\ ipt[t].exists /\ ipt[t].rules = <<>>
  BY <1>1, <1>2 DEF StopOrderly, Bare
<1>10. /\ \/ end = "ok" /\ Accepts(ipt[t], c) /\ ipt'[t] = Effect(ipt[t], c)
          \/ end # "ok" /\ ipt' = ipt
       /\ end = "refused" => ~Accepts(ipt[t], c)
       /\ end \in {"ok", "refused", "broken"}
  BY DEF StopContext, Orderly
<1> HIDE DEF c
<1>7. CASE t = "nat"
  <2>1. /\ ipt["nat"].refs["OUTPUT"] = 1 /\ ipt["nat"].refs["PREROUTING"] = 0
        /\ Hooked("filter")
    BY <1>1, <1>2, <1>7 DEF StopOrderly
  <2>2. ~Accepts(ipt[t], c)
    BY <1>2, <1>4, <1>7, <2>1 DEF Accepts, Hook
  <2>3. ipt' = ipt
    BY <1>10, <2>2
  <2>4. ipt["nat"].refs = [h \in Hook("nat") |-> IF h = "OUTPUT" THEN 1 ELSE 0]
    BY <1>4, <1>7, <2>1 DEF Hook
  <2>5. Left'
    BY <1>6, <1>7, <2>3, <2>4 DEF Left, Bare
  <2>6. StopOrderly("filter", 1)'
    BY <2>1, <2>3, <2>5 DEF StopOrderly, Hooked
  <2> QED BY <1>7, <2>6 DEF NextOrderly
<1>8. CASE t = "filter"
  <2>1. Unhooked("filter") /\ Left
    BY <1>1, <1>2, <1>8 DEF StopOrderly
  <2>2. Accepts(ipt[t], c)
    BY <1>2, <1>4, <1>6, <1>8, <2>1 DEF Accepts, Unhooked
  <2>3. ipt'[t] = Effect(ipt[t], c)
    BY <1>1, <1>10, <2>2
  <2>4. ipt'["filter"] = NoChain("filter")
    BY <1>2, <1>4, <1>8, <2>2, <2>3, DeleteEffect
  <2>5. Left'
    BY <1>5, <1>8, <2>1 DEF Left, Bare, Table
  <2> QED BY <1>8, <2>4, <2>5 DEF NextOrderly
<1> QED BY <1>7, <1>8 DEF Table

\* Where a command leaves the taking down.
LEMMA TeardownGoes ==
  ASSUME NEW t \in Table, NEW i \in 1 .. Len(Teardown(t)), NEW end, StopContext(t, i, end),
         NEW rest, rest = Rest(TeardownFrom(t, i), end)
  PROVE  \/ rest \in {Fail, <<>>} /\ (Orderly' => NextOrderly(t)')
         \/ \E j \in 1 .. Len(Teardown(t)) :
              /\ rest = TeardownFrom(t, j) /\ rest \notin {Fail, <<>>}
              /\ Orderly' => StopOrderly(t, j)'
<1> DEFINE n == Len(Teardown(t))
<1>0. n \in {3, 4} /\ i \in 1 .. n
  BY TeardownLength
<1>1. end \in {"ok", "refused", "broken"}
  BY DEF StopContext
<1>2. /\ i = 1 => rest = IF end = "refused" THEN <<>> ELSE TeardownFrom(t, 2)
      /\ i \in 2 .. n - 1 => rest = IF end = "ok" THEN TeardownFrom(t, i)
                          ELSE IF end = "refused" THEN TeardownFrom(t, i + 1) ELSE Fail
      /\ i = n => rest = IF end = "ok" THEN <<>> ELSE Fail
  BY <1>1, TeardownRest
<1>3. \A j \in 1 .. n : TeardownFrom(t, j) \notin {Fail, <<>>}
  BY TeardownRest
<1>5. n \in {3, 4} /\ n = Len(Teardown(t))
  BY <1>0
<1> HIDE DEF n
<1>6. CASE i = 1
  <2>1. Orderly' => end = "ok" /\ StopOrderly(t, 2)'
    BY <1>6, TeardownFlush
  <2>2. 2 \in 1 .. n
    BY <1>5
  <2>3. CASE end = "refused"
    BY <1>2, <1>6, <2>1, <2>3
  <2>4. CASE end # "refused"
    BY <1>2, <1>3, <1>5, <1>6, <2>1, <2>2, <2>4
  <2> QED BY <2>3, <2>4
<1>7. CASE i \in 2 .. n - 1
  <2>0. Orderly' => end # "broken" /\ StopOrderly(t, IF end = "refused" THEN i + 1 ELSE i)'
    BY <1>5, <1>7, TeardownUnhook
  <2>1. CASE end = "broken"
    BY <1>2, <1>7, <2>0, <2>1
  <2>2. CASE end # "broken"
    <3>1. PICK j \in 1 .. n : j = IF end = "refused" THEN i + 1 ELSE i
      BY <1>5, <1>7
    <3>2. Orderly' => StopOrderly(t, j)'
      BY <2>0, <3>1
    <3>3. rest = TeardownFrom(t, j)
      BY <1>1, <1>2, <1>7, <2>2, <3>1
    <3> QED BY <1>3, <1>5, <3>2, <3>3
  <2> QED BY <2>1, <2>2
<1>8. CASE i = n
  <2>1. Orderly' => NextOrderly(t)'
    BY <1>5, <1>8, TeardownDelete
  <2>2. rest \in {Fail, <<>>}
    BY <1>2, <1>8
  <2> QED BY <2>1, <2>2
<1>9. i = 1 \/ i \in 2 .. n - 1 \/ i = n
  BY <1>0, <1>5
<1> QED BY <1>6, <1>7, <1>8, <1>9

\* A command of the taking down keeps the invariant.
LEMMA TeardownCommandInv ==
  ASSUME BalancerInv, TeardownCommand
  PROVE  BalancerInv'
<1> USE DEF BalancerInv
<1>0. phase = "stopping" /\ UNCHANGED <<serv, undeleted, crashes, starts>>
  BY DEF TeardownCommand
<1>1. PICK t \in Table : \E i \in 1 .. Len(Teardown(t)) :
        TakingDown(t, i) /\ (Orderly => StopOrderly(t, i))
  BY <1>0 DEF ChainsOK
<1>18. PICK i \in 1 .. Len(Teardown(t)) : TakingDown(t, i) /\ (Orderly => StopOrderly(t, i))
  BY <1>1
<1>2. table = t /\ prog = TeardownFrom(t, i)
  BY <1>18 DEF TakingDown
<1>3. PICK end \in {"ok", "refused", "broken"} :
        /\ Ends(table, Head(prog), end)
        /\ LET rest == Rest(prog, end)
           IN \/ /\ rest \notin {Fail, <<>>}
                 /\ prog' = rest /\ UNCHANGED <<phase, table, setup>>
              \/ /\ rest \in {Fail, <<>>}
                 /\ StopTables(setup)
  BY <1>2, Zenon DEF TeardownCommand
<1>4. Head(prog) = Teardown(t)[i]
  BY <1>2, TeardownRest
<1>5. /\ TablesOK'
      /\ failures' \in 0 .. MaxFailures /\ failures' \in {failures, failures + 1}
      /\ failures' = 0 => failures = 0
      /\ \A u \in Table : u # t => ipt'[u] = ipt[u]
      /\ \/ end = "ok" /\ Accepts(ipt[t], Teardown(t)[i])
            /\ ipt'[t] = Effect(ipt[t], Teardown(t)[i])
         \/ end # "ok" /\ ipt' = ipt
      /\ end = "refused" /\ failures' = failures => ~Accepts(ipt[t], Teardown(t)[i])
      /\ failures' = failures => end # "broken"
  <2>1. TableOK(t, ipt[t])
    BY DEF TablesOK
  <2>2. Accepts(ipt[t], Teardown(t)[i]) => TableOK(t, Effect(ipt[t], Teardown(t)[i]))
    BY <2>1, TeardownKeepsTable
  <2>3. Ends(t, Teardown(t)[i], end)
    BY <1>2, <1>3, <1>4
  <2> QED BY <2>2, <2>3, EndsDo
<1>19. FailuresOK' /\ (Orderly' => Orderly /\ failures' = failures)
  BY <1>0, <1>5, StillOrderly
<1>6. StopContext(t, i, end)
  BY <1>3, <1>5, <1>18, <1>19 DEF StopContext
<1> DEFINE rest == Rest(prog, end)
<1>7. rest = Rest(TeardownFrom(t, i), end)
  BY <1>2
<1>8. \/ rest \notin {Fail, <<>>} /\ prog' = rest /\ UNCHANGED <<phase, table, setup>>
      \/ rest \in {Fail, <<>>} /\ StopTables(setup)
  BY <1>3
<1> HIDE DEF rest
<1>9. \/ rest \in {Fail, <<>>} /\ (Orderly' => NextOrderly(t)')
      \/ \E j \in 1 .. Len(Teardown(t)) :
           /\ rest = TeardownFrom(t, j) /\ rest \notin {Fail, <<>>}
           /\ Orderly' => StopOrderly(t, j)'
  BY <1>6, <1>7, TeardownGoes
<1>10. "nat" \in Table /\ "filter" \in Table /\ setup \in [Table -> BOOLEAN]
       /\ \A u \in Table : u = "nat" \/ u = "filter"
  BY DEF Table, TypeOK
<1>11. Orderly' => Orderly
  BY <1>19
<1>12. ASSUME phase' \in {"down", "starting", "running", "stopping"},
              table' \in Table, setup' \in [Table -> BOOLEAN]
       PROVE  TypeOK' /\ JobOK' /\ ServicesOff' /\ ForwardersOK' /\ WantedOK' /\ FailuresOK'
  <2>1. JobOK' /\ ServicesOff' /\ ForwardersOK' /\ WantedOK'
    BY <1>0, <1>5, <1>12, ServicesQuiet
  <2>2. UNCHANGED <<svcs, forwarders, work, job>> /\ wanted' \in [Name -> Service \cup {None}]
        /\ starts' \in 0 .. MaxStarts /\ undeleted' \subseteq undeleted \cup (Table \X AnyRule)
    BY <1>0 DEF serv, TypeOK
  <2>3. TypeOK'
    BY <1>0, <1>5, <1>12, <2>2, TypeFromTables
  <2> QED BY <1>19, <2>1, <2>3
<1>13. Orderly => starts # 0 /\ setup = [u \in Table |-> u = "filter" /\ t = "nat"]
  BY <1>0, <1>2 DEF StopsOrderly
<1>14. CASE rest \notin {Fail, <<>>} /\ prog' = rest /\ UNCHANGED <<phase, table, setup>>
  <2>1. PICK j \in 1 .. Len(Teardown(t)) :
          rest = TeardownFrom(t, j) /\ (Orderly' => StopOrderly(t, j)')
    BY <1>9, <1>14
  <2>2. TakingDown(t, j)'
    BY <1>0, <1>2, <1>14, <2>1 DEF TakingDown
  <2>3. phase' = "stopping" /\ table' = t /\ setup' = setup
    BY <1>0, <1>2, <1>14
  <2>5. ChainsOK'
    <3>1. \E u \in Table : \E k \in 1 .. Len(Teardown(u)) :
            TakingDown(u, k)' /\ (Orderly' => StopOrderly(u, k)')
      BY <2>1, <2>2
    <3> QED BY <2>3, <3>1 DEF ChainsOK
  <2>6. RulesOK'
    BY <2>3 DEF RulesOK
  <2>7. StopsOrderly'
    BY <1>0, <1>11, <1>13, <2>3 DEF StopsOrderly
  <2>8. setup' \in [Table -> BOOLEAN] /\ table' \in Table
    BY <1>10, <2>3
  <2> QED BY <1>5, <1>12, <2>3, <2>5, <2>6, <2>7, <2>8
<1>15. CASE rest \in {Fail, <<>>} /\ StopTables(setup)
  <2>1. Orderly' => NextOrderly(t)'
    BY <1>9, <1>15
  <2>2. \/ /\ phase' = "stopping" /\ table' = "nat" /\ setup["nat"]
           /\ prog' = TeardownFrom("nat", 1)
           /\ setup' = [u \in Table |-> u = "filter" /\ setup["filter"]]
        \/ /\ phase' = "stopping" /\ table' = "filter" /\ ~setup["nat"] /\ setup["filter"]
           /\ prog' = TeardownFrom("filter", 1)
           /\ setup' = [u \in Table |-> FALSE]
        \/ /\ phase' = "down" /\ ~setup["nat"] /\ ~setup["filter"]
    BY <1>10, <1>15, StopBegins
  <2>3. Orderly' => ~setup["nat"] /\ (setup["filter"] <=> t = "nat")
    BY <1>10, <1>11, <1>13
  <2>4. ASSUME NEW u \in Table, Orderly', phase' = "stopping", table' = u
        PROVE  StopOrderly(u, 1)'
    <3>1. u = "filter" /\ t = "nat"
      BY <2>2, <2>3, <2>4
    <3> QED BY <2>1, <2>4, <3>1 DEF NextOrderly
  <2>5. /\ ChainsOK' /\ RulesOK' /\ table' \in Table /\ setup' \in [Table -> BOOLEAN]
        /\ phase' \in {"stopping", "down"}
    BY <1>10, <1>15, <2>4, StopBeginsOK
  <2>6. StopsOrderly'
    <3> SUFFICES ASSUME Orderly'
                 PROVE  /\ phase' = "down" =>
                             starts' # 0 /\ Left' /\ ipt'["filter"] = NoChain("filter")
                        /\ phase' = "stopping" =>
                             /\ starts' # 0
                             /\ setup' = [u \in Table |-> u = "filter" /\ table' = "nat"]
      BY <2>5 DEF StopsOrderly
    <3>1. starts' # 0
      BY <1>0, <1>11, <1>13
    <3>2. phase' = "down" => t = "filter"
      BY <1>10, <2>2, <2>3
    <3>3. phase' = "stopping" => setup' = [u \in Table |-> u = "filter" /\ table' = "nat"]
      BY <2>2, <2>3
    <3> QED BY <2>1, <3>1, <3>2, <3>3 DEF NextOrderly
  <2> QED BY <1>5, <1>12, <2>5, <2>6
<1> QED BY <1>8, <1>14, <1>15
-----------------------------------------------------------------------------
(***************************************************************************)
(* The process as a whole.                                                 *)
(***************************************************************************)
\* A crash leaves nothing but the tables.
LEMMA CrashInv ==
  ASSUME BalancerInv, Crash
  PROVE  BalancerInv'
<1> USE DEF BalancerInv
<1>0. /\ crashes' = crashes + 1 /\ crashes < MaxCrashes /\ phase' = "down" /\ prog' = <<>>
      /\ setup' = [t \in Table |-> FALSE] /\ svcs' = [n \in Name |-> None]
      /\ forwarders' = [p \in {} |-> None] /\ work' = NoWork /\ job' = NoJob
      /\ wanted' = [n \in Name |-> None]
      /\ ipt' = ipt /\ table' = table /\ failures' = failures /\ starts' = starts
      /\ undeleted' = undeleted
  BY DEF Crash
<1>1. crashes' \in 0 .. MaxCrashes /\ crashes' # 0
  BY <1>0, BalancerAssumption DEF TypeOK
<1>2. NoJob.pc = "idle" /\ NoJob.new = None /\ NoJob.name = None
  BY DEF NoJob
<1>3. TablesOK'
  BY <1>0 DEF TablesOK
<1>4. JobOK'
  <2>1. NoJob \in [name : Name \cup {None}, pc : {"idle", "add", "stop", "delete"},
                   new : State \cup {None}]
    BY DEF NoJob
  <2> QED BY <1>0, <1>2, <2>1 DEF JobOK
<1>5. TypeOK'
  BY <1>0, <1>1, <1>2 DEF TypeOK, NoWork
<1>6. ServicesOff' /\ RulesOK' /\ ChainsOK'
  BY <1>0 DEF ServicesOff, RulesOK, ChainsOK
<1>7. ForwardersOK'
  <2>1. \A n \in Name : Listens'[n] = {} /\ Ports(svcs'[n]) = {}
    BY <1>0, <1>2 DEF Listens, Ports
  <2>2. Ports(job.new)' = {} /\ DOMAIN forwarders' = {}
    BY <1>0, <1>2 DEF Ports
  <2> QED BY <2>1, <2>2 DEF ForwardersOK
<1>8. WantedOK'
  BY <1>0, <1>2 DEF WantedOK, Matches, NoWork
<1>9. StopsOrderly'
  BY <1>1 DEF StopsOrderly, Orderly, OnlyDeletionsFailed
<1>10. FailuresOK'
  BY <1>0 DEF FailuresOK
<1> QED BY <1>10, <1>3, <1>4, <1>5, <1>6, <1>7, <1>8, <1>9

\* services.stop, once the update has been processed.
LEMMA StopBalancerInv ==
  ASSUME BalancerInv, StopBalancer
  PROVE  BalancerInv'
<1> USE DEF BalancerInv
<1>0. /\ phase = "running" /\ phase' = "closing" /\ job = NoJob /\ work = NoWork
      /\ ipt' = ipt /\ table' = table /\ prog' = prog /\ setup' = setup
      /\ svcs' = svcs /\ forwarders' = forwarders /\ work' = work /\ job' = job
      /\ wanted' = wanted /\ failures' = failures /\ crashes' = crashes /\ starts' = starts
      /\ undeleted' = undeleted
  BY DEF StopBalancer, Idle, Busy, serv, counts
<1>2. NoJob.pc = "idle" /\ NoJob.new = None /\ NoJob.name = None
  BY DEF NoJob
<1>3. TablesOK' /\ TypeOK'
  BY <1>0 DEF TablesOK, TypeOK
<1>4. JobOK'
  <2>1. job \in [name : Name \cup {None}, pc : {"idle", "add", "stop", "delete"},
                 new : State \cup {None}]
    BY DEF JobOK
  <2> QED BY <1>0, <1>2, <2>1 DEF JobOK
<1>5. ServicesOff' /\ ChainsOK' /\ WantedOK'
  BY <1>0 DEF ServicesOff, ChainsOK, Hooked, WantedOK
<1>6. RulesOK'
  <2>1. \A t \in Table, r \in AnyRule :
          /\ Needed(t, r) <= Present(t, r)
          /\ <<t, r>> \notin undeleted => Needed(t, r) = Present(t, r)
    BY <1>0 DEF RulesOK
  <2> QED BY <1>0, <2>1 DEF RulesOK, Needed, Present, Holders, Pending
<1>7. ForwardersOK'
  BY <1>0 DEF ForwardersOK, Listens
<1>9. StopsOrderly'
  BY <1>0 DEF StopsOrderly, Orderly, OnlyDeletionsFailed
<1>10. FailuresOK'
  BY <1>0 DEF FailuresOK
<1> QED BY <1>10, <1>3, <1>4, <1>5, <1>6, <1>7, <1>9

\* The services are closed, and the chains begin to be taken down.
LEMMA ServicesClosedInv ==
  ASSUME BalancerInv, ServicesClosed
  PROVE  BalancerInv'
<1> USE DEF BalancerInv
<1>0. /\ phase = "closing" /\ job = NoJob /\ work = NoWork
      /\ \A n \in Name : svcs[n] = None
      /\ StopTables(setup) /\ wanted' = [n \in Name |-> None]
      /\ ipt' = ipt /\ svcs' = svcs /\ forwarders' = forwarders /\ work' = work /\ job' = job
      /\ failures' = failures /\ crashes' = crashes /\ starts' = starts /\ undeleted' = undeleted
  BY DEF ServicesClosed, Busy, counts, JobOK
<1>1. svcs = [n \in Name |-> None]
  BY <1>0 DEF TypeOK
<1>2. NoJob.pc = "idle" /\ NoJob.new = None /\ NoJob.name = None
  BY DEF NoJob
<1>10. "nat" \in Table /\ "filter" \in Table /\ setup \in [Table -> BOOLEAN]
       /\ \A u \in Table : u = "nat" \/ u = "filter"
  BY DEF Table, TypeOK
<1>3. /\ \/ /\ phase' = "stopping" /\ table' = "nat" /\ setup["nat"]
            /\ prog' = TeardownFrom("nat", 1)
            /\ setup' = [u \in Table |-> u = "filter" /\ setup["filter"]]
         \/ /\ phase' = "stopping" /\ table' = "filter" /\ ~setup["nat"] /\ setup["filter"]
            /\ prog' = TeardownFrom("filter", 1)
            /\ setup' = [u \in Table |-> FALSE]
         \/ /\ phase' = "down" /\ ~setup["nat"] /\ ~setup["filter"]
  BY <1>0, <1>10, StopBegins
<1>11. Orderly' => Orderly /\ setup["nat"] /\ setup["filter"]
  BY <1>0, <1>10 DEF Orderly, OnlyDeletionsFailed, StopsOrderly
<1>4. ASSUME NEW u \in Table, Orderly', phase' = "stopping", table' = u
      PROVE  StopOrderly(u, 1)'
  <2>1. u = "nat"
    BY <1>3, <1>4, <1>11
  <2>2. ipt["nat"].exists /\ ipt["nat"].refs["OUTPUT"] = 1 /\ Hooked("filter")
    BY <1>0, <1>10 DEF ChainsOK, Hooked, Hook
  <2> QED BY <1>0, <2>1, <2>2 DEF StopOrderly, Hooked
<1>5. /\ ChainsOK' /\ RulesOK' /\ table' \in Table /\ setup' \in [Table -> BOOLEAN]
      /\ phase' \in {"stopping", "down"}
  BY <1>0, <1>4, <1>10, StopBeginsOK
<1>6. TablesOK'
  BY <1>0 DEF TablesOK
<1>7. TypeOK'
  <2>1. failures' \in 0 .. MaxFailures /\ starts' \in 0 .. MaxStarts
        /\ wanted' \in [Name -> Service \cup {None}] /\ UNCHANGED <<svcs, forwarders, work, job>>
    BY <1>0 DEF TypeOK
  <2> QED BY <1>0, <1>5, <1>6, <2>1, TypeFromTables
<1>8. JobOK' /\ ServicesOff'
  <2>1. job \in [name : Name \cup {None}, pc : {"idle", "add", "stop", "delete"},
                 new : State \cup {None}]
    BY DEF JobOK
  <2> QED BY <1>0, <1>1, <1>2, <1>5, <2>1 DEF JobOK, ServicesOff
<1>9. ForwardersOK'
  BY <1>0 DEF ForwardersOK, Listens
<1>12. WantedOK'
  BY <1>0, <1>1, <1>2 DEF WantedOK, Matches, NoWork
<1>13. StopsOrderly'
  <2>1. Orderly' => starts # 0
    BY <1>0, <1>11 DEF StopsOrderly
  <2>2. Orderly' => /\ phase' = "stopping"
                    /\ setup' = [u \in Table |-> u = "filter" /\ table' = "nat"]
    BY <1>3, <1>11
  <2> QED BY <1>0, <2>1, <2>2 DEF StopsOrderly
<1>14. FailuresOK'
  BY <1>0 DEF FailuresOK
<1> QED BY <1>14, <1>5, <1>6, <1>7, <1>8, <1>9, <1>12, <1>13

-----------------------------------------------------------------------------
(***************************************************************************)
(* The services.                                                           *)
(***************************************************************************)
\* The kinds of state.
LEMMA States ==
  /\ \A st \in State : /\ st # None /\ Rule(st) \in AnyRule /\ TableOf(st) \in Table
                       /\ st.service \in Service
                       /\ st.kind \in {"rejecting", "forwarding"}
                       /\ st.kind = "forwarding" <=> TableOf(st) = "nat"
                       /\ st.kind = "forwarding" => st.port \in Port /\ st.service.insts # {}
                       /\ st.kind = "rejecting" => st.service.insts = {}
  /\ \A s \in Service : /\ s.insts = {} => Rejecting(s) \in State
                        /\ \A p \in Port : s.insts # {} => Forwarding(s, p) \in State
<1>1. ASSUME NEW st \in State
      PROVE  /\ st # None /\ Rule(st) \in AnyRule /\ TableOf(st) \in Table
             /\ st.service \in Service
             /\ st.kind \in {"rejecting", "forwarding"}
             /\ st.kind = "forwarding" <=> TableOf(st) = "nat"
             /\ st.kind = "forwarding" => st.port \in Port /\ st.service.insts # {}
             /\ st.kind = "rejecting" => st.service.insts = {}
  <2>1. st # None
    BY StateAssumption
  <2>2. Rule(st) \in AnyRule
    BY DEF AnyRule
  <2>3. CASE \E s \in Service : s.insts = {} /\ st = Rejecting(s)
    BY <2>1, <2>2, <2>3 DEF Rejecting, TableOf, Table
  <2>4. CASE \E s \in Service, p \in Port : s.insts # {} /\ st = Forwarding(s, p)
    BY <2>1, <2>2, <2>4 DEF Forwarding, TableOf, Table
  <2> QED BY <2>3, <2>4 DEF State
<1>2. \A s \in Service : /\ s.insts = {} => Rejecting(s) \in State
                         /\ \A p \in Port : s.insts # {} => Forwarding(s, p) \in State
  BY DEF State
<1> QED BY <1>1, <1>2

\* The services' steps leave the chains as they are.
LEMMA ChainsKept ==
  ASSUME TypeOK, ChainsOK, StopsOrderly, phase \in {"running", "closing"},
         UNCHANGED <<phase, table, prog, setup, crashes, starts>>,
         \A t \in Table : ipt'[t].exists = ipt[t].exists /\ ipt'[t].refs = ipt[t].refs,
         Orderly' => Orderly
  PROVE  ChainsOK' /\ StopsOrderly' /\ ServicesOff'
<1>1. ChainsOK'
  BY DEF ChainsOK, Hooked
<1>2. StopsOrderly'
  BY DEF StopsOrderly
<1>3. ServicesOff'
  BY DEF ServicesOff
<1> QED BY <1>1, <1>2, <1>3

\* The same of the steps that delete no rule.
LEMMA ChainsQuiet ==
  ASSUME TypeOK, ChainsOK, FailuresOK, StopsOrderly, phase \in {"running", "closing"},
         UNCHANGED <<phase, table, prog, setup, undeleted, crashes, starts>>,
         \A t \in Table : ipt'[t].exists = ipt[t].exists /\ ipt'[t].refs = ipt[t].refs,
         failures' \in {failures, failures + 1}
  PROVE  ChainsOK' /\ StopsOrderly' /\ ServicesOff' /\ FailuresOK'
<1>1. FailuresOK' /\ (Orderly' => Orderly)
  BY StillOrderly
<1> QED BY <1>1, ChainsKept

\* How many states hold a rule, when one of them is replaced.
LEMMA HoldingChanges ==
  ASSUME NEW s, s \in [Name -> State \cup {None}], NEW n \in Name,
         NEW v \in State \cup {None}, NEW t \in Table, NEW r \in AnyRule
  PROVE  Cardinality(Holding([s EXCEPT ![n] = v], t, r)) =
           Cardinality(Holding(s, t, r)) - Needs(s[n], t, r) + Needs(v, t, r)
<1> DEFINE s2 == [s EXCEPT ![n] = v]
           others == {m \in Name \ {n} : s[m] # None /\ TableOf(s[m]) = t /\ Rule(s[m]) = r}
           k == Cardinality(others)
<1>1. IsFiniteSet(others)
  <2>1. IsFiniteSet(Name) /\ others \subseteq Name
    BY BalancerAssumption
  <2> QED BY <2>1, FS_Subset
<1>2. k \in Nat
  BY <1>1, FS_CardinalityType
<1>3. n \notin others
  OBVIOUS
<1>4. Cardinality(others \cup {n}) = k + 1
  BY <1>1, <1>3, FS_AddElement
<1>5. /\ Needs(s[n], t, r) = 1 => Holding(s, t, r) = others \cup {n}
      /\ Needs(s[n], t, r) = 0 => Holding(s, t, r) = others
      /\ Needs(s[n], t, r) \in {0, 1}
  BY DEF Needs, Holding
<1>6. s2[n] = v /\ \A m \in Name : m # n => s2[m] = s[m]
  OBVIOUS
<1> HIDE DEF s2
<1>7. /\ Needs(v, t, r) = 1 => Holding(s2, t, r) = others \cup {n}
      /\ Needs(v, t, r) = 0 => Holding(s2, t, r) = others
      /\ Needs(v, t, r) \in {0, 1}
  BY <1>6 DEF Needs, Holding
<1> HIDE DEF others
<1>8. Cardinality(Holding(s, t, r)) = k + Needs(s[n], t, r)
  <2>1. CASE Needs(s[n], t, r) = 1
    <3>1. Cardinality(Holding(s, t, r)) = Cardinality(others \cup {n})
      BY <1>5, <2>1, Zenon
    <3> QED BY <1>4, <2>1, <3>1
  <2>2. CASE Needs(s[n], t, r) = 0
    <3>1. Cardinality(Holding(s, t, r)) = k
      BY <1>5, <2>2, Zenon
    <3> HIDE DEF k
    <3> QED BY <1>2, <2>2, <3>1
  <2> QED BY <1>5, <2>1, <2>2
<1>9. Cardinality(Holding(s2, t, r)) = k + Needs(v, t, r)
  <2>1. CASE Needs(v, t, r) = 1
    <3>1. Cardinality(Holding(s2, t, r)) = Cardinality(others \cup {n})
      BY <1>7, <2>1, Zenon
    <3> QED BY <1>4, <2>1, <3>1
  <2>2. CASE Needs(v, t, r) = 0
    <3>1. Cardinality(Holding(s2, t, r)) = k
      BY <1>7, <2>2, Zenon
    <3> HIDE DEF k
    <3> QED BY <1>2, <2>2, <3>1
  <2> QED BY <1>7, <2>1, <2>2
<1> HIDE DEF k
<1>10. \A a, b \in {0, 1} : k + a \in Nat /\ k + b \in Nat /\ k + b = (k + a) - a + b
  BY <1>2
<1> QED BY <1>5, <1>7, <1>8, <1>9, <1>10 DEF s2

\* How many hold a rule is a number, and not none where one does.
LEMMA HoldingCounts ==
  ASSUME svcs \in [Name -> State \cup {None}], NEW t \in Table, NEW r
  PROVE  /\ Cardinality(Holders(t, r)) \in Nat
         /\ Cardinality(Holders(t, r)) = 0 <=> Holders(t, r) = {}
<1>1. IsFiniteSet(Holders(t, r))
  <2>1. IsFiniteSet(Name) /\ Holders(t, r) \subseteq Name
    BY BalancerAssumption DEF Holders, Holding
  <2> QED BY <2>1, FS_Subset
<1> QED BY <1>1, FS_CardinalityType, FS_EmptySet
\* The type, after a step of the services'.
LEMMA TypeFromServices ==
  ASSUME TypeOK, TablesOK', undeleted' \subseteq undeleted \cup (Table \X AnyRule),
         UNCHANGED <<phase, table, setup, crashes, starts>>,
         svcs' \in [Name -> State \cup {None}], DOMAIN forwarders' \subseteq Port,
         work' \in [Name -> Service \cup {None, Skip}],
         job' \in [name : Name \cup {None}, pc : {"idle", "add", "stop", "delete"},
                   new : State \cup {None}],
         wanted' \in [Name -> Service \cup {None}], failures' \in 0 .. MaxFailures
  PROVE  TypeOK'
<1>1. \A t \in Table : TableOK(t, ipt'[t])
  BY DEF TablesOK
<1>2. \A t \in Table : /\ ipt'[t].exists \in BOOLEAN
                      /\ ipt'[t].refs \in [Hook(t) -> Nat]
                      /\ ipt'[t].rules \in Seq(AnyRule)
  BY <1>1 DEF TableOK
<1> QED BY <1>2 DEF TypeOK

\* The counts of rules are numbers.
LEMMA PresentCounts ==
  ASSUME TablesOK, NEW t \in Table, NEW r
  PROVE  Present(t, r) \in Nat /\ (Present(t, r) > 0 <=> Places(ipt[t].rules, r) # {})
<1>1. ipt[t].rules \in Seq(AnyRule)
  BY DEF TablesOK, TableOK
<1> QED BY <1>1, PlacesFinite DEF Present, Count

\* -A of a state's rule.
LEMMA AddedOnce ==
  ASSUME TypeOK, TablesOK, ChainsOK, phase \in {"running", "closing"}, NEW st \in State,
         NEW end, Ends(TableOf(st), Cmd("A", Rule(st)), end)
  PROVE  /\ TablesOK'
         /\ failures' \in 0 .. MaxFailures /\ failures' \in {failures, failures + 1}
         /\ failures' = 0 => failures = 0 /\ end = "ok"
         /\ \A t \in Table : ipt'[t].exists = ipt[t].exists /\ ipt'[t].refs = ipt[t].refs
         /\ end = "ok" =>
              \A t \in Table, r \in AnyRule :
                Present(t, r)' = Present(t, r) + Needs(st, t, r)
         /\ end # "ok" => ipt' = ipt
<1> DEFINE a == TableOf(st)
           c == Cmd("A", Rule(st))
<1>1. st # None /\ Rule(st) \in AnyRule /\ a \in Table
  BY States
<1>2. c.op = "A" /\ c.arg = Rule(st)
  BY DEF Cmd
<1>3. \A t \in Table : TableOK(t, ipt[t])
  BY DEF TablesOK
<1>4. ipt[a].exists
  BY <1>1 DEF ChainsOK, Hooked
<1>5. Accepts(ipt[a], c)
  BY <1>2, <1>4 DEF Accepts
<1> HIDE DEF a, c
<1>6. LET y == Effect(ipt[a], c)
      IN  /\ TableOK(a, y) /\ y.exists = ipt[a].exists /\ y.refs = ipt[a].refs
          /\ \A q : Count(y.rules, q) = Count(ipt[a].rules, q) + (IF q = Rule(st) THEN 1 ELSE 0)
  BY <1>1, <1>2, <1>3, <1>5, AddEffect
<1>7. Ends(a, c, end)
  BY DEF a, c
<1>8. /\ TablesOK'
      /\ failures' \in 0 .. MaxFailures /\ failures' \in {failures, failures + 1}
      /\ failures' = 0 => failures = 0
      /\ \A u \in Table : u # a => ipt'[u] = ipt[u]
      /\ \/ end = "ok" /\ Accepts(ipt[a], c) /\ ipt'[a] = Effect(ipt[a], c)
         \/ end # "ok" /\ ipt' = ipt
      /\ end = "refused" /\ failures' = failures => ~Accepts(ipt[a], c)
      /\ failures' = failures => end # "broken"
  BY <1>1, <1>6, <1>7, EndsDo
<1>9. end \in {"ok", "refused", "broken"}
  BY <1>7 DEF Ends
<1>10. \A t \in Table : ipt'[t].exists = ipt[t].exists /\ ipt'[t].refs = ipt[t].refs
  BY <1>1, <1>6, <1>8
<1>11. ASSUME end = "ok", NEW t \in Table, NEW r \in AnyRule
       PROVE  Present(t, r)' = Present(t, r) + Needs(st, t, r)
  <2>1. Present(t, r) \in Nat
    BY PresentCounts
  <2>2. CASE t = a
    BY <1>1, <1>6, <1>8, <1>11, <2>2 DEF Present, Needs, a
  <2>3. CASE t # a
    <3>1. Needs(st, t, r) = 0
      BY <2>3 DEF Needs, a
    <3>2. Present(t, r)' = Present(t, r)
      BY <1>8, <2>3 DEF Present
    <3> QED BY <2>1, <3>1, <3>2
  <2> QED BY <2>2, <2>3
<1> QED BY <1>5, <1>8, <1>9, <1>10, <1>11

\* -D of a state's rule.
LEMMA RemovedOnce ==
  ASSUME TypeOK, TablesOK, NEW st \in State,
         NEW end, Ends(TableOf(st), Cmd("R", Rule(st)), end)
  PROVE  /\ TablesOK'
         /\ failures' \in 0 .. MaxFailures /\ failures' \in {failures, failures + 1}
         /\ failures' = 0 => failures = 0
         /\ end = "ok" => failures' = failures
         /\ failures' = failures /\ end # "ok" => Present(TableOf(st), Rule(st)) = 0
         /\ \A t \in Table : ipt'[t].exists = ipt[t].exists /\ ipt'[t].refs = ipt[t].refs
         /\ end = "ok" =>
              \A t \in Table, r \in AnyRule :
                Present(t, r)' = Present(t, r) - Needs(st, t, r)
         /\ end # "ok" => ipt' = ipt
<1> DEFINE a == TableOf(st)
           c == Cmd("R", Rule(st))
<1>1. st # None /\ Rule(st) \in AnyRule /\ a \in Table
  BY States
<1>2. c.op = "R" /\ c.arg = Rule(st)
  BY DEF Cmd
<1>3. \A t \in Table : TableOK(t, ipt[t])
  BY DEF TablesOK
<1>5. ~Accepts(ipt[a], c) => Present(a, Rule(st)) = 0
  <2>1. Present(a, Rule(st)) \in Nat /\ (Present(a, Rule(st)) > 0 <=> Places(ipt[a].rules, Rule(st)) # {})
    BY <1>1, PresentCounts
  <2>2. ~Accepts(ipt[a], c) => Places(ipt[a].rules, Rule(st)) = {}
    BY <1>2 DEF Accepts
  <2> HIDE DEF a, c
  <2> QED BY <2>1, <2>2
<1> HIDE DEF a, c
<1>6. Accepts(ipt[a], c) =>
        LET y == Effect(ipt[a], c)
        IN  /\ TableOK(a, y) /\ y.exists = ipt[a].exists /\ y.refs = ipt[a].refs
            /\ \A q : Count(y.rules, q) = Count(ipt[a].rules, q) - (IF q = Rule(st) THEN 1 ELSE 0)
  BY <1>1, <1>2, <1>3, RemoveEffect
<1>7. Ends(a, c, end)
  BY DEF a, c
<1>8. /\ TablesOK'
      /\ failures' \in 0 .. MaxFailures /\ failures' \in {failures, failures + 1}
      /\ failures' = 0 => failures = 0
      /\ \A u \in Table : u # a => ipt'[u] = ipt[u]
      /\ \/ end = "ok" /\ Accepts(ipt[a], c) /\ ipt'[a] = Effect(ipt[a], c)
         \/ end # "ok" /\ ipt' = ipt
      /\ end = "ok" => failures' = failures
      /\ end = "refused" /\ failures' = failures => ~Accepts(ipt[a], c)
      /\ failures' = failures => end # "broken"
  BY <1>1, <1>6, <1>7, EndsDo
<1>9. end \in {"ok", "refused", "broken"}
  BY <1>7 DEF Ends
<1>10. \A t \in Table : ipt'[t].exists = ipt[t].exists /\ ipt'[t].refs = ipt[t].refs
  BY <1>1, <1>6, <1>8
<1>11. ASSUME end = "ok", NEW t \in Table, NEW r \in AnyRule
       PROVE  Present(t, r)' = Present(t, r) - Needs(st, t, r)
  <2>1. Present(t, r) \in Nat
    BY PresentCounts
  <2>2. CASE t = a
    BY <1>1, <1>6, <1>8, <1>11, <2>2 DEF Present, Needs, a
  <2>3. CASE t # a
    <3>1. Needs(st, t, r) = 0
      BY <2>3 DEF Needs, a
    <3>2. Present(t, r)' = Present(t, r)
      BY <1>8, <2>3 DEF Present
    <3> QED BY <2>1, <3>1, <3>2
  <2> QED BY <2>2, <2>3
<1> QED BY <1>5, <1>8, <1>9, <1>10, <1>11 DEF a

\* The forwarders and rules do not see a step that leaves the states alone.
LEMMA RulesQuiet ==
  ASSUME RulesOK, phase' = phase, ipt' = ipt, svcs' = svcs, Pending' = Pending,
         undeleted' = undeleted
  PROVE  RulesOK'
<1>1. \A t \in Table, r \in AnyRule : Needed(t, r)' = Needed(t, r) /\ Present(t, r)' = Present(t, r)
  BY DEF Needed, Holders, Present
<1> QED BY <1>1 DEF RulesOK

\* An update is taken: every name has what is wanted, and now may want another.
LEMMA TakeUpdateInv ==
  ASSUME BalancerInv, TakeUpdate
  PROVE  BalancerInv'
<1> USE DEF BalancerInv
<1>0. /\ phase = "running" /\ job = NoJob /\ work = NoWork
      /\ UNCHANGED <<ipt, phase, table, prog, setup, undeleted, svcs, forwarders, job>>
      /\ UNCHANGED <<failures, crashes, starts>>
  BY DEF TakeUpdate, Idle, Busy, tables, counts
<1>1. \/ \E all \in [Name -> Service \cup {None}] : work' = all /\ wanted' = all
      \/ \E n \in Name, s \in Service \cup {None} :
           work' = [work EXCEPT ![n] = s] /\ wanted' = [wanted EXCEPT ![n] = s]
  BY DEF TakeUpdate
<1>2. NoJob.pc = "idle" /\ NoJob.new = None /\ NoJob.name = None
  BY DEF NoJob
<1>3. /\ work' \in [Name -> Service \cup {None, Skip}]
      /\ wanted' \in [Name -> Service \cup {None}]
      /\ \A n \in Name : \/ work'[n] = Skip /\ wanted'[n] = wanted[n]
                         \/ work'[n] # Skip /\ wanted'[n] = work'[n]
  <2>1. work \in [Name -> Service \cup {None, Skip}] /\ wanted \in [Name -> Service \cup {None}]
    BY DEF TypeOK
  <2>2. \A n \in Name : work[n] = Skip
    BY <1>0 DEF NoWork
  <2>3. Skip \notin Service \cup {None}
    BY BalancerAssumption
  <2>4. CASE \E all \in [Name -> Service \cup {None}] : work' = all /\ wanted' = all
    BY <2>3, <2>4
  <2>5. CASE \E n \in Name, s \in Service \cup {None} :
                work' = [work EXCEPT ![n] = s] /\ wanted' = [wanted EXCEPT ![n] = s]
    BY <2>1, <2>2, <2>3, <2>5
  <2> QED BY <1>1, <2>4, <2>5
<1>4. job \in [name : Name \cup {None}, pc : {"idle", "add", "stop", "delete"},
               new : State \cup {None}]
  BY DEF JobOK
<1>5. TablesOK' /\ TypeOK'
  BY <1>0, <1>3 DEF TablesOK, TypeOK
<1>6. JobOK'
  BY <1>0, <1>2, <1>4 DEF JobOK
<1>7. ChainsOK' /\ StopsOrderly' /\ ServicesOff' /\ FailuresOK'
  BY <1>0, ChainsQuiet
<1>8. RulesOK'
  <2>1. Pending' = Pending
    BY <1>0 DEF Pending
  <2> QED BY <1>0, <2>1, RulesQuiet
<1>9. ForwardersOK'
  BY <1>0 DEF ForwardersOK, Listens
<1>10. WantedOK'
  <2>1. failures = 0 => \A n \in Name : Matches(svcs[n], wanted[n])
    BY <1>0 DEF WantedOK, NoWork
  <2> QED BY <1>0, <1>2, <1>3, <2>1 DEF WantedOK
<1> QED BY <1>5, <1>6, <1>7, <1>8, <1>9, <1>10

\* A name is done with.
LEMMA DoneWith ==
  ASSUME TypeOK, NEW n \in Name, Done(n)
  PROVE  /\ work' \in [Name -> Service \cup {None, Skip}]
         /\ work'[n] = Skip /\ \A m \in Name : m # n => work'[m] = work[m]
BY DEF TypeOK, Done

\* A state stays as it is.
LEMMA KeepInv ==
  ASSUME BalancerInv, NEW n \in Name, Keep(n)
  PROVE  BalancerInv'
<1> USE DEF BalancerInv
<1>0. /\ phase = "running" /\ job = NoJob /\ work[n] # Skip
      /\ UNCHANGED <<ipt, phase, table, prog, setup, undeleted, svcs, job, wanted>>
      /\ UNCHANGED <<failures, crashes, starts>>
  BY DEF Keep, Busy, tables, counts
<1>1. \/ svcs[n] = None /\ work[n] = None
      \/ svcs[n] # None /\ work[n] # None /\ Keeps(svcs[n], work[n])
  BY DEF Keep
<1>11. DOMAIN forwarders' = DOMAIN forwarders
  BY DEF Keep
<1>2. NoJob.pc = "idle" /\ NoJob.new = None /\ NoJob.name = None
  BY DEF NoJob
<1>3. /\ work' \in [Name -> Service \cup {None, Skip}]
      /\ work'[n] = Skip /\ \A m \in Name : m # n => work'[m] = work[m]
  <2>1. Done(n)
    BY DEF Keep
  <2> QED BY <2>1, DoneWith
<1>4. job \in [name : Name \cup {None}, pc : {"idle", "add", "stop", "delete"},
               new : State \cup {None}]
  BY DEF JobOK
<1>5. TablesOK' /\ TypeOK'
  BY <1>0, <1>3, <1>11 DEF TablesOK, TypeOK
<1>6. JobOK'
  BY <1>0, <1>2, <1>4 DEF JobOK
<1>7. ChainsOK' /\ StopsOrderly' /\ ServicesOff' /\ FailuresOK'
  BY <1>0, ChainsQuiet
<1>8. RulesOK'
  <2>1. Pending' = Pending
    BY <1>0 DEF Pending
  <2> QED BY <1>0, <2>1, RulesQuiet
<1>9. ForwardersOK'
  BY <1>0, <1>11 DEF ForwardersOK, Listens
<1>10. WantedOK'
  <2>1. ASSUME failures = 0
        PROVE  /\ work[n] = wanted[n]
               /\ \A m \in Name : /\ work[m] = Skip => Matches(svcs[m], wanted[m])
                                  /\ work[m] # Skip => work[m] = wanted[m]
    BY <1>0, <2>1 DEF WantedOK
  <2>2. svcs[n] # None => svcs[n] \in State
    BY DEF TypeOK
  <2>3. failures = 0 => Matches(svcs[n], wanted[n])
    <3>1. svcs[n] # None => svcs[n].kind \in {"rejecting", "forwarding"}
      BY <2>2, States
    <3> QED BY <1>1, <2>1, <3>1 DEF Matches, Keeps
  <2> QED BY <1>0, <1>2, <1>3, <2>1, <2>3 DEF WantedOK
<1> QED BY <1>5, <1>6, <1>7, <1>8, <1>9, <1>10

\* A state is started, forwarding or rejecting.
LEMMA StartInv ==
  ASSUME BalancerInv, NEW n \in Name, Starts(n), NEW st \in State,
         job' = [name |-> n, pc |-> "add", new |-> st],
         st.service = work[n], Matches(st, work[n]),
         UNCHANGED <<tables, svcs, work, wanted, counts>>,
         DOMAIN forwarders' = DOMAIN forwarders \cup Ports(st),
         Ports(st) \cap DOMAIN forwarders = {}
  PROVE  BalancerInv'
<1> USE DEF BalancerInv
<1>0. /\ phase = "running" /\ job = NoJob /\ work[n] \in Service
      /\ UNCHANGED <<ipt, phase, table, prog, setup, undeleted, svcs, work, wanted>>
      /\ UNCHANGED <<failures, crashes, starts>>
  BY DEF Starts, Busy, tables, counts
<1>1. job'.name = n /\ job'.pc = "add" /\ job'.new = st
  OBVIOUS
<1>2. NoJob.pc = "idle" /\ NoJob.new = None /\ NoJob.name = None
  BY DEF NoJob
<1>3. work[n] # Skip /\ st # None
  BY <1>0, BalancerAssumption, States
<1>4. job' \in [name : Name \cup {None}, pc : {"idle", "add", "stop", "delete"},
                new : State \cup {None}]
  OBVIOUS
<1>11. Ports(st) \subseteq Port
  BY States DEF Ports
<1>5. TablesOK' /\ TypeOK'
  <2>1. TablesOK'
    BY <1>0 DEF TablesOK
  <2>2. /\ svcs' \in [Name -> State \cup {None}]
        /\ work' \in [Name -> Service \cup {None, Skip}]
        /\ wanted' \in [Name -> Service \cup {None}] /\ failures' \in 0 .. MaxFailures
        /\ DOMAIN forwarders \subseteq Port
    BY <1>0 DEF TypeOK
  <2> QED BY <1>0, <1>4, <1>11, <2>1, <2>2, TypeFromServices
<1>12. svcs[n] # None => ~Keeps(svcs[n], st.service)
  BY DEF Starts
<1>6. JobOK'
  BY <1>0, <1>1, <1>3, <1>4, <1>12 DEF JobOK
<1>7. ChainsOK' /\ StopsOrderly' /\ ServicesOff' /\ FailuresOK'
  BY <1>0, ChainsQuiet
<1>8. RulesOK'
  <2>1. Pending' = Pending
    BY <1>0, <1>1, <1>2 DEF Pending
  <2> QED BY <1>0, <2>1, RulesQuiet
<1>9. ForwardersOK'
  <2>1. \A m \in Name : Listens'[m] = Ports(svcs[m]) /\ Listens[m] = Ports(svcs[m])
    BY <1>0, <1>1, <1>2 DEF Listens
  <2>2. Ports(job.new)' = Ports(st) /\ Ports(job.new) = {}
    BY <1>0, <1>1, <1>2 DEF Ports
  <2>3. /\ \A p \in Port : p \in DOMAIN forwarders <=> \E m \in Name : p \in Listens[m]
        /\ \A k, m \in Name : k # m => Ports(svcs[k]) \cap Ports(svcs[m]) = {}
    BY <2>2 DEF ForwardersOK
  <2>4. \A p \in Port : p \in DOMAIN forwarders' <=>
                          (\E m \in Name : p \in Listens'[m]) \/ p \in Ports(st)
    BY <2>1, <2>3
  <2>5. ASSUME NEW m \in Name PROVE Ports(svcs'[m]) \cap Ports(st) = {}
    BY <1>0, <1>11, <2>1, <2>3
  <2>6. \A k, m \in Name : k # m => Ports(svcs'[k]) \cap Ports(svcs'[m]) = {}
    BY <1>0, <2>3
  <2> QED BY <2>2, <2>4, <2>5, <2>6 DEF ForwardersOK
<1>10. WantedOK'
  <2>1. failures = 0 => work[n] = wanted[n]
    BY <1>0, <1>3 DEF WantedOK
  <2>2. failures = 0 => \A m \in Name : /\ work[m] = Skip => Matches(svcs[m], wanted[m])
                                        /\ work[m] # Skip => work[m] = wanted[m]
    BY <1>0 DEF WantedOK
  <2> QED BY <1>0, <1>1, <2>1, <2>2 DEF WantedOK
<1> QED BY <1>5, <1>6, <1>7, <1>8, <1>9, <1>10

\* A state that rejects.
LEMMA StartRejectingInv ==
  ASSUME BalancerInv, NEW n \in Name, StartRejecting(n)
  PROVE  BalancerInv'
<1> DEFINE st == Rejecting(work[n])
<1>1. Starts(n) /\ work[n].insts = {} /\ work[n] \in Service
  BY DEF StartRejecting, Starts
<1>2. st \in State /\ st.kind = "rejecting" /\ st.service = work[n]
  BY <1>1, States DEF Rejecting
<1>3. /\ job' = [name |-> n, pc |-> "add", new |-> st]
      /\ UNCHANGED <<tables, svcs, work, wanted, counts>> /\ forwarders' = forwarders
  BY DEF StartRejecting
<1> HIDE DEF st
<1>4. Matches(st, work[n])
  <2>1. work[n] # None /\ st # None
    BY <1>1, <1>2, BalancerAssumption, States
  <2> QED BY <1>1, <1>2, <2>1 DEF Matches
<1>5. Ports(st) = {}
  BY <1>2 DEF Ports
<1>6. DOMAIN forwarders' = DOMAIN forwarders \cup Ports(st) /\ Ports(st) \cap DOMAIN forwarders = {}
  BY <1>3, <1>5
<1> QED BY <1>1, <1>2, <1>3, <1>4, <1>6, StartInv

\* A state that forwards.
LEMMA StartForwardingInv ==
  ASSUME BalancerInv, NEW n \in Name, StartForwarding(n)
  PROVE  BalancerInv'
<1>1. Starts(n) /\ work[n].insts # {} /\ work[n] \in Service
  BY DEF StartForwarding, Starts
<1>2. PICK p \in Port \ DOMAIN forwarders :
        /\ forwarders' = [q \in DOMAIN forwarders \cup {p} |->
                           IF q = p THEN work[n].insts ELSE forwarders[q]]
        /\ job' = [name |-> n, pc |-> "add", new |-> Forwarding(work[n], p)]
  BY DEF StartForwarding
<1> DEFINE st == Forwarding(work[n], p)
<1>3. /\ st \in State /\ st.kind = "forwarding" /\ st.port = p
      /\ st.service = work[n]
  BY <1>1, States DEF Forwarding
<1>4. UNCHANGED <<tables, svcs, work, wanted, counts>>
  BY DEF StartForwarding
<1>5. job' = [name |-> n, pc |-> "add", new |-> st]
  BY <1>2
<1> HIDE DEF st
<1>6. work[n] # None /\ st # None
  BY <1>1, <1>3, BalancerAssumption, States
<1>7. Matches(st, work[n])
  BY <1>1, <1>3, <1>6 DEF Matches
<1>8. Ports(st) = {p}
  BY <1>3, <1>6 DEF Ports
<1>9. DOMAIN forwarders' = DOMAIN forwarders \cup Ports(st) /\ Ports(st) \cap DOMAIN forwarders = {}
  BY <1>2, <1>8
<1> QED BY <1>1, <1>3, <1>4, <1>5, <1>7, <1>9, StartInv

\* A forwarder cannot be started.
LEMMA StartForwardingFailsInv ==
  ASSUME BalancerInv, NEW n \in Name, StartForwardingFails(n)
  PROVE  BalancerInv'
<1> USE DEF BalancerInv
<1>0. /\ phase = "running" /\ job = NoJob /\ failures < MaxFailures /\ failures' = failures + 1
      /\ UNCHANGED <<ipt, phase, table, prog, setup, undeleted, svcs, forwarders, job, wanted>>
      /\ UNCHANGED <<crashes, starts>>
  BY DEF StartForwardingFails, Starts, Busy, tables
<1>1. failures' \in 0 .. MaxFailures /\ failures' # 0
  BY <1>0, BalancerAssumption DEF TypeOK
<1>2. NoJob.pc = "idle" /\ NoJob.new = None /\ NoJob.name = None
  BY DEF NoJob
<1>3. work' \in [Name -> Service \cup {None, Skip}]
  BY DoneWith DEF StartForwardingFails
<1>4. job \in [name : Name \cup {None}, pc : {"idle", "add", "stop", "delete"},
               new : State \cup {None}]
  BY DEF JobOK
<1>5. TablesOK' /\ TypeOK'
  BY <1>0, <1>1, <1>3 DEF TablesOK, TypeOK
<1>6. JobOK'
  BY <1>0, <1>2, <1>4 DEF JobOK
<1>7. ChainsOK' /\ StopsOrderly' /\ ServicesOff' /\ FailuresOK'
  BY <1>0, <1>1, ChainsQuiet
<1>8. RulesOK'
  <2>1. Pending' = Pending
    BY <1>0 DEF Pending
  <2> QED BY <1>0, <1>1, <2>1, RulesQuiet
<1>9. ForwardersOK'
  BY <1>0 DEF ForwardersOK, Listens
<1>10. WantedOK'
  BY <1>1 DEF WantedOK
<1> QED BY <1>5, <1>6, <1>7, <1>8, <1>9, <1>10

\* A service is closed.
LEMMA CloseInv ==
  ASSUME BalancerInv, NEW n \in Name, Close(n)
  PROVE  BalancerInv'
<1> USE DEF BalancerInv
<1>0. /\ job = NoJob /\ svcs[n] # None
      /\ (phase = "running" /\ work[n] = None) \/ phase = "closing"
      /\ job' = [name |-> n, pc |-> "stop", new |-> None]
      /\ UNCHANGED <<ipt, phase, table, prog, setup, undeleted, svcs, forwarders, work, wanted>>
      /\ UNCHANGED <<failures, crashes, starts>>
  BY DEF Close, Busy, tables, counts
<1>1. job'.name = n /\ job'.pc = "stop" /\ job'.new = None
  BY <1>0
<1>2. NoJob.pc = "idle" /\ NoJob.new = None /\ NoJob.name = None
  BY DEF NoJob
<1>3. None # Skip /\ phase \in {"running", "closing"}
  BY <1>0, BalancerAssumption
<1>4. job' \in [name : Name \cup {None}, pc : {"idle", "add", "stop", "delete"},
                new : State \cup {None}]
  BY <1>0
<1>5. TablesOK' /\ TypeOK'
  <2>1. TablesOK'
    BY <1>0 DEF TablesOK
  <2>2. /\ svcs' \in [Name -> State \cup {None}] /\ DOMAIN forwarders' \subseteq Port
        /\ work' \in [Name -> Service \cup {None, Skip}]
        /\ wanted' \in [Name -> Service \cup {None}] /\ failures' \in 0 .. MaxFailures
    BY <1>0 DEF TypeOK
  <2> QED BY <1>0, <1>4, <2>1, <2>2, TypeFromServices
<1>6. JobOK'
  BY <1>0, <1>1, <1>3, <1>4 DEF JobOK
<1>7. ChainsOK' /\ StopsOrderly' /\ ServicesOff' /\ FailuresOK'
  BY <1>0, <1>3, ChainsQuiet
<1>8. RulesOK'
  <2>1. Pending' = Pending
    BY <1>0, <1>1, <1>2 DEF Pending
  <2> QED BY <1>0, <2>1, RulesQuiet
<1>9. ForwardersOK'
  <2>1. \A m \in Name : Listens'[m] = Listens[m]
    BY <1>0, <1>1, <1>2 DEF Listens
  <2>2. Ports(job.new)' = Ports(job.new)
    BY <1>0, <1>1, <1>2 DEF Ports
  <2> QED BY <1>0, <2>1, <2>2 DEF ForwardersOK
<1>10. WantedOK'
  <2>1. failures = 0 /\ phase # "closing" =>
          \A m \in Name : /\ work[m] = Skip => Matches(svcs[m], wanted[m])
                          /\ work[m] # Skip => work[m] = wanted[m]
    BY DEF WantedOK
  <2>2. phase # "closing" => work[n] = None
    BY <1>0
  <2> QED BY <1>0, <1>1, <1>3, <2>1, <2>2 DEF WantedOK, Matches
<1> QED BY <1>5, <1>6, <1>7, <1>8, <1>9, <1>10

\* The record of a job, its stage changed.
LEMMA JobAt ==
  ASSUME JobOK, NEW c \in {"stop", "delete"}, job' = [job EXCEPT !.pc = c]
  PROVE  /\ job'.name = job.name /\ job'.pc = c /\ job'.new = job.new
         /\ job' \in [name : Name \cup {None}, pc : {"idle", "add", "stop", "delete"},
                      new : State \cup {None}]
BY DEF JobOK

\* The forwarder of the old state is stopped.
LEMMA StopForwarderInv ==
  ASSUME BalancerInv, StopForwarder
  PROVE  BalancerInv'
<1> USE DEF BalancerInv
<1>0. /\ job.pc = "stop" /\ job' = [job EXCEPT !.pc = "delete"]
      /\ UNCHANGED <<ipt, phase, table, prog, setup, undeleted, svcs, work, wanted>>
      /\ UNCHANGED <<failures, crashes, starts>>
  BY DEF StopForwarder, tables, counts
<1>1. /\ job'.name = job.name /\ job'.pc = "delete" /\ job'.new = job.new
      /\ job' \in [name : Name \cup {None}, pc : {"idle", "add", "stop", "delete"},
                   new : State \cup {None}]
  BY <1>0, JobAt
<1>2. /\ job.name \in Name /\ svcs[job.name] # None
      /\ phase = "running" => work[job.name] # Skip
      /\ phase = "closing" => work = NoWork /\ job.new = None
      /\ job.new # None => ~Keeps(svcs[job.name], job.new.service)
  BY <1>0 DEF JobOK
<1>3. phase \in {"running", "closing"}
  BY <1>0 DEF ServicesOff, NoJob
<1> DEFINE n == job.name
           st == svcs[n]
<1>11. DOMAIN forwarders' = DOMAIN forwarders \ Ports(st)
  BY <1>2 DEF StopForwarder, Without, Ports
<1>5. TablesOK' /\ TypeOK'
  <2>1. TablesOK'
    BY <1>0 DEF TablesOK
  <2>2. /\ svcs' \in [Name -> State \cup {None}] /\ DOMAIN forwarders' \subseteq Port
        /\ work' \in [Name -> Service \cup {None, Skip}]
        /\ wanted' \in [Name -> Service \cup {None}] /\ failures' \in 0 .. MaxFailures
    BY <1>0, <1>11 DEF TypeOK
  <2> QED BY <1>0, <1>1, <2>1, <2>2, TypeFromServices
<1>6. JobOK'
  BY <1>0, <1>1, <1>2 DEF JobOK
<1>7. ChainsOK' /\ StopsOrderly' /\ ServicesOff' /\ FailuresOK'
  BY <1>0, <1>3, ChainsQuiet
<1>8. RulesOK'
  <2>1. Pending' = Pending
    BY <1>0, <1>1 DEF Pending
  <2> QED BY <1>0, <2>1, RulesQuiet
<1>9. ForwardersOK'
  <2>4. n \in Name
    BY <1>2
  <2>1. /\ Listens'[n] = {} /\ Listens[n] = Ports(st)
        /\ \A m \in Name : m # n => Listens'[m] = Listens[m]
    BY <1>0, <1>1, <2>4 DEF Listens
  <2>2. Ports(job.new)' = Ports(job.new)
    BY <1>1 DEF Ports
  <2>3. /\ \A p \in Port : p \in DOMAIN forwarders <=>
                           (\E m \in Name : p \in Listens[m]) \/ p \in Ports(job.new)
        /\ \A k, m \in Name : k # m => Ports(svcs[k]) \cap Ports(svcs[m]) = {}
        /\ \A m \in Name : Ports(svcs[m]) \cap Ports(job.new) = {}
        /\ \A m \in Name : Listens[m] = Ports(svcs[m])
    BY <1>0 DEF ForwardersOK, Listens
  <2> HIDE DEF n, st
  <2>5. ASSUME NEW p \in Port
        PROVE  p \in DOMAIN forwarders' <=>
                 (\E m \in Name : p \in Listens'[m]) \/ p \in Ports(job.new)
    <3>1. p \in DOMAIN forwarders' <=> p \in DOMAIN forwarders /\ p \notin Listens[n]
      BY <1>11, <2>1
    <3>2. p \in DOMAIN forwarders <=> (\E m \in Name : p \in Listens[m]) \/ p \in Ports(job.new)
      BY <2>3
    <3>3. p \in Listens[n] => p \notin Ports(job.new) /\ \A m \in Name : m # n => p \notin Listens[m]
      BY <2>3, <2>4
    <3> QED BY <2>1, <2>4, <3>1, <3>2, <3>3
  <2>6. \A k, m \in Name : k # m => Ports(svcs'[k]) \cap Ports(svcs'[m]) = {}
    BY <1>0, <2>3
  <2>7. \A m \in Name : Ports(svcs'[m]) \cap Ports(job.new)' = {}
    BY <1>0, <2>2, <2>3
  <2> QED BY <2>2, <2>5, <2>6, <2>7 DEF ForwardersOK
<1>10. WantedOK'
  <2>1. failures = 0 /\ phase # "closing" =>
          \A m \in Name : /\ work[m] = Skip => Matches(svcs[m], wanted[m])
                          /\ work[m] # Skip => work[m] = wanted[m]
                          /\ job.name = m => Matches(job.new, wanted[m])
    BY <1>0 DEF WantedOK
  <2> QED BY <1>0, <1>1, <2>1 DEF WantedOK
<1> QED BY <1>5, <1>6, <1>7, <1>8, <1>9, <1>10

\* The new state's rule is added.
LEMMA AddRuleInv ==
  ASSUME BalancerInv, AddRule
  PROVE  BalancerInv'
<1> USE DEF BalancerInv
<1>0. /\ job.pc = "add"
      /\ UNCHANGED <<phase, table, prog, setup, undeleted, wanted, crashes, starts>>
  BY DEF AddRule
<1> DEFINE n == job.name
           st == job.new
<1>1. /\ n \in Name /\ st \in State /\ st # None /\ phase = "running" /\ work[n] # Skip
      /\ job \in [name : Name \cup {None}, pc : {"idle", "add", "stop", "delete"},
                  new : State \cup {None}]
      /\ svcs[n] # None => ~Keeps(svcs[n], st.service)
  BY <1>0 DEF JobOK
<1>2. PICK end \in {"ok", "refused", "broken"} :
        /\ Ends(TableOf(st), Cmd("A", Rule(st)), end)
        /\ \/ /\ end = "ok" /\ svcs[n] = None
              /\ svcs' = [svcs EXCEPT ![n] = st]
              /\ Done(n) /\ job' = NoJob
              /\ UNCHANGED forwarders
           \/ /\ end = "ok" /\ svcs[n] # None
              /\ job' = [job EXCEPT !.pc = "stop"]
              /\ UNCHANGED <<svcs, work, forwarders>>
           \/ /\ end # "ok"
              /\ forwarders' = IF st.kind = "forwarding" THEN Without(st.port) ELSE forwarders
              /\ Done(n) /\ job' = NoJob
              /\ UNCHANGED svcs
  BY DEF AddRule
<1>3. /\ TablesOK'
      /\ failures' \in 0 .. MaxFailures /\ failures' \in {failures, failures + 1}
      /\ failures' = 0 => failures = 0 /\ end = "ok"
      /\ \A t \in Table : ipt'[t].exists = ipt[t].exists /\ ipt'[t].refs = ipt[t].refs
      /\ end = "ok" =>
           \A t \in Table, r \in AnyRule :
             Present(t, r)' = Present(t, r) + Needs(st, t, r)
      /\ end # "ok" => ipt' = ipt
  BY <1>1, <1>2, AddedOnce
<1>4. NoJob.pc = "idle" /\ NoJob.new = None /\ NoJob.name = None
  BY DEF NoJob
<1>5. NoJob \in [name : Name \cup {None}, pc : {"idle", "add", "stop", "delete"},
                 new : State \cup {None}]
  BY DEF NoJob
<1>6. ChainsOK' /\ StopsOrderly' /\ ServicesOff' /\ FailuresOK'
  BY <1>0, <1>1, <1>3, ChainsQuiet
<1>7. /\ svcs \in [Name -> State \cup {None}] /\ DOMAIN forwarders \subseteq Port
      /\ work \in [Name -> Service \cup {None, Skip}]
      /\ wanted' \in [Name -> Service \cup {None}]
  BY <1>0 DEF TypeOK
<1>8. Pending = None
  BY <1>0 DEF Pending
<1>9. \A t \in Table, r \in AnyRule :
        /\ Needed(t, r) = Cardinality(Holders(t, r)) /\ Cardinality(Holders(t, r)) \in Nat
        /\ Needed(t, r) <= Present(t, r) /\ Present(t, r) \in Nat
  <2> TAKE t \in Table, r \in AnyRule
  <2>1. Cardinality(Holders(t, r)) \in Nat
    BY <1>7, HoldingCounts
  <2>2. Needs(Pending, t, r) = 0
    BY <1>8 DEF Needs
  <2>3. Present(t, r) \in Nat
    BY PresentCounts
  <2>4. Needed(t, r) <= Present(t, r)
    BY <1>1 DEF RulesOK
  <2> QED BY <2>1, <2>2, <2>3, <2>4 DEF Needed
<1>15. \A t \in Table, r \in AnyRule :
         <<t, r>> \notin undeleted => Needed(t, r) = Present(t, r)
  BY <1>1 DEF RulesOK
<1>10. /\ \A p \in Port : p \in DOMAIN forwarders <=>
                            (\E m \in Name : p \in Listens[m]) \/ p \in Ports(st)
       /\ \A k, m \in Name : k # m => Ports(svcs[k]) \cap Ports(svcs[m]) = {}
       /\ \A m \in Name : Ports(svcs[m]) \cap Ports(st) = {}
       /\ \A m \in Name : Listens[m] = Ports(svcs[m])
  BY <1>0 DEF ForwardersOK, Listens
<1>11. failures = 0 => \A m \in Name : /\ work[m] = Skip => Matches(svcs[m], wanted[m])
                                       /\ work[m] # Skip => work[m] = wanted[m]
                                       /\ n = m => Matches(st, wanted[m])
  BY <1>0, <1>1 DEF WantedOK
<1> HIDE DEF n, st
<1>12. CASE /\ end = "ok" /\ svcs[n] = None
            /\ svcs' = [svcs EXCEPT ![n] = st]
            /\ Done(n) /\ job' = NoJob
            /\ UNCHANGED forwarders
  <2>1. /\ work' \in [Name -> Service \cup {None, Skip}]
        /\ work'[n] = Skip /\ \A m \in Name : m # n => work'[m] = work[m]
    BY <1>1, <1>12, DoneWith
  <2>2. /\ svcs' \in [Name -> State \cup {None}] /\ svcs'[n] = st
        /\ \A m \in Name : m # n => svcs'[m] = svcs[m]
    BY <1>1, <1>7, <1>12
  <2>3. TypeOK'
    BY <1>0, <1>3, <1>5, <1>7, <1>12, <2>1, <2>2, TypeFromServices
  <2>4. JobOK'
    BY <1>0, <1>1, <1>4, <1>5, <1>12 DEF JobOK
  <2>5. RulesOK'
    <3>1. Pending' = None
      BY <1>4, <1>12 DEF Pending
    <3>2. ASSUME NEW t \in Table, NEW r \in AnyRule
          PROVE  Needed(t, r)' = Needed(t, r) + Needs(st, t, r)
      <4>1. Needs(svcs[n], t, r) = 0 /\ Needs(None, t, r) = 0 /\ Needs(st, t, r) \in {0, 1}
        BY <1>12 DEF Needs
      <4>2. Cardinality(Holding([svcs EXCEPT ![n] = st], t, r)) =
              Cardinality(Holding(svcs, t, r)) - Needs(svcs[n], t, r) + Needs(st, t, r)
        <5>1. st \in State \cup {None} /\ n \in Name /\ svcs \in [Name -> State \cup {None}]
          BY <1>1, <1>7
        <5> QED BY <5>1, HoldingChanges, Zenon
      <4>3. Cardinality(Holding(svcs', t, r)) = Cardinality(Holders(t, r)) + Needs(st, t, r)
        BY <1>9, <1>12, <4>1, <4>2 DEF Holders
      <4>4. Needed(t, r)' = Cardinality(Holding(svcs', t, r)) + Needs(Pending', t, r)
        BY DEF Needed, Holders, Needs
      <4> QED BY <1>9, <3>1, <4>1, <4>3, <4>4
    <3>3. \A t \in Table, r \in AnyRule : Needs(st, t, r) \in {0, 1}
      BY DEF Needs
    <3>4. ASSUME NEW t \in Table, NEW r \in AnyRule
          PROVE  /\ Needed(t, r)' <= Present(t, r)'
                 /\ <<t, r>> \notin undeleted' => Needed(t, r)' = Present(t, r)'
      <4>1. /\ Needed(t, r)' = Needed(t, r) + Needs(st, t, r)
            /\ Present(t, r)' = Present(t, r) + Needs(st, t, r)
            /\ Needed(t, r) \in Nat /\ Present(t, r) \in Nat /\ Needs(st, t, r) \in Nat
            /\ Needed(t, r) <= Present(t, r)
        BY <1>3, <1>9, <1>12, <3>2, <3>3
      <4> QED BY <1>0, <1>15, <4>1
    <3> QED BY <3>4 DEF RulesOK
  <2>6. ForwardersOK'
    <3>1. \A m \in Name : Listens'[m] = IF m = n THEN Ports(st) ELSE Listens[m]
      BY <1>4, <1>10, <1>12, <2>2 DEF Listens
    <3>2. Ports(job.new)' = {} /\ Listens[n] = {}
      BY <1>1, <1>4, <1>10, <1>12 DEF Ports
    <3>3. \A p \in Port : p \in DOMAIN forwarders' <=> \E m \in Name : p \in Listens'[m]
      BY <1>1, <1>10, <1>12, <3>1, <3>2
    <3>4. \A k, m \in Name : k # m => Ports(svcs'[k]) \cap Ports(svcs'[m]) = {}
      BY <1>1, <1>10, <2>2
    <3> QED BY <3>2, <3>3, <3>4 DEF ForwardersOK
  <2>7. WantedOK'
    BY <1>0, <1>1, <1>3, <1>4, <1>11, <1>12, <2>1, <2>2 DEF WantedOK
  <2> QED BY <1>3, <1>6, <2>3, <2>4, <2>5, <2>6, <2>7
<1>13. CASE /\ end = "ok" /\ svcs[n] # None
            /\ job' = [job EXCEPT !.pc = "stop"]
            /\ UNCHANGED <<svcs, work, forwarders>>
  <2>1. /\ job'.name = n /\ job'.pc = "stop" /\ job'.new = st
        /\ job' \in [name : Name \cup {None}, pc : {"idle", "add", "stop", "delete"},
                     new : State \cup {None}]
    BY <1>13, JobAt DEF n, st
  <2>3. TypeOK'
    BY <1>0, <1>3, <1>7, <1>13, <2>1, TypeFromServices
  <2>4. JobOK'
    BY <1>0, <1>1, <1>13, <2>1 DEF JobOK
  <2>5. RulesOK'
    <3>1. Pending' = st
      BY <2>1 DEF Pending
    <3>3. \A t \in Table, r \in AnyRule : Needs(st, t, r) \in {0, 1}
      BY DEF Needs
    <3>2. ASSUME NEW t \in Table, NEW r \in AnyRule
          PROVE  Needed(t, r)' = Needed(t, r) + Needs(st, t, r)
      <4>1. Needed(t, r)' = Cardinality(Holding(svcs', t, r)) + Needs(Pending', t, r)
        BY DEF Needed, Holders, Needs
      <4> QED BY <1>9, <1>13, <3>1, <4>1 DEF Holders
    <3>4. ASSUME NEW t \in Table, NEW r \in AnyRule
          PROVE  /\ Needed(t, r)' <= Present(t, r)'
                 /\ <<t, r>> \notin undeleted' => Needed(t, r)' = Present(t, r)'
      <4>1. /\ Needed(t, r)' = Needed(t, r) + Needs(st, t, r)
            /\ Present(t, r)' = Present(t, r) + Needs(st, t, r)
            /\ Needed(t, r) \in Nat /\ Present(t, r) \in Nat /\ Needs(st, t, r) \in Nat
            /\ Needed(t, r) <= Present(t, r)
        BY <1>3, <1>9, <1>13, <3>2, <3>3
      <4> QED BY <1>0, <1>15, <4>1
    <3> QED BY <3>4 DEF RulesOK
  <2>6. ForwardersOK'
    <3>1. Listens' = Listens
      BY <1>0, <1>13, <2>1 DEF Listens
    <3> QED BY <1>10, <1>13, <2>1, <3>1 DEF ForwardersOK
  <2>7. WantedOK'
    BY <1>0, <1>1, <1>3, <1>11, <1>13, <2>1 DEF WantedOK
  <2> QED BY <1>3, <1>6, <2>3, <2>4, <2>5, <2>6, <2>7
<1>14. CASE /\ end # "ok"
            /\ forwarders' = IF st.kind = "forwarding" THEN Without(st.port) ELSE forwarders
            /\ Done(n) /\ job' = NoJob
            /\ UNCHANGED svcs
  <2>1. work' \in [Name -> Service \cup {None, Skip}]
    BY <1>1, <1>14, DoneWith
  <2>2. DOMAIN forwarders' = DOMAIN forwarders \ Ports(st)
    BY <1>1, <1>14 DEF Without, Ports
  <2>3. TypeOK'
    BY <1>0, <1>3, <1>5, <1>7, <1>14, <2>1, <2>2, TypeFromServices
  <2>4. JobOK'
    BY <1>0, <1>1, <1>4, <1>5, <1>14 DEF JobOK
  <2>5. RulesOK'
    <3>1. Pending' = Pending
      BY <1>4, <1>8, <1>14 DEF Pending
    <3> QED BY <1>0, <1>3, <1>14, <3>1, RulesQuiet
  <2>6. ForwardersOK'
    <3>1. \A m \in Name : Listens'[m] = Listens[m]
      BY <1>4, <1>10, <1>14 DEF Listens
    <3>2. Ports(job.new)' = {}
      BY <1>4, <1>14 DEF Ports
    <3>3. \A p \in Port : p \in DOMAIN forwarders' <=> \E m \in Name : p \in Listens'[m]
      BY <1>10, <2>2, <3>1
    <3>4. \A k, m \in Name : k # m => Ports(svcs'[k]) \cap Ports(svcs'[m]) = {}
      BY <1>10, <1>14
    <3> QED BY <3>2, <3>3, <3>4 DEF ForwardersOK
  <2>7. WantedOK'
    BY <1>3, <1>14 DEF WantedOK
  <2> QED BY <1>3, <1>6, <2>3, <2>4, <2>5, <2>6, <2>7
<1> QED BY <1>2, <1>12, <1>13, <1>14

\* The old state's rule is deleted, and the new one takes its place.
LEMMA DeleteRuleInv ==
  ASSUME BalancerInv, DeleteRule
  PROVE  BalancerInv'
<1> USE DEF BalancerInv
<1> DEFINE n == job.name
           old == svcs[n]
           new == job.new
<1>0. /\ job.pc = "delete"
      /\ svcs' = [svcs EXCEPT ![n] = new]
      /\ Done(n) /\ job' = NoJob
      /\ UNCHANGED <<phase, table, prog, setup, forwarders, wanted, crashes, starts>>
  BY DEF DeleteRule
<1>1. /\ n \in Name /\ old # None /\ new \in State \cup {None}
      /\ phase = "closing" => work = NoWork /\ new = None
  BY <1>0 DEF JobOK
<1>2. phase \in {"running", "closing"}
  BY <1>0 DEF ServicesOff, NoJob
<1>7. /\ svcs \in [Name -> State \cup {None}] /\ DOMAIN forwarders \subseteq Port
      /\ work \in [Name -> Service \cup {None, Skip}]
      /\ wanted' \in [Name -> Service \cup {None}]
  BY <1>0 DEF TypeOK
<1>15. old \in State
  BY <1>1, <1>7
<1>16. PICK end :
         /\ Ends(TableOf(old), Cmd("R", Rule(old)), end)
         /\ undeleted' = IF end = "ok" THEN undeleted ELSE undeleted \cup {<<TableOf(old), Rule(old)>>}
  BY DEF DeleteRule
<1>3. /\ TablesOK'
      /\ failures' \in 0 .. MaxFailures /\ failures' \in {failures, failures + 1}
      /\ failures' = 0 => failures = 0
      /\ end = "ok" => failures' = failures
      /\ failures' = failures /\ end # "ok" => Present(TableOf(old), Rule(old)) = 0
      /\ \A t \in Table : ipt'[t].exists = ipt[t].exists /\ ipt'[t].refs = ipt[t].refs
      /\ end = "ok" =>
           \A t \in Table, r \in AnyRule :
             Present(t, r)' = Present(t, r) - Needs(old, t, r)
      /\ end # "ok" => ipt' = ipt
  BY <1>15, <1>16, RemovedOnce
<1>4. NoJob.pc = "idle" /\ NoJob.new = None /\ NoJob.name = None
  BY DEF NoJob
<1>5. NoJob \in [name : Name \cup {None}, pc : {"idle", "add", "stop", "delete"},
                 new : State \cup {None}]
  BY DEF NoJob
<1>8. Pending = new
  BY <1>0 DEF Pending
<1>9. \A t \in Table, r \in AnyRule :
        /\ Needed(t, r) = Cardinality(Holders(t, r)) + Needs(new, t, r)
        /\ Cardinality(Holders(t, r)) \in Nat
        /\ Needed(t, r) <= Present(t, r) /\ Present(t, r) \in Nat
  <2> TAKE t \in Table, r \in AnyRule
  <2>1. Cardinality(Holders(t, r)) \in Nat
    BY <1>7, HoldingCounts
  <2>3. Present(t, r) \in Nat
    BY PresentCounts
  <2> QED BY <1>2, <1>8, <2>1, <2>3 DEF Needed, RulesOK
<1>26. \A t \in Table, r \in AnyRule :
         <<t, r>> \notin undeleted => Needed(t, r) = Present(t, r)
  BY <1>2 DEF RulesOK
<1>10. /\ \A p \in Port : p \in DOMAIN forwarders <=>
                            (\E m \in Name : p \in Listens[m]) \/ p \in Ports(new)
       /\ \A k, m \in Name : k # m => Ports(svcs[k]) \cap Ports(svcs[m]) = {}
       /\ \A m \in Name : Ports(svcs[m]) \cap Ports(new) = {}
       /\ \A m \in Name : Listens[m] = IF m = n THEN {} ELSE Ports(svcs[m])
  BY <1>0 DEF ForwardersOK, Listens
<1>11. failures = 0 /\ phase # "closing" =>
         \A m \in Name : /\ work[m] = Skip => Matches(svcs[m], wanted[m])
                         /\ work[m] # Skip => work[m] = wanted[m]
                         /\ n = m => Matches(new, wanted[m])
  BY <1>0 DEF WantedOK
<1>17. /\ work' \in [Name -> Service \cup {None, Skip}]
       /\ work'[n] = Skip /\ \A m \in Name : m # n => work'[m] = work[m]
  BY <1>0, <1>1, DoneWith
<1>18. /\ svcs' \in [Name -> State \cup {None}] /\ svcs'[n] = new
       /\ \A m \in Name : m # n => svcs'[m] = svcs[m]
  BY <1>0, <1>1, <1>7
<1>19. TypeOK'
  <2>1. undeleted' \subseteq undeleted \cup (Table \X AnyRule)
    BY <1>15, <1>16, States
  <2> QED BY <1>0, <1>3, <1>5, <1>7, <1>17, <1>18, <2>1, TypeFromServices
<1>20. JobOK'
  <2>1. phase = "closing" => work' = NoWork
    BY <1>1, <1>17 DEF NoWork
  <2> QED BY <1>0, <1>4, <1>5, <2>1 DEF JobOK
<1> HIDE DEF n, old, new
\* The rule is there, because a state holds it: not to delete it is a failure.
<1>24. end # "ok" => failures' = failures + 1
  <2> DEFINE a == TableOf(old)
             q == Rule(old)
  <2>1. a \in Table /\ q \in AnyRule
    BY <1>15, States
  <2>2. n \in Holders(a, q)
    BY <1>1, <1>15 DEF Holders, Holding, old
  <2>3. Cardinality(Holders(a, q)) \in Nat /\ Cardinality(Holders(a, q)) # 0
    BY <1>7, <2>1, <2>2, HoldingCounts
  <2>4. Needs(new, a, q) \in {0, 1}
    BY DEF Needs
  <2>5. end # "ok" /\ failures' = failures => Present(a, q) = 0
    BY <1>3
  <2> HIDE DEF a, q
  <2>6. Present(a, q) # 0
    BY <1>9, <2>1, <2>3, <2>4
  <2> QED BY <1>3, <2>5, <2>6
<1>25. FailuresOK' /\ (Orderly' => Orderly)
  <2>1. CASE undeleted' = undeleted
    BY <1>0, <1>3, <2>1, StillOrderly
  <2>2. CASE undeleted' # undeleted
    <3>1. PICK x : undeleted' = undeleted \cup {x} /\ x \notin undeleted
      BY <1>16, <2>2
    <3>2. failures' = failures + 1
      BY <1>16, <1>24, <2>2
    <3>3. /\ IsFiniteSet(undeleted) /\ Cardinality(undeleted) <= failures
          /\ failures \in Nat /\ Cardinality(undeleted) \in Nat
      BY FS_CardinalityType, BalancerAssumption DEF FailuresOK, TypeOK
    <3>4. IsFiniteSet(undeleted') /\ Cardinality(undeleted') = Cardinality(undeleted) + 1
      BY <3>1, <3>3, FS_AddElement
    <3>5. FailuresOK'
      BY <3>2, <3>3, <3>4 DEF FailuresOK
    <3>6. Orderly' => Orderly
      BY <1>0, <3>2, <3>3, <3>4 DEF Orderly, OnlyDeletionsFailed
    <3> QED BY <3>5, <3>6
  <2> QED BY <2>1, <2>2
<1>6. ChainsOK' /\ StopsOrderly' /\ ServicesOff'
  BY <1>0, <1>2, <1>3, <1>25, ChainsKept
<1>21. RulesOK'
  <2>1. Pending' = None
    BY <1>0, <1>4 DEF Pending
  <2>2. \A t \in Table, r \in AnyRule : Needs(old, t, r) \in {0, 1} /\ Needs(new, t, r) \in {0, 1}
    BY DEF Needs
  <2>3. ASSUME NEW t \in Table, NEW r \in AnyRule
        PROVE  Needed(t, r)' = Needed(t, r) - Needs(old, t, r)
    <3>1. Cardinality(Holding([svcs EXCEPT ![n] = new], t, r)) =
            Cardinality(Holding(svcs, t, r)) - Needs(svcs[n], t, r) + Needs(new, t, r)
      <4>1. new \in State \cup {None} /\ n \in Name /\ svcs \in [Name -> State \cup {None}]
        BY <1>1, <1>7
      <4> QED BY <4>1, HoldingChanges, Zenon
    <3>2. Cardinality(Holding(svcs', t, r)) =
            Cardinality(Holders(t, r)) - Needs(old, t, r) + Needs(new, t, r)
      BY <1>0, <3>1 DEF Holders, old
    <3>3. Needed(t, r)' = Cardinality(Holding(svcs', t, r)) + Needs(Pending', t, r)
      BY DEF Needed, Holders, Needs
    <3>4. Needs(None, t, r) = 0
      BY DEF Needs
    <3> QED BY <1>9, <2>1, <2>2, <3>2, <3>3, <3>4
  <2>4. CASE end = "ok"
    <3>1. ASSUME NEW t \in Table, NEW r \in AnyRule
          PROVE  /\ Needed(t, r)' <= Present(t, r)'
                 /\ <<t, r>> \notin undeleted' => Needed(t, r)' = Present(t, r)'
      <4>1. Needed(t, r) \in Nat /\ undeleted' = undeleted
        BY <1>9, <1>16, <2>2, <2>4
      <4>2. /\ Needed(t, r)' = Needed(t, r) - Needs(old, t, r)
            /\ Present(t, r)' = Present(t, r) - Needs(old, t, r)
            /\ Present(t, r) \in Nat /\ Needs(old, t, r) \in Nat
            /\ Needed(t, r) <= Present(t, r)
        BY <1>3, <1>9, <2>2, <2>3, <2>4
      <4> QED BY <1>26, <4>1, <4>2
    <3> QED BY <3>1 DEF RulesOK
  <2>5. CASE end # "ok"
    <3>1. ASSUME NEW t \in Table, NEW r \in AnyRule
          PROVE  /\ Needed(t, r)' <= Present(t, r)'
                 /\ <<t, r>> \notin undeleted' => Needed(t, r)' = Present(t, r)'
      <4>1. Needed(t, r) \in Nat
        BY <1>9, <2>2
      <4>2. Present(t, r)' = Present(t, r)
        BY <1>3, <2>5 DEF Present
      <4>3. <<t, r>> \notin undeleted' => <<t, r>> \notin undeleted /\ Needs(old, t, r) = 0
        BY <1>16, <2>5 DEF Needs
      <4>4. /\ Needed(t, r)' = Needed(t, r) - Needs(old, t, r)
            /\ Present(t, r)' = Present(t, r)
            /\ Present(t, r) \in Nat /\ Needs(old, t, r) \in Nat
            /\ Needed(t, r) <= Present(t, r)
        BY <1>9, <2>2, <2>3, <4>2
      <4> QED BY <1>26, <4>1, <4>3, <4>4
    <3> QED BY <3>1 DEF RulesOK
  <2> QED BY <2>4, <2>5
<1>22. ForwardersOK'
  <2>1. \A m \in Name : Listens'[m] = IF m = n THEN Ports(new) ELSE Listens[m]
    BY <1>0, <1>4, <1>10, <1>18 DEF Listens
  <2>2. Ports(job.new)' = {} /\ Listens[n] = {}
    BY <1>0, <1>1, <1>4, <1>10 DEF Ports
  <2>3. \A p \in Port : p \in DOMAIN forwarders' <=> \E m \in Name : p \in Listens'[m]
    BY <1>0, <1>1, <1>10, <2>1, <2>2
  <2>4. \A k, m \in Name : k # m => Ports(svcs'[k]) \cap Ports(svcs'[m]) = {}
    BY <1>1, <1>10, <1>18
  <2> QED BY <2>2, <2>3, <2>4 DEF ForwardersOK
<1>23. WantedOK'
  BY <1>0, <1>1, <1>3, <1>4, <1>11, <1>17, <1>18 DEF WantedOK
<1> QED BY <1>3, <1>6, <1>25, <1>19, <1>20, <1>21, <1>22, <1>23

-----------------------------------------------------------------------------
(***************************************************************************)
(* The theorems.                                                           *)
(***************************************************************************)
\* The invariant holds to begin with.
LEMMA InitInv == Init => BalancerInv
<1> SUFFICES ASSUME Init PROVE BalancerInv
  OBVIOUS
<1> USE DEF Init
<1>2. NoJob.pc = "idle" /\ NoJob.new = None /\ NoJob.name = None
  BY DEF NoJob
<1>5. NoJob \in [name : Name \cup {None}, pc : {"idle", "add", "stop", "delete"},
                 new : State \cup {None}]
  BY DEF NoJob
<1>1. ASSUME NEW t \in Table
      PROVE  TableOK(t, ipt[t]) /\ ipt[t].exists \in BOOLEAN /\ ipt[t].refs \in [Hook(t) -> Nat]
             /\ ipt[t].rules \in Seq(AnyRule)
  <2>1. <<>> \in Seq(AnyRule)
    OBVIOUS
  <2>2. ipt[t] = [exists |-> FALSE, refs |-> [h \in Hook(t) |-> 0], rules |-> <<>>]
    BY DEF NoChain
  <2>3. ipt[t].exists = FALSE /\ ipt[t].refs = [h \in Hook(t) |-> 0] /\ ipt[t].rules = <<>>
    BY <2>2
  <2>4. [h \in Hook(t) |-> 0] \in [Hook(t) -> Nat]
    OBVIOUS
  <2>5. ipt[t] = [exists |-> ipt[t].exists, refs |-> ipt[t].refs, rules |-> ipt[t].rules]
    BY <2>2, <2>3
  <2> HIDE DEF Init
  <2> QED BY <2>1, <2>3, <2>4, <2>5 DEF TableOK
<1>3. TablesOK
  BY <1>1 DEF TablesOK
<1>4. TypeOK
  BY <1>1, <1>2, BalancerAssumption DEF TypeOK, Table, NoWork
<1>6. JobOK
  BY <1>2, <1>5 DEF JobOK
<1>7. ServicesOff /\ ChainsOK /\ RulesOK /\ StopsOrderly
  BY DEF ServicesOff, ChainsOK, RulesOK, StopsOrderly
<1>8. ForwardersOK
  BY <1>2 DEF ForwardersOK, Listens, Ports
<1>10. FailuresOK
  BY FS_EmptySet DEF FailuresOK
<1>9. WantedOK
  BY <1>2 DEF WantedOK, Matches, NoWork
<1> QED BY <1>3, <1>4, <1>6, <1>7, <1>8, <1>9, <1>10 DEF BalancerInv

\* A step that changes nothing.
LEMMA StutterInv ==
  ASSUME BalancerInv, UNCHANGED vars
  PROVE  BalancerInv'
<1> USE DEF BalancerInv
<1>0. /\ UNCHANGED <<ipt, phase, table, prog, setup, undeleted, svcs, forwarders, work, job, wanted>>
      /\ UNCHANGED <<failures, crashes, starts>>
  BY DEF vars, tables, serv, counts
<1>1. TypeOK' /\ TablesOK' /\ JobOK' /\ ServicesOff' /\ WantedOK' /\ FailuresOK'
  BY <1>0 DEF TypeOK, TablesOK, JobOK, ServicesOff, WantedOK, FailuresOK
<1>2. StopsOrderly'
  BY <1>0 DEF StopsOrderly, Orderly, OnlyDeletionsFailed, Left, Bare
<1>3. Pending' = Pending /\ Listens' = Listens
  BY <1>0 DEF Pending, Listens
<1>4. RulesOK' /\ ForwardersOK'
  BY <1>0, <1>3, RulesQuiet DEF ForwardersOK
<1>5. ChainsOK'
  <2>1. ASSUME NEW t \in Table, NEW i \in 1 .. 7, SettingUp(t, i), HalfWay(t, i),
               Orderly => SetupOrderly(t, i)
        PROVE  SettingUp(t, i)' /\ HalfWay(t, i)' /\ (Orderly' => SetupOrderly(t, i)')
    BY <1>0, <2>1 DEF SettingUp, HalfWay, Orderly, OnlyDeletionsFailed, SetupOrderly, Left, Bare, Unhooked
  <2>2. ASSUME NEW t \in Table, NEW i \in 1 .. Len(Teardown(t)), TakingDown(t, i),
               Orderly => StopOrderly(t, i)
        PROVE  TakingDown(t, i)' /\ (Orderly' => StopOrderly(t, i)')
    BY <1>0, <2>2 DEF TakingDown, Orderly, OnlyDeletionsFailed, StopOrderly, Left, Bare, Hooked, Unhooked
  <2>3. \A t \in Table : (Hooked(t) => Hooked(t)') /\ (Bare(t) => Bare(t)')
    BY <1>0 DEF Hooked, Bare
  <2>4. "nat" \in Table
    BY DEF Table
  <2> QED BY <1>0, <2>1, <2>2, <2>3, <2>4 DEF ChainsOK
<1> QED BY <1>1, <1>2, <1>4, <1>5

\* Every step keeps the invariant.
LEMMA StepInv == BalancerInv /\ [Next]_vars => BalancerInv'
<1> SUFFICES ASSUME BalancerInv, [Next]_vars PROVE BalancerInv'
  OBVIOUS
<1>1. CASE StartBalancer BY <1>1, StartBalancerInv
<1>2. CASE TakeUpdate BY <1>2, TakeUpdateInv
<1>3. CASE StopBalancer BY <1>3, StopBalancerInv
<1>4. CASE Crash BY <1>4, CrashInv
<1>5. CASE SetupCommand BY <1>5, SetupCommandInv
<1>6. CASE TeardownCommand BY <1>6, TeardownCommandInv
<1>7. CASE AddRule BY <1>7, AddRuleInv
<1>8. CASE StopForwarder BY <1>8, StopForwarderInv
<1>9. CASE DeleteRule BY <1>9, DeleteRuleInv
<1>10. CASE ServicesClosed BY <1>10, ServicesClosedInv
<1>11. CASE \E n \in Name : Keep(n) BY <1>11, KeepInv
<1>12. CASE \E n \in Name : StartRejecting(n) BY <1>12, StartRejectingInv
<1>13. CASE \E n \in Name : StartForwarding(n) BY <1>13, StartForwardingInv
<1>14. CASE \E n \in Name : StartForwardingFails(n) BY <1>14, StartForwardingFailsInv
<1>15. CASE \E n \in Name : Close(n) BY <1>15, CloseInv
<1>16. CASE UNCHANGED vars BY <1>16, StutterInv
<1> QED
  BY <1>1, <1>2, <1>3, <1>4, <1>5, <1>6, <1>7, <1>8, <1>9, <1>10, <1>11, <1>12, <1>13,
     <1>14, <1>15, <1>16 DEF Next, Step

\* So it holds in every state.
THEOREM InvariantHolds == Spec => []BalancerInv
<1>1. Init => BalancerInv
  BY InitInv
<1>2. BalancerInv /\ [Next]_vars => BalancerInv'
  BY StepInv
<1> QED BY <1>1, <1>2, PTL DEF Spec

\* The tables, the services' states and the counters keep their types; no
\* hook is taken out more often than it is there, and no rule.
THEOREM TypeCorrect == Spec => []TypeOK
<1>1. BalancerInv => TypeOK
  BY DEF BalancerInv
<1> QED BY <1>1, InvariantHolds, PTL

\* A running balancer's chains are hooked exactly once, however many starts,
\* crashes and failures came before (iptables.go:128-186).
THEOREM ChainsHookedOnce == Spec => []HookedOnce
<1>1. BalancerInv => HookedOnce
  BY DEF BalancerInv, ChainsOK, HookedOnce, Hooked
<1> QED BY <1>1, InvariantHolds, PTL

-----------------------------------------------------------------------------
(***************************************************************************)
(* What a packet meets.                                                    *)
(***************************************************************************)
\* A rule that is needed is that of a service's state, or of the one that is
\* about to replace it.
LEMMA NeededBy ==
  ASSUME BalancerInv, NEW t \in Table, NEW r, Needed(t, r) # 0
  PROVE  \E st \in State :
           /\ TableOf(st) = t /\ Rule(st) = r
           /\ \/ \E m \in Name : svcs[m] = st
              \/ job.pc \in {"stop", "delete"} /\ job.new = st
<1>1. /\ svcs \in [Name -> State \cup {None}] /\ job.new \in State \cup {None}
  BY DEF BalancerInv, TypeOK
<1>2. CASE Holders(t, r) # {}
  <2>1. PICK m \in Name : svcs[m] # None /\ TableOf(svcs[m]) = t /\ Rule(svcs[m]) = r
    BY <1>2 DEF Holders, Holding
  <2>2. svcs[m] \in State
    BY <1>1, <2>1
  <2> QED BY <2>1, <2>2
<1>3. CASE Holders(t, r) = {}
  <2>1. Cardinality(Holders(t, r)) = 0
    BY <1>3, FS_EmptySet
  <2>2. Needs(Pending, t, r) # 0
    BY <2>1 DEF Needed, Needs
  <2>3. /\ Pending # None /\ TableOf(Pending) = t /\ Rule(Pending) = r
        /\ job.pc \in {"stop", "delete"} /\ Pending = job.new
    BY <2>2 DEF Needs, Pending
  <2> QED BY <1>1, <2>3
<1> QED BY <1>2, <1>3

\* The rule of a state is needed while the state is a service's, or is about to
\* be; and so it is in its chain.
LEMMA StateNeeds ==
  ASSUME BalancerInv, NEW st \in State,
         (\E m \in Name : svcs[m] = st) \/ (job.pc \in {"stop", "delete"} /\ job.new = st)
  PROVE  /\ Needed(TableOf(st), Rule(st)) # 0
         /\ \E i \in DOMAIN ipt[TableOf(st)].rules : ipt[TableOf(st)].rules[i] = Rule(st)
<1> DEFINE t == TableOf(st)
           r == Rule(st)
<1>1. t \in Table /\ r \in AnyRule /\ st # None
  BY States
<1>2. /\ TablesOK /\ RulesOK /\ ServicesOff /\ JobOK
      /\ svcs \in [Name -> State \cup {None}]
  BY DEF BalancerInv, TypeOK
<1>3. phase \in {"running", "closing"}
  BY <1>1, <1>2 DEF ServicesOff, NoJob
<1>4. Cardinality(Holders(t, r)) \in Nat /\ (Cardinality(Holders(t, r)) = 0 <=> Holders(t, r) = {})
  BY <1>1, <1>2, HoldingCounts
<1>5. Needs(Pending, t, r) \in {0, 1}
  BY DEF Needs
<1>6. Holders(t, r) # {} \/ Needs(Pending, t, r) = 1
  BY <1>1 DEF Holders, Holding, Needs, Pending
<1> HIDE DEF t, r
<1>7. Needed(t, r) \in Nat /\ Needed(t, r) # 0
  BY <1>4, <1>5, <1>6 DEF Needed
<1>8. Present(t, r) \in Nat /\ (Present(t, r) > 0 <=> Places(ipt[t].rules, r) # {})
  BY <1>1, <1>2, PresentCounts
<1>9. Needed(t, r) <= Present(t, r)
  BY <1>1, <1>2, <1>3 DEF RulesOK
<1>10. Places(ipt[t].rules, r) # {}
  BY <1>7, <1>8, <1>9
<1> QED BY <1>7, <1>10 DEF Places, t, r

\* A rule of a chain is needed, unless it could not be deleted.
LEMMA ThereNeeded ==
  ASSUME BalancerInv, phase \in {"running", "closing"}, NEW t \in Table,
         NEW i \in DOMAIN ipt[t].rules, <<t, ipt[t].rules[i]>> \notin undeleted
  PROVE  ipt[t].rules[i] \in AnyRule /\ Needed(t, ipt[t].rules[i]) # 0
<1> DEFINE r == ipt[t].rules[i]
<1>1. TablesOK /\ RulesOK /\ ipt[t].rules \in Seq(AnyRule)
  BY DEF BalancerInv, TablesOK, TableOK
<1>2. r \in AnyRule
  BY <1>1, ElementOfSeq
<1>3. i \in Places(ipt[t].rules, r)
  BY DEF Places
<1>4. Present(t, r) > 0 /\ Present(t, r) \in Nat
  BY <1>1, <1>3, PresentCounts
<1>5. Needed(t, r) = Present(t, r)
  BY <1>1, <1>2 DEF RulesOK
<1> HIDE DEF r
<1>6. Needed(t, r) # 0
  BY <1>4, <1>5
<1> QED BY <1>2, <1>6 DEF r

\* The first rule that redirects connections to an address is one of its rules.
LEMMA FirstMatch ==
  ASSUME BalancerInv, phase \in {"running", "closing"}, NEW a, Unshadowed(a), Redirects(a)
  PROVE  \E r \in AnyRule : r.addr = a /\ Needed("nat", r) # 0 /\ Destination(a) = r.to
<1> DEFINE M == Matching("nat", a)
           i == Min(M)
<1>1. ipt["nat"].rules \in Seq(AnyRule) /\ "nat" \in Table
  BY DEF BalancerInv, TablesOK, TableOK, Table
<1>2. M \subseteq Nat /\ M # {}
  BY <1>1 DEF Matching, Redirects
<1>3. i \in M
  <2> HIDE DEF M
  <2> QED BY <1>2, LeastOne
<1> HIDE DEF i
<1>4. i \in DOMAIN ipt["nat"].rules /\ ipt["nat"].rules[i].addr = a
  BY <1>3 DEF Matching
<1>5. ipt["nat"].rules[i] \in AnyRule
  BY <1>1, <1>4, ElementOfSeq
<1>6. <<"nat", ipt["nat"].rules[i]>> \notin undeleted
  BY <1>4, <1>5 DEF Unshadowed
<1>7. Needed("nat", ipt["nat"].rules[i]) # 0
  BY <1>1, <1>4, <1>6, ThereNeeded
<1>8. Destination(a) = ipt["nat"].rules[i].to
  BY DEF Destination, i
<1> QED BY <1>4, <1>5, <1>7, <1>8

\* The parts of a state's rule.
LEMMA RuleParts ==
  ASSUME NEW st
  PROVE  Rule(st).addr = st.service.addr /\ Rule(st).to = st.port
BY DEF Rule

\* A forwarding state whose rule is the only one needed for its address serves.
LEMMA ForwardingServes ==
  ASSUME BalancerInv, phase \in {"running", "closing"},
         NEW st \in State, st.kind = "forwarding",
         (\E m \in Name : svcs[m] = st) \/ (job.pc \in {"stop", "delete"} /\ job.new = st),
         Ports(st) \subseteq DOMAIN forwarders, Unshadowed(st.service.addr),
         \A r \in AnyRule : r.addr = st.service.addr /\ Needed("nat", r) # 0 => r = Rule(st)
  PROVE  Serves(st)
<1> DEFINE a == st.service.addr
<1>1. TableOf(st) = "nat" /\ st # None
  BY States
<1>2. PICK i \in DOMAIN ipt["nat"].rules : ipt["nat"].rules[i] = Rule(st)
  BY <1>1, StateNeeds
<1>3. Redirects(a)
  BY <1>2, RuleParts DEF Redirects, Matching
<1>4. PICK r \in AnyRule : r.addr = a /\ Needed("nat", r) # 0 /\ Destination(a) = r.to
  BY <1>3, FirstMatch
<1>5. r = Rule(st)
  BY <1>4
<1>6. Destination(a) = st.port
  BY <1>4, <1>5, RuleParts
<1>7. Listening(st.port)
  BY <1>1 DEF Ports, Listening
<1> QED BY <1>3, <1>6, <1>7 DEF Serves

\* A rejecting state serves where no rule needed for its address leads to a
\* forwarder that listens.
LEMMA RejectingServes ==
  ASSUME BalancerInv, phase \in {"running", "closing"},
         NEW st \in State, st.kind = "rejecting",
         (\E m \in Name : svcs[m] = st) \/ (job.pc \in {"stop", "delete"} /\ job.new = st),
         Unshadowed(st.service.addr),
         \A r \in AnyRule :
           r.addr = st.service.addr /\ Needed("nat", r) # 0 => r.to \notin DOMAIN forwarders
  PROVE  Serves(st)
<1> DEFINE a == st.service.addr
<1>1. TableOf(st) = "filter"
  BY States DEF Table
<1>2. PICK i \in DOMAIN ipt["filter"].rules : ipt["filter"].rules[i] = Rule(st)
  BY <1>1, StateNeeds
<1>3. Matching("filter", a) # {}
  BY <1>2, RuleParts DEF Matching
<1>4. ASSUME Redirects(a) PROVE ~Listening(Destination(a))
  <2>1. PICK r \in AnyRule : r.addr = a /\ Needed("nat", r) # 0 /\ Destination(a) = r.to
    BY <1>4, FirstMatch
  <2> QED BY <2>1 DEF Listening
<1> QED BY <1>3, <1>4 DEF Serves

\* Until it is closed, a service that has its address to itself gets at every
\* moment what its state, or the one that is replacing it, stands for, whatever
\* commands fail; but not where a redirection could not be deleted
\* (services.go:146-147, 251).
THEOREM NoServiceGap == Spec => []NoGap
<1>1. ASSUME BalancerInv PROVE NoGap
  <2> SUFFICES ASSUME NEW n \in Name, Open(n),
                      \A st \in Standing(n) : Sole(n, st.service.addr) /\ Unshadowed(st.service.addr)
               PROVE  \E st \in Standing(n) : Serves(st)
    BY DEF NoGap
  <2> DEFINE old == svcs[n]
             new == job.new
             mine == job.name = n /\ job.pc # "add"
  <2>1. /\ JobOK /\ ForwardersOK /\ ServicesOff /\ svcs \in [Name -> State \cup {None}]
    BY <1>1 DEF BalancerInv, TypeOK
  <2>2. old \in State /\ old # None /\ (job.name = n => new # None)
    BY <2>1 DEF Open
  <2>3. phase \in {"running", "closing"}
    BY <2>1, <2>2 DEF ServicesOff
  <2>4. old \in Standing(n) /\ (mine => new \in Standing(n))
    BY DEF Standing
  <2>5. /\ Sole(n, old.service.addr) /\ Unshadowed(old.service.addr)
        /\ mine => Sole(n, new.service.addr) /\ Unshadowed(new.service.addr)
    BY <2>4
  <2>6. /\ job.pc \in {"idle", "add", "stop", "delete"} /\ job.new \in State \cup {None}
        /\ job.pc # "idle" => job.name \in Name
        /\ mine => job.pc \in {"stop", "delete"} /\ new \in State /\ ~Keeps(old, new.service)
    BY <2>1, <2>2 DEF JobOK, NoJob
  \* Whose a rule is that is needed for the service's address.
  <2>7. ASSUME NEW a, Sole(n, a), NEW r, r.addr = a, Needed("nat", r) # 0
        PROVE  \/ r = Rule(old) /\ TableOf(old) = "nat"
               \/ mine /\ r = Rule(new) /\ TableOf(new) = "nat"
    <3>1. PICK st \in State : /\ TableOf(st) = "nat" /\ Rule(st) = r
                              /\ \/ \E m \in Name : svcs[m] = st
                                 \/ job.pc \in {"stop", "delete"} /\ job.new = st
      BY <1>1, <2>7, NeededBy DEF Table
    <3>2. st.service.addr = a /\ st # None
      BY <2>7, <3>1, RuleParts, States
    <3>3. CASE \E m \in Name : svcs[m] = st
      <4>1. PICK m \in Name : svcs[m] = st
        BY <3>3
      <4>2. m = n
        BY <2>7, <3>2, <4>1 DEF Sole
      <4> QED BY <3>1, <4>1, <4>2
    <3>4. CASE job.pc \in {"stop", "delete"} /\ job.new = st
      <4>1. job.name \in Name
        BY <2>6, <3>4
      <4>2. job.name = n
        BY <2>7, <3>2, <3>4, <4>1 DEF Sole
      <4> QED BY <3>1, <3>4, <4>2
    <3> QED BY <3>1, <3>3, <3>4
  <2>8. /\ Ports(old) \subseteq Port
        /\ ~(mine /\ job.pc = "delete") => Ports(old) \subseteq DOMAIN forwarders
    <3>1. Ports(old) \subseteq Port
      BY <2>2, States DEF Ports
    <3>2. ~(mine /\ job.pc = "delete") => Listens[n] = Ports(old)
      BY DEF Listens
    <3> QED BY <2>1, <3>1, <3>2 DEF ForwardersOK
  <2> HIDE DEF mine
  <2>9. CASE ~mine
    <3>1. \A r \in AnyRule : r.addr = old.service.addr /\ Needed("nat", r) # 0 =>
                               r = Rule(old) /\ TableOf(old) = "nat"
      BY <2>5, <2>7, <2>9
    <3>2. CASE old.kind = "forwarding"
      <4>1. Serves(old)
        BY <1>1, <2>2, <2>3, <2>5, <2>8, <2>9, <3>1, <3>2, ForwardingServes
      <4> QED BY <2>4, <4>1
    <3>3. CASE old.kind = "rejecting"
      <4>1. TableOf(old) # "nat"
        BY <2>2, <3>3, States
      <4>2. Serves(old)
        BY <1>1, <2>2, <2>3, <2>5, <3>1, <3>3, <4>1, RejectingServes
      <4> QED BY <2>4, <4>2
    <3> QED BY <2>2, <3>2, <3>3, States
  <2>10. CASE mine /\ new.kind = "forwarding"
    <3>1. new \in State /\ job.pc \in {"stop", "delete"}
      BY <2>6, <2>10
    <3>2. ~(old.kind = "forwarding" /\ old.service.addr = new.service.addr)
      BY <2>6, <2>10, <3>1, States DEF Keeps
    <3>3. ASSUME NEW r \in AnyRule, r.addr = new.service.addr, Needed("nat", r) # 0
          PROVE  r = Rule(new)
      <4>1. TableOf(old) = "nat" => old.kind = "forwarding"
        BY <2>2, States
      <4>2. r = Rule(old) => r.addr = old.service.addr
        BY RuleParts
      <4> QED BY <2>5, <2>7, <2>10, <3>2, <3>3, <4>1, <4>2
    <3>4. Ports(new) \subseteq DOMAIN forwarders
      <4>1. Ports(new) \subseteq Port
        BY <3>1, States DEF Ports
      <4> QED BY <2>1, <4>1 DEF ForwardersOK
    <3>5. Serves(new)
      BY <1>1, <2>3, <2>5, <2>10, <3>1, <3>3, <3>4, ForwardingServes
    <3> QED BY <2>4, <2>10, <3>5
  <2>11. CASE mine /\ new.kind = "rejecting"
    <3>1. new \in State /\ job.pc \in {"stop", "delete"} /\ TableOf(new) # "nat"
      BY <2>6, <2>11, States
    <3>2. old.kind = "forwarding"
      BY <2>2, <2>6, <2>11, <3>1, States DEF Keeps
    <3>3. CASE job.pc = "stop"
      <4>1. \A r \in AnyRule : r.addr = old.service.addr /\ Needed("nat", r) # 0 => r = Rule(old)
        BY <2>5, <2>7, <3>1
      <4>2. Serves(old)
        BY <1>1, <2>2, <2>3, <2>5, <2>8, <3>2, <3>3, <4>1, ForwardingServes
      <4> QED BY <2>4, <4>2
    <3>4. CASE job.pc = "delete"
      <4>1. old.port \in Port /\ old.port \in Ports(old) /\ Ports(new) = {}
        BY <2>2, <2>11, <3>2, States DEF Ports
      <4>2. \A m \in Name : old.port \notin Listens[m]
        BY <2>1, <2>11, <3>4, <4>1 DEF ForwardersOK, Listens, mine
      <4>3. old.port \notin DOMAIN forwarders
        BY <2>1, <4>1, <4>2 DEF ForwardersOK
      <4>4. ASSUME NEW r \in AnyRule, r.addr = new.service.addr, Needed("nat", r) # 0
            PROVE  r.to \notin DOMAIN forwarders
        <5>1. r = Rule(old)
          BY <2>5, <2>7, <2>11, <3>1, <4>4
        <5> QED BY <4>3, <5>1, RuleParts
      <4>5. Serves(new)
        BY <1>1, <2>3, <2>5, <2>11, <3>1, <4>4, RejectingServes
      <4> QED BY <2>4, <2>11, <4>5
    <3> QED BY <3>1, <3>3, <3>4
  <2> QED BY <2>6, <2>9, <2>10, <2>11, States
<1>2. BalancerInv => NoGap
  BY <1>1
<1> QED BY <1>2, InvariantHolds, PTL

\* While nothing has failed, the last update has its effect (services.go:77-115).
THEOREM UpdatesTakeEffect == Spec => []AsWanted
<1>1. ASSUME BalancerInv PROVE AsWanted
  <2> SUFFICES ASSUME Settled, NEW n \in Name
               PROVE  /\ svcs[n] = None <=> wanted[n] = None
                      /\ svcs[n] # None =>
                           /\ svcs[n].kind = "forwarding" <=> wanted[n].insts # {}
                           /\ svcs[n].kind = "forwarding" => svcs[n].service.addr = wanted[n].addr
    BY DEF AsWanted
  <2>1. work[n] = Skip /\ failures = 0 /\ phase # "closing"
    BY DEF Settled, Idle, NoWork
  <2>2. Matches(svcs[n], wanted[n])
    BY <1>1, <2>1 DEF BalancerInv, WantedOK
  <2> QED BY <2>2 DEF Matches
<1>2. BalancerInv => AsWanted
  BY <1>1
<1> QED BY <1>2, InvariantHolds, PTL

\* Whatever commands failed, between updates a chain has the rules that the
\* states need, as often as they do, and no others but what could not be
\* deleted; and only their forwarders run (services.go:155-164, 240-251).
THEOREM NothingLeftOver == Spec => []NoLeftovers
<1>1. ASSUME BalancerInv PROVE NoLeftovers
  <2> SUFFICES ASSUME phase = "running", Idle PROVE NoLeftovers
    BY DEF NoLeftovers
  <2> DEFINE forwarding == {m \in Name : svcs[m] # None /\ svcs[m].kind = "forwarding"}
  <2>1. /\ TablesOK /\ RulesOK /\ ForwardersOK /\ svcs \in [Name -> State \cup {None}]
        /\ DOMAIN forwarders \subseteq Port /\ job = NoJob
    BY <1>1 DEF BalancerInv, TypeOK, Idle, Busy
  <2>2. NoJob.pc = "idle" /\ NoJob.new = None
    BY DEF NoJob
  <2>3. Pending = None /\ Ports(job.new) = {} /\ \A m \in Name : Listens[m] = Ports(svcs[m])
    BY <2>1, <2>2 DEF Pending, Ports, Listens
  <2>4. ASSUME NEW t \in Table, NEW r \in AnyRule
        PROVE  LET needing == {n \in Name : svcs[n] # None /\ TableOf(svcs[n]) = t /\ Rule(svcs[n]) = r}
                   copies  == Cardinality(Places(ipt[t].rules, r))
               IN  /\ copies >= Cardinality(needing)
                   /\ <<t, r>> \notin undeleted => copies = Cardinality(needing)
    <3>1. /\ Needed(t, r) <= Present(t, r)
          /\ <<t, r>> \notin undeleted => Needed(t, r) = Present(t, r)
      BY <2>1 DEF RulesOK
    <3>2. Needs(Pending, t, r) = 0
      BY <2>3 DEF Needs
    <3>3. Cardinality(Holders(t, r)) \in Nat /\ Present(t, r) \in Nat
      BY <2>1, HoldingCounts, PresentCounts
    <3>4. /\ Present(t, r) >= Cardinality(Holders(t, r))
          /\ <<t, r>> \notin undeleted => Present(t, r) = Cardinality(Holders(t, r))
      BY <3>1, <3>2, <3>3 DEF Needed
    <3> QED BY <3>4 DEF Present, Count, Holders, Holding
  <2>5. DOMAIN forwarders = {svcs[n].port : n \in forwarding}
    <3>1. \A n \in Name : Ports(svcs[n]) = IF n \in forwarding THEN {svcs[n].port} ELSE {}
      BY DEF Ports
    <3>2. \A n \in forwarding : svcs[n].port \in Port
      BY <2>1, States
    <3>3. \A p \in Port : p \in DOMAIN forwarders <=> \E n \in Name : p \in Ports(svcs[n])
      BY <2>1, <2>3 DEF ForwardersOK
    <3>4. forwarding \subseteq Name
      OBVIOUS
    <3> HIDE DEF forwarding
    <3>5. ASSUME NEW p \in DOMAIN forwarders PROVE p \in {svcs[n].port : n \in forwarding}
      <4>1. PICK n \in Name : p \in Ports(svcs[n])
        BY <2>1, <3>3
      <4> QED BY <3>1, <4>1
    <3>6. ASSUME NEW n \in forwarding PROVE svcs[n].port \in DOMAIN forwarders
      <4>1. n \in Name /\ svcs[n].port \in Port /\ svcs[n].port \in Ports(svcs[n])
        BY <3>1, <3>2, <3>4
      <4> QED BY <3>3, <4>1
    <3> QED BY <3>5, <3>6
  <2> QED BY <2>4, <2>5 DEF NoLeftovers
<1>2. BalancerInv => NoLeftovers
  BY <1>1
<1> QED BY <1>2, InvariantHolds, PTL

\* A stop empties both chains where nothing failed but deletions of rules, and
\* although the nat chain's -X is refused (iptables.go:47-57).
THEOREM StopEmptiesChains == Spec => []StopClears
<1>1. ASSUME BalancerInv PROVE StopClears
  <2> SUFFICES ASSUME phase = "down", starts > 0, OnlyDeletionsFailed, NEW t \in Table
               PROVE  ipt[t].rules = <<>>
    BY DEF StopClears
  <2>1. starts # 0
    BY <1>1, BalancerAssumption DEF BalancerInv, TypeOK
  <2>2. Left /\ ipt["filter"] = NoChain("filter")
    BY <1>1, <2>1 DEF BalancerInv, StopsOrderly, Orderly
  <2>3. ipt["nat"].rules = <<>> /\ ipt["filter"].rules = <<>>
    BY <2>2 DEF Left, Bare, NoChain
  <2> QED BY <2>3 DEF Table
<1>2. BalancerInv => StopClears
  BY <1>1
<1> QED BY <1>2, InvariantHolds, PTL
=============================================================================
