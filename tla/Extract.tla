------------------------------ MODULE Extract ------------------------------
(***************************************************************************)
(* How the agent turns a container into an instance of a service:          *)
(* selector matching (common/store/data.go) and the extraction of the      *)
(* address (agent/sync_instances.go).                                      *)
(*                                                                         *)
(* A service definition is [port, rules]; a rule is [selector, port], its  *)
(* selector a function from some labels to the values wanted.  A container *)
(* is [labels, hostNet, bindings, ip]: every label that containerLabels    *)
(* answers for ("image", "tag", "env.X" and Docker's own) is one member of *)
(* the domain of labels, bindings gives, for each published port, the      *)
(* sequence of [ip, port] it is bound to on the host, and ip is the        *)
(* address Docker assigned.  Port 0 is "not set".                          *)
(***************************************************************************)
EXTENDS Naturals, Sequences

CONSTANTS
  Info,      \* service definitions
  Body,      \* what InspectContainer may return for a container
  HostIP,    \* the address of this host
  AnyIP,     \* "" or "0.0.0.0" in a port binding
  BadPort,   \* a port binding whose HostPort is not a number
  Network,   \* "local" or "global" (--network-mode)
  None       \* nil

\* A label that the container has not got is "".
Label(body, label) == IF label \in DOMAIN body.labels THEN body.labels[label] ELSE ""

Includes(selector, body) ==
  \A label \in DOMAIN selector : Label(body, label) = selector[label]

\* The first binding of the port that is on an address of this host.
MappedPortAddress(body, port) ==
  LET bound  == IF port \in DOMAIN body.bindings THEN body.bindings[port] ELSE <<>>
      usable == SelectSeq(bound, LAMBDA b : b.ip \in {AnyIP, HostIP})
  IN  IF usable = <<>> \/ Head(usable).port = BadPort
      THEN None
      ELSE <<HostIP, Head(usable).port>>

FixedPortAddress(body, port) ==
  IF body.ip = None THEN None ELSE <<body.ip, port>>

ExtractAddress(body, info, rule) ==
  LET port == IF rule.port # 0 THEN rule.port ELSE info.port
  IN  CASE port = 0                              -> None
        [] port # 0 /\ body.hostNet              -> <<HostIP, port>>
        [] port # 0 /\ ~body.hostNet /\ Network = "local"  -> MappedPortAddress(body, port)
        [] port # 0 /\ ~body.hostNet /\ Network = "global" -> FixedPortAddress(body, port)

ExtractInstance(body, info, rule) ==
  [address |-> ExtractAddress(body, info, rule), labels |-> body.labels]

(***************************************************************************)
(* Every matching rule yields an instance, each overwriting the one        *)
(* before; ContainerRules is a Go map, so any of them may come last.       *)
(* {None} when no rule selects the container.                              *)
(***************************************************************************)
Extractions ==
  [info \in Info |-> [body \in Body |->
    LET selecting == {r \in info.rules : Includes(r.selector, body)}
    IN  IF selecting = {} THEN {None}
        ELSE {ExtractInstance(body, info, r) : r \in selecting}]]

AllExtractions == UNION {Extractions[i][b] : i \in Info, b \in Body}
Instance == AllExtractions \ {None}

\* addInstances for one service and one container, each possibly absent.
Candidates(info, body) ==
  IF info = None \/ body = None THEN {None} ELSE Extractions[info][body]

=============================================================================
