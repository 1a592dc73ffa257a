------------------------------ MODULE IPTables ------------------------------
(***************************************************************************)
(* The command `iptables` on the balancer's own chain (--chain, "FLUX") of *)
(* one table, and the command sequences that balancer/iptables.go runs to  *)
(* set the chain up and to take it down.                                   *)
(*                                                                         *)
(* A table is [exists, refs, rules]: whether the chain exists, how many    *)
(* rules of each built-in chain jump to it, and the rules in it, in the    *)
(* order in which a packet meets them: the first that matches decides.     *)
(* The kernel refuses to delete a chain that is not empty or is still      *)
(* jumped to.  The pre-v0.2 rule with "-i bridge" (iptables.go:163-169) is *)
(* left out: this version never creates it.                                *)
(***************************************************************************)
EXTENDS Naturals, Sequences, SequencesExt

Table == {"nat", "filter"}

\* The built-in chains hooked by start(), and those unhooked by stop().
StartHooks(table) == IF table = "nat" THEN <<"PREROUTING", "OUTPUT">>
                                      ELSE <<"FORWARD", "INPUT">>
StopHooks(table)  == IF table = "nat" THEN <<"PREROUTING">>
                                      ELSE <<"FORWARD", "INPUT">>
Hook(table) == IF table = "nat" THEN {"PREROUTING", "OUTPUT"} ELSE {"FORWARD", "INPUT"}

NoChain(table) == [exists |-> FALSE, refs |-> [h \in Hook(table) |-> 0], rules |-> <<>>]

\* Where a rule is in a chain.
Places(rules, r) == {i \in DOMAIN rules : rules[i] = r}

-----------------------------------------------------------------------------
(***************************************************************************)
(* One command: [op, arg], arg the hooked chain of I and D, or the rule of *)
(* A and R (R is `-D FLUX rule`).                                          *)
(***************************************************************************)
Cmd(op, arg) == [op |-> op, arg |-> arg]

Accepts(t, c) ==
  \/ c.op = "F" /\ t.exists
  \/ c.op = "D" /\ t.refs[c.arg] > 0
  \/ c.op = "X" /\ t.exists /\ t.rules = <<>> /\ \A h \in DOMAIN t.refs : t.refs[h] = 0
  \/ c.op = "N" /\ ~t.exists
  \/ c.op = "I" /\ t.exists
  \/ c.op = "A" /\ t.exists
  \/ c.op = "R" /\ Places(t.rules, c.arg) # {}

\* -A: at the end.  -D: the first of those that are equal to it.
AppendRule(rules, r)      == Append(rules, r)
DeleteFirstRule(rules, r) == RemoveAt(rules, Min(Places(rules, r)))

Effect(t, c) ==
  CASE c.op = "F" -> [t EXCEPT !.rules = <<>>]
    [] c.op = "D" -> [t EXCEPT !.refs[c.arg] = @ - 1]
    [] c.op = "X" -> [t EXCEPT !.exists = FALSE]
    [] c.op = "N" -> [t EXCEPT !.exists = TRUE]
    [] c.op = "I" -> [t EXCEPT !.refs[c.arg] = @ + 1]
    [] c.op = "A" -> [t EXCEPT !.rules = AppendRule(@, c.arg)]
    [] c.op = "R" -> [t EXCEPT !.rules = DeleteFirstRule(@, c.arg)]

-----------------------------------------------------------------------------
\* deleteChain: empty it, unhook it, delete it.
DeleteChain(hooks) ==
  <<Cmd("F", "")>> \o [i \in 1 .. Len(hooks) |-> Cmd("D", hooks[i])] \o <<Cmd("X", "")>>

\* Without the deletion, which must not do (StartSucceeds).
NewChain(hooks) == <<Cmd("N", "")>> \o [i \in 1 .. Len(hooks) |-> Cmd("I", hooks[i])]

\* setupChain: delete what an earlier run left, make a new chain, hook it.
SetupChain(hooks) ==
  DeleteChain(hooks) \o NewChain(hooks)

(***************************************************************************)
(* How a command can end: "ok", "refused" (iptables exits non-zero) or     *)
(* "broken" (it could not be run at all).                                  *)
(*                                                                         *)
(* Rest(prog, end): what is left to do after the first command of prog     *)
(* ended so, Fail when that is an error.                                   *)
(*   -F refused: taken to mean that there is no chain to delete;           *)
(*   -D ok: again, in case the rule is there more than once;               *)
(*   -D refused: that was the last one.                                    *)
(***************************************************************************)
Fail == <<Cmd("fail", "")>>

AfterDelete(prog) ==
  LET x == CHOOSE i \in 1 .. Len(prog) : prog[i].op = "X"
  IN  SubSeq(prog, x + 1, Len(prog))

\* A variant that goes on after an error of -X, -N or -I (HookedOnce).
RestAfterErrors(prog, end) ==
  CASE Head(prog).op = "F" /\ end = "refused" -> AfterDelete(prog)
    [] Head(prog).op = "D" /\ end = "ok"      -> prog
    [] OTHER                                  -> Tail(prog)

Rest(prog, end) ==
  LET op == Head(prog).op
  IN  CASE op = "F" /\ end = "refused" -> AfterDelete(prog)
        [] op = "F" /\ end # "refused" -> Tail(prog)
        [] op = "D" /\ end = "ok"      -> prog
        [] op = "D" /\ end = "refused" -> Tail(prog)
        [] op = "D" /\ end = "broken"  -> Fail
        [] op \notin {"F", "D"}        -> IF end = "ok" THEN Tail(prog) ELSE Fail

=============================================================================
