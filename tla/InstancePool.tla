---------------------------- MODULE InstancePool ----------------------------
(***************************************************************************)
(* The instance pool of a forwarder (balancer/forwarder/pool.go) and the   *)
(* goroutines that use it (forward in balancer/forwarder/forwarder.go).    *)
(* The pool's lock makes each of its methods one step; between two of them *)
(* a goroutine holds a pointer to an instance while it tries to connect,   *)
(* and meanwhile others use the pool and UpdateInstances replaces its      *)
(* contents.                                                               *)
(*                                                                         *)
(* A pooledInstance is a member of Obj; waiting is "retryTime is not       *)
(* zero", and due the time left until retryTime.  retry is a heap ordered  *)
(* by retryTime (container/heap): it is modelled as the sequence sorted by *)
(* it, one of the heaps there can be.  Indices count from 1 here.          *)
(* Backoff stops doubling at 2^MaxBackoff, and the timer goroutine lags    *)
(* by at most MaxLag, to bound the model.                                  *)
(***************************************************************************)
EXTENDS Integers, Sequences, SequencesExt, FiniteSets

CONSTANTS
  Name,        \* instance names
  MaxObj,      \* pooledInstance objects that may exist at once
  Conn,        \* goroutines running forward
  None,
  MaxAttempts, \* max_connection_attempts
  MaxBackoff, MaxLag, MaxUpdates

ASSUME PoolAssumption ==
  /\ IsFiniteSet(Name) /\ None \notin Name \cup Nat
  /\ MaxObj \in Nat /\ MaxAttempts \in Nat \ {0}
  /\ MaxBackoff \in Nat /\ MaxLag \in Nat /\ MaxUpdates \in Nat

VARIABLES
  ready,     \* p.ready
  retry,     \* p.retry
  inst,      \* Obj -> [name, index, failures, waiting, due]
  conn,      \* Conn -> [holds, tries]: the instance being connected to
  timer,     \* time until p.timer fires, Never when it is stopped or far off
  tick,      \* age of the value in timer.C, None when there is none
  wanted,    \* history: the names last given to UpdateInstances
  updates,   \* how often it was called
  panicked   \* an index was out of range: the process is gone

pool == <<ready, retry, inst>>
time == <<timer, tick>>
vars == <<pool, conn, time, wanted, updates, panicked>>

Obj   == 1 .. MaxObj
Never == -1
Blank == [name |-> None, index |-> 0, failures |-> 0, waiting |-> FALSE, due |-> 0]
Free  == [holds |-> None, tries |-> 0]

\* The greatest delay, and how far a retry may be overdue.
MaxDelay == 2 ^ MaxBackoff

TypeOK ==
  /\ ready \in Seq(Obj) /\ retry \in Seq(Obj)
  /\ inst \in [Obj -> [name : Name \cup {None}, index : Nat, failures : 0 .. MaxBackoff + 1,
                       waiting : BOOLEAN, due : (0 - MaxLag) .. MaxDelay]]
  /\ conn \in [Conn -> [holds : Obj \cup {None}, tries : 0 .. MaxAttempts]]
  /\ timer \in {Never} \cup 0 .. MaxDelay + MaxLag
  /\ tick \in {None} \cup 0 .. MaxLag
  /\ wanted \subseteq Name /\ updates \in 0 .. MaxUpdates /\ panicked \in BOOLEAN

Init ==
  /\ ready = <<>> /\ retry = <<>>
  /\ inst = [o \in Obj |-> Blank]
  /\ conn = [g \in Conn |-> Free]
  /\ timer = Never /\ tick = None
  /\ wanted = {} /\ updates = 0 /\ panicked = FALSE

-----------------------------------------------------------------------------
\* An object that nothing points to any more is garbage.
Collect(objs, rdy, rty, cs) ==
  [o \in Obj |-> IF o \in ToSet(rdy) \cup ToSet(rty) \cup {cs[g].holds : g \in Conn}
                 THEN objs[o] ELSE Blank]

\* The variant: Swap and Push leave the indices alone.
NoHeapIndex(objs, rty) == objs

\* The last place of an object: as many places as there are up to it.
LastPlace(objs, o) ==
  Cardinality({i \in DOMAIN objs : \E j \in DOMAIN objs : i <= j /\ objs[j] = o})

\* The heap's methods keep the index of each of its members.
HeapIndex(objs, rty) ==
  [o \in Obj |-> IF o \in ToSet(rty) THEN [objs[o] EXCEPT !.index = LastPlace(rty, o)]
                                     ELSE objs[o]]

HeapPush(objs, rty, o) ==
  InsertAt(rty, 1 + Cardinality({i \in DOMAIN rty : objs[rty[i]].due <= objs[o].due}), o)

\* A variant that does not set the timer for a retry that is overdue.
TimerUnlessLate(objs, rty, ago) ==
  IF rty = <<>> \/ objs[Head(rty)].due + ago < 0 THEN Never ELSE objs[Head(rty)].due + ago

\* resetTimer, at a time that was `ago` before the present.
TimerFor(objs, rty, ago) ==
  IF rty = <<>> THEN Never
  ELSE LET delay == objs[Head(rty)].due + ago IN IF delay < 0 THEN 0 ELSE delay

(***************************************************************************)
(* fail: out of ready by its index, into retry with a doubled delay.       *)
(***************************************************************************)
CanFail(o) == inst[o].index \in DOMAIN ready

Rescheduled(o) ==
  [inst[o] EXCEPT !.due      = 2 ^ Min({inst[o].failures, MaxBackoff}),
                  !.failures = Min({@ + 1, MaxBackoff + 1}),
                  !.waiting  = TRUE]

Fail(o, cs) ==
  LET objs == [inst EXCEPT ![o] = Rescheduled(o)]
      rdy  == Front(ReplaceAt(ready, inst[o].index, Last(ready)))
      rty  == HeapPush(objs, retry, o)
  IN  /\ ready' = rdy /\ retry' = rty
      /\ inst' = Collect(HeapIndex(objs, rty), rdy, rty, cs)
      /\ timer' = TimerFor(objs, rty, 0)

-----------------------------------------------------------------------------
(***************************************************************************)
(* forward: up to MaxAttempts times, pick an instance and connect to it.   *)
(***************************************************************************)
Picked(g, o) == [conn EXCEPT ![g] = [holds |-> o, tries |-> @.tries + 1]]

Choosing(g) == ~panicked /\ conn[g].holds = None

\* PickInstance, of a ready instance; a suspect one is failed in advance.
PickReady(g) ==
  /\ Choosing(g)
  /\ \E o \in ToSet(ready) :
       \/ /\ inst[o].failures = 0
          /\ conn' = Picked(g, o)
          /\ UNCHANGED <<pool, timer, panicked>>
       \/ /\ inst[o].failures # 0 /\ CanFail(o)
          /\ conn' = Picked(g, o)
          /\ Fail(o, Picked(g, o))
          /\ UNCHANGED panicked
       \/ /\ inst[o].failures # 0 /\ ~CanFail(o)
          /\ panicked' = TRUE /\ UNCHANGED <<pool, conn, timer>>
  /\ UNCHANGED <<tick, wanted, updates>>

\* PickInstance, when there is none ready: one that waits to be retried.
PickWaiting(g) ==
  /\ Choosing(g) /\ ready = <<>>
  /\ \E o \in ToSet(retry) : conn' = Picked(g, o)
  /\ UNCHANGED <<pool, time, wanted, updates, panicked>>

\* PickInstance returns nil, and forward returns.
PickNone(g) ==
  /\ Choosing(g) /\ ready = <<>> /\ retry = <<>>
  /\ conn' = [conn EXCEPT ![g] = Free]
  /\ inst' = Collect(inst, ready, retry, conn')
  /\ UNCHANGED <<ready, retry, time, wanted, updates, panicked>>

\* The connection failed: Failed, then another attempt or giving up.  (The
\* variant makes one attempt too many.)
OneMoreAttempt(g) ==
  [conn EXCEPT ![g] = IF @.tries > MaxAttempts THEN Free ELSE [@ EXCEPT !.holds = None]]

AfterFailure(g) ==
  [conn EXCEPT ![g] = IF @.tries = MaxAttempts THEN Free ELSE [@ EXCEPT !.holds = None]]

ConnectFails(g) ==
  /\ ~panicked /\ conn[g].holds # None
  /\ LET o == conn[g].holds
     IN \/ /\ ~inst[o].waiting /\ CanFail(o)
           /\ conn' = AfterFailure(g)
           /\ Fail(o, AfterFailure(g))
           /\ UNCHANGED panicked
        \/ /\ ~inst[o].waiting /\ ~CanFail(o)
           /\ panicked' = TRUE /\ UNCHANGED <<pool, conn, timer>>
        \/ /\ inst[o].waiting
           /\ conn' = AfterFailure(g)
           /\ inst' = Collect(inst, ready, retry, AfterFailure(g))
           /\ UNCHANGED <<ready, retry, timer, panicked>>
  /\ UNCHANGED <<tick, wanted, updates>>

\* The connection is made: Succeeded, and the goroutine goes on forwarding.
ConnectSucceeds(g) ==
  /\ ~panicked /\ conn[g].holds # None
  /\ LET o    == conn[g].holds
         free == [conn EXCEPT ![g] = Free]
     IN \/ /\ ~inst[o].waiting
           /\ conn' = free
           /\ inst' = Collect([inst EXCEPT ![o].failures = 0], ready, retry, free)
           /\ UNCHANGED <<ready, retry, timer, panicked>>
        \/ /\ inst[o].waiting /\ inst[o].index \in DOMAIN retry
           /\ LET rty  == RemoveAt(retry, inst[o].index)
                  rdy  == Append(ready, o)
                  objs == [HeapIndex(inst, rty) EXCEPT ![o].failures = 0, ![o].waiting = FALSE,
                                                       ![o].due = 0, ![o].index = Len(rdy)]
              IN /\ ready' = rdy /\ retry' = rty
                 /\ timer' = TimerFor(inst, rty, 0)
                 /\ inst' = Collect(objs, rdy, rty, free)
           /\ conn' = free
           /\ UNCHANGED panicked
        \/ /\ inst[o].waiting /\ inst[o].index \notin DOMAIN retry
           /\ panicked' = TRUE /\ UNCHANGED <<pool, conn, timer>>
  /\ UNCHANGED <<tick, wanted, updates>>

-----------------------------------------------------------------------------
\* A variant that keeps every object of a wanted name.
KeptAll(objs, names) == {i \in DOMAIN objs : inst[objs[i]].name \in names}

\* Where the objects that are kept are: the first with each wanted name.
Kept(objs, names) ==
  {i \in DOMAIN objs : /\ inst[objs[i]].name \in names
                       /\ \A j \in 1 .. i - 1 : inst[objs[j]].name # inst[objs[i]].name}

Garbage == {o \in Obj : inst[o] = Blank}

\* The n lowest members of a set, in increasing order (in a set, since there
\* may be fewer).
Lowest(n, S) ==
  {q \in [1 .. n -> S] : \A k \in 1 .. n : Cardinality({x \in S : x < q[k]}) = k - 1}

At(objs, places) == [k \in DOMAIN places |-> objs[places[k]]]

Place(objs, o) == CHOOSE i \in DOMAIN objs : objs[i] = o

\* The ready instances have their places, and the new ones their names.
Numbered(rdy, new, order) ==
  [o \in Obj |-> IF Contains(new, o)
                 THEN [Blank EXCEPT !.name = order[Place(new, o)], !.index = Place(rdy, o)]
                 ELSE IF Contains(rdy, o) THEN [inst[o] EXCEPT !.index = Place(rdy, o)]
                                          ELSE inst[o]]

(***************************************************************************)
(* SetInstances from the services goroutine.  Its map has no order, nor    *)
(* has the heap among retries that are due together.                       *)
(***************************************************************************)
Replace(all, kept, missing) ==
  \E rdyAt \in Lowest(Cardinality({i \in kept : ~inst[all[i]].waiting}),
                      {i \in kept : ~inst[all[i]].waiting}),
     rtyAt \in SetToSeqs({i \in kept : inst[all[i]].waiting}),
     order \in SetToSeqs(missing),
     new \in Lowest(Cardinality(missing), Garbage) :
       LET rdy == At(all, rdyAt) \o new
           rty == At(all, rtyAt)
       IN  /\ \A i, j \in DOMAIN rty : i < j => inst[rty[i]].due <= inst[rty[j]].due
           /\ ready' = rdy /\ retry' = rty
           /\ inst' = Collect(HeapIndex(Numbered(rdy, new, order), rty), rdy, rty, conn)
           /\ timer' = TimerFor(inst, rty, 0)

UpdateInstances(names) ==
  /\ ~panicked /\ updates < MaxUpdates
  /\ updates' = updates + 1 /\ wanted' = names
  /\ LET all  == ready \o retry
         kept == Kept(all, names)
     IN  Replace(all, kept, names \ {inst[all[i]].name : i \in kept})
  /\ UNCHANGED <<conn, tick, panicked>>

-----------------------------------------------------------------------------
(***************************************************************************)
(* Time, the timer, and the goroutine that reads its channel.              *)
(***************************************************************************)
Tick ==
  /\ ~panicked /\ tick # MaxLag
  /\ inst' = [o \in Obj |-> IF inst[o].due > -MaxLag /\ inst[o].waiting
                            THEN [inst[o] EXCEPT !.due = @ - 1] ELSE inst[o]]
  /\ timer' = IF timer > 0 THEN timer - 1 ELSE timer
  /\ tick' = IF tick = None THEN None ELSE tick + 1
  /\ UNCHANGED <<ready, retry, conn, wanted, updates, panicked>>

\* The timer fires; what it sends is dropped while its channel is full.
Fire ==
  /\ ~panicked /\ timer = 0
  /\ timer' = Never
  /\ tick' = IF tick = None THEN 0 ELSE tick
  /\ UNCHANGED <<pool, conn, wanted, updates, panicked>>

\* processRetries, with the time that the timer fired at.
ProcessRetries ==
  /\ ~panicked /\ tick # None
  /\ tick' = None
  /\ LET n    == Cardinality({i \in DOMAIN retry :
                   \A j \in 1 .. i : inst[retry[j]].due + tick <= 0})
         due  == SubSeq(retry, 1, n)
         rty  == SubSeq(retry, n + 1, Len(retry))
         rdy  == ready \o due
         objs == [o \in Obj |->
                   IF o \in ToSet(due)
                   THEN [inst[o] EXCEPT !.waiting = FALSE, !.due = 0,
                           !.index = Len(ready) + LastPlace(due, o)]
                   ELSE inst[o]]
     IN /\ ready' = rdy /\ retry' = rty
        /\ inst' = HeapIndex(objs, rty)
        /\ timer' = TimerFor(inst, rty, tick)
  /\ UNCHANGED <<conn, wanted, updates, panicked>>

Next ==
  \/ \E g \in Conn : \/ PickReady(g) \/ PickWaiting(g) \/ PickNone(g)
                     \/ ConnectFails(g) \/ ConnectSucceeds(g)
  \/ \E names \in SUBSET Name : UpdateInstances(names)
  \/ Tick \/ Fire \/ ProcessRetries

\* Time passes, the timer fires and its goroutine is scheduled; nothing is
\* assumed of the connections, nor that they end.
Fairness == WF_vars(Tick) /\ WF_vars(Fire) /\ WF_vars(ProcessRetries)

Spec == Init /\ [][Next]_vars /\ Fairness

-----------------------------------------------------------------------------
(***************************************************************************)
(* The pool never runs dry: it holds as many entries as there are wanted   *)
(* instances, so PickInstance returns nil (pool.go:88) only to a forwarder *)
(* that was given none.  It holds even where an index is stale.            *)
(***************************************************************************)
NeverDry == ~panicked => Len(ready) + Len(retry) = Cardinality(wanted)

(***************************************************************************)
(* UpdateInstances leaves a sound pool, whatever it found: one entry for   *)
(* each wanted name, every index right, ready exactly those that do not    *)
(* wait, the earliest retry first (pool.go:131-173).                       *)
(***************************************************************************)
Sound ==
  LET all == ready \o retry
  IN  /\ {inst[o].name : o \in ToSet(all)} = wanted
      /\ Len(all) = Cardinality(wanted)
      /\ \A i \in DOMAIN ready : inst[ready[i]].index = i /\ ~inst[ready[i]].waiting
      /\ \A i \in DOMAIN retry : inst[retry[i]].index = i /\ inst[retry[i]].waiting
      /\ \A i, j \in DOMAIN retry : i < j => inst[retry[i]].due <= inst[retry[j]].due

UpdateHeals == [][updates' # updates => Sound']_vars

(***************************************************************************)
(* No retry is forgotten: an instance that waits is in the end taken out   *)
(* of the retry queue, by the timer, by a connection or by an update, in   *)
(* spite of ticks that come late or find nothing due (pool.go:175-218).    *)
(* It takes the pool to be sound: an instance that is in the queue twice,  *)
(* after a stale index, can be put off for ever.                           *)
(***************************************************************************)
RetryHappens ==
  []Sound => \A o \in Obj : (o \in ToSet(retry)) ~> (panicked \/ o \notin ToSet(retry))

(***************************************************************************)
(* CHANGELOG.md:13, "withdraw instances that fail connections": a call of  *)
(* Failed leaves the instance waiting, and not among the ready ones.  It   *)
(* does not when the instance's index is stale: fail() moves the last      *)
(* ready instance without changing its index, and UpdateInstances may have *)
(* dropped the instance meanwhile.                                         *)
(***************************************************************************)
Withdrawn ==
  [][\A g \in Conn : ConnectFails(g) => ~panicked' /\ conn[g].holds \notin ToSet(ready')]_vars

=============================================================================
