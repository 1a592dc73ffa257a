------------------------ MODULE InstancePool_proofs ------------------------
(***************************************************************************)
(* Proofs about InstancePool: for any names, objects, goroutines and       *)
(* bounds.  The pool keeps as many entries as there are wanted instances,  *)
(* whatever indices have gone stale, and an update puts everything right.  *)
(***************************************************************************)
EXTENDS InstancePool, FiniteSetTheorems, SequenceTheorems, TLAPS

\* A pooledInstance, and what a goroutine holds.
Instance == [name : Name \cup {None}, index : Nat, failures : 0 .. MaxBackoff + 1,
             waiting : BOOLEAN, due : (0 - MaxLag) .. MaxDelay]
Holding  == [holds : Obj \cup {None}, tries : 0 .. MaxAttempts]

\* A goroutine that looks for an instance may still make an attempt.
AttemptsLeft(cs) ==
  cs \in [Conn -> Holding] /\ \A g \in Conn : cs[g].holds = None => cs[g].tries < MaxAttempts

\* What holds of every reachable state.
PoolInv == TypeOK /\ AttemptsLeft(conn) /\ NeverDry

-----------------------------------------------------------------------------
(***************************************************************************)
(* Sequences.                                                              *)
(***************************************************************************)
\* A function on the first numbers is a sequence.
LEMMA RowOf ==
  ASSUME NEW S, NEW n \in Nat, NEW f \in [1 .. n -> S]
  PROVE  f \in Seq(S) /\ Len(f) = n /\ DOMAIN f = 1 .. n
OBVIOUS

\* A sequence, its places and its elements.
LEMMA ElementOf ==
  ASSUME NEW S, NEW s \in Seq(S)
  PROVE  /\ Len(s) \in Nat /\ DOMAIN s = 1 .. Len(s)
         /\ \A i \in DOMAIN s : s[i] \in S
         /\ ToSet(s) \subseteq S
BY DEF ToSet

\* A part of a sequence.
LEMMA PartOf ==
  ASSUME NEW S, NEW s \in Seq(S), NEW a \in Nat \ {0}, NEW b \in 0 .. Len(s), a <= b + 1
  PROVE  /\ SubSeq(s, a, b) \in Seq(S) /\ Len(SubSeq(s, a, b)) = b - a + 1
         /\ \A j \in 1 .. b - a + 1 : SubSeq(s, a, b)[j] = s[a + j - 1]
<1>1. SubSeq(s, a, b) \in Seq(S)
  OBVIOUS
<1>2. Len(SubSeq(s, a, b)) = b - a + 1
  OBVIOUS
<1>3. \A j \in 1 .. b - a + 1 : SubSeq(s, a, b)[j] = s[a + j - 1]
  OBVIOUS
<1> QED BY <1>1, <1>2, <1>3, Zenon

\* The row of the ready instances when one of them has failed.
LEMMA FailRow ==
  ASSUME NEW S, NEW s \in Seq(S), NEW i \in DOMAIN s
  PROVE  /\ Front(ReplaceAt(s, i, Last(s))) \in Seq(S)
         /\ Len(Front(ReplaceAt(s, i, Last(s)))) = Len(s) - 1
<1>1. Len(s) \in Nat /\ i \in 1 .. Len(s) /\ Len(s) \in 1 .. Len(s) /\ s[Len(s)] \in S
  OBVIOUS
<1> DEFINE r == [s EXCEPT ![i] = s[Len(s)]]
<1>2. r \in Seq(S) /\ Len(r) = Len(s)
  BY <1>1, ExceptSeq, Zenon
<1> HIDE DEF r
<1> DEFINE m == Len(s) - 1
<1>3. m \in 0 .. Len(r) /\ 1 \in Nat \ {0} /\ 1 <= m + 1 /\ m = Len(r) - 1
  BY <1>1, <1>2
<1> HIDE DEF m
<1>5. SubSeq(r, 1, m) \in Seq(S) /\ Len(SubSeq(r, 1, m)) = m - 1 + 1
  BY <1>2, <1>3, PartOf, Zenon
<1>7. Len(SubSeq(r, 1, m)) = m
  BY <1>3, <1>5
<1> QED BY <1>3, <1>5, <1>7 DEF Front, ReplaceAt, Last, r, m

\* A row with one more.
LEMMA InsertRow ==
  ASSUME NEW S, NEW s \in Seq(S), NEW e \in S, NEW i \in 1 .. Len(s) + 1
  PROVE  InsertAt(s, i, e) \in Seq(S) /\ Len(InsertAt(s, i, e)) = Len(s) + 1
<1>1. /\ i - 1 \in 0 .. Len(s) /\ Len(s) \in 0 .. Len(s) /\ i \in Nat \ {0}
      /\ i <= Len(s) + 1 /\ 1 \in Nat \ {0} /\ 1 <= (i - 1) + 1
  OBVIOUS
<1> DEFINE a == SubSeq(s, 1, i - 1)
           b == SubSeq(s, i, Len(s))
           c == <<e>>
<1>2. a \in Seq(S) /\ Len(a) = (i - 1) - 1 + 1
  BY <1>1, PartOf, Zenon
<1>3. b \in Seq(S) /\ Len(b) = Len(s) - i + 1
  BY <1>1, PartOf, Zenon
<1>4. c \in Seq(S) /\ Len(c) = 1
  OBVIOUS
<1> HIDE DEF a, b, c
<1>5. a \o c \in Seq(S) /\ Len(a \o c) = Len(a) + Len(c)
  BY <1>2, <1>4, ConcatProperties, Zenon
<1> DEFINE d == a \o c
<1> HIDE DEF d
<1>6. d \o b \in Seq(S) /\ Len(d \o b) = Len(d) + Len(b)
  BY <1>3, <1>5, ConcatProperties, Zenon DEF d
<1>7. Len(s) \in Nat
  OBVIOUS
<1>8. Len(d \o b) = Len(s) + 1
  BY <1>2, <1>3, <1>4, <1>5, <1>6, <1>7 DEF d
<1> QED BY <1>6, <1>8 DEF InsertAt, a, b, c, d

\* A row with one less.
LEMMA RemoveRow ==
  ASSUME NEW S, NEW s \in Seq(S), NEW i \in DOMAIN s
  PROVE  RemoveAt(s, i) \in Seq(S) /\ Len(RemoveAt(s, i)) = Len(s) - 1
<1>1. /\ i - 1 \in 0 .. Len(s) /\ Len(s) \in 0 .. Len(s) /\ i + 1 \in Nat \ {0}
      /\ i + 1 <= Len(s) + 1 /\ 1 \in Nat \ {0} /\ 1 <= (i - 1) + 1
  OBVIOUS
<1> DEFINE a == SubSeq(s, 1, i - 1)
           b == SubSeq(s, i + 1, Len(s))
<1>2. a \in Seq(S) /\ Len(a) = (i - 1) - 1 + 1
  BY <1>1, PartOf, Zenon
<1>3. b \in Seq(S) /\ Len(b) = Len(s) - (i + 1) + 1
  BY <1>1, PartOf, Zenon
<1> HIDE DEF a, b
<1>4. a \o b \in Seq(S) /\ Len(a \o b) = Len(a) + Len(b)
  BY <1>2, <1>3, ConcatProperties, Zenon
<1>5. Len(s) \in Nat /\ i \in Nat
  OBVIOUS
<1>6. Len(a \o b) = Len(s) - 1
  BY <1>2, <1>3, <1>4, <1>5
<1> QED BY <1>4, <1>6 DEF RemoveAt, a, b

-----------------------------------------------------------------------------
(***************************************************************************)
(* Delays, and the lesser of two numbers.                                  *)
(***************************************************************************)
\* Doubling up to MaxBackoff stays below the greatest delay: there are no
\* more subsets of fewer elements.
LEMMA Delays ==
  ASSUME NEW n \in 0 .. MaxBackoff
  PROVE  2 ^ n \in 0 .. MaxDelay
<1>1. n \in Nat /\ MaxBackoff \in Nat /\ n <= MaxBackoff
  BY PoolAssumption
<1>2. n \in Int /\ MaxBackoff \in Int /\ 1 \in Int /\ (1 > n => n = 0)
      /\ (1 > MaxBackoff => MaxBackoff = 0) /\ n - 1 + 1 = n /\ MaxBackoff - 1 + 1 = MaxBackoff
  BY <1>1
<1>3. IsFiniteSet(1 .. n) /\ Cardinality(1 .. n) = IF 1 > n THEN 0 ELSE n - 1 + 1
  BY <1>2, FS_Interval, Zenon
<1>4. /\ IsFiniteSet(1 .. MaxBackoff)
      /\ Cardinality(1 .. MaxBackoff) = IF 1 > MaxBackoff THEN 0 ELSE MaxBackoff - 1 + 1
  BY <1>2, FS_Interval, Zenon
<1>5. Cardinality(1 .. n) = n /\ Cardinality(1 .. MaxBackoff) = MaxBackoff
  BY <1>2, <1>3, <1>4
<1>6. /\ IsFiniteSet(SUBSET (1 .. n))
      /\ Cardinality(SUBSET (1 .. n)) = 2 ^ n
  BY <1>3, <1>5, FS_SUBSET, Zenon
<1>7. /\ IsFiniteSet(SUBSET (1 .. MaxBackoff))
      /\ Cardinality(SUBSET (1 .. MaxBackoff)) = 2 ^ MaxBackoff
  BY <1>4, <1>5, FS_SUBSET, Zenon
<1>8. SUBSET (1 .. n) \in SUBSET (SUBSET (1 .. MaxBackoff))
  BY <1>1
<1>9. Cardinality(SUBSET (1 .. n)) <= Cardinality(SUBSET (1 .. MaxBackoff))
  BY <1>7, <1>8, FS_Subset, Zenon
<1>10. Cardinality(SUBSET (1 .. n)) \in Nat /\ Cardinality(SUBSET (1 .. MaxBackoff)) \in Nat
  BY <1>6, <1>7, FS_CardinalityType, Zenon
<1> DEFINE x == 2 ^ n
           y == 2 ^ MaxBackoff
<1>11. x \in Nat /\ y \in Nat /\ x <= y
  BY <1>6, <1>7, <1>9, <1>10, Zenon
<1> HIDE DEF x, y
<1>12. x \in 0 .. y
  BY <1>11
<1> QED BY <1>12 DEF x, y, MaxDelay

\* The greatest delay is a number.
LEMMA MaxDelayType == MaxDelay \in Nat
<1>1. MaxBackoff \in 0 .. MaxBackoff
  BY PoolAssumption
<1>2. MaxDelay \in 0 .. MaxDelay
  BY <1>1, Delays, Zenon DEF MaxDelay
<1> QED BY <1>2

\* The lesser of two.
LEMMA LesserOf ==
  ASSUME NEW a \in Nat, NEW b \in Nat
  PROVE  Min({a, b}) = IF a <= b THEN a ELSE b
<1> DEFINE m == IF a <= b THEN a ELSE b
<1>1. m \in {a, b} /\ \A y \in {a, b} : m =< y
  OBVIOUS
<1>2. \A z \in {a, b} : (\A y \in {a, b} : z =< y) => z = m
  OBVIOUS
<1> HIDE DEF m
<1>3. (CHOOSE x \in {a, b} : \A y \in {a, b} : x =< y) = m
  BY <1>1, <1>2, Zenon
<1> QED BY <1>3 DEF Min, m

-----------------------------------------------------------------------------
(***************************************************************************)
(* The heap.                                                               *)
(***************************************************************************)
\* The numbers up to one.
LEMMA UpTo ==
  ASSUME NEW n \in Nat
  PROVE  IsFiniteSet(1 .. n) /\ Cardinality(1 .. n) = n
<1>1. n \in Int /\ 1 \in Int
  OBVIOUS
<1>2. IsFiniteSet(1 .. n) /\ Cardinality(1 .. n) = IF 1 > n THEN 0 ELSE n - 1 + 1
  BY <1>1, FS_Interval, Zenon
<1>3. Cardinality(1 .. n) = n
  BY <1>2
<1> QED BY <1>2, <1>3

\* Among the places of a sequence.
LEMMA SomePlaces ==
  ASSUME NEW S, NEW s \in Seq(S), NEW P \in SUBSET (DOMAIN s)
  PROVE  IsFiniteSet(P) /\ Cardinality(P) \in 0 .. Len(s)
<1>1. Len(s) \in Nat /\ P \in SUBSET (1 .. Len(s))
  BY ElementOf
<1>2. IsFiniteSet(1 .. Len(s)) /\ Cardinality(1 .. Len(s)) = Len(s)
  BY <1>1, UpTo, Zenon
<1>3. IsFiniteSet(P) /\ Cardinality(P) <= Cardinality(1 .. Len(s))
  BY <1>1, <1>2, FS_Subset, Zenon
<1>4. Cardinality(P) \in Nat
  BY <1>3, FS_CardinalityType, Zenon
<1> QED BY <1>1, <1>2, <1>3, <1>4

\* The last place is a number.
LEMMA LastPlaceType ==
  ASSUME NEW s \in Seq(Obj), NEW o
  PROVE  LastPlace(s, o) \in Nat
<1> DEFINE P == {i \in DOMAIN s : \E j \in DOMAIN s : i <= j /\ s[j] = o}
<1>1. P \in SUBSET (DOMAIN s)
  OBVIOUS
<1> HIDE DEF P
<1>2. Cardinality(P) \in 0 .. Len(s) /\ Len(s) \in Nat
  BY <1>1, SomePlaces, ElementOf, Zenon
<1>3. Cardinality(P) \in Nat
  BY <1>2
<1> QED BY <1>3 DEF LastPlace, P

\* It is the only place in a sequence that has everything once.
LEMMA LastPlaceOf ==
  ASSUME NEW s \in Seq(Obj), \A i, j \in DOMAIN s : s[i] = s[j] => i = j,
         NEW k \in DOMAIN s
  PROVE  LastPlace(s, s[k]) = k
<1>1. Len(s) \in Nat /\ DOMAIN s = 1 .. Len(s)
  BY ElementOf, Zenon
<1>2. {i \in DOMAIN s : \E j \in DOMAIN s : i <= j /\ s[j] = s[k]} = 1 .. k
  BY <1>1
<1>3. k \in Nat
  BY <1>1
<1> QED BY <1>2, <1>3, UpTo, Zenon DEF LastPlace

\* HeapIndex changes indices, and nothing else.
LEMMA HeapIndexKeeps ==
  ASSUME NEW objs \in [Obj -> Instance], NEW rty \in Seq(Obj)
  PROVE  /\ HeapIndex(objs, rty) \in [Obj -> Instance]
         /\ \A o \in Obj : /\ HeapIndex(objs, rty)[o].name = objs[o].name
                           /\ HeapIndex(objs, rty)[o].failures = objs[o].failures
                           /\ HeapIndex(objs, rty)[o].waiting = objs[o].waiting
                           /\ HeapIndex(objs, rty)[o].due = objs[o].due
         /\ \A o \in Obj : o \notin ToSet(rty) => HeapIndex(objs, rty)[o] = objs[o]
         /\ \A o \in ToSet(rty) : HeapIndex(objs, rty)[o].index = LastPlace(rty, o)
<1> DEFINE h == HeapIndex(objs, rty)
           place == [o \in Obj |-> LastPlace(rty, o)]
<1>1. \A o \in Obj : place[o] \in Nat
  BY LastPlaceType, Zenon
<1>2. h = [o \in Obj |-> IF o \in ToSet(rty) THEN [objs[o] EXCEPT !.index = place[o]] ELSE objs[o]]
  BY DEF HeapIndex
<1>3. ToSet(rty) \subseteq Obj
  BY ElementOf, Zenon
<1>4. \A o \in ToSet(rty) : place[o] = LastPlace(rty, o)
  BY <1>3
<1> HIDE DEF h, place
<1>5. \A o \in Obj : h[o] \in Instance
  BY <1>1, <1>2 DEF Instance
<1>6. h \in [Obj -> Instance]
  BY <1>2, <1>5
<1>7. \A o \in Obj : /\ h[o].name = objs[o].name /\ h[o].failures = objs[o].failures
                     /\ h[o].waiting = objs[o].waiting /\ h[o].due = objs[o].due
  BY <1>2 DEF Instance
<1>8. \A o \in Obj : o \notin ToSet(rty) => h[o] = objs[o]
  BY <1>2
<1>9. \A o \in ToSet(rty) : h[o].index = place[o]
  BY <1>2, <1>3 DEF Instance
<1> QED BY <1>4, <1>6, <1>7, <1>8, <1>9 DEF h

\* Garbage is blank.
LEMMA CollectType ==
  ASSUME NEW objs \in [Obj -> Instance], NEW rdy, NEW rty, NEW cs
  PROVE  Collect(objs, rdy, rty, cs) \in [Obj -> Instance]
<1>1. Blank \in Instance
  BY PoolAssumption, MaxDelayType DEF Blank, Instance
<1> QED BY <1>1 DEF Collect

\* One more in the heap.
LEMMA HeapPushAdds ==
  ASSUME NEW objs, NEW rty \in Seq(Obj), NEW o \in Obj
  PROVE  /\ HeapPush(objs, rty, o) \in Seq(Obj)
         /\ Len(HeapPush(objs, rty, o)) = Len(rty) + 1
<1> DEFINE P == {i \in DOMAIN rty : objs[rty[i]].due <= objs[o].due}
<1>1. P \in SUBSET (DOMAIN rty)
  OBVIOUS
<1> HIDE DEF P
<1>2. Cardinality(P) \in 0 .. Len(rty) /\ Len(rty) \in Nat
  BY <1>1, SomePlaces, ElementOf, Zenon
<1>3. 1 + Cardinality(P) \in 1 .. Len(rty) + 1
  BY <1>2
<1>4. /\ InsertAt(rty, 1 + Cardinality(P), o) \in Seq(Obj)
      /\ Len(InsertAt(rty, 1 + Cardinality(P), o)) = Len(rty) + 1
  BY <1>3, InsertRow, Zenon
<1> QED BY <1>4 DEF HeapPush, P

\* What the timer can be set to.
LEMMA TimerType ==
  ASSUME NEW objs \in [Obj -> Instance], NEW rty \in Seq(Obj), NEW ago \in 0 .. MaxLag
  PROVE  TimerFor(objs, rty, ago) \in {Never} \cup 0 .. MaxDelay + MaxLag
<1>1. MaxDelay \in Nat /\ MaxLag \in Nat
  BY MaxDelayType, PoolAssumption
<1>2. CASE rty = <<>>
  BY <1>2 DEF TimerFor
<1>3. CASE rty # <<>>
  <2>1. Head(rty) \in Obj
    BY <1>3
  <2>2. objs[Head(rty)].due \in (0 - MaxLag) .. MaxDelay
    BY <2>1 DEF Instance
  <2> DEFINE d == objs[Head(rty)].due
  <2>3. TimerFor(objs, rty, ago) = IF d + ago < 0 THEN 0 ELSE d + ago
    BY <1>3 DEF TimerFor
  <2> HIDE DEF d
  <2>4. (IF d + ago < 0 THEN 0 ELSE d + ago) \in 0 .. MaxDelay + MaxLag
    BY <1>1, <2>2 DEF d
  <2> QED BY <2>3, <2>4
<1> QED BY <1>2, <1>3

\* A failed instance is put off.
LEMMA RescheduledType ==
  ASSUME TypeOK, NEW o \in Obj
  PROVE  Rescheduled(o) \in Instance
<1>1. inst[o] \in Instance
  BY DEF TypeOK, Instance
<1> DEFINE f == inst[o].failures
           d == 2 ^ Min({f, MaxBackoff})
           x == Min({f + 1, MaxBackoff + 1})
<1>2. f \in 0 .. MaxBackoff + 1 /\ MaxBackoff \in Nat
  BY <1>1, PoolAssumption DEF Instance
<1> HIDE DEF f
<1>3. f \in Nat /\ f + 1 \in Nat /\ MaxBackoff + 1 \in Nat
  BY <1>2
<1>4. Min({f, MaxBackoff}) = IF f <= MaxBackoff THEN f ELSE MaxBackoff
  BY <1>2, <1>3, LesserOf, Zenon
<1>5. Min({f, MaxBackoff}) \in 0 .. MaxBackoff
  BY <1>2, <1>4
<1>6. d \in 0 .. MaxDelay
  BY <1>5, Delays, Zenon
<1>7. x = IF f + 1 <= MaxBackoff + 1 THEN f + 1 ELSE MaxBackoff + 1
  BY <1>3, LesserOf, Zenon
<1>8. x \in 0 .. MaxBackoff + 1
  BY <1>2, <1>7
<1>9. Rescheduled(o) = [inst[o] EXCEPT !.due = d, !.failures = x, !.waiting = TRUE]
  BY DEF Rescheduled, f
<1> HIDE DEF d, x
<1>10. d \in (0 - MaxLag) .. MaxDelay
  BY <1>6, PoolAssumption
<1> QED BY <1>1, <1>8, <1>9, <1>10 DEF Instance

\* fail moves an entry from the ready instances to those that wait.
LEMMA FailMoves ==
  ASSUME TypeOK, NEW o \in Obj, CanFail(o), NEW cs, Fail(o, cs)
  PROVE  /\ ready' \in Seq(Obj) /\ retry' \in Seq(Obj)
         /\ Len(ready') + Len(retry') = Len(ready) + Len(retry)
         /\ inst' \in [Obj -> Instance]
         /\ timer' \in {Never} \cup 0 .. MaxDelay + MaxLag
<1> DEFINE objs == [inst EXCEPT ![o] = Rescheduled(o)]
           rdy  == Front(ReplaceAt(ready, inst[o].index, Last(ready)))
           rty  == HeapPush(objs, retry, o)
<1>1. ready \in Seq(Obj) /\ retry \in Seq(Obj) /\ inst \in [Obj -> Instance]
  BY DEF TypeOK, Instance
<1>2. objs \in [Obj -> Instance]
  BY <1>1, RescheduledType
<1>3. rdy \in Seq(Obj) /\ Len(rdy) = Len(ready) - 1
  BY <1>1, FailRow DEF CanFail
<1>4. /\ ready' = rdy /\ retry' = rty
      /\ inst' = Collect(HeapIndex(objs, rty), rdy, rty, cs)
      /\ timer' = TimerFor(objs, rty, 0)
  BY DEF Fail
<1> HIDE DEF objs, rdy
<1>5. rty \in Seq(Obj) /\ Len(rty) = Len(retry) + 1
  BY <1>1, HeapPushAdds, Zenon
<1> HIDE DEF rty
<1>6. HeapIndex(objs, rty) \in [Obj -> Instance]
  BY <1>2, <1>5, HeapIndexKeeps, Zenon
<1>7. inst' \in [Obj -> Instance]
  BY <1>4, <1>6, CollectType, Zenon
<1>8. 0 \in 0 .. MaxLag
  BY PoolAssumption
<1>9. timer' \in {Never} \cup 0 .. MaxDelay + MaxLag
  BY <1>2, <1>4, <1>5, <1>8, TimerType, Zenon
<1>10. Len(ready) \in Nat /\ Len(retry) \in Nat
  BY <1>1
<1>11. Len(ready') + Len(retry') = Len(ready) + Len(retry)
  BY <1>3, <1>4, <1>5, <1>10
<1> QED BY <1>3, <1>4, <1>5, <1>7, <1>9, <1>11

-----------------------------------------------------------------------------
(***************************************************************************)
(* Orders of a set.                                                        *)
(***************************************************************************)
\* As many different members as there are, are all of them.
LEMMA Onto ==
  ASSUME NEW S, IsFiniteSet(S), NEW q \in [1 .. Cardinality(S) -> S],
         \A i, j \in 1 .. Cardinality(S) : q[i] = q[j] => i = j
  PROVE  \A x \in S : \E k \in 1 .. Cardinality(S) : q[k] = x
<1> DEFINE n == Cardinality(S)
<1>1. n \in Nat
  BY FS_CardinalityType, Zenon
<1>2. IsFiniteSet(1 .. n) /\ Cardinality(1 .. n) = n
  BY <1>1, UpTo, Zenon
<1>3. q \in Injection(1 .. n, S)
  BY DEF Injection, IsInjective
<1>4. Cardinality(1 .. n) = Cardinality(S) <=> q \in Surjection(1 .. n, S)
  BY <1>3, FS_Injection, Zenon
<1>5. q \in Surjection(1 .. n, S)
  BY <1>2, <1>4, Zenon
<1> QED BY <1>5, Zenon DEF Surjection

\* The lowest members of a set are different.
LEMMA LowestDiffer ==
  ASSUME NEW n \in Nat, NEW S, NEW q \in Lowest(n, S)
  PROVE  /\ q \in [1 .. n -> S] /\ DOMAIN q = 1 .. n
         /\ \A i, j \in 1 .. n : q[i] = q[j] => i = j
<1>1. q \in [1 .. n -> S] /\ \A k \in 1 .. n : Cardinality({x \in S : x < q[k]}) = k - 1
  BY DEF Lowest
<1>2. ASSUME NEW i \in 1 .. n, NEW j \in 1 .. n, q[i] = q[j]
      PROVE  i = j
  <2>1. Cardinality({x \in S : x < q[i]}) = i - 1 /\ Cardinality({x \in S : x < q[j]}) = j - 1
    BY <1>1
  <2>2. i - 1 = j - 1
    BY <1>2, <2>1, Zenon
  <2> QED BY <2>2
<1> QED BY <1>1, <1>2

\* All members of a set in some order.
LEMMA InSomeOrder ==
  ASSUME NEW S, IsFiniteSet(S), NEW q \in SetToSeqs(S)
  PROVE  /\ q \in [1 .. Cardinality(S) -> S] /\ DOMAIN q = 1 .. Cardinality(S)
         /\ \A i, j \in 1 .. Cardinality(S) : q[i] = q[j] => i = j
         /\ \A x \in S : \E k \in 1 .. Cardinality(S) : q[k] = x
<1>1. /\ q \in [1 .. Cardinality(S) -> S]
      /\ \A i, j \in 1 .. Cardinality(S) : i # j => q[i] # q[j]
  BY Zenon DEF SetToSeqs
<1>2. \A i, j \in 1 .. Cardinality(S) : q[i] = q[j] => i = j
  BY <1>1, Zenon
<1>3. \A x \in S : \E k \in 1 .. Cardinality(S) : q[k] = x
  BY <1>1, <1>2, Onto, Zenon
<1> QED BY <1>1, <1>2, <1>3, Zenon

\* The place of a member in a row.
LEMMA PlaceOf ==
  ASSUME NEW s
  PROVE  /\ \A o \in ToSet(s) : Place(s, o) \in DOMAIN s /\ s[Place(s, o)] = o
         /\ (\A i, j \in DOMAIN s : s[i] = s[j] => i = j) =>
              \A i \in DOMAIN s : Place(s, s[i]) = i
<1>1. ASSUME NEW o \in ToSet(s)
      PROVE  Place(s, o) \in DOMAIN s /\ s[Place(s, o)] = o
  <2>1. \E i \in DOMAIN s : s[i] = o
    BY Zenon DEF ToSet
  <2> QED BY <2>1, Zenon DEF Place
<1>2. ASSUME \A i, j \in DOMAIN s : s[i] = s[j] => i = j, NEW i \in DOMAIN s
      PROVE  Place(s, s[i]) = i
  <2>1. s[i] \in ToSet(s)
    BY Zenon DEF ToSet
  <2>2. Place(s, s[i]) \in DOMAIN s /\ s[Place(s, s[i])] = s[i]
    BY <1>1, <2>1, Zenon
  <2> QED BY <1>2, <2>2, Zenon
<1> QED BY <1>1, <1>2, Zenon

-----------------------------------------------------------------------------
(***************************************************************************)
(* UpdateInstances: what is kept, and what is missing.                     *)
(***************************************************************************)
\* The names of the objects at some places.
NamesAt(all, places) == {inst[all[i]].name : i \in places}

\* Of each wanted name one is kept; with the missing ones there are as many as
\* are wanted.
LEMMA KeptOnce ==
  ASSUME TypeOK, NEW all \in Seq(Obj), NEW names \in SUBSET Name,
         NEW kept, kept = Kept(all, names)
  PROVE  /\ kept \subseteq DOMAIN all /\ IsFiniteSet(kept)
         /\ \A i, j \in kept : inst[all[i]].name = inst[all[j]].name => i = j
         /\ NamesAt(all, kept) \subseteq names /\ IsFiniteSet(names \ NamesAt(all, kept))
         /\ Cardinality(kept) \in Nat /\ Cardinality(names \ NamesAt(all, kept)) \in Nat
         /\ Cardinality(kept) + Cardinality(names \ NamesAt(all, kept)) = Cardinality(names)
<1>1. Len(all) \in Nat /\ DOMAIN all = 1 .. Len(all)
  BY ElementOf, Zenon
<1>2. kept \in SUBSET (DOMAIN all) /\ NamesAt(all, kept) \subseteq names
  BY DEF Kept, NamesAt
<1>3. IsFiniteSet(kept)
  BY <1>2, SomePlaces, Zenon
<1>4. ASSUME NEW i \in kept, NEW j \in kept, inst[all[i]].name = inst[all[j]].name, i # j
      PROVE  FALSE
  <2>1. i \in 1 .. Len(all) /\ j \in 1 .. Len(all)
    BY <1>1, <1>2
  <2>2. i \in 1 .. j - 1 \/ j \in 1 .. i - 1
    BY <1>1, <1>4, <2>1
  <2>3. /\ \A k \in 1 .. i - 1 : inst[all[k]].name # inst[all[i]].name
        /\ \A k \in 1 .. j - 1 : inst[all[k]].name # inst[all[j]].name
    BY Zenon DEF Kept
  <2> QED BY <1>4, <2>2, <2>3
<1> DEFINE N == NamesAt(all, kept)
           f == [i \in kept |-> inst[all[i]].name]
<1>5. f \in Bijection(kept, N)
  <2>1. f \in [kept -> N] /\ \A x \in N : \E i \in kept : f[i] = x
    BY DEF NamesAt
  <2>2. \A i, j \in kept : f[i] = f[j] => i = j
    BY <1>4
  <2> QED BY <2>1, <2>2 DEF Bijection, Injection, Surjection, IsInjective
<1>6. ExistsBijection(kept, N)
  BY <1>5, Zenon DEF ExistsBijection
<1> HIDE DEF f
<1>7. IsFiniteSet(N) /\ Cardinality(N) = Cardinality(kept)
  BY <1>3, <1>6, FS_Bijection, Zenon
<1>8. IsFiniteSet(names)
  BY PoolAssumption, FS_Subset, Zenon
<1>9. names \cap N = N
  BY <1>2
<1>10. /\ IsFiniteSet(names \ N)
       /\ Cardinality(names \ N) = Cardinality(names) - Cardinality(names \cap N)
  BY <1>8, FS_Difference, Zenon
<1>11. /\ Cardinality(kept) \in Nat /\ Cardinality(names \ N) \in Nat /\ Cardinality(names) \in Nat
  BY <1>3, <1>8, <1>10, FS_CardinalityType, Zenon
<1> DEFINE k == Cardinality(kept)
           m == Cardinality(names \ N)
           c == Cardinality(names)
<1>12. m = c - k /\ k \in Nat /\ m \in Nat /\ c \in Nat
  BY <1>7, <1>9, <1>10, <1>11, Zenon
<1> HIDE DEF N, k, m, c
<1>13. k + m = c
  BY <1>12
<1> QED BY <1>2, <1>3, <1>4, <1>10, <1>11, <1>13, Zenon DEF N, k, m, c

\* Those that are ready and those that wait are all that are kept.
LEMMA KeptParts ==
  ASSUME NEW all, NEW kept, IsFiniteSet(kept)
  PROVE  LET R == {i \in kept : ~inst[all[i]].waiting}
             W == {i \in kept : inst[all[i]].waiting}
         IN  /\ IsFiniteSet(R) /\ IsFiniteSet(W)
             /\ Cardinality(R) \in Nat /\ Cardinality(W) \in Nat
             /\ Cardinality(R) + Cardinality(W) = Cardinality(kept)
<1> DEFINE R == {i \in kept : ~inst[all[i]].waiting}
           W == {i \in kept : inst[all[i]].waiting}
<1>1. R \in SUBSET kept /\ W \in SUBSET kept /\ R \cup W = kept /\ R \cap W = {}
  OBVIOUS
<1> HIDE DEF R, W
<1>2. IsFiniteSet(R) /\ IsFiniteSet(W)
  BY <1>1, FS_Subset, Zenon
<1>3. Cardinality(R \cup W) = Cardinality(R) + Cardinality(W) - Cardinality(R \cap W)
  BY <1>2, FS_Union, Zenon
<1>4. Cardinality({}) = 0
  BY FS_EmptySet, Zenon
<1>5. Cardinality(R) \in Nat /\ Cardinality(W) \in Nat
  BY <1>2, FS_CardinalityType, Zenon
<1>6. Cardinality(kept) = Cardinality(R) + Cardinality(W) - 0
  BY <1>1, <1>3, <1>4, Zenon
<1> DEFINE r == Cardinality(R)
           w == Cardinality(W)
           k == Cardinality(kept)
<1>7. k = r + w - 0 /\ r \in Nat /\ w \in Nat
  BY <1>5, <1>6, Zenon
<1> HIDE DEF r, w, k
<1>8. r + w = k
  BY <1>7
<1> QED BY <1>2, <1>5, <1>8, Zenon DEF R, W, r, w, k

-----------------------------------------------------------------------------
(***************************************************************************)
(* UpdateInstances: the rows that it makes.  r, w and m are how many are   *)
(* kept ready, kept waiting, and new.                                      *)
(***************************************************************************)
\* Where the objects come from: kept ones are named, and each name once; new
\* ones are garbage.
Sources(all, kept, r, w, m, rdyAt, rtyAt, new) ==
  /\ kept \subseteq DOMAIN all
  /\ \A i \in kept : inst[all[i]].name # None
  /\ \A i, j \in kept : inst[all[i]].name = inst[all[j]].name => i = j
  /\ rdyAt \in [1 .. r -> {i \in kept : ~inst[all[i]].waiting}]
  /\ rtyAt \in [1 .. w -> {i \in kept : inst[all[i]].waiting}]
  /\ new \in [1 .. m -> Garbage]
  /\ \A i, j \in 1 .. r : rdyAt[i] = rdyAt[j] => i = j
  /\ \A i, j \in 1 .. w : rtyAt[i] = rtyAt[j] => i = j
  /\ \A i, j \in 1 .. m : new[i] = new[j] => i = j

\* Where the objects of a row are: the first r kept, the others new.
Filled(all, r, w, m, rdyAt, rtyAt, new, rdy, rty) ==
  /\ rdy \in Seq(Obj) /\ DOMAIN rdy = 1 .. r + m /\ Len(rdy) = r + m
  /\ rty \in Seq(Obj) /\ DOMAIN rty = 1 .. w /\ Len(rty) = w
  /\ \A k \in 1 .. r : rdy[k] = all[rdyAt[k]]
  /\ \A k \in 1 .. m : rdy[r + k] = new[k]
  /\ \A k \in 1 .. w : rty[k] = all[rtyAt[k]]

\* The rows are filled.
LEMMA RowsFilled ==
  ASSUME TypeOK, NEW all \in Seq(Obj), NEW kept, NEW r \in Nat, NEW w \in Nat, NEW m \in Nat,
         NEW rdyAt, NEW rtyAt, NEW new, Sources(all, kept, r, w, m, rdyAt, rtyAt, new)
  PROVE  Filled(all, r, w, m, rdyAt, rtyAt, new, At(all, rdyAt) \o new, At(all, rtyAt))
<1> DEFINE a == At(all, rdyAt)
           b == At(all, rtyAt)
<1>1. \A i \in kept : all[i] \in Obj
  BY ElementOf DEF Sources
<1>2. a \in [1 .. r -> Obj] /\ \A k \in 1 .. r : a[k] = all[rdyAt[k]]
  BY <1>1 DEF Sources, At
<1>3. b \in [1 .. w -> Obj] /\ \A k \in 1 .. w : b[k] = all[rtyAt[k]]
  BY <1>1 DEF Sources, At
<1>4. new \in [1 .. m -> Obj]
  BY DEF Sources, Garbage
<1> HIDE DEF a, b
<1>5. a \in Seq(Obj) /\ Len(a) = r
  BY <1>2
<1>6. new \in Seq(Obj) /\ Len(new) = m
  BY <1>4
<1>7. b \in Seq(Obj) /\ Len(b) = w /\ DOMAIN b = 1 .. w
  BY <1>3
<1> DEFINE c == a \o new
<1>8. /\ c \in Seq(Obj) /\ Len(c) = Len(a) + Len(new)
      /\ \A i \in 1 .. Len(a) + Len(new) : c[i] = IF i <= Len(a) THEN a[i] ELSE new[i - Len(a)]
  BY <1>5, <1>6, ConcatProperties, Zenon
<1> HIDE DEF c
<1>9. Len(c) = r + m /\ \A i \in 1 .. r + m : c[i] = IF i <= r THEN a[i] ELSE new[i - r]
  BY <1>5, <1>6, <1>8, Zenon
<1>10. DOMAIN c = 1 .. r + m
  BY <1>8, <1>9, ElementOf, Zenon
<1>11. \A k \in 1 .. r : k \in 1 .. r + m /\ k <= r
  OBVIOUS
<1>12. \A k \in 1 .. m : r + k \in 1 .. r + m /\ ~(r + k <= r) /\ (r + k) - r = k
  OBVIOUS
<1>13. \A k \in 1 .. r : c[k] = all[rdyAt[k]]
  BY <1>2, <1>9, <1>11
<1>14. \A k \in 1 .. m : c[r + k] = new[k]
  BY <1>9, <1>12
<1> QED BY <1>3, <1>7, <1>8, <1>9, <1>10, <1>13, <1>14, Zenon DEF Filled, a, b, c

\* Every place is one of the first or one of the others.
LEMMA EitherPlace ==
  ASSUME NEW r \in Nat, NEW m \in Nat, NEW i \in 1 .. r + m
  PROVE  i \in 1 .. r \/ \E k \in 1 .. m : i = r + k
<1>1. CASE i <= r
  BY <1>1
<1>2. CASE i > r
  <2>1. i - r \in 1 .. m /\ i = r + (i - r)
    BY <1>2
  <2> QED BY <2>1, Zenon
<1> QED BY <1>1, <1>2

\* Nothing is in a row twice, nor in both; only what is new is garbage.
Apart(r, w, m, rdy, rty) ==
  /\ \A i, j \in DOMAIN rdy : rdy[i] = rdy[j] => i = j
  /\ \A i, j \in DOMAIN rty : rty[i] = rty[j] => i = j
  /\ \A i \in DOMAIN rdy, j \in DOMAIN rty : rdy[i] # rty[j]
  /\ \A i \in 1 .. r : rdy[i] \in Obj /\ inst[rdy[i]].name # None /\ ~inst[rdy[i]].waiting
  /\ \A i \in 1 .. m : rdy[r + i] \in Obj /\ inst[rdy[r + i]] = Blank
  /\ \A i \in 1 .. w : rty[i] \in Obj /\ inst[rty[i]].name # None /\ inst[rty[i]].waiting

\* The rows are apart.
LEMMA RowsApart ==
  ASSUME TypeOK, NEW all \in Seq(Obj), NEW kept, NEW r \in Nat, NEW w \in Nat, NEW m \in Nat,
         NEW rdyAt, NEW rtyAt, NEW new, Sources(all, kept, r, w, m, rdyAt, rtyAt, new),
         NEW rdy, NEW rty, Filled(all, r, w, m, rdyAt, rtyAt, new, rdy, rty)
  PROVE  Apart(r, w, m, rdy, rty)
<1>1. \A i \in kept : all[i] \in Obj
  BY ElementOf DEF Sources
<1>2. \A i \in 1 .. r : /\ rdyAt[i] \in kept /\ rdy[i] = all[rdyAt[i]]
                        /\ rdy[i] \in Obj /\ inst[rdy[i]].name # None /\ ~inst[rdy[i]].waiting
  BY <1>1 DEF Sources, Filled
<1>3. \A i \in 1 .. w : /\ rtyAt[i] \in kept /\ rty[i] = all[rtyAt[i]]
                        /\ rty[i] \in Obj /\ inst[rty[i]].name # None /\ inst[rty[i]].waiting
  BY <1>1 DEF Sources, Filled
<1>4. \A i \in 1 .. m : rdy[r + i] = new[i] /\ rdy[r + i] \in Obj /\ inst[rdy[r + i]] = Blank
  BY DEF Sources, Filled, Garbage
<1>5. Blank.name = None /\ ~Blank.waiting
  BY DEF Blank
<1> DEFINE named(i) == inst[all[i]].name
<1>a. \A i, j \in 1 .. r : rdyAt[i] = rdyAt[j] => i = j
  BY Zenon DEF Sources
<1>0. /\ \A i, j \in kept : named(i) = named(j) => i = j
      /\ \A i, j \in 1 .. w : rtyAt[i] = rtyAt[j] => i = j
  BY Zenon DEF Sources
<1>6. ASSUME NEW i \in 1 .. r, NEW j \in 1 .. r, rdy[i] = rdy[j]
      PROVE  i = j
  <2>1. rdyAt[i] \in kept /\ rdyAt[j] \in kept /\ all[rdyAt[i]] = all[rdyAt[j]]
    BY <1>2, <1>6, Zenon
  <2>2. named(rdyAt[i]) = named(rdyAt[j])
    BY <2>1, Zenon
  <2> HIDE DEF named
  <2>3. rdyAt[i] = rdyAt[j]
    BY <1>0, <2>1, <2>2, Zenon
  <2> QED BY <1>a, <2>3, Zenon
<1>b. \A i, j \in 1 .. m : new[i] = new[j] => i = j
  BY Zenon DEF Sources
<1>7. ASSUME NEW i \in 1 .. m, NEW j \in 1 .. m, rdy[r + i] = rdy[r + j]
      PROVE  i = j
  <2>1. new[i] = new[j]
    BY <1>4, <1>7, Zenon
  <2> QED BY <1>b, <2>1, Zenon
<1>8. \A i \in 1 .. r, j \in 1 .. m : rdy[i] # rdy[r + j]
  BY <1>2, <1>4, <1>5, Zenon
<1>9. ASSUME NEW i \in DOMAIN rdy, NEW j \in DOMAIN rdy, rdy[i] = rdy[j]
      PROVE  i = j
  <2>1. i \in 1 .. r + m /\ j \in 1 .. r + m
    BY Zenon DEF Filled
  <2>2. i \in 1 .. r \/ \E k \in 1 .. m : i = r + k
    BY <2>1, EitherPlace, Zenon
  <2>3. j \in 1 .. r \/ \E k \in 1 .. m : j = r + k
    BY <2>1, EitherPlace, Zenon
  <2>4. CASE i \in 1 .. r
    BY <1>6, <1>8, <1>9, <2>3, <2>4, Zenon
  <2>5. CASE \E k \in 1 .. m : i = r + k
    BY <1>7, <1>8, <1>9, <2>3, <2>5, Zenon
  <2> QED BY <2>2, <2>4, <2>5, Zenon
<1>10. ASSUME NEW i \in DOMAIN rty, NEW j \in DOMAIN rty, rty[i] = rty[j]
       PROVE  i = j
  <2>1. i \in 1 .. w /\ j \in 1 .. w
    BY Zenon DEF Filled
  <2>2. rtyAt[i] \in kept /\ rtyAt[j] \in kept /\ all[rtyAt[i]] = all[rtyAt[j]]
    BY <1>3, <1>10, <2>1, Zenon
  <2>3. named(rtyAt[i]) = named(rtyAt[j])
    BY <2>2, Zenon
  <2> HIDE DEF named
  <2>4. rtyAt[i] = rtyAt[j]
    BY <1>0, <2>2, <2>3, Zenon
  <2> QED BY <1>0, <2>1, <2>4, Zenon
<1>11. ASSUME NEW i \in DOMAIN rdy, NEW j \in DOMAIN rty
       PROVE  rdy[i] # rty[j]
  <2>1. i \in 1 .. r + m /\ j \in 1 .. w
    BY Zenon DEF Filled
  <2>2. i \in 1 .. r \/ \E k \in 1 .. m : i = r + k
    BY <2>1, EitherPlace, Zenon
  <2>3. inst[rty[j]].name # None /\ inst[rty[j]].waiting
    BY <1>3, <2>1, Zenon
  <2>4. ~inst[rdy[i]].waiting
    BY <1>2, <1>4, <1>5, <2>2, Zenon
  <2> QED BY <2>3, <2>4, Zenon
<1> QED BY <1>2, <1>3, <1>4, <1>9, <1>10, <1>11, Zenon DEF Apart

\* Containing and being in the set of.
LEMMA ContainsIsIn ==
  ASSUME NEW S, NEW s \in Seq(S)
  PROVE  \A e : Contains(s, e) <=> e \in ToSet(s)
BY DEF Contains, ToSet

\* How the objects x of the rows are named and numbered; those that wait are as
\* they were.
Labelled(r, m, order, rdy, rty, x) ==
  /\ x \in [Obj -> Instance]
  /\ \A i \in 1 .. r : x[rdy[i]].name = inst[rdy[i]].name
  /\ \A i \in 1 .. m : x[rdy[r + i]].name = order[i]
  /\ \A i \in DOMAIN rdy : x[rdy[i]].index = i /\ ~x[rdy[i]].waiting
  /\ \A i \in DOMAIN rty : x[rty[i]] = inst[rty[i]]

\* Numbered does that.
LEMMA RowsNumbered ==
  ASSUME TypeOK, NEW all \in Seq(Obj), NEW kept, NEW r \in Nat, NEW w \in Nat, NEW m \in Nat,
         NEW rdyAt, NEW rtyAt, NEW new, Sources(all, kept, r, w, m, rdyAt, rtyAt, new),
         NEW rdy, NEW rty, Filled(all, r, w, m, rdyAt, rtyAt, new, rdy, rty),
         NEW order \in [1 .. m -> Name]
  PROVE  Labelled(r, m, order, rdy, rty, Numbered(rdy, new, order))
<1> DEFINE n == Numbered(rdy, new, order)
           at == [o \in Obj |-> Place(rdy, o)]
           as == [o \in Obj |-> Place(new, o)]
<1>1. new \in [1 .. m -> Obj] /\ \A i, j \in 1 .. m : new[i] = new[j] => i = j
  BY DEF Sources, Garbage
<1>2. new \in Seq(Obj) /\ DOMAIN new = 1 .. m
  BY <1>1
<1>3. rdy \in Seq(Obj) /\ rty \in Seq(Obj) /\ DOMAIN rdy = 1 .. r + m /\ DOMAIN rty = 1 .. w
  BY Zenon DEF Filled
<1>4. /\ \A e : Contains(new, e) <=> e \in ToSet(new)
      /\ \A e : Contains(rdy, e) <=> e \in ToSet(rdy)
  BY <1>2, <1>3, ContainsIsIn, Zenon
<1>0. Apart(r, w, m, rdy, rty)
  BY RowsApart, Zenon
<1>5. /\ \A i, j \in DOMAIN rdy : rdy[i] = rdy[j] => i = j
      /\ \A i \in DOMAIN rdy, j \in DOMAIN rty : rdy[i] # rty[j]
      /\ \A i \in 1 .. r : rdy[i] \in Obj /\ inst[rdy[i]].name # None /\ ~inst[rdy[i]].waiting
      /\ \A i \in 1 .. m : rdy[r + i] \in Obj /\ inst[rdy[r + i]] = Blank
      /\ \A i \in 1 .. w : rty[i] \in Obj /\ inst[rty[i]].name # None /\ inst[rty[i]].waiting
  BY <1>0, Zenon DEF Apart
<1>6. n = [o \in Obj |-> IF o \in ToSet(new)
             THEN [Blank EXCEPT !.name = order[as[o]], !.index = at[o]]
             ELSE IF o \in ToSet(rdy) THEN [inst[o] EXCEPT !.index = at[o]] ELSE inst[o]]
  BY <1>4 DEF Numbered
<1>7. /\ \A o \in ToSet(rdy) : Place(rdy, o) \in DOMAIN rdy
      /\ \A i \in DOMAIN rdy : Place(rdy, rdy[i]) = i
  BY <1>5, PlaceOf, Zenon
<1>8. /\ \A o \in ToSet(new) : Place(new, o) \in DOMAIN new
      /\ \A i \in DOMAIN new : Place(new, new[i]) = i
  BY <1>1, <1>2, PlaceOf, Zenon
<1>9. /\ \A i \in 1 .. m : rdy[r + i] = new[i] /\ r + i \in 1 .. r + m
      /\ \A i \in 1 .. r : i \in 1 .. r + m
      /\ \A i \in 1 .. r + m : i \in Nat
  BY DEF Filled
<1>10. ToSet(new) \subseteq ToSet(rdy)
  <2>1. \A i \in 1 .. m : new[i] \in ToSet(rdy)
    BY <1>3, <1>9 DEF ToSet
  <2> QED BY <1>2, <2>1 DEF ToSet
<1>11. ToSet(rdy) \subseteq Obj /\ ToSet(new) \subseteq Obj
  BY <1>2, <1>3, ElementOf, Zenon
<1>12. /\ \A o \in ToSet(rdy) : at[o] \in Nat
       /\ \A i \in DOMAIN rdy : rdy[i] \in ToSet(rdy) /\ rdy[i] \in Obj /\ at[rdy[i]] = i
  <2>1. \A i \in DOMAIN rdy : rdy[i] \in ToSet(rdy)
    BY Zenon DEF ToSet
  <2>2. \A o \in ToSet(rdy) : at[o] = Place(rdy, o)
    BY <1>11
  <2> HIDE DEF at
  <2> QED BY <1>3, <1>7, <1>9, <1>11, <2>1, <2>2
<1>13. /\ \A o \in ToSet(new) : as[o] \in 1 .. m
       /\ \A i \in 1 .. m : new[i] \in ToSet(new) /\ new[i] \in Obj /\ as[new[i]] = i
  <2>1. \A i \in DOMAIN new : new[i] \in ToSet(new)
    BY Zenon DEF ToSet
  <2>2. \A o \in ToSet(new) : as[o] = Place(new, o)
    BY <1>11
  <2> HIDE DEF as
  <2> QED BY <1>2, <1>8, <1>11, <2>1, <2>2
<1> HIDE DEF n, at, as
<1>14. inst \in [Obj -> Instance] /\ Blank \in Instance
  BY PoolAssumption, MaxDelayType DEF TypeOK, Instance, Blank
<1>15. \A o \in Obj : n[o] \in Instance
  <2>1. \A o \in ToSet(new) : [Blank EXCEPT !.name = order[as[o]], !.index = at[o]] \in Instance
    BY <1>10, <1>12, <1>13, <1>14 DEF Instance
  <2>2. \A o \in ToSet(rdy) : [inst[o] EXCEPT !.index = at[o]] \in Instance
    BY <1>11, <1>12, <1>14 DEF Instance
  <2> QED BY <1>6, <1>14, <2>1, <2>2
<1>16. n \in [Obj -> Instance]
  BY <1>6, <1>15
<1>17. \A i \in 1 .. m : n[new[i]] = [Blank EXCEPT !.name = order[i], !.index = r + i]
  <2>1. \A i \in 1 .. m : at[new[i]] = r + i
    BY <1>3, <1>9, <1>12
  <2> QED BY <1>6, <1>13, <2>1
<1>18. \A i \in 1 .. r : rdy[i] \notin ToSet(new)
  <2>1. \A i \in 1 .. r, j \in 1 .. m : rdy[i] # new[j]
    BY <1>5, <1>9 DEF Blank
  <2> QED BY <1>2, <2>1 DEF ToSet
<1>19. \A i \in 1 .. r : n[rdy[i]] = [inst[rdy[i]] EXCEPT !.index = i]
  BY <1>3, <1>6, <1>9, <1>12, <1>18
<1>20. \A i \in 1 .. w : n[rty[i]] = inst[rty[i]]
  <2>1. \A i \in 1 .. w : rty[i] \notin ToSet(rdy)
    BY <1>3, <1>5 DEF ToSet
  <2> QED BY <1>5, <1>6, <1>10, <2>1
<1>21. ASSUME NEW i \in 1 .. r
       PROVE  n[rdy[i]].name = inst[rdy[i]].name /\ n[rdy[i]].index = i /\ ~n[rdy[i]].waiting
  <2>1. inst[rdy[i]] \in Instance /\ ~inst[rdy[i]].waiting
    BY <1>5, <1>14
  <2>2. n[rdy[i]] = [inst[rdy[i]] EXCEPT !.index = i]
    BY <1>19
  <2> QED BY <2>1, <2>2 DEF Instance
<1>22. ASSUME NEW i \in 1 .. m
       PROVE  /\ n[rdy[r + i]].name = order[i]
              /\ n[rdy[r + i]].index = r + i /\ ~n[rdy[r + i]].waiting
  <2>1. n[rdy[r + i]] = [Blank EXCEPT !.name = order[i], !.index = r + i]
    BY <1>9, <1>17
  <2> QED BY <2>1 DEF Blank
<1>23. ASSUME NEW i \in DOMAIN rdy
       PROVE  n[rdy[i]].index = i /\ ~n[rdy[i]].waiting
  <2>1. i \in 1 .. r \/ \E k \in 1 .. m : i = r + k
    <3>1. i \in 1 .. r + m
      BY <1>3, Zenon
    <3> QED BY <3>1, EitherPlace, Zenon
  <2>2. CASE i \in 1 .. r
    BY <1>21, <2>2, Zenon
  <2>3. CASE \E k \in 1 .. m : i = r + k
    BY <1>22, <2>3, Zenon
  <2> QED BY <2>1, <2>2, <2>3, Zenon
<1> QED BY <1>3, <1>16, <1>20, <1>21, <1>22, <1>23, Zenon DEF Labelled, n

\* What holds of the objects x of two rows, the first r + m of them ready.
Settled(r, m, order, rdy, rty, x) ==
  /\ x \in [Obj -> Instance]
  /\ \A i \in 1 .. r : x[rdy[i]].name = inst[rdy[i]].name
  /\ \A i \in 1 .. m : x[rdy[r + i]].name = order[i]
  /\ \A i \in DOMAIN rdy : x[rdy[i]].index = i /\ ~x[rdy[i]].waiting
  /\ \A i \in DOMAIN rty : /\ x[rty[i]].name = inst[rty[i]].name /\ x[rty[i]].index = i
                           /\ x[rty[i]].waiting /\ x[rty[i]].due = inst[rty[i]].due

\* It holds once the heap is in order and the rest has been collected.
LEMMA RowsSettled ==
  ASSUME TypeOK, NEW all \in Seq(Obj), NEW kept, NEW r \in Nat, NEW w \in Nat, NEW m \in Nat,
         NEW rdyAt, NEW rtyAt, NEW new, Sources(all, kept, r, w, m, rdyAt, rtyAt, new),
         NEW rdy, NEW rty, Filled(all, r, w, m, rdyAt, rtyAt, new, rdy, rty),
         NEW order \in [1 .. m -> Name], NEW cs
  PROVE  Settled(r, m, order, rdy, rty,
                 Collect(HeapIndex(Numbered(rdy, new, order), rty), rdy, rty, cs))
<1> DEFINE n == Numbered(rdy, new, order)
           h == HeapIndex(n, rty)
           x == Collect(h, rdy, rty, cs)
<1>1. /\ n \in [Obj -> Instance]
      /\ \A i \in 1 .. r : n[rdy[i]].name = inst[rdy[i]].name
      /\ \A i \in 1 .. m : n[rdy[r + i]].name = order[i]
      /\ \A i \in DOMAIN rdy : n[rdy[i]].index = i /\ ~n[rdy[i]].waiting
      /\ \A i \in DOMAIN rty : n[rty[i]] = inst[rty[i]]
  <2>1. Labelled(r, m, order, rdy, rty, n)
    BY RowsNumbered, Zenon
  <2> QED BY <2>1, Zenon DEF Labelled
<1>2. Apart(r, w, m, rdy, rty)
  BY RowsApart, Zenon
<1>3. rdy \in Seq(Obj) /\ rty \in Seq(Obj) /\ DOMAIN rdy = 1 .. r + m /\ DOMAIN rty = 1 .. w
  BY Zenon DEF Filled
<1> HIDE DEF n
<1>4. /\ h \in [Obj -> Instance]
      /\ \A o \in Obj : /\ h[o].name = n[o].name
                        /\ h[o].failures = n[o].failures
                        /\ h[o].waiting = n[o].waiting
                        /\ h[o].due = n[o].due
      /\ \A o \in Obj : o \notin ToSet(rty) => h[o] = n[o]
      /\ \A o \in ToSet(rty) : h[o].index = LastPlace(rty, o)
  BY <1>1, <1>3, HeapIndexKeeps, Zenon
<1> HIDE DEF h
<1>5. /\ x \in [Obj -> Instance]
      /\ \A o \in Obj : o \in ToSet(rdy) \/ o \in ToSet(rty) => x[o] = h[o]
  <2>1. x \in [Obj -> Instance]
    BY <1>4, CollectType, Zenon
  <2>2. \A o \in Obj : o \in ToSet(rdy) \/ o \in ToSet(rty) => x[o] = h[o]
    BY DEF Collect
  <2> QED BY <2>1, <2>2, Zenon
<1> HIDE DEF x
<1>6. ASSUME NEW i \in DOMAIN rdy
      PROVE  x[rdy[i]] = n[rdy[i]]
  <2>1. rdy[i] \in ToSet(rdy) /\ rdy[i] \in Obj
    BY <1>3, ElementOf DEF ToSet
  <2>2. rdy[i] \notin ToSet(rty)
    BY <1>2, Zenon DEF Apart, ToSet
  <2> QED BY <1>4, <1>5, <2>1, <2>2
<1>7. ASSUME NEW i \in DOMAIN rty
      PROVE  /\ x[rty[i]].name = inst[rty[i]].name /\ x[rty[i]].index = i
             /\ x[rty[i]].waiting /\ x[rty[i]].due = inst[rty[i]].due
  <2>1. rty[i] \in ToSet(rty) /\ rty[i] \in Obj
    BY <1>3, ElementOf DEF ToSet
  <2>2. x[rty[i]] = h[rty[i]]
    BY <1>5, <2>1
  <2>3. \A j, k \in DOMAIN rty : rty[j] = rty[k] => j = k
    BY <1>2, Zenon DEF Apart
  <2>4. LastPlace(rty, rty[i]) = i
    BY <1>3, <2>3, LastPlaceOf, Zenon
  <2>5. h[rty[i]].index = i
    BY <1>4, <2>1, <2>4, Zenon
  <2>6. inst[rty[i]].waiting
    BY <1>2, <1>3, Zenon DEF Apart
  <2>7. n[rty[i]] = inst[rty[i]]
    BY <1>1, Zenon
  <2>8. /\ h[rty[i]].name = n[rty[i]].name /\ h[rty[i]].waiting = n[rty[i]].waiting
        /\ h[rty[i]].due = n[rty[i]].due
    BY <1>4, <2>1, Zenon
  <2> QED BY <2>2, <2>5, <2>6, <2>7, <2>8, Zenon
<1>8. \A i \in 1 .. r : i \in DOMAIN rdy
  BY <1>3
<1>9. \A i \in 1 .. m : r + i \in DOMAIN rdy
  BY <1>3
<1>10. /\ \A i \in 1 .. r : x[rdy[i]].name = inst[rdy[i]].name
       /\ \A i \in 1 .. m : x[rdy[r + i]].name = order[i]
       /\ \A i \in DOMAIN rdy : x[rdy[i]].index = i /\ ~x[rdy[i]].waiting
  BY <1>1, <1>6, <1>8, <1>9, Zenon
<1> QED BY <1>5, <1>7, <1>10, Zenon DEF Settled, n, h, x

\* The members of two rows one after the other.
LEMMA InEither ==
  ASSUME NEW S, NEW s \in Seq(S), NEW t \in Seq(S)
  PROVE  ToSet(s \o t) = ToSet(s) \cup ToSet(t)
<1>1. /\ s \o t \in Seq(S) /\ Len(s \o t) = Len(s) + Len(t)
      /\ \A i \in 1 .. Len(s) + Len(t) : (s \o t)[i] = IF i <= Len(s) THEN s[i] ELSE t[i - Len(s)]
  BY ConcatProperties, Zenon
<1> DEFINE c == s \o t
<1>2. /\ c \in Seq(S) /\ DOMAIN c = 1 .. Len(s) + Len(t)
      /\ \A i \in 1 .. Len(s) + Len(t) : c[i] = IF i <= Len(s) THEN s[i] ELSE t[i - Len(s)]
  BY <1>1
<1> HIDE DEF c
<1>3. Len(s) \in Nat /\ Len(t) \in Nat /\ DOMAIN s = 1 .. Len(s) /\ DOMAIN t = 1 .. Len(t)
  OBVIOUS
<1>4. \A i \in DOMAIN c : c[i] \in ToSet(s) \cup ToSet(t)
  <2> TAKE i \in DOMAIN c
  <2>1. CASE i <= Len(s)
    <3>1. i \in DOMAIN s /\ c[i] = s[i]
      BY <1>2, <1>3, <2>1
    <3> QED BY <3>1 DEF ToSet
  <2>2. CASE ~(i <= Len(s))
    <3>1. i - Len(s) \in DOMAIN t /\ c[i] = t[i - Len(s)]
      BY <1>2, <1>3, <2>2
    <3> QED BY <3>1 DEF ToSet
  <2> QED BY <2>1, <2>2
<1>5. \A i \in DOMAIN s : s[i] \in ToSet(c)
  <2>1. \A i \in DOMAIN s : i \in DOMAIN c /\ c[i] = s[i]
    BY <1>2, <1>3
  <2> QED BY <2>1, Zenon DEF ToSet
<1>6. \A i \in DOMAIN t : t[i] \in ToSet(c)
  <2>1. \A i \in DOMAIN t : Len(s) + i \in DOMAIN c /\ c[Len(s) + i] = t[i]
    BY <1>2, <1>3
  <2> QED BY <2>1, Zenon DEF ToSet
<1>7. /\ \A e \in ToSet(c) : e \in ToSet(s) \cup ToSet(t)
      /\ \A e \in ToSet(s) : e \in ToSet(c)
      /\ \A e \in ToSet(t) : e \in ToSet(c)
  <2>1. \A e \in ToSet(c) : \E i \in DOMAIN c : e = c[i]
    BY Zenon DEF ToSet
  <2>2. \A e \in ToSet(s) : \E i \in DOMAIN s : e = s[i]
    BY Zenon DEF ToSet
  <2>3. \A e \in ToSet(t) : \E i \in DOMAIN t : e = t[i]
    BY Zenon DEF ToSet
  <2> QED BY <1>4, <1>5, <1>6, <2>1, <2>2, <2>3, Zenon
<1> QED BY <1>7 DEF c

\* UpdateInstances makes a sound pool out of any.
LEMMA UpdateSound ==
  ASSUME TypeOK, NEW names \in SUBSET Name, UpdateInstances(names)
  PROVE  /\ ready' \in Seq(Obj) /\ retry' \in Seq(Obj)
         /\ inst' \in [Obj -> Instance] /\ timer' \in {Never} \cup 0 .. MaxDelay + MaxLag
         /\ Sound'
<1> DEFINE all == ready \o retry
           kept == Kept(all, names)
           missing == names \ NamesAt(all, kept)
           R == {i \in kept : ~inst[all[i]].waiting}
           W == {i \in kept : inst[all[i]].waiting}
           r == Cardinality(R)
           w == Cardinality(W)
           m == Cardinality(missing)
<1>1. ready \in Seq(Obj) /\ retry \in Seq(Obj) /\ inst \in [Obj -> Instance]
  BY DEF TypeOK, Instance
<1>2. all \in Seq(Obj)
  BY <1>1, ConcatProperties, Zenon
<1>3. Replace(all, kept, missing) /\ wanted' = names
  BY DEF UpdateInstances, NamesAt
<1> HIDE DEF all
<1>4. /\ kept \subseteq DOMAIN all /\ IsFiniteSet(kept)
      /\ \A i, j \in kept : inst[all[i]].name = inst[all[j]].name => i = j
      /\ NamesAt(all, kept) \subseteq names /\ IsFiniteSet(names \ NamesAt(all, kept))
      /\ Cardinality(kept) \in Nat /\ Cardinality(names \ NamesAt(all, kept)) \in Nat
      /\ Cardinality(kept) + Cardinality(names \ NamesAt(all, kept)) = Cardinality(names)
  BY <1>2, KeptOnce, Zenon
<1>5. /\ IsFiniteSet(R) /\ IsFiniteSet(W)
      /\ Cardinality(R) \in Nat /\ Cardinality(W) \in Nat
      /\ Cardinality(R) + Cardinality(W) = Cardinality(kept)
  BY <1>4, KeptParts, Zenon
<1>6. \A i \in kept : inst[all[i]].name # None
  BY <1>4, PoolAssumption DEF NamesAt
<1>7. PICK rdyAt \in Lowest(r, R), rtyAt \in SetToSeqs(W), order \in SetToSeqs(missing),
           new \in Lowest(m, Garbage) :
        /\ \A i, j \in DOMAIN At(all, rtyAt) :
             i < j => inst[At(all, rtyAt)[i]].due <= inst[At(all, rtyAt)[j]].due
        /\ ready' = At(all, rdyAt) \o new /\ retry' = At(all, rtyAt)
        /\ inst' = Collect(HeapIndex(Numbered(At(all, rdyAt) \o new, new, order),
                                     At(all, rtyAt)), At(all, rdyAt) \o new, At(all, rtyAt), conn)
        /\ timer' = TimerFor(inst, At(all, rtyAt), 0)
  BY <1>3, Zenon DEF Replace
<1> DEFINE rdy == At(all, rdyAt) \o new
           rty == At(all, rtyAt)
           x == Collect(HeapIndex(Numbered(rdy, new, order), rty), rdy, rty, conn)
<1> HIDE DEF kept
<1>8. /\ rdyAt \in [1 .. r -> R]
      /\ \A i, j \in 1 .. r : rdyAt[i] = rdyAt[j] => i = j
  <2>1. r \in Nat
    BY <1>5, Zenon
  <2> HIDE DEF r, R
  <2> QED BY <2>1, LowestDiffer, Zenon
<1>9. \A e \in R : \E k \in 1 .. r : rdyAt[k] = e
  <2> HIDE DEF R
  <2> QED BY <1>5, <1>8, Onto, Zenon
<1>10. /\ new \in [1 .. m -> Garbage]
       /\ \A i, j \in 1 .. m : new[i] = new[j] => i = j
  <2>1. m \in Nat
    BY <1>4, Zenon
  <2> HIDE DEF m
  <2> QED BY <2>1, LowestDiffer, Zenon
<1>11. /\ rtyAt \in [1 .. w -> W]
       /\ \A i, j \in 1 .. w : rtyAt[i] = rtyAt[j] => i = j
       /\ \A e \in W : \E k \in 1 .. w : rtyAt[k] = e
  <2> HIDE DEF W
  <2> QED BY <1>5, InSomeOrder, Zenon
<1>12. /\ order \in [1 .. m -> missing]
       /\ \A e \in missing : \E k \in 1 .. m : order[k] = e
  <2>1. IsFiniteSet(missing)
    BY <1>4, Zenon
  <2> HIDE DEF missing
  <2> QED BY <2>1, InSomeOrder, Zenon
<1>13. order \in [1 .. m -> Name]
  <2>1. missing \subseteq Name
    OBVIOUS
  <2> HIDE DEF missing
  <2> QED BY <1>12, <2>1
<1>14. r \in Nat /\ w \in Nat /\ m \in Nat /\ r + w + m = Cardinality(names)
  <2> DEFINE k == Cardinality(kept)
             c == Cardinality(names)
  <2>1. r \in Nat /\ w \in Nat /\ m \in Nat /\ r + w = k /\ k + m = c
    BY <1>4, <1>5, Zenon
  <2> HIDE DEF r, w, m, k, c
  <2>2. r + w + m = c
    BY <2>1
  <2> QED BY <2>1, <2>2, Zenon DEF c
<1>15. Sources(all, kept, r, w, m, rdyAt, rtyAt, new)
  BY <1>4, <1>6, <1>8, <1>10, <1>11, Zenon DEF Sources
<1> HIDE DEF missing, r, w, m
<1>16. Filled(all, r, w, m, rdyAt, rtyAt, new, rdy, rty)
  BY <1>2, <1>14, <1>15, RowsFilled, Zenon
<1> HIDE DEF rdy, rty
<1>17. Settled(r, m, order, rdy, rty, x)
  BY <1>2, <1>13, <1>14, <1>15, <1>16, RowsSettled, Zenon
<1> HIDE DEF x
<1>18. /\ ready' = rdy /\ retry' = rty /\ inst' = x
       /\ timer' = TimerFor(inst, rty, 0)
       /\ \A i, j \in DOMAIN rty : i < j => inst[rty[i]].due <= inst[rty[j]].due
  BY <1>7, Zenon DEF rdy, rty, x
<1>19. /\ rdy \in Seq(Obj) /\ DOMAIN rdy = 1 .. r + m /\ Len(rdy) = r + m
       /\ rty \in Seq(Obj) /\ DOMAIN rty = 1 .. w /\ Len(rty) = w
       /\ \A k \in 1 .. r : rdy[k] = all[rdyAt[k]]
       /\ \A k \in 1 .. w : rty[k] = all[rtyAt[k]]
  BY <1>16, Zenon DEF Filled
<1>20. /\ x \in [Obj -> Instance]
       /\ \A i \in 1 .. r : x[rdy[i]].name = inst[rdy[i]].name
       /\ \A i \in 1 .. m : x[rdy[r + i]].name = order[i]
       /\ \A i \in DOMAIN rdy : x[rdy[i]].index = i /\ ~x[rdy[i]].waiting
       /\ \A i \in DOMAIN rty : /\ x[rty[i]].name = inst[rty[i]].name /\ x[rty[i]].index = i
                                /\ x[rty[i]].waiting /\ x[rty[i]].due = inst[rty[i]].due
  BY <1>17, Zenon DEF Settled
<1>21. 0 \in 0 .. MaxLag
  BY PoolAssumption
<1>22. timer' \in {Never} \cup 0 .. MaxDelay + MaxLag
  BY <1>1, <1>18, <1>19, <1>21, TimerType, Zenon
<1>23. /\ rdy \o rty \in Seq(Obj) /\ Len(rdy \o rty) = Len(rdy) + Len(rty)
       /\ ToSet(rdy \o rty) = ToSet(rdy) \cup ToSet(rty)
  <2>1. rdy \o rty \in Seq(Obj) /\ Len(rdy \o rty) = Len(rdy) + Len(rty)
    BY <1>19, ConcatProperties, Zenon
  <2>2. ToSet(rdy \o rty) = ToSet(rdy) \cup ToSet(rty)
    BY <1>19, InEither, Zenon
  <2> QED BY <2>1, <2>2, Zenon
<1>24. Len(rdy \o rty) = Cardinality(names)
  BY <1>14, <1>19, <1>23
<1>25. \A o \in ToSet(rdy) \cup ToSet(rty) : x[o].name \in names
  <2>1. \A i \in 1 .. r : x[rdy[i]].name \in names
    <3>1. \A i \in 1 .. r : rdyAt[i] \in kept
      BY <1>8
    <3>2. \A i \in 1 .. r : inst[rdy[i]].name \in NamesAt(all, kept)
      BY <1>19, <3>1, Zenon DEF NamesAt
    <3> QED BY <1>4, <1>20, <3>2
  <2>2. \A i \in 1 .. m : x[rdy[r + i]].name \in names
    BY <1>12, <1>20 DEF missing
  <2>3. \A i \in 1 .. w : x[rty[i]].name \in names
    <3>1. \A i \in 1 .. w : rtyAt[i] \in kept
      BY <1>11
    <3>2. \A i \in 1 .. w : inst[rty[i]].name \in NamesAt(all, kept)
      BY <1>19, <3>1, Zenon DEF NamesAt
    <3> QED BY <1>4, <1>19, <1>20, <3>2
  <2>4. \A i \in 1 .. r + m : i \in 1 .. r \/ \E k \in 1 .. m : i = r + k
    BY <1>14, EitherPlace, Zenon
  <2>5. \A i \in DOMAIN rdy : x[rdy[i]].name \in names
    BY <1>19, <2>1, <2>2, <2>4, Zenon
  <2>6. \A i \in DOMAIN rty : x[rty[i]].name \in names
    BY <1>19, <2>3, Zenon
  <2> QED BY <2>5, <2>6, Zenon DEF ToSet
<1>26. ASSUME NEW n \in names
       PROVE  \E o \in ToSet(rdy) \cup ToSet(rty) : x[o].name = n
  <2>1. \A i \in DOMAIN rdy : rdy[i] \in ToSet(rdy)
    BY Zenon DEF ToSet
  <2>2. \A i \in DOMAIN rty : rty[i] \in ToSet(rty)
    BY Zenon DEF ToSet
  <2>3. CASE n \in missing
    <3>1. PICK k \in 1 .. m : order[k] = n
      BY <1>12, <2>3, Zenon
    <3>2. r + k \in DOMAIN rdy
      BY <1>14, <1>19
    <3>3. x[rdy[r + k]].name = n
      BY <1>20, <3>1, Zenon
    <3> QED BY <2>1, <3>2, <3>3, Zenon
  <2>4. CASE n \in NamesAt(all, kept)
    <3>1. PICK i \in kept : inst[all[i]].name = n
      BY <2>4, Zenon DEF NamesAt
    <3>2. CASE i \in R
      <4>1. PICK k \in 1 .. r : rdyAt[k] = i
        BY <1>9, <3>2, Zenon
      <4>2. k \in DOMAIN rdy
        BY <1>14, <1>19
      <4>3. rdy[k] = all[i] /\ x[rdy[k]].name = inst[rdy[k]].name
        BY <1>19, <1>20, <4>1, Zenon
      <4>4. x[rdy[k]].name = n
        BY <3>1, <4>3, Zenon
      <4> QED BY <2>1, <4>2, <4>4, Zenon
    <3>3. CASE i \in W
      <4>1. PICK k \in 1 .. w : rtyAt[k] = i
        BY <1>11, <3>3, Zenon
      <4>2. k \in DOMAIN rty
        BY <1>14, <1>19
      <4>3. rty[k] = all[i] /\ x[rty[k]].name = inst[rty[k]].name
        BY <1>19, <1>20, <4>1, <4>2, Zenon
      <4>4. x[rty[k]].name = n
        BY <3>1, <4>3, Zenon
      <4> QED BY <2>2, <4>2, <4>4, Zenon
    <3> QED BY <3>2, <3>3
  <2> QED BY <2>3, <2>4 DEF missing
<1>27. {x[o].name : o \in ToSet(rdy \o rty)} = names
  <2>1. \A n \in {x[o].name : o \in ToSet(rdy \o rty)} : n \in names
    BY <1>23, <1>25, Zenon
  <2>2. \A n \in names : n \in {x[o].name : o \in ToSet(rdy \o rty)}
    BY <1>23, <1>26, Zenon
  <2> QED BY <2>1, <2>2
<1>28. \A i, j \in DOMAIN rty : i < j => x[rty[i]].due <= x[rty[j]].due
  BY <1>18, <1>20, Zenon
<1>29. Sound'
  <2>1. /\ {inst'[o].name : o \in ToSet(ready' \o retry')} = wanted'
        /\ Len(ready' \o retry') = Cardinality(wanted')
    BY <1>3, <1>18, <1>24, <1>27, Zenon
  <2>2. /\ \A i \in DOMAIN (ready') : inst'[ready'[i]].index = i /\ ~inst'[ready'[i]].waiting
        /\ \A i \in DOMAIN (retry') : inst'[retry'[i]].index = i /\ inst'[retry'[i]].waiting
        /\ \A i, j \in DOMAIN (retry') : i < j => inst'[retry'[i]].due <= inst'[retry'[j]].due
    BY <1>18, <1>20, <1>28, Zenon
  <2> QED BY <2>1, <2>2, Zenon DEF Sound
<1> QED BY <1>18, <1>19, <1>20, <1>22, <1>29, Zenon

-----------------------------------------------------------------------------
(***************************************************************************)
(* The goroutines.                                                         *)
(***************************************************************************)
\* An object is a number, and so not None.
LEMMA ObjNotNone == None \notin Obj /\ Obj \subseteq Nat
BY PoolAssumption DEF Obj

\* After a pick, a failure, and the end of forward.
LEMMA StillAttempting ==
  ASSUME AttemptsLeft(conn), NEW g \in Conn
  PROVE  /\ conn[g].holds = None => \A o \in Obj : AttemptsLeft(Picked(g, o))
         /\ conn[g].holds # None => AttemptsLeft(AfterFailure(g))
         /\ AttemptsLeft([conn EXCEPT ![g] = Free])
<1>1. /\ conn \in [Conn -> Holding] /\ MaxAttempts \in Nat \ {0}
      /\ \A h \in Conn : conn[h].holds = None => conn[h].tries < MaxAttempts
  BY PoolAssumption DEF AttemptsLeft
<1>2. Free \in Holding /\ Free.tries < MaxAttempts
  BY <1>1 DEF Free, Holding
<1>3. ASSUME conn[g].holds = None, NEW o \in Obj
      PROVE  AttemptsLeft(Picked(g, o))
  <2> DEFINE c == [holds |-> o, tries |-> conn[g].tries + 1]
  <2>1. c \in Holding /\ c.holds # None
    BY <1>1, <1>3, ObjNotNone DEF Holding
  <2>2. Picked(g, o) = [conn EXCEPT ![g] = c]
    BY DEF Picked
  <2> HIDE DEF c
  <2> QED BY <1>1, <2>1, <2>2 DEF AttemptsLeft
<1>4. ASSUME conn[g].holds # None
      PROVE  AttemptsLeft(AfterFailure(g))
  <2> DEFINE c == IF conn[g].tries = MaxAttempts THEN Free ELSE [conn[g] EXCEPT !.holds = None]
  <2>1. c \in Holding /\ c.tries < MaxAttempts
    BY <1>1, <1>2 DEF Holding
  <2>2. AfterFailure(g) = [conn EXCEPT ![g] = c]
    BY DEF AfterFailure
  <2> HIDE DEF c
  <2> QED BY <1>1, <2>1, <2>2 DEF AttemptsLeft
<1>5. AttemptsLeft([conn EXCEPT ![g] = Free])
  BY <1>1, <1>2 DEF AttemptsLeft
<1> QED BY <1>3, <1>4, <1>5

-----------------------------------------------------------------------------
(***************************************************************************)
(* The steps.                                                              *)
(***************************************************************************)
\* The types in terms of Instance and Holding.
LEMMA Types ==
  TypeOK =>
    /\ ready \in Seq(Obj) /\ retry \in Seq(Obj) /\ inst \in [Obj -> Instance]
    /\ conn \in [Conn -> Holding]
    /\ timer \in {Never} \cup 0 .. MaxDelay + MaxLag
    /\ tick \in {None} \cup 0 .. MaxLag
    /\ wanted \subseteq Name /\ updates \in 0 .. MaxUpdates /\ panicked \in BOOLEAN
BY DEF TypeOK, Instance, Holding

\* The beginning.
LEMMA PoolInit == Init => PoolInv
<1> SUFFICES ASSUME Init PROVE PoolInv
  OBVIOUS
<1>1. Blank \in Instance
  BY PoolAssumption, MaxDelayType DEF Blank, Instance
<1>2. Free \in Holding /\ Free.tries < MaxAttempts
  BY PoolAssumption DEF Free, Holding
<1>3. AttemptsLeft(conn) /\ inst \in [Obj -> Instance] /\ conn \in [Conn -> Holding]
  BY <1>1, <1>2 DEF Init, AttemptsLeft
<1>4. TypeOK
  <2>1. ready \in Seq(Obj) /\ retry \in Seq(Obj)
    BY DEF Init
  <2>2. /\ timer \in {Never} \cup 0 .. MaxDelay + MaxLag /\ tick \in {None} \cup 0 .. MaxLag
        /\ wanted \subseteq Name /\ panicked \in BOOLEAN
    BY DEF Init
  <2>3. updates \in 0 .. MaxUpdates
    BY PoolAssumption DEF Init
  <2> QED BY <1>3, <2>1, <2>2, <2>3, Zenon DEF TypeOK, Instance, Holding
<1>5. Len(ready) + Len(retry) = 0
  BY DEF Init
<1>6. Cardinality({}) = 0
  BY FS_EmptySet, Zenon
<1>7. NeverDry
  BY <1>5, <1>6, Zenon DEF NeverDry, Init
<1> QED BY <1>3, <1>4, <1>7 DEF PoolInv

\* A step that leaves the rows alone, or as long together as they were.
LEMMA SameLength ==
  ASSUME PoolInv, ~panicked, wanted' = wanted,
         Len(ready') + Len(retry') = Len(ready) + Len(retry)
  PROVE  NeverDry'
BY DEF PoolInv, NeverDry

\* A panic.
LEMMA Panics ==
  ASSUME PoolInv, panicked' = TRUE, UNCHANGED <<pool, conn, timer, tick, wanted, updates>>
  PROVE  PoolInv'
<1>1. TypeOK'
  BY DEF PoolInv, TypeOK, pool
<1>2. AttemptsLeft(conn)'
  BY DEF PoolInv, AttemptsLeft
<1>3. NeverDry'
  BY DEF NeverDry
<1> QED BY <1>1, <1>2, <1>3 DEF PoolInv

\* Packing up the types.
LEMMA Typed ==
  ASSUME TypeOK, UNCHANGED <<wanted, updates>>, panicked' \in BOOLEAN,
         ready' \in Seq(Obj), retry' \in Seq(Obj), inst' \in [Obj -> Instance],
         AttemptsLeft(conn)',
         timer' \in {Never} \cup 0 .. MaxDelay + MaxLag, tick' \in {None} \cup 0 .. MaxLag
  PROVE  TypeOK'
BY DEF TypeOK, Instance, Holding, AttemptsLeft

\* A step of a goroutine that calls fail.
LEMMA FailsOne ==
  ASSUME PoolInv, ~panicked, NEW o \in Obj, CanFail(o), NEW cs, AttemptsLeft(cs),
         conn' = cs, Fail(o, cs), UNCHANGED <<panicked, tick, wanted, updates>>
  PROVE  PoolInv'
<1>1. TypeOK /\ tick \in {None} \cup 0 .. MaxLag /\ panicked \in BOOLEAN
  BY DEF PoolInv, TypeOK
<1>2. /\ ready' \in Seq(Obj) /\ retry' \in Seq(Obj)
      /\ Len(ready') + Len(retry') = Len(ready) + Len(retry)
      /\ inst' \in [Obj -> Instance]
      /\ timer' \in {Never} \cup 0 .. MaxDelay + MaxLag
  BY <1>1, FailMoves, Zenon
<1>3. AttemptsLeft(conn)'
  BY Zenon
<1>4. TypeOK'
  BY <1>1, <1>2, <1>3, Typed, Zenon
<1>5. NeverDry'
  BY <1>2, SameLength, Zenon
<1> QED BY <1>3, <1>4, <1>5, Zenon DEF PoolInv

\* A step of a goroutine that leaves the rows and the timer alone.
LEMMA RowsStay ==
  ASSUME PoolInv, ~panicked, NEW cs, AttemptsLeft(cs), conn' = cs,
         inst' \in [Obj -> Instance],
         UNCHANGED <<ready, retry, time, wanted, updates, panicked>>
  PROVE  PoolInv'
<1>1. /\ TypeOK /\ tick \in {None} \cup 0 .. MaxLag /\ panicked \in BOOLEAN
      /\ timer \in {Never} \cup 0 .. MaxDelay + MaxLag
      /\ ready \in Seq(Obj) /\ retry \in Seq(Obj)
  BY DEF PoolInv, TypeOK
<1>2. AttemptsLeft(conn)'
  BY Zenon
<1>3. TypeOK'
  BY <1>1, <1>2, Typed DEF time
<1>4. NeverDry'
  BY SameLength DEF time
<1> QED BY <1>2, <1>3, <1>4, Zenon DEF PoolInv

\* PickInstance.
LEMMA PickReadySafe ==
  ASSUME PoolInv, NEW g \in Conn, PickReady(g)
  PROVE  PoolInv'
<1>1. /\ ~panicked /\ conn[g].holds = None /\ AttemptsLeft(conn)
      /\ ready \in Seq(Obj) /\ inst \in [Obj -> Instance]
  BY Types DEF PickReady, Choosing, PoolInv
<1>2. PICK o \in ToSet(ready) :
        \/ /\ conn' = Picked(g, o)
           /\ UNCHANGED <<pool, timer, panicked>>
        \/ /\ CanFail(o)
           /\ conn' = Picked(g, o)
           /\ Fail(o, Picked(g, o))
           /\ UNCHANGED panicked
        \/ panicked' = TRUE /\ UNCHANGED <<pool, conn, timer>>
  BY DEF PickReady
<1>3. UNCHANGED <<tick, wanted, updates>>
  BY DEF PickReady
<1>4. o \in Obj
  BY <1>1, ElementOf, Zenon
<1>5. AttemptsLeft(Picked(g, o))
  BY <1>1, <1>4, StillAttempting, Zenon
<1>6. CASE conn' = Picked(g, o) /\ UNCHANGED <<pool, timer, panicked>>
  <2>1. inst' \in [Obj -> Instance] /\ UNCHANGED <<ready, retry, time, wanted, updates, panicked>>
    BY <1>1, <1>3, <1>6 DEF pool, time
  <2> QED BY <1>1, <1>5, <1>6, <2>1, RowsStay, Zenon
<1>7. CASE CanFail(o) /\ conn' = Picked(g, o) /\ Fail(o, Picked(g, o)) /\ UNCHANGED panicked
  <2>1. UNCHANGED <<panicked, tick, wanted, updates>>
    BY <1>3, <1>7
  <2> QED BY <1>1, <1>4, <1>5, <1>7, <2>1, FailsOne, Zenon
<1>8. CASE panicked' = TRUE /\ UNCHANGED <<pool, conn, timer>>
  BY <1>3, <1>8, Panics
<1> QED BY <1>2, <1>6, <1>7, <1>8, Zenon

\* PickInstance, of one that waits.
LEMMA PickWaitingSafe ==
  ASSUME PoolInv, NEW g \in Conn, PickWaiting(g)
  PROVE  PoolInv'
<1>1. /\ ~panicked /\ conn[g].holds = None /\ AttemptsLeft(conn)
      /\ retry \in Seq(Obj) /\ inst \in [Obj -> Instance]
  BY Types DEF PickWaiting, Choosing, PoolInv
<1>2. PICK o \in ToSet(retry) : conn' = Picked(g, o)
  BY DEF PickWaiting
<1>3. o \in Obj
  BY <1>1, ElementOf, Zenon
<1>4. AttemptsLeft(Picked(g, o))
  BY <1>1, <1>3, StillAttempting, Zenon
<1>5. inst' \in [Obj -> Instance] /\ UNCHANGED <<ready, retry, time, wanted, updates, panicked>>
  BY <1>1 DEF PickWaiting, pool
<1> QED BY <1>1, <1>2, <1>4, <1>5, RowsStay, Zenon

\* PickInstance, of none.
LEMMA PickNoneSafe ==
  ASSUME PoolInv, NEW g \in Conn, PickNone(g)
  PROVE  PoolInv'
<1>1. ~panicked /\ AttemptsLeft(conn) /\ inst \in [Obj -> Instance]
  BY Types DEF PickNone, Choosing, PoolInv
<1>2. /\ conn' = [conn EXCEPT ![g] = Free] /\ inst' = Collect(inst, ready, retry, conn')
      /\ UNCHANGED <<ready, retry, time, wanted, updates, panicked>>
  BY DEF PickNone
<1>3. AttemptsLeft([conn EXCEPT ![g] = Free])
  BY <1>1, StillAttempting, Zenon
<1>4. inst' \in [Obj -> Instance]
  BY <1>1, <1>2, CollectType, Zenon
<1> QED BY <1>1, <1>2, <1>3, <1>4, RowsStay, Zenon

\* Failed.
LEMMA ConnectFailsSafe ==
  ASSUME PoolInv, NEW g \in Conn, ConnectFails(g)
  PROVE  PoolInv'
<1> DEFINE o == conn[g].holds
<1>1. /\ ~panicked /\ o # None /\ AttemptsLeft(conn) /\ inst \in [Obj -> Instance]
      /\ conn \in [Conn -> Holding]
  BY Types DEF ConnectFails, PoolInv
<1>2. o \in Obj
  BY <1>1 DEF Holding
<1>3. AttemptsLeft(AfterFailure(g))
  BY <1>1, StillAttempting, Zenon
<1>4. UNCHANGED <<tick, wanted, updates>>
  BY DEF ConnectFails
<1>5. \/ /\ CanFail(o)
         /\ conn' = AfterFailure(g)
         /\ Fail(o, AfterFailure(g))
         /\ UNCHANGED panicked
      \/ panicked' = TRUE /\ UNCHANGED <<pool, conn, timer>>
      \/ /\ conn' = AfterFailure(g)
         /\ inst' = Collect(inst, ready, retry, AfterFailure(g))
         /\ UNCHANGED <<ready, retry, timer, panicked>>
  BY DEF ConnectFails
<1> HIDE DEF o
<1>6. CASE CanFail(o) /\ conn' = AfterFailure(g) /\ Fail(o, AfterFailure(g)) /\ UNCHANGED panicked
  <2>1. UNCHANGED <<panicked, tick, wanted, updates>>
    BY <1>4, <1>6
  <2> QED BY <1>1, <1>2, <1>3, <1>6, <2>1, FailsOne, Zenon
<1>7. CASE panicked' = TRUE /\ UNCHANGED <<pool, conn, timer>>
  BY <1>4, <1>7, Panics
<1>8. CASE /\ conn' = AfterFailure(g)
           /\ inst' = Collect(inst, ready, retry, AfterFailure(g))
           /\ UNCHANGED <<ready, retry, timer, panicked>>
  <2>1. UNCHANGED <<ready, retry, time, wanted, updates, panicked>>
    BY <1>4, <1>8 DEF time
  <2>2. inst' \in [Obj -> Instance]
    BY <1>1, <1>8, CollectType, Zenon
  <2> QED BY <1>1, <1>3, <1>8, <2>1, <2>2, RowsStay, Zenon
<1> QED BY <1>5, <1>6, <1>7, <1>8, Zenon

\* Succeeded.
LEMMA ConnectSucceedsSafe ==
  ASSUME PoolInv, NEW g \in Conn, ConnectSucceeds(g)
  PROVE  PoolInv'
<1> DEFINE o    == conn[g].holds
           free == [conn EXCEPT ![g] = Free]
           rty  == RemoveAt(retry, inst[o].index)
           rdy  == Append(ready, o)
           h    == HeapIndex(inst, rty)
           objs == [h EXCEPT ![o].failures = 0, ![o].waiting = FALSE,
                             ![o].due = 0, ![o].index = Len(rdy)]
<1>1. /\ ~panicked /\ o # None /\ AttemptsLeft(conn) /\ inst \in [Obj -> Instance]
      /\ conn \in [Conn -> Holding] /\ ready \in Seq(Obj) /\ retry \in Seq(Obj)
      /\ TypeOK /\ tick \in {None} \cup 0 .. MaxLag
  BY Types DEF ConnectSucceeds, PoolInv
<1>2. o \in Obj
  BY <1>1 DEF Holding
<1>3. AttemptsLeft(free)
  BY <1>1, StillAttempting, Zenon
<1>4. UNCHANGED <<tick, wanted, updates>>
  BY DEF ConnectSucceeds
<1>5. \/ /\ conn' = free
         /\ inst' = Collect([inst EXCEPT ![o].failures = 0], ready, retry, free)
         /\ UNCHANGED <<ready, retry, timer, panicked>>
      \/ /\ inst[o].index \in DOMAIN retry
         /\ ready' = rdy /\ retry' = rty
         /\ timer' = TimerFor(inst, rty, 0)
         /\ inst' = Collect(objs, rdy, rty, free)
         /\ conn' = free /\ UNCHANGED panicked
      \/ panicked' = TRUE /\ UNCHANGED <<pool, conn, timer>>
  BY DEF ConnectSucceeds
<1> HIDE DEF o
<1>6. 0 \in 0 .. MaxBackoff + 1 /\ 0 \in (0 - MaxLag) .. MaxDelay /\ 0 \in 0 .. MaxLag
  BY PoolAssumption, MaxDelayType
<1>7. CASE /\ conn' = free
           /\ inst' = Collect([inst EXCEPT ![o].failures = 0], ready, retry, free)
           /\ UNCHANGED <<ready, retry, timer, panicked>>
  <2>1. UNCHANGED <<ready, retry, time, wanted, updates, panicked>>
    BY <1>4, <1>7 DEF time
  <2>2. [inst EXCEPT ![o].failures = 0] \in [Obj -> Instance]
    BY <1>1, <1>2, <1>6 DEF Instance
  <2>3. inst' \in [Obj -> Instance]
    BY <1>7, <2>2, CollectType, Zenon
  <2> HIDE DEF free
  <2> QED BY <1>1, <1>3, <1>7, <2>1, <2>3, RowsStay, Zenon
<1>8. CASE /\ inst[o].index \in DOMAIN retry
           /\ ready' = rdy /\ retry' = rty
           /\ timer' = TimerFor(inst, rty, 0)
           /\ inst' = Collect(objs, rdy, rty, free)
           /\ conn' = free /\ UNCHANGED panicked
  <2>1. rty \in Seq(Obj) /\ Len(rty) = Len(retry) - 1
    BY <1>1, <1>8, RemoveRow, Zenon
  <2>2. rdy \in Seq(Obj) /\ Len(rdy) = Len(ready) + 1
    BY <1>1, <1>2
  <2> HIDE DEF rty
  <2>3. h \in [Obj -> Instance]
    BY <1>1, <2>1, HeapIndexKeeps, Zenon
  <2>4. Len(rdy) \in Nat
    BY <2>2
  <2> HIDE DEF h, rdy
  <2>5. objs \in [Obj -> Instance]
    <3> DEFINE e == [h[o] EXCEPT !.failures = 0, !.waiting = FALSE, !.due = 0, !.index = Len(rdy)]
    <3>1. h[o] \in Instance
      BY <1>2, <2>3
    <3>2. e \in Instance
      BY <1>6, <2>4, <3>1 DEF Instance
    <3>3. objs = [h EXCEPT ![o] = e]
      BY <1>2, <2>3, <3>1 DEF Instance
    <3> HIDE DEF e, objs
    <3> QED BY <1>2, <2>3, <3>2, <3>3
  <2> HIDE DEF objs
  <2>6. inst' \in [Obj -> Instance]
    BY <1>8, <2>5, CollectType, Zenon
  <2>7. timer' \in {Never} \cup 0 .. MaxDelay + MaxLag
    BY <1>1, <1>6, <1>8, <2>1, TimerType, Zenon
  <2>8. AttemptsLeft(conn)'
    BY <1>3, <1>8, Zenon
  <2>9. TypeOK'
    <3>1. UNCHANGED <<wanted, updates>> /\ panicked' \in BOOLEAN /\ tick' \in {None} \cup 0 .. MaxLag
      BY <1>1, <1>4, <1>8 DEF TypeOK
    <3> QED BY <1>1, <1>8, <2>1, <2>2, <2>6, <2>7, <2>8, <3>1, Typed, Zenon
  <2>10. NeverDry'
    <3>1. Len(ready) \in Nat /\ Len(retry) \in Nat
      BY <1>1
    <3>2. Len(ready') + Len(retry') = Len(ready) + Len(retry)
      BY <1>8, <2>1, <2>2, <3>1
    <3>3. wanted' = wanted
      BY <1>4
    <3> QED BY <1>1, <3>2, <3>3, SameLength, Zenon
  <2> QED BY <2>8, <2>9, <2>10, Zenon DEF PoolInv
<1>9. CASE panicked' = TRUE /\ UNCHANGED <<pool, conn, timer>>
  BY <1>4, <1>9, Panics
<1> QED BY <1>5, <1>7, <1>8, <1>9, Zenon

\* UpdateInstances.
LEMMA UpdateSafe ==
  ASSUME PoolInv, NEW names \in SUBSET Name, UpdateInstances(names)
  PROVE  PoolInv'
<1>1. TypeOK /\ AttemptsLeft(conn) /\ tick \in {None} \cup 0 .. MaxLag /\ updates \in 0 .. MaxUpdates
      /\ conn \in [Conn -> Holding] /\ panicked \in BOOLEAN
  BY Types DEF PoolInv
<1>2. /\ ready' \in Seq(Obj) /\ retry' \in Seq(Obj)
      /\ inst' \in [Obj -> Instance] /\ timer' \in {Never} \cup 0 .. MaxDelay + MaxLag
      /\ Sound'
  BY <1>1, UpdateSound, Zenon
<1>3. /\ updates < MaxUpdates /\ updates' = updates + 1 /\ wanted' = names
      /\ UNCHANGED <<conn, tick, panicked>>
  BY DEF UpdateInstances
<1>4. updates' \in 0 .. MaxUpdates
  BY <1>1, <1>3, PoolAssumption
<1>5. TypeOK'
  BY <1>1, <1>2, <1>3, <1>4, Zenon DEF TypeOK, Instance, Holding
<1>6. AttemptsLeft(conn)'
  BY <1>1, <1>3 DEF AttemptsLeft
<1>7. NeverDry'
  <2>1. Len(ready' \o retry') = Cardinality(wanted')
    BY <1>2, Zenon DEF Sound
  <2>2. Len(ready' \o retry') = Len(ready') + Len(retry')
    BY <1>2, ConcatProperties, Zenon
  <2> QED BY <2>1, <2>2, Zenon DEF NeverDry
<1> QED BY <1>5, <1>6, <1>7 DEF PoolInv

-----------------------------------------------------------------------------
(***************************************************************************)
(* Time and retries.                                                       *)
(***************************************************************************)
\* Time passes.
LEMMA TickSafe ==
  ASSUME PoolInv, Tick
  PROVE  PoolInv'
<1>1. /\ TypeOK /\ AttemptsLeft(conn) /\ inst \in [Obj -> Instance]
      /\ timer \in {Never} \cup 0 .. MaxDelay + MaxLag /\ tick \in {None} \cup 0 .. MaxLag
      /\ ready \in Seq(Obj) /\ retry \in Seq(Obj) /\ panicked \in BOOLEAN
  BY Types DEF PoolInv
<1>2. MaxLag \in Nat /\ MaxDelay \in Nat /\ None \notin Nat
  BY PoolAssumption, MaxDelayType
<1>3. /\ ~panicked /\ tick # MaxLag
      /\ inst' = [p \in Obj |-> IF inst[p].due > -MaxLag /\ inst[p].waiting
                                THEN [inst[p] EXCEPT !.due = @ - 1] ELSE inst[p]]
      /\ timer' = IF timer > 0 THEN timer - 1 ELSE timer
      /\ tick' = IF tick = None THEN None ELSE tick + 1
      /\ UNCHANGED <<ready, retry, conn, wanted, updates, panicked>>
  BY DEF Tick
<1>4. ASSUME NEW p \in Obj
      PROVE  inst'[p] \in Instance
  <2>1. inst[p] \in Instance
    BY <1>1
  <2>2. CASE inst[p].due > -MaxLag /\ inst[p].waiting
    <3>1. inst[p].due - 1 \in (0 - MaxLag) .. MaxDelay
      BY <1>2, <2>1, <2>2 DEF Instance
    <3>2. inst'[p] = [inst[p] EXCEPT !.due = inst[p].due - 1]
      BY <1>3, <2>1, <2>2 DEF Instance
    <3> QED BY <2>1, <3>1, <3>2 DEF Instance
  <2>3. CASE ~(inst[p].due > -MaxLag /\ inst[p].waiting)
    BY <1>3, <2>1, <2>3
  <2> QED BY <2>2, <2>3
<1>5. inst' \in [Obj -> Instance]
  BY <1>3, <1>4
<1>6. timer' \in {Never} \cup 0 .. MaxDelay + MaxLag
  BY <1>1, <1>2, <1>3 DEF Never
<1>7. tick' \in {None} \cup 0 .. MaxLag
  BY <1>1, <1>2, <1>3
<1>8. AttemptsLeft(conn)'
  BY <1>1, <1>3 DEF AttemptsLeft
<1>9. TypeOK'
  BY <1>1, <1>3, <1>5, <1>6, <1>7, <1>8, Typed
<1>10. NeverDry'
  BY <1>3, SameLength
<1> QED BY <1>8, <1>9, <1>10, Zenon DEF PoolInv

\* The timer fires.
LEMMA FireSafe ==
  ASSUME PoolInv, Fire
  PROVE  PoolInv'
<1>1. /\ TypeOK /\ AttemptsLeft(conn) /\ inst \in [Obj -> Instance]
      /\ timer \in {Never} \cup 0 .. MaxDelay + MaxLag /\ tick \in {None} \cup 0 .. MaxLag
      /\ ready \in Seq(Obj) /\ retry \in Seq(Obj) /\ panicked \in BOOLEAN
  BY Types DEF PoolInv
<1>2. /\ ~panicked /\ timer' = Never /\ tick' = (IF tick = None THEN 0 ELSE tick)
      /\ UNCHANGED <<ready, retry, inst, conn, wanted, updates, panicked>>
  BY DEF Fire, pool
<1>3. tick' \in {None} \cup 0 .. MaxLag
  BY <1>1, <1>2, PoolAssumption
<1>4. AttemptsLeft(conn)'
  BY <1>1, <1>2 DEF AttemptsLeft
<1>5. TypeOK'
  BY <1>1, <1>2, <1>3, <1>4, Typed
<1>6. NeverDry'
  BY <1>2, SameLength
<1> QED BY <1>4, <1>5, <1>6, Zenon DEF PoolInv

\* processRetries.
LEMMA RetriesSafe ==
  ASSUME PoolInv, ProcessRetries
  PROVE  PoolInv'
<1> DEFINE P    == {i \in DOMAIN retry : \A j \in 1 .. i : inst[retry[j]].due + tick <= 0}
           n    == Cardinality(P)
           due  == SubSeq(retry, 1, n)
           rty  == SubSeq(retry, n + 1, Len(retry))
           rdy  == ready \o due
           last == [p \in Obj |-> LastPlace(due, p)]
           objs == [p \in Obj |->
                     IF p \in ToSet(due)
                     THEN [inst[p] EXCEPT !.waiting = FALSE, !.due = 0,
                             !.index = Len(ready) + LastPlace(due, p)]
                     ELSE inst[p]]
<1>1. /\ TypeOK /\ AttemptsLeft(conn) /\ inst \in [Obj -> Instance]
      /\ timer \in {Never} \cup 0 .. MaxDelay + MaxLag /\ tick \in {None} \cup 0 .. MaxLag
      /\ ready \in Seq(Obj) /\ retry \in Seq(Obj) /\ panicked \in BOOLEAN
  BY Types DEF PoolInv
<1>2. /\ ~panicked /\ tick # None /\ tick' = None
      /\ ready' = rdy /\ retry' = rty
      /\ inst' = HeapIndex(objs, rty)
      /\ timer' = TimerFor(inst, rty, tick)
      /\ UNCHANGED <<conn, wanted, updates, panicked>>
  BY DEF ProcessRetries
<1>3. n \in 0 .. Len(retry) /\ Len(retry) \in Nat /\ Len(ready) \in Nat
  <2>1. P \in SUBSET (DOMAIN retry)
    OBVIOUS
  <2> HIDE DEF P
  <2>2. n \in 0 .. Len(retry)
    BY <1>1, <2>1, SomePlaces, Zenon
  <2>3. Len(retry) \in Nat /\ Len(ready) \in Nat
    BY <1>1
  <2> QED BY <2>2, <2>3, Zenon
<1> HIDE DEF n
<1>4. /\ 1 \in Nat \ {0} /\ 1 <= n + 1 /\ n + 1 \in Nat \ {0} /\ n + 1 <= Len(retry) + 1
      /\ Len(retry) \in 0 .. Len(retry) /\ n \in Nat
  BY <1>3
<1>a. retry \in Seq(Obj)
  BY <1>1
<1>5. due \in Seq(Obj) /\ Len(due) = n - 1 + 1
  BY <1>3, <1>4, <1>a, PartOf
<1>6. rty \in Seq(Obj) /\ Len(rty) = Len(retry) - (n + 1) + 1
  BY <1>4, <1>a, PartOf
<1> HIDE DEF due, rty
<1>7. rdy \in Seq(Obj) /\ Len(rdy) = Len(ready) + Len(due)
  BY <1>1, <1>5, ConcatProperties, Zenon
<1> HIDE DEF rdy
<1>8. \A p \in Obj : last[p] \in Nat
  BY <1>5, LastPlaceType
<1>9. objs = [p \in Obj |-> IF p \in ToSet(due)
                THEN [inst[p] EXCEPT !.waiting = FALSE, !.due = 0, !.index = Len(ready) + last[p]]
                ELSE inst[p]]
  OBVIOUS
<1> HIDE DEF last, objs
<1>10. 0 \in (0 - MaxLag) .. MaxDelay
  BY PoolAssumption, MaxDelayType
<1>11. ASSUME NEW p \in Obj
       PROVE  objs[p] \in Instance
  <2>1. inst[p] \in Instance /\ Len(ready) + last[p] \in Nat
    BY <1>1, <1>3, <1>8
  <2>2. [inst[p] EXCEPT !.waiting = FALSE, !.due = 0, !.index = Len(ready) + last[p]] \in Instance
    BY <1>10, <2>1 DEF Instance
  <2> QED BY <1>9, <2>1, <2>2
<1>12. objs \in [Obj -> Instance]
  BY <1>9, <1>11
<1>13. inst' \in [Obj -> Instance]
  BY <1>2, <1>6, <1>12, HeapIndexKeeps, Zenon
<1>14. tick \in 0 .. MaxLag
  BY <1>1, <1>2
<1>15. timer' \in {Never} \cup 0 .. MaxDelay + MaxLag
  BY <1>1, <1>2, <1>6, <1>14, TimerType, Zenon
<1>16. AttemptsLeft(conn)'
  BY <1>1, <1>2 DEF AttemptsLeft
<1>17. ready' \in Seq(Obj) /\ retry' \in Seq(Obj) /\ tick' \in {None} \cup 0 .. MaxLag
  BY <1>2, <1>6, <1>7
<1>18. TypeOK'
  BY <1>1, <1>2, <1>13, <1>15, <1>16, <1>17, Typed
<1>19. Len(ready') + Len(retry') = Len(ready) + Len(retry)
  BY <1>2, <1>3, <1>5, <1>6, <1>7
<1>20. NeverDry'
  BY <1>2, <1>19, SameLength
<1> QED BY <1>16, <1>18, <1>20, Zenon DEF PoolInv

-----------------------------------------------------------------------------
\* Each step keeps the invariant.
LEMMA InductivePool == PoolInv /\ [Next]_vars => PoolInv'
<1> SUFFICES ASSUME PoolInv, [Next]_vars PROVE PoolInv'
  OBVIOUS
<1>1. CASE \E g \in Conn : PickReady(g)
  BY <1>1, PickReadySafe, Zenon
<1>2. CASE \E g \in Conn : PickWaiting(g)
  BY <1>2, PickWaitingSafe, Zenon
<1>3. CASE \E g \in Conn : PickNone(g)
  BY <1>3, PickNoneSafe, Zenon
<1>4. CASE \E g \in Conn : ConnectFails(g)
  BY <1>4, ConnectFailsSafe, Zenon
<1>5. CASE \E g \in Conn : ConnectSucceeds(g)
  BY <1>5, ConnectSucceedsSafe, Zenon
<1>6. CASE \E names \in SUBSET Name : UpdateInstances(names)
  BY <1>6, UpdateSafe, Zenon
<1>7. CASE Tick
  BY <1>7, TickSafe, Zenon
<1>8. CASE Fire
  BY <1>8, FireSafe, Zenon
<1>9. CASE ProcessRetries
  BY <1>9, RetriesSafe, Zenon
<1>10. CASE UNCHANGED vars
  <2>1. TypeOK'
    BY <1>10 DEF PoolInv, TypeOK, vars, pool, time
  <2>2. AttemptsLeft(conn)' /\ NeverDry'
    BY <1>10 DEF PoolInv, AttemptsLeft, NeverDry, vars, pool, time
  <2> QED BY <2>1, <2>2, Zenon DEF PoolInv
<1> QED BY <1>1, <1>2, <1>3, <1>4, <1>5, <1>6, <1>7, <1>8, <1>9, <1>10, Zenon DEF Next

(***************************************************************************)
(* The invariant holds of every reachable state.                           *)
(***************************************************************************)
THEOREM Invariance == Spec => []PoolInv
BY PoolInit, InductivePool, PTL DEF Spec

(***************************************************************************)
(* The variables of the pool keep their types: delays and the timer stay   *)
(* bounded, and no goroutine makes an attempt too many (forwarder.go).     *)
(***************************************************************************)
THEOREM TypeCorrect == Spec => []TypeOK
<1>1. PoolInv => TypeOK
  BY DEF PoolInv
<1> QED BY <1>1, Invariance, PTL

(***************************************************************************)
(* The pool never runs dry: it holds as many entries as instances were     *)
(* given to it, although fail may take out another instance than the one   *)
(* that failed (pool.go:88, 118).                                          *)
(***************************************************************************)
THEOREM NeverRunsDry == Spec => []NeverDry
<1>1. PoolInv => NeverDry
  BY DEF PoolInv
<1> QED BY <1>1, Invariance, PTL

(***************************************************************************)
(* An update leaves a sound pool, whatever it found: stale indices and     *)
(* entries that are there twice do not survive it (pool.go:131-173).       *)
(***************************************************************************)
THEOREM UpdatesHeal == Spec => UpdateHeals
<1>1. TypeOK /\ [Next]_vars => [updates' # updates => Sound']_vars
  <2> SUFFICES ASSUME TypeOK, Next, updates' # updates PROVE Sound'
    BY Zenon
  <2>1. \E names \in SUBSET Name : UpdateInstances(names)
    <3>1. \A g \in Conn : /\ PickReady(g) => updates' = updates
                          /\ PickWaiting(g) => updates' = updates
                          /\ PickNone(g) => updates' = updates
                          /\ ConnectFails(g) => updates' = updates
                          /\ ConnectSucceeds(g) => updates' = updates
      BY DEF PickReady, PickWaiting, PickNone, ConnectFails, ConnectSucceeds
    <3>2. (Tick => updates' = updates) /\ (Fire => updates' = updates)
          /\ (ProcessRetries => updates' = updates)
      BY DEF Tick, Fire, ProcessRetries
    <3> QED BY <3>1, <3>2, Zenon DEF Next
  <2> QED BY <2>1, UpdateSound, Zenon
<1> QED BY <1>1, TypeCorrect, PTL DEF Spec, UpdateHeals

=============================================================================
