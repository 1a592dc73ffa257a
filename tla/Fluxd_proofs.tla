---------------------------- MODULE Fluxd_proofs ----------------------------
(***************************************************************************)
(* Proofs about Fluxd: a component is never taken as stopped while its own *)
(* goroutine runs, and no reset is lost.                                   *)
(***************************************************************************)
EXTENDS Fluxd, TLAPS

FluxdInv == TypeOK /\ NoResetLost

LEMMA InitInv == Init => FluxdInv
<1> SUFFICES ASSUME Init
             PROVE  FluxdInv
  OBVIOUS
<1> USE SourceAssumption DEF Init, Supervised, Pipe
<1>1. TypeOK
  BY DEF TypeOK
<1>2. NoResetLost
  BY DEF NoResetLost
<1>3. QED
  BY <1>1, <1>2 DEF FluxdInv

LEMMA NextInv == FluxdInv /\ [Next]_vars => FluxdInv'
<1> SUFFICES ASSUME FluxdInv, [Next]_vars
             PROVE  FluxdInv'
  OBVIOUS
<1> USE SourceAssumption DEF FluxdInv, vars, supervision, Supervised, Pipe
<1>1. ASSUME NEW c \in Supervised, RestartSeesError(c)
      PROVE  FluxdInv'
  <2> USE <1>1 DEF RestartSeesError
  <2>1. TypeOK'
    BY DEF TypeOK
  <2>2. NoResetLost'
    BY DEF TypeOK, NoResetLost
  <2>3. QED
    BY <2>1, <2>2 DEF FluxdInv
<1>2. ASSUME NEW c \in Supervised, RestartSeesStop(c)
      PROVE  FluxdInv'
  <2> USE <1>2 DEF RestartSeesStop
  <2>1. TypeOK'
    BY DEF TypeOK
  <2>2. NoResetLost'
    BY DEF TypeOK, NoResetLost
  <2>3. QED
    BY <2>1, <2>2 DEF FluxdInv
<1>3. ASSUME NEW c \in Supervised, RestartGoesOn(c)
      PROVE  FluxdInv'
  <2> USE <1>3 DEF RestartGoesOn
  <2>1. TypeOK'
    <3>1. PICK place \in {"sleeping", "ended"} : restart' = [restart EXCEPT ![c] = place]
      OBVIOUS
    <3>2. \A d \in Supervised : restart'[d] = IF d = c THEN place ELSE restart[d]
      BY <3>1 DEF TypeOK
    <3>3. \A s \in Source : restart[s] = "ended" => restart'[s] = "ended"
      BY <3>2 DEF TypeOK
    <3>4. QED
      BY <3>1, <3>2, <3>3 DEF TypeOK
  <2>2. NoResetLost'
    BY DEF TypeOK, NoResetLost
  <2>3. QED
    BY <2>1, <2>2 DEF FluxdInv
<1>4. ASSUME NEW c \in Supervised, RestartStarts(c)
      PROVE  FluxdInv'
  <2> USE <1>4 DEF RestartStarts, Started
  <2>1. TypeOK'
    BY DEF TypeOK
  <2>2. NoResetLost'
    BY DEF TypeOK, NoResetLost
  <2>3. QED
    BY <2>1, <2>2 DEF FluxdInv
<1>5. ASSUME NEW c \in Supervised, ChildFails(c)
      PROVE  FluxdInv'
  <2> USE <1>5 DEF ChildFails
  <2>1. TypeOK'
    BY DEF TypeOK
  <2>2. NoResetLost'
    BY DEF TypeOK, NoResetLost
  <2>3. QED
    BY <2>1, <2>2 DEF FluxdInv
<1>6. ASSUME NEW c \in Supervised, ChildEnds(c)
      PROVE  FluxdInv'
  <2> USE <1>6 DEF ChildEnds
  <2>1. TypeOK'
    BY DEF TypeOK
  <2>2. NoResetLost'
    BY DEF TypeOK, NoResetLost
  <2>3. QED
    BY <2>1, <2>2 DEF FluxdInv
<1>7. ASSUME NEW s \in Source, ResetTakesSignal(s)
      PROVE  FluxdInv'
  <2> USE <1>7 DEF ResetTakesSignal
  <2>1. TypeOK'
    BY DEF TypeOK
  <2>2. NoResetLost'
    BY DEF TypeOK, NoResetLost
  <2>3. QED
    BY <2>1, <2>2 DEF FluxdInv
<1>8. ASSUME NEW s \in Source, ResetStarts(s)
      PROVE  FluxdInv'
  <2> USE <1>8 DEF ResetStarts, Started
  <2>1. TypeOK'
    BY DEF TypeOK
  <2>2. NoResetLost'
    BY DEF TypeOK, NoResetLost
  <2>3. QED
    BY <2>1, <2>2 DEF FluxdInv
<1>9. ASSUME NEW s \in Source, ResetSeesStop(s)
      PROVE  FluxdInv'
  <2> USE <1>9 DEF ResetSeesStop
  <2>1. TypeOK'
    BY DEF TypeOK
  <2>2. NoResetLost'
    BY DEF TypeOK, NoResetLost
  <2>3. QED
    BY <2>1, <2>2 DEF FluxdInv
<1>10. ASSUME NEW s \in Source, ResetGoesOn(s)
      PROVE  FluxdInv'
  <2> USE <1>10 DEF ResetGoesOn
  <2>1. TypeOK'
    BY DEF TypeOK
  <2>2. NoResetLost'
    BY DEF TypeOK, NoResetLost
  <2>3. QED
    BY <2>1, <2>2 DEF FluxdInv
<1>11. ASSUME NEW s \in Source, SourceSends(s)
      PROVE  FluxdInv'
  <2> USE <1>11 DEF SourceSends
  <2>1. TypeOK'
    BY DEF TypeOK
  <2>2. NoResetLost'
    BY DEF TypeOK, NoResetLost
  <2>3. QED
    BY <2>1, <2>2 DEF FluxdInv
<1>12. ASSUME NEW s \in Source, SyncTakes(s)
      PROVE  FluxdInv'
  <2> USE <1>12 DEF SyncTakes, Move
  <2>1. TypeOK'
    BY DEF TypeOK
  <2>2. NoResetLost'
    BY DEF TypeOK, NoResetLost
  <2>3. QED
    BY <2>1, <2>2 DEF FluxdInv
<1>13. ASSUME SyncResets
      PROVE  FluxdInv'
  <2> USE <1>13 DEF SyncResets
  <2>1. TypeOK'
    BY DEF TypeOK
  <2>2. NoResetLost'
    BY DEF TypeOK, NoResetLost
  <2>3. QED
    BY <2>1, <2>2 DEF FluxdInv
<1>14. ASSUME TeeTakes
      PROVE  FluxdInv'
  <2> USE <1>14 DEF TeeTakes
  <2>1. TypeOK'
    BY DEF TypeOK
  <2>2. NoResetLost'
    BY DEF TypeOK, NoResetLost
  <2>3. QED
    BY <2>1, <2>2 DEF FluxdInv
<1>15. ASSUME ServerTakesUpdate
      PROVE  FluxdInv'
  <2> USE <1>15 DEF ServerTakesUpdate
  <2>1. TypeOK'
    BY DEF TypeOK
  <2>2. NoResetLost'
    BY DEF TypeOK, NoResetLost
  <2>3. QED
    BY <2>1, <2>2 DEF FluxdInv
<1>16. ASSUME SetInstancesTakes
      PROVE  FluxdInv'
  <2> USE <1>16 DEF SetInstancesTakes, Move
  <2>1. TypeOK'
    BY DEF TypeOK
  <2>2. NoResetLost'
    BY DEF TypeOK, NoResetLost
  <2>3. QED
    BY <2>1, <2>2 DEF FluxdInv
<1>17. ASSUME ServerTakesService
      PROVE  FluxdInv'
  <2> USE <1>17 DEF ServerTakesService, Move
  <2>1. TypeOK'
    BY DEF TypeOK
  <2>2. NoResetLost'
    BY DEF TypeOK, NoResetLost
  <2>3. QED
    BY <2>1, <2>2 DEF FluxdInv
<1>18. ASSUME ServerWorks
      PROVE  FluxdInv'
  <2> USE <1>18 DEF ServerWorks, Move
  <2>1. TypeOK'
    BY DEF TypeOK
  <2>2. NoResetLost'
    BY DEF TypeOK, NoResetLost
  <2>3. QED
    BY <2>1, <2>2 DEF FluxdInv
<1>19. ASSUME NEW p \in Pipe, PipeEnds(p)
      PROVE  FluxdInv'
  <2> USE <1>19 DEF PipeEnds, Move
  <2>1. TypeOK'
    BY DEF TypeOK
  <2>2. NoResetLost'
    BY DEF TypeOK, NoResetLost
  <2>3. QED
    BY <2>1, <2>2 DEF FluxdInv
<1>20. ASSUME Stops
      PROVE  FluxdInv'
  <2> USE <1>20 DEF Stops
  <2>1. TypeOK'
    BY DEF TypeOK
  <2>2. NoResetLost'
    BY DEF TypeOK, NoResetLost
  <2>3. QED
    BY <2>1, <2>2 DEF FluxdInv
<1>21. CASE UNCHANGED vars
  BY <1>21 DEF TypeOK, NoResetLost
<1>22. QED
  BY <1>1, <1>2, <1>3, <1>4, <1>5, <1>6, <1>7, <1>8, <1>9, <1>10, <1>11, <1>12, <1>13, <1>14, <1>15, <1>16, <1>17, <1>18, <1>19, <1>20, <1>21 DEF Next

THEOREM InductiveFluxd == Spec => []FluxdInv
<1>1. QED
  BY InitInv, NextInv, PTL DEF Spec

(***************************************************************************)
(* The types; and a component's own goroutine has ended where its          *)
(* supervisor takes it as stopped (component.go:39-51, 91-97).             *)
(***************************************************************************)
THEOREM StopsSynchronously == Spec => []TypeOK
<1>1. FluxdInv => TypeOK
  BY DEF FluxdInv
<1>2. QED
  BY <1>1, InductiveFluxd, PTL

(***************************************************************************)
(* No reset is lost (component.go:144-173).                                *)
(***************************************************************************)
THEOREM ResetsKept == Spec => []NoResetLost
<1>1. FluxdInv => NoResetLost
  BY DEF FluxdInv
<1>2. QED
  BY <1>1, InductiveFluxd, PTL

=============================================================================
