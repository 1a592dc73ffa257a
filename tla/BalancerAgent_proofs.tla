------------------------ MODULE BalancerAgent_proofs ------------------------
(***************************************************************************)
(* Proofs about BalancerAgent: for any services, any changes and any       *)
(* failures, the updater's send never waits, no temporary file is left,    *)
(* and when nothing is on its way the file is what the store holds, but    *)
(* for what a session has changed.                                         *)
(***************************************************************************)
EXTENDS BalancerAgent, TLAPS

(***************************************************************************)
(* The inductive invariant follows a service through the agent.  The       *)
(* updater holds it, or is about to, unless the watch has a change of it   *)
(* still to report, or a session has changed it with no event; what the    *)
(* updater holds is the newest of what is in the channel, with the         *)
(* generator and in the file; what is in the file is loaded, or being      *)
(* loaded.  An error lifts the last two.                                   *)
(***************************************************************************)
Reported ==
  LET told == Name \ (pending \cup silent)
  IN /\ watch = "watching" => \A n \in told : services[n] = truth[n]
     /\ watch = "sending" => \A n \in told : Applied(sent)[n] = truth[n]

Newest ==
  IF channel # None THEN channel ELSE IF Generating THEN snapshot ELSE file

HandedOn ==
  updater = "receiving" => Newest = services \/ (Newest = None /\ watch # "watching")

Loaded == generator # "reloading" => loaded = file

AgentInv ==
  /\ TypeOK
  /\ SendsAtOnce
  /\ NoLitter
  /\ Reported
  /\ ~sink /\ ~stopping => HandedOn /\ Loaded

LEMMA InitInv == Init => AgentInv
<1> SUFFICES ASSUME Init
             PROVE  AgentInv
  OBVIOUS
<1>1. NoServices \in Snapshot /\ Nothing \in Update
  BY DEF NoServices, Snapshot, Nothing, Update
<1>2. TypeOK
  BY <1>1 DEF Init, TypeOK
<1>3. SendsAtOnce /\ NoLitter /\ Reported /\ HandedOn /\ Loaded
  BY DEF Init, SendsAtOnce, NoLitter, Reported, HandedOn, Newest, Loaded, Generating
<1>4. QED
  BY <1>2, <1>3 DEF AgentInv

LEMMA NextInv == AgentInv /\ [AgentNext]_vars => AgentInv'
<1> SUFFICES ASSUME AgentInv, [AgentNext]_vars
             PROVE  AgentInv'
  OBVIOUS
<1> USE NoneAssumption, UntouchedAssumption
    DEF AgentInv, vars, store, source, update, output, ending
<1>1. ASSUME NEW n \in Name, NEW v \in Value \cup {None}, StoreChanges(n, v)
      PROVE  AgentInv'
  <2> USE <1>1 DEF StoreChanges
  <2>1. TypeOK'
    BY DEF TypeOK, Snapshot
  <2>2. SendsAtOnce' /\ NoLitter'
    BY DEF SendsAtOnce, NoLitter, Generating
  <2>3. Reported'
    BY DEF Reported, Applied
  <2>4. ~sink' /\ ~stopping' => HandedOn' /\ Loaded'
    BY DEF HandedOn, Newest, Loaded, Generating
  <2>5. QED
    BY <2>1, <2>2, <2>3, <2>4 DEF AgentInv
<1>2. ASSUME WatchQueries
      PROVE  AgentInv'
  <2> USE <1>2 DEF WatchQueries
  <2>1. TypeOK'
    BY DEF TypeOK, Snapshot, Update
  <2>2. SendsAtOnce' /\ NoLitter'
    BY DEF SendsAtOnce, NoLitter, Generating
  <2>3. Reported'
    BY DEF Reported, Applied, TypeOK, Snapshot
  <2>4. ~sink' /\ ~stopping' => HandedOn' /\ Loaded'
    BY DEF HandedOn, Newest, Loaded, Generating
  <2>5. QED
    BY <2>1, <2>2, <2>3, <2>4 DEF AgentInv
<1>3. ASSUME WatchFails
      PROVE  AgentInv'
  <2> USE <1>3 DEF WatchFails
  <2>1. TypeOK'
    BY DEF TypeOK
  <2>2. SendsAtOnce' /\ NoLitter'
    BY DEF SendsAtOnce, NoLitter, Generating
  <2>3. Reported'
    BY DEF Reported
  <2>4. ~sink' /\ ~stopping' => HandedOn' /\ Loaded'
    BY DEF HandedOn, Newest, Loaded, Generating
  <2>5. QED
    BY <2>1, <2>2, <2>3, <2>4 DEF AgentInv
<1>4. ASSUME WatchRestarts
      PROVE  AgentInv'
  <2> USE <1>4 DEF WatchRestarts
  <2>1. TypeOK'
    BY DEF TypeOK
  <2>2. SendsAtOnce' /\ NoLitter'
    BY DEF SendsAtOnce, NoLitter, Generating
  <2>3. Reported'
    BY DEF Reported
  <2>4. ~sink' /\ ~stopping' => HandedOn' /\ Loaded'
    BY DEF HandedOn, Newest, Loaded, Generating
  <2>5. QED
    BY <2>1, <2>2, <2>3, <2>4 DEF AgentInv
<1>5. ASSUME WatchSeesStop
      PROVE  AgentInv'
  <2> USE <1>5 DEF WatchSeesStop
  <2>1. TypeOK'
    BY DEF TypeOK
  <2>2. SendsAtOnce' /\ NoLitter'
    BY DEF SendsAtOnce, NoLitter, Generating
  <2>3. Reported'
    BY DEF Reported
  <2>4. ~sink' /\ ~stopping' => HandedOn' /\ Loaded'
    OBVIOUS
  <2>5. QED
    BY <2>1, <2>2, <2>3, <2>4 DEF AgentInv
<1>6. ASSUME NEW n \in Name, WatchReads(n)
      PROVE  AgentInv'
  <2> USE <1>6 DEF WatchReads
  <2>1. TypeOK'
    BY DEF TypeOK, Snapshot, Update, Nothing
  <2>2. SendsAtOnce' /\ NoLitter'
    BY DEF SendsAtOnce, NoLitter, Generating
  <2>3. Reported'
    BY DEF Reported, Applied, Nothing, TypeOK, Snapshot
  <2>4. ~sink' /\ ~stopping' => HandedOn' /\ Loaded'
    BY DEF HandedOn, Newest, Loaded, Generating
  <2>5. QED
    BY <2>1, <2>2, <2>3, <2>4 DEF AgentInv
<1>7. ASSUME UpdaterTakes
      PROVE  AgentInv'
  <2> USE <1>7 DEF UpdaterTakes
  <2>1. TypeOK'
    BY DEF TypeOK, Snapshot, Update, Applied
  <2>2. SendsAtOnce' /\ NoLitter'
    BY DEF SendsAtOnce, NoLitter, Generating
  <2>3. Reported'
    BY DEF Reported
  <2>4. ~sink' /\ ~stopping' => HandedOn' /\ Loaded'
    BY DEF HandedOn, Loaded
  <2>5. QED
    BY <2>1, <2>2, <2>3, <2>4 DEF AgentInv
<1>8. ASSUME UpdaterDrains
      PROVE  AgentInv'
  <2> USE <1>8 DEF UpdaterDrains
  <2>1. TypeOK'
    BY DEF TypeOK
  <2>2. SendsAtOnce' /\ NoLitter'
    BY DEF SendsAtOnce, NoLitter, Generating
  <2>3. Reported'
    BY DEF Reported, Applied
  <2>4. ~sink' /\ ~stopping' => HandedOn' /\ Loaded'
    BY DEF HandedOn, Loaded
  <2>5. QED
    BY <2>1, <2>2, <2>3, <2>4 DEF AgentInv
<1>9. ASSUME UpdaterSends
      PROVE  AgentInv'
  <2> USE <1>9 DEF UpdaterSends
  <2>1. TypeOK'
    BY DEF TypeOK
  <2>2. SendsAtOnce' /\ NoLitter'
    BY DEF SendsAtOnce, NoLitter, Generating
  <2>3. Reported'
    BY DEF Reported, Applied
  <2>4. ~sink' /\ ~stopping' => HandedOn' /\ Loaded'
    BY DEF HandedOn, Newest, Loaded, TypeOK, Snapshot
  <2>5. QED
    BY <2>1, <2>2, <2>3, <2>4 DEF AgentInv
<1>10. ASSUME UpdaterSeesStop
      PROVE  AgentInv'
  <2> USE <1>10 DEF UpdaterSeesStop
  <2>1. TypeOK'
    BY DEF TypeOK
  <2>2. SendsAtOnce' /\ NoLitter'
    BY DEF SendsAtOnce, NoLitter, Generating
  <2>3. Reported'
    BY DEF Reported, Applied
  <2>4. ~sink' /\ ~stopping' => HandedOn' /\ Loaded'
    OBVIOUS
  <2>5. QED
    BY <2>1, <2>2, <2>3, <2>4 DEF AgentInv
<1>11. ASSUME GeneratorTakes
      PROVE  AgentInv'
  <2> USE <1>11 DEF GeneratorTakes, Goes
  <2>1. TypeOK'
    BY DEF TypeOK
  <2>2. SendsAtOnce' /\ NoLitter'
    BY DEF SendsAtOnce, NoLitter, Generating
  <2>3. Reported'
    BY DEF Reported, Applied
  <2>4. ~sink' /\ ~stopping' => HandedOn' /\ Loaded'
    BY DEF HandedOn, Newest, Loaded, Generating
  <2>5. QED
    BY <2>1, <2>2, <2>3, <2>4 DEF AgentInv
<1>12. ASSUME CreatesTemp
      PROVE  AgentInv'
  <2> USE <1>12 DEF CreatesTemp, Goes
  <2>1. TypeOK'
    BY DEF TypeOK
  <2>2. SendsAtOnce' /\ NoLitter'
    BY DEF SendsAtOnce, NoLitter, Generating
  <2>3. Reported'
    BY DEF Reported, Applied
  <2>4. ~sink' /\ ~stopping' => HandedOn' /\ Loaded'
    BY DEF HandedOn, Newest, Loaded, Generating
  <2>5. QED
    BY <2>1, <2>2, <2>3, <2>4 DEF AgentInv
<1>13. ASSUME WritesTemp
      PROVE  AgentInv'
  <2> USE <1>13 DEF WritesTemp, Goes
  <2>1. TypeOK'
    BY DEF TypeOK
  <2>2. SendsAtOnce' /\ NoLitter'
    BY DEF SendsAtOnce, NoLitter, Generating
  <2>3. Reported'
    BY DEF Reported, Applied
  <2>4. ~sink' /\ ~stopping' => HandedOn' /\ Loaded'
    BY DEF HandedOn, Newest, Loaded, Generating
  <2>5. QED
    BY <2>1, <2>2, <2>3, <2>4 DEF AgentInv
<1>14. ASSUME Renames
      PROVE  AgentInv'
  <2> USE <1>14 DEF Renames, Goes
  <2>1. TypeOK'
    BY DEF TypeOK
  <2>2. SendsAtOnce' /\ NoLitter'
    BY DEF SendsAtOnce, NoLitter
  <2>3. Reported'
    BY DEF Reported, Applied
  <2>4. ~sink' /\ ~stopping' => HandedOn' /\ Loaded'
    BY DEF HandedOn, Newest, Loaded, Generating
  <2>5. QED
    BY <2>1, <2>2, <2>3, <2>4 DEF AgentInv
<1>15. ASSUME GenerateFails
      PROVE  AgentInv'
  <2> USE <1>15 DEF GenerateFails, Goes
  <2>1. TypeOK'
    BY DEF TypeOK
  <2>2. SendsAtOnce' /\ NoLitter'
    BY DEF SendsAtOnce, NoLitter
  <2>3. Reported'
    BY DEF Reported, Applied
  <2>4. ~sink' /\ ~stopping' => HandedOn' /\ Loaded'
    OBVIOUS
  <2>5. QED
    BY <2>1, <2>2, <2>3, <2>4 DEF AgentInv
<1>16. ASSUME Reloads
      PROVE  AgentInv'
  <2> USE <1>16 DEF Reloads, Goes
  <2>1. TypeOK'
    BY DEF TypeOK
  <2>2. SendsAtOnce' /\ NoLitter'
    BY DEF SendsAtOnce, NoLitter, Generating
  <2>3. Reported'
    BY DEF Reported, Applied
  <2>4. ~sink' /\ ~stopping' => HandedOn' /\ Loaded'
    BY DEF HandedOn, Newest, Loaded, Generating
  <2>5. QED
    BY <2>1, <2>2, <2>3, <2>4 DEF AgentInv
<1>17. ASSUME ReloadFails
      PROVE  AgentInv'
  <2> USE <1>17 DEF ReloadFails, Goes
  <2>1. TypeOK'
    BY DEF TypeOK
  <2>2. SendsAtOnce' /\ NoLitter'
    BY DEF SendsAtOnce, NoLitter, Generating
  <2>3. Reported'
    BY DEF Reported, Applied
  <2>4. ~sink' /\ ~stopping' => HandedOn' /\ Loaded'
    OBVIOUS
  <2>5. QED
    BY <2>1, <2>2, <2>3, <2>4 DEF AgentInv
<1>18. ASSUME ReloadTimesOut
      PROVE  AgentInv'
  <2> USE <1>18 DEF ReloadTimesOut, Goes
  <2>1. TypeOK'
    BY DEF TypeOK
  <2>2. SendsAtOnce' /\ NoLitter'
    BY DEF SendsAtOnce, NoLitter, Generating
  <2>3. Reported'
    BY DEF Reported, Applied
  <2>4. ~sink' /\ ~stopping' => HandedOn' /\ Loaded'
    OBVIOUS
  <2>5. QED
    BY <2>1, <2>2, <2>3, <2>4 DEF AgentInv
<1>19. ASSUME LateCommandEnds
      PROVE  AgentInv'
  <2> USE <1>19 DEF LateCommandEnds
  <2>1. TypeOK'
    BY DEF TypeOK
  <2>2. SendsAtOnce' /\ NoLitter'
    BY DEF SendsAtOnce, NoLitter, Generating
  <2>3. Reported'
    BY DEF Reported, Applied
  <2>4. ~sink' /\ ~stopping' => HandedOn' /\ Loaded'
    BY DEF HandedOn, Newest, Loaded, Generating
  <2>5. QED
    BY <2>1, <2>2, <2>3, <2>4 DEF AgentInv
<1>20. ASSUME GeneratorSeesStop
      PROVE  AgentInv'
  <2> USE <1>20 DEF GeneratorSeesStop, Goes
  <2>1. TypeOK'
    BY DEF TypeOK
  <2>2. SendsAtOnce' /\ NoLitter'
    BY DEF SendsAtOnce, NoLitter, Generating
  <2>3. Reported'
    BY DEF Reported, Applied
  <2>4. ~sink' /\ ~stopping' => HandedOn' /\ Loaded'
    OBVIOUS
  <2>5. QED
    BY <2>1, <2>2, <2>3, <2>4 DEF AgentInv
<1>21. ASSUME ReceivesSignal
      PROVE  AgentInv'
  <2> USE <1>21 DEF ReceivesSignal
  <2>1. TypeOK'
    BY DEF TypeOK
  <2>2. SendsAtOnce' /\ NoLitter'
    BY DEF SendsAtOnce, NoLitter, Generating
  <2>3. Reported'
    BY DEF Reported, Applied
  <2>4. ~sink' /\ ~stopping' => HandedOn' /\ Loaded'
    OBVIOUS
  <2>5. QED
    BY <2>1, <2>2, <2>3, <2>4 DEF AgentInv
<1>22. ASSUME ReceivesError
      PROVE  AgentInv'
  <2> USE <1>22 DEF ReceivesError
  <2>1. TypeOK'
    BY DEF TypeOK
  <2>2. SendsAtOnce' /\ NoLitter'
    BY DEF SendsAtOnce, NoLitter, Generating
  <2>3. Reported'
    BY DEF Reported, Applied
  <2>4. ~sink' /\ ~stopping' => HandedOn' /\ Loaded'
    OBVIOUS
  <2>5. QED
    BY <2>1, <2>2, <2>3, <2>4 DEF AgentInv
<1>23. ASSUME NEW n \in Name, NEW v \in Value, SessionChanges(n, v)
       PROVE  AgentInv'
  <2> USE <1>23 DEF SessionChanges
  <2>1. TypeOK'
    BY DEF TypeOK, Snapshot, source
  <2>2. SendsAtOnce' /\ NoLitter'
    BY DEF SendsAtOnce, NoLitter, Generating
  <2>3. Reported'
    BY DEF Reported, Applied, source
  <2>4. ~sink' /\ ~stopping' => HandedOn' /\ Loaded'
    BY DEF HandedOn, Newest, Loaded, Generating, source
  <2>5. QED
    BY <2>1, <2>2, <2>3, <2>4 DEF AgentInv
<1>24. CASE UNCHANGED vars
  BY <1>24 DEF TypeOK, SendsAtOnce, NoLitter, Reported, Applied, HandedOn, Newest, Loaded, Generating
<1>25. QED
  BY <1>1, <1>2, <1>3, <1>4, <1>5, <1>6, <1>7, <1>8, <1>9, <1>10, <1>11, <1>12, <1>13, <1>14, <1>15, <1>16, <1>17, <1>18, <1>19, <1>20, <1>21, <1>22, <1>23, <1>24 DEF AgentNext, Generates

THEOREM InductiveAgent == AgentSpec => []AgentInv
<1>1. Init => AgentInv
  BY InitInv
<1>2. AgentInv /\ [AgentNext]_vars => AgentInv'
  BY NextInv
<1>3. QED
  BY <1>1, <1>2, PTL DEF AgentSpec

(***************************************************************************)
(* The variables keep to their types.                                      *)
(***************************************************************************)
THEOREM TypeCorrect == AgentSpec => []TypeOK
<1>1. AgentInv => TypeOK
  BY DEF AgentInv
<1>2. QED
  BY <1>1, InductiveAgent, PTL

(***************************************************************************)
(* The updater never waits to send (balagent.go:144).                      *)
(***************************************************************************)
THEOREM UpdaterFree == AgentSpec => []SendsAtOnce
<1>1. AgentInv => SendsAtOnce
  BY DEF AgentInv
<1>2. QED
  BY <1>1, InductiveAgent, PTL

(***************************************************************************)
(* No temporary file is left (balagent.go:179-184).                        *)
(***************************************************************************)
THEOREM Tidy == AgentSpec => []NoLitter
<1>1. AgentInv => NoLitter
  BY DEF AgentInv
<1>2. QED
  BY <1>1, InductiveAgent, PTL

(***************************************************************************)
(* At rest the file is what the store holds, but for the services that a   *)
(* session changed since they were read, and it is loaded, whatever        *)
(* snapshots were dropped and however often the watch failed               *)
(* (balagent.go:110-148, 172-200; etcdstore.go:392-485).                   *)
(***************************************************************************)
THEOREM CurrentAtRest == AgentSpec => []FileCurrent
<1>1. AgentInv => FileCurrent
  <2> SUFFICES ASSUME AgentInv, AtRest, ~sink, ~stopping
               PROVE  Shown(file) /\ loaded = file
    BY DEF FileCurrent
  <2>1. \A n \in Name \ silent : services[n] = truth[n]
    BY DEF AgentInv, AtRest, Reported
  <2>2. file = services /\ loaded = file
    BY DEF AgentInv, AtRest, HandedOn, Newest, Generating, Loaded
  <2>3. file # None
    BY <2>2, NoneAssumption DEF AgentInv, TypeOK, Snapshot
  <2>4. QED
    BY <2>1, <2>2, <2>3 DEF Shown
<1>2. QED
  BY <1>1, InductiveAgent, PTL

=============================================================================
