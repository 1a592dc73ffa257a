-------------------------------- MODULE Fluxd --------------------------------
(***************************************************************************)
(* How fluxd's goroutines are supervised, connected and stopped: the       *)
(* machinery of common/daemon (Reset, Restart, SimpleComponent, Aggregate, *)
(* Par, run) with the components that cmd/fluxd/main.go and                *)
(* agent/agent.go build from it.  What the updates say is left out; here   *)
(* they are only something that one goroutine holds and another must take. *)
(*                                                                         *)
(*   a source of the agent --> syncInstances --> Tee --> serverside        *)
(*                                                \-->  setInstances       *)
(*                                                                         *)
(* A source is under Reset and, inside it, Restart; setInstances is under  *)
(* Restart; the others run as long as fluxd does.  (syncInstances is under *)
(* Restart too, but posts no error.)  The sources are dockerListener and   *)
(* the agent's watch, which are alike in all that matters here.  The watch *)
(* of the server side is alike too, but nothing waits for it: the server   *)
(* side may have a service of it to work on at any time.                   *)
(***************************************************************************)
CONSTANTS
  Source,  \* the agent's sources
  Watch    \* those of them that watch the store

ASSUME SourceAssumption == "setInstances" \notin Source
ASSUME WatchAssumption == Watch \subseteq Source

VARIABLES
  signal,    \* Source -> the channel to its Reset holds a signal
  wrapper,   \* Source -> where Reset's goroutine is
  restart,   \* Supervised -> where Restart's goroutine is
  child,     \* Supervised -> where its component is
  error,     \* Supervised -> the component's sink holds an error
  wantReset, \* instanceUpdatesReset holds a signal
  at,        \* Pipe -> where the goroutine is
  stopping,  \* daemon.run is in d.Stop(): every stop channel is closed
  owed,      \* history: a reset was asked of the source since it last started
  left       \* the watches of which a goroutine has been left behind for ever

supervision == <<signal, wrapper, restart, child, error>>
vars == <<supervision, wantReset, at, stopping, owed, left>>

Supervised == Source \cup {"setInstances"}
Pipe       == {"syncInstances", "Tee", "serverside"}

(***************************************************************************)
(* The types; and a component's own goroutine, the one that its Stop waits *)
(* for, has ended where its supervisor takes it as stopped, and may start  *)
(* another (component.go:39-51, 91-97).  What that goroutine has started   *)
(* is another matter: see StopsWhole.                                      *)
(***************************************************************************)
TypeOK ==
  /\ signal \in [Source -> BOOLEAN]
  /\ wrapper \in [Source -> {"waiting", "starting", "up", "stopping", "finishing", "ended"}]
  /\ restart \in [Supervised -> {"up", "restarting", "sleeping", "finishing", "ended"}]
  /\ child \in [Supervised -> {"running", "sending", "ended"}]
  /\ error \in [Supervised -> BOOLEAN]
  /\ at \in [Pipe -> {"selecting", "sending", "sending second", "working", "ended"}]
  /\ {wantReset, stopping} \subseteq BOOLEAN
  /\ owed \in [Source -> BOOLEAN] /\ left \subseteq Watch
  /\ \A s \in Source : wrapper[s] \in {"waiting", "starting", "ended"} => restart[s] = "ended"
  /\ \A c \in Supervised : restart[c] \in {"sleeping", "ended"} => child[c] = "ended"

Init ==
  /\ signal = [s \in Source |-> TRUE]             \* si.requestReset, ss.run
  /\ wrapper = [s \in Source |-> "waiting"]
  /\ restart = [c \in Supervised |-> IF c = "setInstances" THEN "up" ELSE "ended"]
  /\ child = [c \in Supervised |-> IF c = "setInstances" THEN "running" ELSE "ended"]
  /\ error = [c \in Supervised |-> FALSE]
  /\ wantReset = TRUE                             \* setInstances, ss.run
  /\ at = [p \in Pipe |-> "selecting"]
  /\ stopping = FALSE
  /\ owed = [s \in Source |-> TRUE] /\ left = {}

Move(p, place) == at' = [at EXCEPT ![p] = place]

-----------------------------------------------------------------------------
(***************************************************************************)
(* Restart: start the component, wait for an error or for stop, stop it,   *)
(* sleep, and again.                                                       *)
(***************************************************************************)
\* Its stop channel is closed, by Reset or by daemon.run.
ToldToStop(c) ==
  IF c = "setInstances" THEN stopping ELSE wrapper[c] \in {"stopping", "finishing"}

\* It receives from its component's sink, and calls d.Stop().
RestartSeesError(c) ==
  /\ restart[c] = "up" /\ error[c]
  /\ restart' = [restart EXCEPT ![c] = "restarting"]
  /\ error' = [error EXCEPT ![c] = FALSE]
  /\ UNCHANGED <<signal, wrapper, child, wantReset, at, stopping, owed, left>>

\* It sees stop, where it waits for an error or sleeps.
RestartSeesStop(c) ==
  /\ ToldToStop(c)
  /\ \/ restart[c] = "up" /\ restart' = [restart EXCEPT ![c] = "finishing"]
     \/ restart[c] = "sleeping" /\ restart' = [restart EXCEPT ![c] = "ended"]
  /\ error' = [error EXCEPT ![c] = FALSE]         \* nobody reads it any more
  /\ UNCHANGED <<signal, wrapper, child, wantReset, at, stopping, owed, left>>

\* d.Stop() returns, the component having ended.  A watch's Stop does not wait for
\* the goroutine that WatchServices has started, which may be where it hands over a
\* change: nobody will take it.
RestartGoesOn(c) ==
  /\ child[c] = "ended"
  /\ \/ restart[c] = "restarting" /\ restart' = [restart EXCEPT ![c] = "sleeping"]
     \/ restart[c] = "finishing" /\ restart' = [restart EXCEPT ![c] = "ended"]
  /\ left' \in {left, left \cup ({c} \cap Watch)}
  /\ UNCHANGED <<signal, wrapper, child, error, wantReset, at, stopping, owed>>

\* The component starts, with a sink of its own.
Started(c) ==
  /\ restart' = [restart EXCEPT ![c] = "up"]
  /\ child' = [child EXCEPT ![c] = "running"]
  /\ error' = [error EXCEPT ![c] = FALSE]

\* It has slept long enough.  setInstances asks for a reset as it starts.
RestartStarts(c) ==
  /\ restart[c] = "sleeping"
  /\ Started(c)
  /\ wantReset' = (wantReset \/ c = "setInstances")
  /\ owed' = IF c \in Source THEN [owed EXCEPT ![c] = FALSE] ELSE owed
  /\ UNCHANGED <<signal, wrapper, at, stopping, left>>

-----------------------------------------------------------------------------
(***************************************************************************)
(* Reset: wait for a signal, drain the channel, start, wait for another    *)
(* signal or for stop, stop the component, and again.                      *)
(***************************************************************************)
ResetTakesSignal(s) ==
  /\ wrapper[s] \in {"waiting", "starting", "up"} /\ signal[s]
  /\ signal' = [signal EXCEPT ![s] = FALSE]
  /\ wrapper' = [wrapper EXCEPT ![s] = IF @ = "up" THEN "stopping" ELSE "starting"]
  /\ UNCHANGED <<restart, child, error, wantReset, at, stopping, owed, left>>

\* The channel is empty: c := startFunc(errs).
ResetStarts(s) ==
  /\ wrapper[s] = "starting" /\ ~signal[s]
  /\ wrapper' = [wrapper EXCEPT ![s] = "up"]
  /\ Started(s)
  /\ owed' = [owed EXCEPT ![s] = FALSE]
  /\ UNCHANGED <<signal, wantReset, at, stopping, left>>

\* A variant that returns without stopping the source.
ReturnsAtOnce(s) ==
  /\ stopping /\ wrapper[s] \in {"waiting", "up"}
  /\ wrapper' = [wrapper EXCEPT ![s] = "ended"]
  /\ UNCHANGED <<signal, restart, child, error, wantReset, at, stopping, owed, left>>

\* It sees stop, and stops the source if it is up.
ResetSeesStop(s) ==
  /\ stopping
  /\ \/ wrapper[s] = "waiting" /\ wrapper' = [wrapper EXCEPT ![s] = "ended"]
     \/ wrapper[s] = "up" /\ wrapper' = [wrapper EXCEPT ![s] = "finishing"]
  /\ UNCHANGED <<signal, restart, child, error, wantReset, at, stopping, owed, left>>

\* Two variants: one that does not wait for the component's end ...
GoesOnAtOnce(s) ==
  /\ wrapper[s] = "stopping"
  /\ wrapper' = [wrapper EXCEPT ![s] = "starting"]
  /\ UNCHANGED <<signal, restart, child, error, wantReset, at, stopping, owed, left>>

\* ... and one whose loop goes back to where it waits for the first signal.
WaitsAgain(s) ==
  /\ restart[s] = "ended"
  /\ \/ wrapper[s] = "stopping" /\ wrapper' = [wrapper EXCEPT ![s] = "waiting"]
     \/ wrapper[s] = "finishing" /\ wrapper' = [wrapper EXCEPT ![s] = "ended"]
  /\ UNCHANGED <<signal, restart, child, error, wantReset, at, stopping, owed, left>>

\* c.Stop() returns, Restart's goroutine having ended.
ResetGoesOn(s) ==
  /\ restart[s] = "ended"
  /\ \/ wrapper[s] = "stopping" /\ wrapper' = [wrapper EXCEPT ![s] = "starting"]
     \/ wrapper[s] = "finishing" /\ wrapper' = [wrapper EXCEPT ![s] = "ended"]
  /\ UNCHANGED <<signal, restart, child, error, wantReset, at, stopping, owed, left>>

-----------------------------------------------------------------------------
(***************************************************************************)
(* The sources and setInstances.                                           *)
(***************************************************************************)
SourceSends(s) ==
  /\ child[s] = "running"
  /\ child' = [child EXCEPT ![s] = "sending"]
  /\ UNCHANGED <<signal, wrapper, restart, error, wantReset, at, stopping, owed, left>>

\* An error: it is posted, and the component may go on until it is stopped.
ChildFails(c) ==
  /\ restart[c] = "up" /\ child[c] = "running"
  /\ error' = [error EXCEPT ![c] = TRUE]
  /\ child' \in {child, [child EXCEPT ![c] = IF c \in Source THEN "ended" ELSE @]}
  /\ UNCHANGED <<signal, wrapper, restart, wantReset, at, stopping, owed, left>>

\* It sees stop, even where it sends: its own goroutine returns.
ChildEnds(c) ==
  /\ restart[c] \in {"restarting", "finishing"} /\ child[c] \in {"running", "sending"}
  /\ child' = [child EXCEPT ![c] = "ended"]
  /\ UNCHANGED <<signal, wrapper, restart, error, wantReset, at, stopping, owed, left>>

-----------------------------------------------------------------------------
(***************************************************************************)
(* syncInstances, the Tee and the server side.                             *)
(***************************************************************************)
\* syncInstances takes an input, which may make an update to be sent.
SyncTakes(s) ==
  /\ at["syncInstances"] = "selecting" /\ child[s] = "sending"
  /\ child' = [child EXCEPT ![s] = "running"]
  /\ \/ Move("syncInstances", "sending") \/ UNCHANGED at
  /\ UNCHANGED <<signal, wrapper, restart, error, wantReset, stopping, owed, left>>

\* syncInstances takes a reset signal, drops its state and asks all its sources.
SyncResets ==
  /\ at["syncInstances"] = "selecting" /\ wantReset
  /\ wantReset' = FALSE
  /\ signal' = [s \in Source |-> TRUE]
  /\ owed' = [s \in Source |-> TRUE]
  /\ UNCHANGED <<wrapper, restart, child, error, at, stopping, left>>

\* The update goes to the Tee, which sends it first to the server side ...
TeeTakes ==
  /\ at["syncInstances"] = "sending" /\ at["Tee"] = "selecting"
  /\ at' = [at EXCEPT !["syncInstances"] = "selecting", !["Tee"] = "sending"]
  /\ UNCHANGED <<supervision, wantReset, stopping, owed, left>>

ServerTakesUpdate ==
  /\ at["Tee"] = "sending" /\ at["serverside"] = "selecting"
  /\ at' = [at EXCEPT !["Tee"] = "sending second", !["serverside"] = "working"]
  /\ UNCHANGED <<supervision, wantReset, stopping, owed, left>>

\* ... and then to setInstances, whose store calls may fail.
SetInstancesTakes ==
  /\ at["Tee"] = "sending second" /\ child["setInstances"] = "running"
  /\ Move("Tee", "selecting")
  /\ error' \in {error, [error EXCEPT !["setInstances"] = restart["setInstances"] = "up"]}
  /\ UNCHANGED <<signal, wrapper, restart, child, wantReset, stopping, owed, left>>

\* The server side takes an update of its own source.
ServerTakesService ==
  /\ at["serverside"] = "selecting"
  /\ Move("serverside", "working")
  /\ UNCHANGED <<supervision, wantReset, stopping, owed, left>>

\* It calls the store; an error goes to the sink of daemon.run (see Stops).
ServerWorks ==
  /\ at["serverside"] = "working"
  /\ Move("serverside", "selecting")
  /\ UNCHANGED <<supervision, wantReset, stopping, owed, left>>

\* One of the three sees stop, where it waits for an input.
PipeEnds(p) ==
  /\ stopping /\ at[p] = "selecting"
  /\ Move(p, "ended")
  /\ UNCHANGED <<supervision, wantReset, stopping, owed, left>>

\* daemon.run receives a signal, or an error of the server side.
Stops ==
  /\ ~stopping /\ stopping' = TRUE
  /\ UNCHANGED <<supervision, wantReset, at, owed, left>>

Next ==
  \/ \E c \in Supervised :
       \/ RestartSeesError(c) \/ RestartSeesStop(c) \/ RestartGoesOn(c) \/ RestartStarts(c)
       \/ ChildFails(c) \/ ChildEnds(c)
  \/ \E s \in Source :
       \/ ResetTakesSignal(s) \/ ResetStarts(s) \/ ResetSeesStop(s) \/ ResetGoesOn(s)
       \/ SourceSends(s) \/ SyncTakes(s)
  \/ SyncResets \/ TeeTakes
  \/ ServerTakesUpdate \/ SetInstancesTakes \/ ServerTakesService \/ ServerWorks
  \/ \E p \in Pipe : PipeEnds(p)
  \/ Stops

\* A goroutine sees that fluxd stops; each does so once.
SeesStop ==
  \/ RestartSeesStop("setInstances")
  \/ \E s \in Source : ResetSeesStop(s)
  \/ \E p \in Pipe : PipeEnds(p)

\* What the Tee sends is taken; its two sends alternate.
TeeSends == ServerTakesUpdate \/ SetInstancesTakes

(***************************************************************************)
(* Goroutines are scheduled; a select that is offered a case again and     *)
(* again takes it in the end (Go chooses among ready cases at random), and *)
(* Reset, which starts its source within microseconds, is not signalled    *)
(* each time it tries to: setInstances, which asks for the resets, starts  *)
(* once in ten seconds.  Docker and the store answer.  Nothing is assumed  *)
(* of what the sources send, of errors or of signals to fluxd.             *)
(***************************************************************************)
Fairness ==
  /\ \A c \in Supervised :
       /\ WF_vars(RestartSeesError(c)) /\ WF_vars(RestartGoesOn(c))
       /\ WF_vars(RestartStarts(c)) /\ WF_vars(ChildEnds(c))
  /\ \A s \in Source :
       /\ SF_vars(RestartSeesStop(s))
       /\ WF_vars(ResetTakesSignal(s)) /\ SF_vars(ResetStarts(s)) /\ WF_vars(ResetGoesOn(s))
  /\ WF_vars(TeeTakes) /\ WF_vars(ServerWorks)
  /\ SF_vars(SyncResets) /\ SF_vars(TeeSends) /\ SF_vars(SeesStop)

Spec == Init /\ [][Next]_vars /\ Fairness

-----------------------------------------------------------------------------
(***************************************************************************)
(* "When it returns, all resources of the component should have been       *)
(* released, and any activity associated with the component has ceased"    *)
(* (component.go:18-20).  Not so for a watch: its goroutine that turns     *)
(* events into changes (etcdstore.go:466-484) looks at the context only    *)
(* where it waits for an event, not where it sends (etcdstore.go:404-445). *)
(***************************************************************************)
StopsWhole ==
  \A s \in Source : restart[s] \in {"sleeping", "ended"} => child[s] = "ended" /\ s \notin left

(***************************************************************************)
(* No reset is lost (component.go:144-173): as long as a source has not    *)
(* been started since it was asked to, its Reset has the signal before it, *)
(* or has taken it and is about to start the source; whatever Reset and    *)
(* Restart are doing when the signal comes, and although signals coalesce. *)
(***************************************************************************)
NoResetLost ==
  \A s \in Source :
    owed[s] => signal[s] \/ wrapper[s] \in {"starting", "stopping", "finishing", "ended"}

\* A goroutine sends to one that has returned; neither send looks at stop.
Stuck ==
  \/ at["syncInstances"] = "sending" /\ at["Tee"] = "ended"
  \/ at["Tee"] = "sending" /\ at["serverside"] = "ended"
  \/ at["Tee"] = "sending second" /\ restart["setInstances"] = "ended"

AllEnded ==
  /\ \A s \in Source : wrapper[s] = "ended"
  /\ \A c \in Supervised : restart[c] = "ended"
  /\ \A p \in Pipe : at[p] = "ended"

(***************************************************************************)
(* A stop ends everything, whatever is being restarted, reset or waited    *)
(* for, unless a goroutine was sending to another that saw the stop first  *)
(* (sync_instances.go:98, tee.go:51): then d.Stop() never returns.         *)
(***************************************************************************)
StopEnds == stopping ~> (AllEnded \/ []Stuck)

(***************************************************************************)
(* While fluxd runs, a reset that setInstances or syncInstances asks for   *)
(* gives the source a fresh start: the pipeline does not jam, although the *)
(* Tee waits for the slower of its receivers and syncInstances for it.     *)
(***************************************************************************)
ResetHappens ==
  /\ wantReset ~> (stopping \/ ~wantReset)
  /\ \A s \in Source : owed[s] ~> (stopping \/ ~owed[s])
=============================================================================
