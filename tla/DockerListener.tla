--------------------------- MODULE DockerListener ---------------------------
(***************************************************************************)
(* Docker, the agent's dockerListener (agent/docker_listener.go) and what  *)
(* syncInstances makes of its updates.  The listener's three goroutines    *)
(* are the reader of Docker's events, which first lists the containers;    *)
(* the buffer, which is always ready to take; and the inspector.  Docker   *)
(* goes on changing between any two steps of theirs.                       *)
(*                                                                         *)
(* Restart (common/daemon) starts the listener again after an error, and   *)
(* Reset does when the consumer asks for it.  A container's details are    *)
(* told apart by which start, of all containers', was its last, and by     *)
(* whether it is running.                                                  *)
(***************************************************************************)
EXTENDS Naturals, Sequences

CONSTANTS
  Id,          \* container ids
  None,        \* nil: no such container
  Untouched,   \* "no entry for this key"
  MaxStarts,   \* of all containers
  MaxFaults    \* errors of the listener, and resets that the consumer asks for

ASSUME ListenerAssumption ==
  /\ None # Untouched /\ Untouched \notin BOOLEAN
  /\ {None, Untouched} \cap [start : Nat, running : BOOLEAN] = {}
  /\ MaxStarts \in Nat /\ MaxFaults \in Nat

Details == [start : 0 .. MaxStarts, running : BOOLEAN]

VARIABLES
  docker,      \* the containers there are, None for one that is not there
  starts,      \* how many times any has been started
  events,      \* sent to the listener, not received yet
  pc,          \* the reader: "waiting" for the first reset; "off", to be started;
               \* "listing"; "following"
  down,        \* the goroutines that have ended with an error
  heard,       \* containers[id] while listing, Untouched when absent
  list,        \* listContainersRes, None before it is there
  buf,         \* the buffer: a sequence of [reset, containers]
  work,        \* what the inspector is at: [busy, reset, todo, out]
  announced,
  heldNil, held,   \* syncInstances' si.containers: whether it is nil, and it
  asked,       \* containerUpdatesReset holds a signal
  faults

world    == <<docker, starts>>
reader   == <<pc, events, heard, list>>
inspector == <<work, announced>>
consumer == <<heldNil, held, asked>>
vars     == <<world, reader, down, buf, inspector, consumer, faults>>

Nothing    == [id \in Id |-> Untouched]
NoWork     == [busy |-> FALSE, reset |-> FALSE, todo |-> {}, out |-> Nothing]
Containers == [Id -> BOOLEAN \cup {Untouched}]

TypeOK ==
  /\ docker \in [Id -> Details \cup {None}] /\ starts \in 0 .. MaxStarts
  /\ events \in Seq([id : Id, started : BOOLEAN])
  /\ pc \in {"waiting", "off", "listing", "following"} /\ down \subseteq {"reader", "inspector"}
  /\ heard \in Containers /\ (list = None \/ list \subseteq Id)
  /\ buf \in Seq([reset : BOOLEAN, containers : Containers])
  /\ work \in [busy : BOOLEAN, reset : BOOLEAN, todo : SUBSET Id,
               out : [Id -> Details \cup {None, Untouched}]]
  /\ announced \subseteq Id
  /\ heldNil \in BOOLEAN /\ held \in [Id -> Details \cup {None}]
  /\ asked \in BOOLEAN /\ faults \in 0 .. MaxFaults

\* Any containers may be there already; syncInstances asks for a reset at its start.
Init ==
  /\ docker \in [Id -> {None, [start |-> 0, running |-> TRUE]}]
  /\ starts = 0
  /\ pc = "waiting" /\ events = <<>> /\ heard = Nothing /\ list = None
  /\ down = {} /\ buf = <<>> /\ work = NoWork /\ announced = {}
  /\ heldNil = TRUE /\ held = [id \in Id |-> None] /\ asked = TRUE
  /\ faults = 0

-----------------------------------------------------------------------------
(***************************************************************************)
(* Docker.  A container that has died can still be inspected, and started  *)
(* again, until it is removed.                                             *)
(***************************************************************************)
IsRunning(id) == docker[id] # None /\ docker[id].running

\* AddEventListener has been called, and RemoveEventListener has not.
Attached == pc \in {"listing", "following"} /\ "reader" \notin down

Notify(id, started) ==
  events' = IF Attached THEN Append(events, [id |-> id, started |-> started]) ELSE events

Starts(id) ==
  /\ ~IsRunning(id) /\ starts < MaxStarts
  /\ starts' = starts + 1
  /\ docker' = [docker EXCEPT ![id] = [start |-> starts + 1, running |-> TRUE]]
  /\ Notify(id, TRUE)
  /\ UNCHANGED <<pc, heard, list, down, buf, inspector, consumer, faults>>

Dies(id) ==
  /\ IsRunning(id)
  /\ docker' = [docker EXCEPT ![id].running = FALSE]
  /\ Notify(id, FALSE)
  /\ UNCHANGED <<starts, pc, heard, list, down, buf, inspector, consumer, faults>>

Removed(id) ==
  /\ docker[id] # None /\ ~IsRunning(id)
  /\ docker' = [docker EXCEPT ![id] = None]
  /\ UNCHANGED <<starts, reader, down, buf, inspector, consumer, faults>>

-----------------------------------------------------------------------------
(***************************************************************************)
(* Starting and stopping.                                                  *)
(***************************************************************************)
Stopped ==
  /\ pc' = "off" /\ events' = <<>> /\ heard' = Nothing /\ list' = None
  /\ down' = {} /\ buf' = <<>> /\ work' = NoWork /\ announced' = {}

\* A variant that reads the signal and goes on.
TakesResetOnly ==
  /\ asked /\ asked' = FALSE
  /\ UNCHANGED <<world, reader, down, buf, inspector, heldNil, held, faults>>

\* Reset takes the signal, and whatever is running is stopped and started again.
TakesReset ==
  /\ asked /\ asked' = FALSE
  /\ Stopped
  /\ UNCHANGED <<world, heldNil, held, faults>>

\* Restart, after an error of any of the goroutines, stops the others.
RestartStops ==
  /\ down # {}
  /\ Stopped
  /\ UNCHANGED <<world, consumer, faults>>

\* Its first act is to ask for events; only then does it ask for the list.
ListenerStarts ==
  /\ pc = "off"
  /\ pc' = "listing"
  /\ UNCHANGED <<world, events, heard, list, down, buf, inspector, consumer, faults>>

-----------------------------------------------------------------------------
(***************************************************************************)
(* readContainerIDs.                                                       *)
(***************************************************************************)
Reading(where) == pc = where /\ "reader" \notin down

ListTaken ==
  /\ Reading("listing") /\ list = None
  /\ list' = {id \in Id : IsRunning(id)}
  /\ UNCHANGED <<world, pc, events, heard, down, buf, inspector, consumer, faults>>

HearsEvent ==
  /\ Reading("listing") /\ events # <<>>
  /\ heard' = [heard EXCEPT ![Head(events).id] = Head(events).started]
  /\ events' = Tail(events)
  /\ UNCHANGED <<world, pc, list, down, buf, inspector, consumer, faults>>

\* The containers of the first update: those listed or heard to have started,
\* but not those heard to have died.  (The variant believes the list.)
ListedOrHeard == {id \in Id : heard[id] = TRUE \/ id \in list}
FirstUpdate   == {id \in Id : heard[id] = TRUE \/ (id \in list /\ heard[id] = Untouched)}

ListingEnds ==
  /\ Reading("listing") /\ list # None
  /\ pc' = "following"
  /\ buf' = Append(buf, [reset |-> TRUE, containers |->
                           [id \in Id |-> IF id \in FirstUpdate THEN TRUE ELSE Untouched]])
  /\ heard' = Nothing /\ list' = None
  /\ UNCHANGED <<world, events, down, inspector, consumer, faults>>

FollowsEvent ==
  /\ Reading("following") /\ events # <<>>
  /\ LET ev == Head(events)
     IN  buf' = Append(buf, [reset |-> FALSE,
                             containers |-> [Nothing EXCEPT ![ev.id] = ev.started]])
  /\ events' = Tail(events)
  /\ UNCHANGED <<world, pc, heard, list, down, inspector, consumer, faults>>

\* The listing fails, or the stream of events is closed.
ReaderFails ==
  /\ Attached /\ faults < MaxFaults /\ faults' = faults + 1
  /\ down' = down \cup {"reader"} /\ events' = <<>>
  /\ UNCHANGED <<world, pc, heard, list, buf, inspector, consumer>>

-----------------------------------------------------------------------------
(***************************************************************************)
(* inspectContainers.                                                      *)
(***************************************************************************)
Inspecting == work.busy /\ "inspector" \notin down

\* The containers that have died, of those that the consumer has been told
\* of.  (The variant: of all.)
GoneOfAll(update, known) == {id \in Id : update.containers[id] = FALSE}
Gone(update, known)      == {id \in known : update.containers[id] = FALSE}

TakesUpdate ==
  /\ "inspector" \notin down /\ ~work.busy /\ buf # <<>>
  /\ LET update == Head(buf)
         known  == IF update.reset THEN {} ELSE announced
         gone   == Gone(update, known)
     IN  /\ work' = [busy |-> TRUE, reset |-> update.reset,
                     todo |-> {id \in Id : update.containers[id] = TRUE},
                     out  |-> [id \in Id |-> IF id \in gone THEN None ELSE Untouched]]
         /\ announced' = known \ gone
  /\ buf' = Tail(buf)
  /\ UNCHANGED <<world, reader, down, consumer, faults>>

\* InspectContainer(id); it is left out when there is no such container.
Inspects(id) ==
  /\ Inspecting /\ id \in work.todo
  /\ work' = [work EXCEPT !.todo = @ \ {id},
                          !.out[id] = IF docker[id] = None THEN @ ELSE docker[id]]
  /\ announced' = IF docker[id] = None THEN announced ELSE announced \cup {id}
  /\ UNCHANGED <<world, reader, down, buf, consumer, faults>>

InspectFails ==
  /\ Inspecting /\ work.todo # {} /\ faults < MaxFaults /\ faults' = faults + 1
  /\ down' = down \cup {"inspector"} /\ work' = NoWork
  /\ UNCHANGED <<world, reader, buf, announced, consumer>>

\* What the consumer makes of an update: after a reset, only what is in it;
\* else, unless it knows nothing, what has gone goes, and what has come is
\* added unless it is known already.  (The variant takes no entry for one.)
AfterResetAll(out) == out
AfterReset(out) == [id \in Id |-> IF out[id] = Untouched THEN None ELSE out[id]]
AfterUpdate(out) ==
  [id \in Id |-> IF out[id] = None THEN None
                 ELSE IF held[id] = None /\ out[id] # Untouched THEN out[id] ELSE held[id]]

\* Nothing is sent for an empty update that is not a reset: it changes nothing.
Delivers ==
  /\ Inspecting /\ work.todo = {}
  /\ heldNil' = (heldNil /\ ~work.reset)
  /\ held' = IF work.reset THEN AfterReset(work.out)
             ELSE IF heldNil THEN held ELSE AfterUpdate(work.out)
  /\ work' = NoWork
  /\ UNCHANGED <<world, reader, down, buf, announced, asked, faults>>

\* syncInstances drops what it knows, and asks.
ConsumerResets ==
  /\ faults < MaxFaults /\ faults' = faults + 1
  /\ heldNil' = TRUE /\ held' = [id \in Id |-> None] /\ asked' = TRUE
  /\ UNCHANGED <<world, reader, down, buf, inspector>>

Listener ==
  \/ TakesReset \/ RestartStops \/ ListenerStarts
  \/ ListTaken \/ HearsEvent \/ ListingEnds \/ FollowsEvent
  \/ TakesUpdate \/ (\E id \in Id : Inspects(id)) \/ Delivers

Next ==
  \/ Listener
  \/ \E id \in Id : Starts(id) \/ Dies(id) \/ Removed(id)
  \/ ReaderFails \/ InspectFails \/ ConsumerResets

Fairness ==
  /\ WF_vars(TakesReset) /\ WF_vars(RestartStops) /\ WF_vars(ListenerStarts)
  /\ WF_vars(ListTaken) /\ WF_vars(ListingEnds) /\ WF_vars(FollowsEvent)
  /\ WF_vars(TakesUpdate) /\ WF_vars(\E id \in Id : Inspects(id)) /\ WF_vars(Delivers)

Spec == Init /\ [][Next]_vars /\ Fairness

-----------------------------------------------------------------------------
Truth == [id \in Id |-> IF IsRunning(id) THEN docker[id] ELSE None]

\* Nothing is on its way to the consumer.
Quiet ==
  pc = "following" /\ down = {} /\ ~asked /\ events = <<>> /\ buf = <<>> /\ ~work.busy

(***************************************************************************)
(* With nothing on its way, the consumer holds the containers that are     *)
(* running and no others, with the details of their latest start, whatever *)
(* happened while the containers were listed or inspected, during errors   *)
(* or between a reset and the first update (docker_listener.go:65-250).    *)
(***************************************************************************)
CaughtUp == Quiet => ~heldNil /\ held = Truth

(***************************************************************************)
(* docker_listener.go:193-197: a container that had gone before it could   *)
(* be inspected is not heard of at all.  The consumer is never told that a *)
(* container has gone unless it has been told of it.                       *)
(***************************************************************************)
BothOrNeither ==
  [][Delivers /\ ~heldNil /\ ~work.reset =>
       \A id \in Id : work.out[id] = None => held[id] # None]_vars

(***************************************************************************)
(* Errors, resets and changes come to an end: then the consumer is told    *)
(* the truth (component.go:26-69 and 144-173, docker_listener.go).         *)
(***************************************************************************)
Settles == <>[](~heldNil /\ held = Truth)

=============================================================================
