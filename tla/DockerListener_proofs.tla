----------------------- MODULE DockerListener_proofs -----------------------
(***************************************************************************)
(* Proofs about DockerListener: for any containers, and any number of      *)
(* starts, errors and resets, the consumer ends up with the containers     *)
(* that are running, and is told of no death of a container it has not     *)
(* been told of.                                                           *)
(***************************************************************************)
EXTENDS DockerListener, SequenceTheorems, TLAPS

\* Whether each container is running.
Running == [id \in Id |-> IsRunning(id)]

(***************************************************************************)
(* What is on its way to the consumer about a container.  What follows it  *)
(* in the same queue, or is in one behind it, is said later.               *)
(***************************************************************************)
InEvents(id)   == \E i \in DOMAIN events : events[i].id = id
EventSays(id, b) == \E i \in DOMAIN events : events[i].id = id /\ events[i].started = b
BufSays(id, b) == \E i \in DOMAIN buf : buf[i].containers[id] = b

\* An event that is no longer true is followed by one that is.
EventsEndTrue ==
  \A i \in DOMAIN events : \E j \in DOMAIN events :
    j >= i /\ events[j].id = events[i].id /\ events[j].started = Running[events[i].id]

\* So is what the buffer says of a container, unless there are events about it.
BufEndsTrue ==
  \A id \in Id, i \in DOMAIN buf :
    \/ buf[i].containers[id] = Untouched
    \/ InEvents(id)
    \/ \E j \in DOMAIN buf : j >= i /\ buf[j].containers[id] = Running[id]

\* Its death is on its way, or its start.
DeathComing(id) == EventSays(id, FALSE) \/ BufSays(id, FALSE)
StartComing(id) == EventSays(id, TRUE) \/ BufSays(id, TRUE) \/ id \in work.todo

\* What the consumer will hold of it after the update the inspector is at, if
\* nothing more is inspected for it.
Hold(id) ==
  IF ~work.busy THEN held[id]
  ELSE IF work.reset THEN AfterReset(work.out)[id]
  ELSE AfterUpdate(work.out)[id]

\* The update that starts the consumer afresh is still in the buffer.
Fresh == buf # <<>> /\ Head(buf).reset

-----------------------------------------------------------------------------
\* Nothing has been passed on before the first update, and that one is first.
Stages ==
  /\ pc = "waiting" => asked
  /\ pc # "following" => buf = <<>> /\ work = NoWork /\ announced = {}
  /\ pc = "off" => events = <<>> /\ heard = Nothing /\ list = None
  /\ \A i \in DOMAIN buf : buf[i].reset =>
       i = 1 /\ ~work.busy /\ \A id \in Id : buf[i].containers[id] # FALSE
  /\ ~work.busy => work = NoWork
  /\ \A id \in work.todo : work.out[id] = Untouched
  /\ \A id \in Id : work.out[id] = None => ~work.reset

\* The inspector knows what the consumer holds or is about to be given.
Serving == pc = "following" /\ ~Fresh /\ "inspector" \notin down /\ (~heldNil \/ work.reset)

Announced ==
  Serving =>
    /\ \A id \in Id : id \in announced <=> Hold(id) # None
    /\ ~work.reset => \A id \in Id : work.out[id] = None => held[id] # None

\* Nothing is going to be stopped.
Going == ~asked /\ down = {}

\* What has been listed and heard is the truth, but for what is in the events.
Listing ==
  Going /\ pc = "listing" =>
    /\ EventsEndTrue
    /\ \A id \in Id : ~InEvents(id) =>
         /\ heard[id] # Untouched => heard[id] = Running[id]
         /\ heard[id] = Untouched /\ list # None => (id \in list <=> Running[id])

\* What the consumer will hold is the truth, or will be made so.
Settling(id) ==
  \/ DeathComing(id)
  \/ Hold(id) = Truth[id]
  \/ Hold(id) = None /\ StartComing(id)

\* The first update lists what is running; from then on the consumer catches up.
Following ==
  Going /\ pc = "following" =>
    /\ EventsEndTrue /\ BufEndsTrue
    /\ \A id \in work.todo : DeathComing(id) \/ Running[id]
    /\ Fresh  => \A id \in Id : Running[id] => StartComing(id)
    /\ ~Fresh => (~heldNil \/ work.reset) /\ \A id \in Id : Settling(id)

\* The invariant that the induction needs.
ListenerInv == TypeOK /\ Stages /\ Announced /\ Listing /\ Following

-----------------------------------------------------------------------------
\* What the queues hold, and the inspector's work.
Event  == [id : Id, started : BOOLEAN]
Update == [reset : BOOLEAN, containers : Containers]
Work   == [busy : BOOLEAN, reset : BOOLEAN, todo : SUBSET Id,
           out : [Id -> Details \cup {None, Untouched}]]

\* Whether a container is running is a Boolean, like what is said of it.
LEMMA RunningType == TypeOK => Running \in [Id -> BOOLEAN]
BY DEF TypeOK, Running, IsRunning, Details

\* A container's details are neither None nor Untouched.
LEMMA DetailsAreThere ==
  ASSUME NEW d \in [start : Nat, running : BOOLEAN]
  PROVE  d # None /\ d # Untouched
BY ListenerAssumption

\* What an element at the end of a queue adds to it.
LEMMA Appended ==
  ASSUME NEW S, NEW q \in Seq(S), NEW e \in S
  PROVE  /\ Append(q, e) \in Seq(S) /\ Append(q, e) # <<>>
         /\ Len(q) \in Nat /\ DOMAIN q = 1 .. Len(q)
         /\ DOMAIN Append(q, e) = 1 .. Len(q) + 1
         /\ \A i \in 1 .. Len(q) : Append(q, e)[i] = q[i]
         /\ Append(q, e)[Len(q) + 1] = e
BY AppendProperties, LenProperties

\* What is left when the first element of a queue is taken.
LEMMA Taken ==
  ASSUME NEW S, NEW q \in Seq(S), q # <<>>
  PROVE  /\ Head(q) \in S /\ Tail(q) \in Seq(S)
         /\ Len(q) \in Nat /\ Len(q) > 0 /\ DOMAIN q = 1 .. Len(q)
         /\ Head(q) = q[1]
         /\ DOMAIN Tail(q) = 1 .. Len(q) - 1
         /\ \A i \in 1 .. Len(q) - 1 : Tail(q)[i] = q[i + 1]
BY HeadTailProperties, LenProperties, EmptySeq

\* The types of what the listener starts with.
LEMMA StartTypes ==
  /\ NoWork \in Work /\ Nothing \in Containers
  /\ <<>> \in Seq(Event) /\ <<>> \in Seq(Update)
BY DEF NoWork, Nothing, Work, Containers

(***************************************************************************)
(* The types.                                                              *)
(***************************************************************************)
\* Docker's own steps keep the types.
LEMMA WorldTypes ==
  ASSUME TypeOK, NEW id \in Id, Starts(id) \/ Dies(id) \/ Removed(id)
  PROVE  TypeOK'
<1>1. \A b \in BOOLEAN : Notify(id, b) => events' \in Seq(Event)
  <2> SUFFICES ASSUME NEW b \in BOOLEAN, Notify(id, b) PROVE events' \in Seq(Event)
    OBVIOUS
  <2>1. events \in Seq(Event) /\ [id |-> id, started |-> b] \in Event
    BY DEF TypeOK, Event
  <2> QED BY <2>1, Appended DEF Notify
<1>2. CASE Starts(id)
  <2>1. events' \in Seq(Event)
    BY <1>1, <1>2 DEF Starts
  <2>2. starts + 1 \in 0 .. MaxStarts
    BY <1>2, ListenerAssumption DEF Starts, TypeOK
  <2>3. docker' \in [Id -> Details \cup {None}]
    BY <1>2, <2>2 DEF Starts, TypeOK, Details
  <2> QED BY <1>2, <2>1, <2>2, <2>3 DEF Starts, TypeOK, Event, inspector, consumer
<1>3. CASE Dies(id)
  <2>1. events' \in Seq(Event)
    BY <1>1, <1>3 DEF Dies
  <2>2. docker' \in [Id -> Details \cup {None}]
    <3>1. docker[id] \in Details
      BY <1>3 DEF Dies, IsRunning, TypeOK
    <3>2. [docker[id] EXCEPT !.running = FALSE] \in Details
      BY <3>1 DEF Details
    <3> QED BY <1>3, <3>2 DEF Dies, TypeOK
  <2> QED BY <1>3, <2>1, <2>2 DEF Dies, TypeOK, Event, inspector, consumer
<1>4. CASE Removed(id)
  BY <1>4 DEF Removed, TypeOK, reader, inspector, consumer
<1> QED BY <1>2, <1>3, <1>4

\* Starting and stopping keeps them.
LEMMA StoppingTypes ==
  ASSUME TypeOK, TakesReset \/ RestartStops \/ ListenerStarts \/ ConsumerResets
  PROVE  TypeOK'
<1>1. CASE TakesReset
  BY <1>1, StartTypes DEF TakesReset, Stopped, TypeOK, Event, Update, Work, world
<1>2. CASE RestartStops
  BY <1>2, StartTypes DEF RestartStops, Stopped, TypeOK, Event, Update, Work, world, consumer
<1>3. CASE ListenerStarts
  BY <1>3 DEF ListenerStarts, TypeOK, world, inspector, consumer
<1>4. CASE ConsumerResets
  BY <1>4, ListenerAssumption DEF ConsumerResets, TypeOK, world, reader, inspector
<1> QED BY <1>1, <1>2, <1>3, <1>4

\* So does the reader.
LEMMA ReaderTypes ==
  ASSUME TypeOK, ListTaken \/ HearsEvent \/ ListingEnds \/ FollowsEvent \/ ReaderFails
  PROVE  TypeOK'
<1>0. events \in Seq(Event) /\ buf \in Seq(Update)
  BY DEF TypeOK, Event, Update
<1>1. CASE ListTaken
  BY <1>1 DEF ListTaken, TypeOK, world, inspector, consumer
<1>2. CASE HearsEvent
  <2>1. Head(events) \in Event /\ events' \in Seq(Event)
    BY <1>0, <1>2, Taken DEF HearsEvent
  <2>2. heard' \in Containers
    BY <1>2, <2>1 DEF HearsEvent, TypeOK, Event, Containers
  <2> QED BY <1>2, <2>1, <2>2 DEF HearsEvent, TypeOK, Event, world, inspector, consumer
<1>3. CASE ListingEnds
  <2> DEFINE update == [reset |-> TRUE, containers |->
                          [id \in Id |-> IF id \in FirstUpdate THEN TRUE ELSE Untouched]]
  <2>1. update \in Update
    BY DEF Update, Containers
  <2>2. buf' = Append(buf, update)
    BY <1>3 DEF ListingEnds
  <2>3. buf' \in Seq(Update)
    BY <1>0, <2>1, <2>2, Appended
  <2> QED BY <1>3, <2>3, StartTypes DEF ListingEnds, TypeOK, Update, world, inspector, consumer
<1>4. CASE FollowsEvent
  <2> DEFINE ev == Head(events)
             update == [reset |-> FALSE, containers |-> [Nothing EXCEPT ![ev.id] = ev.started]]
  <2>1. ev \in Event /\ events' \in Seq(Event)
    BY <1>0, <1>4, Taken DEF FollowsEvent
  <2>2. update \in Update
    BY <2>1 DEF Update, Containers, Nothing, Event
  <2>3. buf' = Append(buf, update)
    BY <1>4 DEF FollowsEvent
  <2>4. buf' \in Seq(Update)
    BY <1>0, <2>2, <2>3, Appended
  <2> QED BY <1>4, <2>1, <2>4 DEF FollowsEvent, TypeOK, Event, Update, world, inspector, consumer
<1>5. CASE ReaderFails
  BY <1>5, StartTypes, ListenerAssumption
  DEF ReaderFails, TypeOK, Event, world, inspector, consumer
<1> QED BY <1>1, <1>2, <1>3, <1>4, <1>5

\* So does the inspector, and so does what the consumer makes of its updates.
LEMMA InspectorTypes ==
  ASSUME TypeOK, TakesUpdate \/ (\E id \in Id : Inspects(id)) \/ InspectFails \/ Delivers
  PROVE  TypeOK'
<1>0. buf \in Seq(Update) /\ work \in Work
  BY DEF TypeOK, Update, Work
<1>1. CASE TakesUpdate
  <2>0. buf # <<>> /\ buf' = Tail(buf)
    BY <1>1 DEF TakesUpdate
  <2>1. buf' \in Seq(Update) /\ Head(buf) \in Update
    BY <1>0, <2>0, Taken
  <2>2. Head(buf).reset \in BOOLEAN
    BY <2>1 DEF Update
  <2>3. work' \in Work /\ announced' \subseteq Id
    BY <1>1, <2>2 DEF TakesUpdate, TypeOK, Work, Gone
  <2> QED BY <1>1, <2>1, <2>3 DEF TakesUpdate, TypeOK, Update, Work, world, reader, consumer
<1>2. CASE \E id \in Id : Inspects(id)
  <2>1. PICK id \in Id : Inspects(id)
    BY <1>2
  <2>2. work' \in Work /\ announced' \subseteq Id
    BY <1>0, <2>1 DEF Inspects, TypeOK, Work
  <2> QED BY <2>1, <2>2 DEF Inspects, TypeOK, Work, world, reader, consumer
<1>3. CASE InspectFails
  BY <1>3, StartTypes, ListenerAssumption
  DEF InspectFails, TypeOK, Work, world, reader, consumer
<1>4. CASE Delivers
  <2>1. heldNil' \in BOOLEAN
    BY <1>4 DEF Delivers, TypeOK
  <2>2. held' \in [Id -> Details \cup {None}]
    BY <1>0, <1>4 DEF Delivers, TypeOK, Work, AfterReset, AfterUpdate
  <2> QED BY <1>4, <2>1, <2>2, StartTypes DEF Delivers, TypeOK, Work, world, reader
<1> QED BY <1>1, <1>2, <1>3, <1>4

\* Every step keeps the types.
LEMMA StepTypes == TypeOK /\ [Next]_vars => TypeOK'
<1>1. TypeOK /\ Next => TypeOK'
  BY WorldTypes, StoppingTypes, ReaderTypes, InspectorTypes DEF Next, Listener
<1>2. TypeOK /\ UNCHANGED vars => TypeOK'
  BY DEF TypeOK, vars, world, reader, inspector, consumer
<1> QED BY <1>1, <1>2

-----------------------------------------------------------------------------
(***************************************************************************)
(* The queues: what is said in them after one is added to, or taken from.  *)
(***************************************************************************)
\* An event that tells how its container is now keeps the events ending true.
LEMMA EventQueued ==
  ASSUME TypeOK, EventsEndTrue, NEW e \in Event, events' = Append(events, e),
         Running'[e.id] = e.started,
         \A id \in Id : id # e.id => Running'[id] = Running[id]
  PROVE  /\ EventsEndTrue'
         /\ \A id \in Id : InEvents(id)' <=> InEvents(id) \/ id = e.id
         /\ \A id \in Id, b \in BOOLEAN :
              EventSays(id, b)' <=> EventSays(id, b) \/ (id = e.id /\ e.started = b)
<1> DEFINE n == Len(events)
<1>1. /\ n \in Nat /\ DOMAIN events = 1 .. n /\ DOMAIN events' = 1 .. n + 1
      /\ \A i \in 1 .. n : events'[i] = events[i]
      /\ events'[n + 1] = e
  BY Appended DEF TypeOK, Event
<1> HIDE DEF n
<1>2. \A i \in 1 .. n : events[i] \in Event
  <2>1. events \in Seq(Event)
    BY DEF TypeOK, Event
  <2> QED BY <2>1, ElementOfSeq DEF n
<1>3. EventsEndTrue'
  <2> SUFFICES ASSUME NEW i \in 1 .. n + 1
               PROVE  \E j \in 1 .. n + 1 :
                        /\ j >= i /\ events'[j].id = events'[i].id
                        /\ events'[j].started = Running'[events'[i].id]
    <3>1. DOMAIN events' = 1 .. n + 1
      BY <1>1
    <3> QED BY <3>1 DEF EventsEndTrue
  <2>1. CASE events'[i].id = e.id
    BY <1>1, <2>1
  <2>2. CASE events'[i].id # e.id
    <3>1. i \in 1 .. n /\ events[i].id # e.id
      BY <1>1, <2>2
    <3>2. PICK j \in 1 .. n : /\ j >= i /\ events[j].id = events[i].id
                              /\ events[j].started = Running[events[i].id]
      BY <1>1, <3>1 DEF EventsEndTrue
    <3>3. events[i].id \in Id
      BY <1>2, <3>1 DEF Event
    <3>4. Running'[events[i].id] = Running[events[i].id]
      BY <3>1, <3>3
    <3> QED BY <1>1, <3>1, <3>2, <3>4
  <2> QED BY <2>1, <2>2
<1>4. \A id \in Id : InEvents(id)' <=> InEvents(id) \/ id = e.id
  BY <1>1 DEF InEvents
<1>5. \A id \in Id, b \in BOOLEAN :
        EventSays(id, b)' <=> EventSays(id, b) \/ (id = e.id /\ e.started = b)
  BY <1>1 DEF EventSays
<1> QED BY <1>3, <1>4, <1>5

\* The event that is taken was the first; those that follow it still end true.
LEMMA EventTaken ==
  ASSUME TypeOK, EventsEndTrue, events # <<>>, events' = Tail(events), Running' = Running
  PROVE  /\ EventsEndTrue' /\ Head(events) \in Event
         /\ \A id \in Id : InEvents(id) <=> InEvents(id)' \/ id = Head(events).id
         /\ \A id \in Id, b \in BOOLEAN :
              EventSays(id, b) <=>
                EventSays(id, b)' \/ (id = Head(events).id /\ Head(events).started = b)
         /\ \A id \in Id : id = Head(events).id /\ ~InEvents(id)' => Head(events).started = Running[id]
<1> DEFINE n == Len(events)
<1>0. events \in Seq(Event)
  BY DEF TypeOK, Event
<1>1. /\ n \in Nat /\ n > 0 /\ DOMAIN events = 1 .. n /\ DOMAIN events' = 1 .. n - 1
      /\ \A i \in 1 .. n - 1 : events'[i] = events[i + 1]
      /\ Head(events) = events[1] /\ Head(events) \in Event
  BY <1>0, Taken
<1> HIDE DEF n
<1>2. \A i \in 2 .. n : events'[i - 1] = events[i]
  <2> TAKE i \in 2 .. n
  <2>1. i - 1 \in 1 .. n - 1 /\ (i - 1) + 1 = i
    BY <1>1
  <2> QED BY <1>1, <2>1
<1>3. EventsEndTrue'
  <2> SUFFICES ASSUME NEW i \in 1 .. n - 1
               PROVE  \E j \in 1 .. n - 1 :
                        /\ j >= i /\ events'[j].id = events'[i].id
                        /\ events'[j].started = Running[events'[i].id]
    <3>1. DOMAIN events' = 1 .. n - 1
      BY <1>1
    <3> QED BY <3>1 DEF EventsEndTrue
  <2>1. PICK j \in 1 .. n : /\ j >= i + 1 /\ events[j].id = events[i + 1].id
                            /\ events[j].started = Running[events[i + 1].id]
    <3>1. i + 1 \in DOMAIN events /\ DOMAIN events = 1 .. n
      BY <1>1
    <3> QED BY <3>1 DEF EventsEndTrue
  <2>2. events'[j - 1] = events[j]
    <3>1. j \in 2 .. n
      BY <1>1, <2>1
    <3> QED BY <1>2, <3>1
  <2>3. j - 1 \in 1 .. n - 1 /\ j - 1 >= i
    BY <1>1, <2>1
  <2>4. events'[i] = events[i + 1]
    BY <1>1
  <2> QED BY <2>1, <2>2, <2>3, <2>4
<1>d. DOMAIN events = 1 .. n /\ DOMAIN events' = 1 .. n - 1
  BY <1>1
<1>4. \A id \in Id : InEvents(id) <=> InEvents(id)' \/ id = Head(events).id
  <2> TAKE id \in Id
  <2>1. ASSUME InEvents(id), id # Head(events).id PROVE InEvents(id)'
    <3>1. PICK i \in 1 .. n : events[i].id = id
      BY <1>d, <2>1 DEF InEvents
    <3>2. i - 1 \in 1 .. n - 1 /\ events'[i - 1] = events[i]
      BY <1>1, <1>2, <2>1, <3>1
    <3> QED BY <1>d, <3>1, <3>2 DEF InEvents
  <2>2. ASSUME InEvents(id)' PROVE InEvents(id)
    <3>1. PICK i \in 1 .. n - 1 : events'[i].id = id
      BY <1>d, <2>2 DEF InEvents
    <3>2. i + 1 \in 1 .. n /\ events[i + 1].id = id
      BY <1>1, <3>1
    <3> QED BY <1>d, <3>2 DEF InEvents
  <2>3. InEvents(Head(events).id)
    BY <1>1 DEF InEvents
  <2> QED BY <2>1, <2>2, <2>3
<1>5. \A id \in Id, b \in BOOLEAN :
        EventSays(id, b) <=>
          EventSays(id, b)' \/ (id = Head(events).id /\ Head(events).started = b)
  <2> TAKE id \in Id, b \in BOOLEAN
  <2>1. ASSUME EventSays(id, b), ~(id = Head(events).id /\ Head(events).started = b)
        PROVE  EventSays(id, b)'
    <3>1. PICK i \in 1 .. n : events[i].id = id /\ events[i].started = b
      BY <1>d, <2>1 DEF EventSays
    <3>2. i - 1 \in 1 .. n - 1 /\ events'[i - 1] = events[i]
      BY <1>1, <1>2, <2>1, <3>1
    <3> QED BY <1>d, <3>1, <3>2 DEF EventSays
  <2>2. ASSUME EventSays(id, b)' PROVE EventSays(id, b)
    <3>1. PICK i \in 1 .. n - 1 : events'[i].id = id /\ events'[i].started = b
      BY <1>d, <2>2 DEF EventSays
    <3>2. i + 1 \in 1 .. n /\ events[i + 1].id = id /\ events[i + 1].started = b
      BY <1>1, <3>1
    <3> QED BY <1>d, <3>2 DEF EventSays
  <2>3. EventSays(Head(events).id, Head(events).started)
    BY <1>1 DEF EventSays
  <2> QED BY <2>1, <2>2, <2>3
<1>6. ASSUME NEW id \in Id, id = Head(events).id, ~InEvents(id)'
      PROVE  Head(events).started = Running[id]
  <2>1. PICK j \in 1 .. n : /\ events[j].id = events[1].id
                            /\ events[j].started = Running[events[1].id]
    <3>1. 1 \in DOMAIN events
      BY <1>1
    <3> QED BY <1>d, <3>1 DEF EventsEndTrue
  <2>2. ASSUME j # 1 PROVE FALSE
    <3>1. j \in 2 .. n
      BY <1>1, <2>1, <2>2
    <3>2. j - 1 \in 1 .. n - 1
      BY <1>1, <3>1
    <3>3. events'[j - 1].id = id
      BY <1>1, <1>2, <1>6, <2>1, <3>1
    <3> QED BY <1>d, <1>6, <3>2, <3>3 DEF InEvents
  <2> QED BY <1>1, <1>6, <2>1, <2>2
<1> QED BY <1>1, <1>3, <1>4, <1>5, <1>6

\* While there are events about a container, one says how it is.
LEMMA EventsTell ==
  ASSUME TypeOK, EventsEndTrue, NEW id \in Id, InEvents(id)
  PROVE  EventSays(id, Running[id])
BY DEF EventsEndTrue, InEvents, EventSays

\* What an update at the end of the buffer adds to it.
LEMMA UpdateQueued ==
  ASSUME TypeOK, NEW u \in Update, buf' = Append(buf, u)
  PROVE  /\ \A id \in Id, b \in BOOLEAN :
              BufSays(id, b)' <=> BufSays(id, b) \/ u.containers[id] = b
         /\ BufEndsTrue /\ Running' = Running
            /\ (\A id \in Id : InEvents(id) => InEvents(id)' \/ u.containers[id] # Untouched)
            /\ (\A id \in Id : u.containers[id] # Untouched =>
                                 InEvents(id)' \/ u.containers[id] = Running[id])
            => BufEndsTrue'
<1> DEFINE n == Len(buf)
<1>1. /\ n \in Nat /\ DOMAIN buf = 1 .. n /\ DOMAIN buf' = 1 .. n + 1
      /\ \A i \in 1 .. n : buf'[i] = buf[i]
      /\ buf'[n + 1] = u
  BY Appended DEF TypeOK, Update
<1> HIDE DEF n
<1>3. \A id \in Id, b \in BOOLEAN : BufSays(id, b)' <=> BufSays(id, b) \/ u.containers[id] = b
  BY <1>1 DEF BufSays
<1>4. ASSUME BufEndsTrue, Running' = Running,
             \A id \in Id : InEvents(id) => InEvents(id)' \/ u.containers[id] # Untouched,
             \A id \in Id : u.containers[id] # Untouched =>
                              InEvents(id)' \/ u.containers[id] = Running[id]
      PROVE  BufEndsTrue'
  <2> SUFFICES ASSUME NEW id \in Id, NEW i \in 1 .. n + 1,
                      buf'[i].containers[id] # Untouched, ~InEvents(id)'
               PROVE  \E j \in 1 .. n + 1 : j >= i /\ buf'[j].containers[id] = Running[id]
    BY <1>1, <1>4 DEF BufEndsTrue
  <2>1. CASE u.containers[id] # Untouched
    BY <1>1, <1>4, <2>1
  <2>2. CASE u.containers[id] = Untouched
    <3>1. i \in 1 .. n /\ buf[i].containers[id] # Untouched /\ ~InEvents(id)
      BY <1>1, <1>4, <2>2
    <3>2. PICK j \in 1 .. n : j >= i /\ buf[j].containers[id] = Running[id]
      BY <1>1, <1>4, <3>1 DEF BufEndsTrue
    <3> QED BY <1>1, <3>2
  <2> QED BY <2>1, <2>2
<1> QED BY <1>3, <1>4

\* The update that is taken was the first; those that follow it still end true.
LEMMA UpdateTaken ==
  ASSUME TypeOK, buf # <<>>, buf' = Tail(buf), Running' = Running, events' = events
  PROVE  /\ Head(buf) \in Update
         /\ \A id \in Id, b \in BOOLEAN :
              BufSays(id, b) <=> BufSays(id, b)' \/ Head(buf).containers[id] = b
         /\ BufEndsTrue => BufEndsTrue'
         /\ BufEndsTrue => \A id \in Id :
              Head(buf).containers[id] # Untouched =>
                \/ InEvents(id)
                \/ Head(buf).containers[id] = Running[id]
                \/ BufSays(id, Running[id])'
<1> DEFINE n == Len(buf)
<1>0. buf \in Seq(Update)
  BY DEF TypeOK, Update
<1>1. /\ n \in Nat /\ n > 0 /\ DOMAIN buf = 1 .. n /\ DOMAIN buf' = 1 .. n - 1
      /\ \A i \in 1 .. n - 1 : buf'[i] = buf[i + 1]
      /\ Head(buf) = buf[1] /\ Head(buf) \in Update
  BY <1>0, Taken
<1> HIDE DEF n
<1>2. \A i \in 2 .. n : buf'[i - 1] = buf[i]
  <2> TAKE i \in 2 .. n
  <2>1. i - 1 \in 1 .. n - 1 /\ (i - 1) + 1 = i
    BY <1>1
  <2> QED BY <1>1, <2>1
<1>d. DOMAIN buf = 1 .. n /\ DOMAIN buf' = 1 .. n - 1
  BY <1>1
<1>4. \A id \in Id, b \in BOOLEAN :
        BufSays(id, b) <=> BufSays(id, b)' \/ Head(buf).containers[id] = b
  <2> TAKE id \in Id, b \in BOOLEAN
  <2>1. ASSUME BufSays(id, b), Head(buf).containers[id] # b
        PROVE  BufSays(id, b)'
    <3>1. PICK i \in 1 .. n : buf[i].containers[id] = b
      BY <1>d, <2>1 DEF BufSays
    <3>2. i - 1 \in 1 .. n - 1 /\ buf'[i - 1] = buf[i]
      BY <1>1, <1>2, <2>1, <3>1
    <3> QED BY <1>d, <3>1, <3>2 DEF BufSays
  <2>2. ASSUME BufSays(id, b)' PROVE BufSays(id, b)
    <3>1. PICK i \in 1 .. n - 1 : buf'[i].containers[id] = b
      BY <1>d, <2>2 DEF BufSays
    <3>2. i + 1 \in 1 .. n /\ buf[i + 1].containers[id] = b
      BY <1>1, <3>1
    <3> QED BY <1>d, <3>2 DEF BufSays
  <2>3. BufSays(id, Head(buf).containers[id])
    BY <1>1 DEF BufSays
  <2> QED BY <2>1, <2>2, <2>3
<1>5. ASSUME BufEndsTrue PROVE BufEndsTrue'
  <2> SUFFICES ASSUME NEW id \in Id, NEW i \in 1 .. n - 1,
                      buf'[i].containers[id] # Untouched, ~InEvents(id)
               PROVE  \E j \in 1 .. n - 1 : j >= i /\ buf'[j].containers[id] = Running[id]
    BY <1>d DEF BufEndsTrue, InEvents
  <2>1. PICK j \in 1 .. n : j >= i + 1 /\ buf[j].containers[id] = Running[id]
    <3>1. i + 1 \in 1 .. n /\ buf[i + 1].containers[id] # Untouched
      BY <1>1
    <3> QED BY <1>d, <1>5, <3>1 DEF BufEndsTrue
  <2>2. buf'[j - 1] = buf[j]
    <3>1. j \in 2 .. n
      BY <1>1, <2>1
    <3> QED BY <1>2, <3>1
  <2>3. j - 1 \in 1 .. n - 1 /\ j - 1 >= i
    BY <1>1, <2>1
  <2> QED BY <2>1, <2>2, <2>3
<1>6. ASSUME BufEndsTrue, NEW id \in Id, Head(buf).containers[id] # Untouched, ~InEvents(id),
             Head(buf).containers[id] # Running[id]
      PROVE  BufSays(id, Running[id])'
  <2>1. PICK j \in 1 .. n : buf[j].containers[id] = Running[id]
    BY <1>1, <1>6 DEF BufEndsTrue
  <2>2. j \in 2 .. n
    BY <1>1, <1>6, <2>1
  <2>3. j - 1 \in 1 .. n - 1 /\ buf'[j - 1].containers[id] = Running[id]
    BY <1>1, <1>2, <2>1, <2>2
  <2> QED BY <1>d, <2>3 DEF BufSays
<1> QED BY <1>1, <1>4, <1>5, <1>6

-----------------------------------------------------------------------------
(***************************************************************************)
(* The invariant, step by step.                                            *)
(***************************************************************************)
\* Nothing is on its way when the listener has not been started.
LEMMA InitInv == Init => ListenerInv
<1> SUFFICES ASSUME Init PROVE ListenerInv
  OBVIOUS
<1>1. TypeOK
  <2>0. [start |-> 0, running |-> TRUE] \in Details
    BY ListenerAssumption DEF Details
  <2>1. docker \in [Id -> Details \cup {None}]
    BY <2>0 DEF Init
  <2> QED BY <2>1, StartTypes, ListenerAssumption DEF Init, TypeOK, Event, Update, Work
<1>2. Stages
  BY ListenerAssumption DEF Init, Stages, NoWork, Nothing
<1> QED BY <1>1, <1>2 DEF Init, ListenerInv, Announced, Serving, Listing, Following, Going

\* Whoever stops the listener makes it start again from nothing.
LEMMA StoppedInv ==
  ASSUME ListenerInv, TypeOK', Stopped
  PROVE  ListenerInv'
<1>1. Stages'
  BY ListenerAssumption DEF Stopped, Stages, NoWork, Nothing
<1> QED BY <1>1 DEF Stopped, ListenerInv, Announced, Serving, Listing, Following, Going

\* What the inspector knows stays right when the reader and Docker move on.
LEMMA AnnouncedKept ==
  ASSUME Announced, UNCHANGED <<pc, Fresh, work, announced, heldNil, held>>, down \subseteq down'
  PROVE  Announced'
BY DEF Announced, Serving, Hold, AfterReset, AfterUpdate

\* A listener that is started has heard nothing, and listed nothing.
LEMMA ListenerStartsInv ==
  ASSUME ListenerInv, TypeOK', ListenerStarts
  PROVE  ListenerInv'
<1>1. Stages'
  BY DEF ListenerInv, ListenerStarts, Stages, world, inspector, consumer, NoWork, Nothing
<1>2. Announced' /\ Following'
  BY DEF ListenerStarts, Announced, Serving, Following
<1>3. Listing'
  BY DEF ListenerInv, ListenerStarts, Stages, Listing, world, consumer, Nothing,
         EventsEndTrue, InEvents
<1> QED BY <1>1, <1>2, <1>3 DEF ListenerInv

\* A step of Docker's that tells the listener of it, if it listens.
LEMMA NotifiedInv ==
  ASSUME ListenerInv, TypeOK', NEW id \in Id, NEW b \in BOOLEAN, Notify(id, b),
         Running'[id] = b,
         \A other \in Id : other # id => /\ Running'[other] = Running[other]
                                         /\ Truth'[other] = Truth[other],
         b => ~Running[id],
         ~b => Truth'[id] = None,
         UNCHANGED <<pc, heard, list, down, buf, work, announced, heldNil, held, asked>>
  PROVE  ListenerInv'
<1> DEFINE e == [id |-> id, started |-> b]
<1>0. e \in Event /\ e.id = id /\ e.started = b /\ Running \in [Id -> BOOLEAN]
  BY RunningType DEF Event, ListenerInv
<1> HIDE DEF e
<1>1. Stages'
  BY DEF ListenerInv, Notify, Attached, Stages
<1>2. Announced'
  BY AnnouncedKept DEF ListenerInv, Fresh
<1>3. ASSUME Going', pc \in {"listing", "following"}
      PROVE  events' = Append(events, e) /\ Going
  BY <1>3 DEF Notify, Attached, Going, e
<1>4. ASSUME Going', pc \in {"listing", "following"}
      PROVE  /\ EventsEndTrue'
             /\ \A c \in Id : InEvents(c)' <=> InEvents(c) \/ c = id
             /\ \A c \in Id, d \in BOOLEAN :
                  EventSays(c, d)' <=> EventSays(c, d) \/ (c = id /\ b = d)
  <2>1. events' = Append(events, e) /\ EventsEndTrue /\ TypeOK
    BY <1>3, <1>4 DEF ListenerInv, Listing, Following
  <2>2. /\ Running'[e.id] = e.started
        /\ \A c \in Id : c # e.id => Running'[c] = Running[c]
    BY <1>0
  <2> QED BY <1>0, <2>1, <2>2, EventQueued
<1>5. Listing'
  <2> SUFFICES ASSUME Going', pc = "listing" PROVE Listing'
    BY DEF Listing
  <2> QED BY <1>3, <1>4 DEF ListenerInv, Listing
<1>6. Following'
  <2> SUFFICES ASSUME Going', pc = "following" PROVE Following'
    BY DEF Following
  <2>1. /\ EventsEndTrue' /\ Going
        /\ \A c \in Id : InEvents(c)' <=> InEvents(c) \/ c = id
        /\ \A c \in Id, d \in BOOLEAN :
             EventSays(c, d)' <=> EventSays(c, d) \/ (c = id /\ b = d)
    BY <1>3, <1>4
  <2>2. /\ BufEndsTrue
        /\ \A c \in work.todo : DeathComing(c) \/ Running[c]
        /\ Fresh  => \A c \in Id : Running[c] => StartComing(c)
        /\ ~Fresh => (~heldNil \/ work.reset) /\ \A c \in Id : Settling(c)
    BY <2>1 DEF ListenerInv, Following
  <2>3. BufEndsTrue'
    BY <2>1, <2>2 DEF BufEndsTrue
  <2>4. \A c \in Id : /\ DeathComing(c)' <=> DeathComing(c) \/ (c = id /\ b = FALSE)
                      /\ StartComing(c)' <=> StartComing(c) \/ (c = id /\ b = TRUE)
                      /\ Hold(c)' = Hold(c)
    BY <2>1 DEF DeathComing, StartComing, BufSays, Hold, AfterReset, AfterUpdate
  <2>5. \A c \in work.todo : DeathComing(c)' \/ Running'[c]
    <3>1. work.todo \subseteq Id
      BY DEF ListenerInv, TypeOK
    <3> QED BY <2>2, <2>4, <3>1
  <2>6. Fresh' <=> Fresh
    BY DEF Fresh
  <2>7. Fresh => \A c \in Id : Running'[c] => StartComing(c)'
    BY <2>2, <2>4
  <2>8. ~Fresh => \A c \in Id : Settling(c)'
    <3> SUFFICES ASSUME ~Fresh, NEW c \in Id PROVE Settling(c)'
      OBVIOUS
    <3>1. Settling(c)
      BY <2>2
    <3>2. CASE c # id
      BY <2>4, <3>1, <3>2 DEF Settling
    <3>3. CASE c = id /\ b = FALSE
      BY <2>4, <3>3 DEF Settling
    <3>4. CASE c = id /\ b = TRUE
      <4>1. Truth[c] = None
        BY <3>4 DEF Truth, Running
      <4> QED BY <2>4, <3>1, <3>4, <4>1 DEF Settling
    <3> QED BY <3>2, <3>3, <3>4
  <2> QED BY <2>1, <2>2, <2>3, <2>5, <2>6, <2>7, <2>8 DEF Following
<1> QED BY <1>1, <1>2, <1>5, <1>6 DEF ListenerInv

\* A container starts: its start is on its way.
LEMMA StartsInv ==
  ASSUME ListenerInv, NEW id \in Id, Starts(id)
  PROVE  ListenerInv'
<1>1. TypeOK'
  BY WorldTypes DEF ListenerInv
<1>2. docker' = [docker EXCEPT ![id] = [start |-> starts + 1, running |-> TRUE]]
  BY DEF Starts
<1>3. docker'[id] # None /\ docker'[id].running
  <2>1. starts + 1 \in Nat /\ docker'[id] = [start |-> starts + 1, running |-> TRUE]
    BY <1>2 DEF ListenerInv, TypeOK
  <2>2. [start |-> starts + 1, running |-> TRUE] \in [start : Nat, running : BOOLEAN]
    BY <2>1
  <2>3. docker'[id] # None
    BY <2>1, <2>2, DetailsAreThere
  <2> QED BY <2>1, <2>3
<1>4. Running'[id] = TRUE /\ Running[id] = FALSE
  BY <1>3 DEF Running, IsRunning, Starts
<1>5. \A other \in Id : other # id =>
        Running'[other] = Running[other] /\ Truth'[other] = Truth[other]
  BY <1>2 DEF Running, IsRunning, Truth, ListenerInv, TypeOK
<1>6. Notify(id, TRUE) /\ UNCHANGED <<pc, heard, list, down, buf, work, announced, heldNil, held, asked>>
  BY DEF Starts, inspector, consumer
<1> QED BY <1>1, <1>4, <1>5, <1>6, NotifiedInv

\* A container dies: its death is on its way.
LEMMA DiesInv ==
  ASSUME ListenerInv, NEW id \in Id, Dies(id)
  PROVE  ListenerInv'
<1>1. TypeOK'
  BY WorldTypes DEF ListenerInv
<1>2. docker' = [docker EXCEPT ![id] = [docker[id] EXCEPT !.running = FALSE]]
  BY DEF Dies
<1>3. docker[id] \in Details
  BY DEF Dies, IsRunning, ListenerInv, TypeOK
<1>4. ~docker'[id].running
  BY <1>2, <1>3 DEF Details, ListenerInv, TypeOK
<1>5. Running'[id] = FALSE /\ Truth'[id] = None
  BY <1>4 DEF Running, IsRunning, Truth
<1>6. \A other \in Id : other # id =>
        Running'[other] = Running[other] /\ Truth'[other] = Truth[other]
  BY <1>2 DEF Running, IsRunning, Truth, ListenerInv, TypeOK
<1>7. Notify(id, FALSE) /\ UNCHANGED <<pc, heard, list, down, buf, work, announced, heldNil, held, asked>>
  BY DEF Dies, inspector, consumer
<1> QED BY <1>1, <1>5, <1>6, <1>7, NotifiedInv

\* Removing a container that is not running changes nothing of this.
LEMMA RemovedInv ==
  ASSUME ListenerInv, NEW id \in Id, Removed(id)
  PROVE  ListenerInv'
<1>1. TypeOK'
  BY WorldTypes DEF ListenerInv
<1>2. Running' = Running /\ Truth' = Truth
  BY DEF Removed, Running, IsRunning, Truth, ListenerInv, TypeOK
<1>3. UNCHANGED <<pc, events, heard, list, down, buf, work, announced, heldNil, held, asked>>
  BY DEF Removed, reader, inspector, consumer
<1>4. Stages' /\ Announced'
  BY <1>3, AnnouncedKept DEF ListenerInv, Stages, Fresh
<1>5. Listing'
  BY <1>2, <1>3 DEF ListenerInv, Listing, Going, EventsEndTrue, InEvents
<1>6. Following'
  BY <1>2, <1>3 DEF ListenerInv, Following, Going, EventsEndTrue, BufEndsTrue, InEvents,
     DeathComing, StartComing, EventSays, BufSays, Fresh, Settling, Hold, AfterReset, AfterUpdate
<1> QED BY <1>1, <1>4, <1>5, <1>6 DEF ListenerInv

\* The list that is taken is the truth.
LEMMA ListTakenInv ==
  ASSUME ListenerInv, ListTaken
  PROVE  ListenerInv'
<1>1. TypeOK'
  BY ReaderTypes DEF ListenerInv
<1>2. /\ UNCHANGED <<docker, pc, events, heard, down, buf, work, announced, heldNil, held, asked>>
      /\ pc = "listing" /\ list' = {id \in Id : IsRunning(id)}
  BY DEF ListTaken, Reading, world, inspector, consumer
<1>3. Stages' /\ Announced'
  BY <1>2, AnnouncedKept DEF ListenerInv, Stages, Fresh
<1>4. Listing'
  <2>1. Running' = Running /\ \A id \in Id : id \in list' <=> Running[id]
    BY <1>2 DEF Running, IsRunning
  <2> QED BY <1>2, <2>1 DEF ListenerInv, Listing, Going, EventsEndTrue, InEvents
<1>5. Following'
  BY <1>2 DEF Following
<1> QED BY <1>1, <1>3, <1>4, <1>5 DEF ListenerInv

\* What is heard while listing is the truth unless there are more events about it.
LEMMA HearsEventInv ==
  ASSUME ListenerInv, HearsEvent
  PROVE  ListenerInv'
<1>1. TypeOK'
  BY ReaderTypes DEF ListenerInv
<1>2. /\ UNCHANGED <<docker, pc, list, down, buf, work, announced, heldNil, held, asked>>
      /\ pc = "listing" /\ events # <<>> /\ events' = Tail(events)
      /\ heard' = [heard EXCEPT ![Head(events).id] = Head(events).started]
  BY DEF HearsEvent, Reading, world, inspector, consumer
<1>3. Stages' /\ Announced'
  BY <1>2, AnnouncedKept DEF ListenerInv, Stages, Fresh
<1>4. Listing'
  <2> SUFFICES ASSUME Going PROVE Listing'
    BY <1>2 DEF Listing, Going
  <2>1. Running' = Running
    BY <1>2 DEF Running, IsRunning
  <2>2. /\ EventsEndTrue
        /\ \A id \in Id : ~InEvents(id) =>
             /\ heard[id] # Untouched => heard[id] = Running[id]
             /\ heard[id] = Untouched /\ list # None => (id \in list <=> Running[id])
    BY <1>2 DEF ListenerInv, Listing
  <2>3. /\ EventsEndTrue' /\ Head(events) \in Event
        /\ \A id \in Id : InEvents(id) <=> InEvents(id)' \/ id = Head(events).id
        /\ \A id \in Id : id = Head(events).id /\ ~InEvents(id)' => Head(events).started = Running[id]
    BY <1>2, <2>1, <2>2, EventTaken DEF ListenerInv
  <2>4. ASSUME NEW id \in Id, ~InEvents(id)'
        PROVE  /\ heard'[id] # Untouched => heard'[id] = Running[id]
               /\ heard'[id] = Untouched /\ list # None => (id \in list <=> Running[id])
    <3>1. heard \in [Id -> BOOLEAN \cup {Untouched}]
      BY DEF ListenerInv, TypeOK, Containers
    <3>2. CASE id = Head(events).id
      <4>1. heard'[id] = Running[id] /\ heard'[id] \in BOOLEAN
        BY <1>2, <2>3, <2>4, <3>1, <3>2 DEF Event
      <4> QED BY <4>1, ListenerAssumption
    <3>3. CASE id # Head(events).id
      <4>1. heard'[id] = heard[id] /\ ~InEvents(id)
        BY <1>2, <2>3, <2>4, <3>1, <3>3
      <4> QED BY <2>2, <4>1
    <3> QED BY <3>2, <3>3
  <2> QED BY <1>2, <2>1, <2>3, <2>4 DEF Listing
<1>5. Following'
  BY <1>2 DEF Following
<1> QED BY <1>1, <1>3, <1>4, <1>5 DEF ListenerInv

\* The first update lists what is running, but for what is in the events.
LEMMA ListingEndsInv ==
  ASSUME ListenerInv, ListingEnds
  PROVE  ListenerInv'
<1> DEFINE u == [reset |-> TRUE, containers |->
                   [id \in Id |-> IF id \in FirstUpdate THEN TRUE ELSE Untouched]]
<1>1. TypeOK'
  BY ReaderTypes DEF ListenerInv
<1>2. /\ UNCHANGED <<docker, events, down, work, announced, heldNil, held, asked>>
      /\ pc = "listing" /\ pc' = "following" /\ list # None
      /\ buf' = Append(buf, u)
  BY DEF ListingEnds, Reading, world, inspector, consumer
<1>3. /\ u \in Update /\ u.reset = TRUE
      /\ \A id \in Id : u.containers[id] = IF id \in FirstUpdate THEN TRUE ELSE Untouched
  BY DEF Update, Containers
<1>4. buf = <<>> /\ work = NoWork /\ announced = {}
  BY <1>2 DEF ListenerInv, Stages
<1> HIDE DEF u
<1>5. buf' # <<>> /\ DOMAIN buf' = 1 .. 1 /\ buf'[1] = u /\ Head(buf') = u
  <2>1. buf \in Seq(Update) /\ Len(buf) = 0
    BY <1>4, StartTypes DEF ListenerInv, TypeOK, Update
  <2>2. buf' \in Seq(Update) /\ buf' # <<>> /\ DOMAIN buf' = 1 .. 1 /\ buf'[1] = u
    BY <1>2, <1>3, <2>1, Appended
  <2> QED BY <2>2, Taken
<1>6. Stages'
  <2>1. \A id \in Id : u.containers[id] # FALSE
    BY <1>3, ListenerAssumption
  <2>2. \A i \in DOMAIN buf' : i = 1 /\ buf'[i] = u
    BY <1>5
  <2>3. ~NoWork.busy /\ NoWork.todo = {} /\ ~NoWork.reset /\ work' = NoWork
    BY <1>2, <1>4 DEF NoWork
  <2> HIDE DEF u
  <2> QED BY <1>2, <2>1, <2>2, <2>3 DEF Stages
<1>7. Fresh'
  BY <1>3, <1>5 DEF Fresh
<1>8. Announced' /\ Listing'
  BY <1>2, <1>7 DEF Announced, Serving, Listing
<1>9. Following'
  <2> SUFFICES ASSUME Going PROVE Following'
    BY <1>2 DEF Following, Going
  <2>1. Running' = Running /\ Running \in [Id -> BOOLEAN]
    BY <1>2, RunningType DEF Running, IsRunning, ListenerInv
  <2>2. /\ EventsEndTrue
        /\ \A id \in Id : ~InEvents(id) =>
             /\ heard[id] # Untouched => heard[id] = Running[id]
             /\ heard[id] = Untouched => (id \in list <=> Running[id])
    BY <1>2 DEF ListenerInv, Listing
  <2>3. \A id \in Id : ~InEvents(id) => (id \in FirstUpdate <=> Running[id] = TRUE)
    <3> TAKE id \in Id
    <3> HAVE ~InEvents(id)
    <3>1. CASE heard[id] = Untouched
      BY <2>1, <2>2, <3>1, ListenerAssumption DEF FirstUpdate
    <3>2. CASE heard[id] # Untouched
      BY <2>1, <2>2, <3>2 DEF FirstUpdate
    <3> QED BY <3>1, <3>2
  <2>4. EventsEndTrue' /\ \A id \in Id : InEvents(id)' <=> InEvents(id)
    BY <1>2, <2>1, <2>2 DEF EventsEndTrue, InEvents
  <2>5. BufEndsTrue'
    <3> SUFFICES ASSUME NEW id \in Id, buf'[1].containers[id] # Untouched, ~InEvents(id)'
                 PROVE  buf'[1].containers[id] = Running[id]
      BY <1>5, <2>1 DEF BufEndsTrue
    <3>1. u.containers[id] # Untouched /\ ~InEvents(id)
      BY <1>5, <2>4
    <3>2. u.containers[id] = TRUE /\ Running[id] = TRUE
      BY <1>3, <2>3, <3>1
    <3> QED BY <1>5, <3>2
  <2>6. work'.todo = {}
    BY <1>2, <1>4 DEF NoWork
  <2>7. ASSUME NEW id \in Id, Running[id] PROVE StartComing(id)'
    <3>1. CASE InEvents(id)
      <4>1. EventSays(id, TRUE)
        BY <2>1, <2>2, <2>7, <3>1, EventsTell DEF ListenerInv
      <4> QED BY <1>2, <4>1 DEF StartComing, EventSays
    <3>2. CASE ~InEvents(id)
      <4>1. buf'[1].containers[id] = TRUE
        <5>1. id \in FirstUpdate
          BY <2>1, <2>3, <2>7, <3>2
        <5> QED BY <1>3, <1>5, <5>1
      <4>2. 1 \in DOMAIN buf'
        BY <1>5
      <4> QED BY <4>1, <4>2 DEF StartComing, BufSays
    <3> QED BY <3>1, <3>2
  <2> QED BY <1>7, <2>1, <2>4, <2>5, <2>6, <2>7 DEF Following
<1> QED BY <1>1, <1>6, <1>8, <1>9 DEF ListenerInv

\* An event that is passed on is said in the buffer instead.
LEMMA FollowsEventInv ==
  ASSUME ListenerInv, FollowsEvent
  PROVE  ListenerInv'
<1> DEFINE ev == Head(events)
           u == [reset |-> FALSE, containers |-> [Nothing EXCEPT ![ev.id] = ev.started]]
<1>1. TypeOK'
  BY ReaderTypes DEF ListenerInv
<1>2. /\ UNCHANGED <<docker, pc, heard, list, down, work, announced, heldNil, held, asked>>
      /\ pc = "following" /\ events # <<>> /\ events' = Tail(events)
      /\ buf' = Append(buf, u)
  BY DEF FollowsEvent, Reading, world, inspector, consumer
<1>3. ev \in Event
  <2>1. events \in Seq(Event)
    BY DEF ListenerInv, TypeOK, Event
  <2> QED BY <1>2, <2>1, Taken
<1>4. /\ u \in Update /\ u.reset = FALSE
      /\ \A id \in Id : u.containers[id] = IF id = ev.id THEN ev.started ELSE Untouched
  BY <1>3 DEF Update, Containers, Nothing, Event
<1>5. ev.id \in Id /\ ev.started \in BOOLEAN /\ ev.started # Untouched
  BY <1>3, ListenerAssumption DEF Event
<1> HIDE DEF u
<1> DEFINE n == Len(buf)
<1>s. buf \in Seq(Update)
  BY DEF ListenerInv, TypeOK, Update
<1>6. /\ n \in Nat /\ DOMAIN buf = 1 .. n /\ DOMAIN buf' = 1 .. n + 1
      /\ \A i \in 1 .. n : buf'[i] = buf[i]
      /\ buf'[n + 1] = u /\ buf' # <<>> /\ buf' \in Seq(Update) /\ buf \in Seq(Update)
  BY <1>2, <1>4, <1>s, Appended
<1> HIDE DEF n
<1>7. Stages'
  <2>1. \A i \in DOMAIN buf' : buf'[i].reset =>
          i \in DOMAIN buf /\ buf'[i] = buf[i]
    BY <1>4, <1>6
  <2>2. \A i \in DOMAIN buf' : buf'[i].reset =>
          i = 1 /\ ~work.busy /\ \A id \in Id : buf'[i].containers[id] # FALSE
    <3> TAKE i \in DOMAIN buf'
    <3> HAVE buf'[i].reset
    <3>1. i \in DOMAIN buf /\ buf'[i] = buf[i]
      BY <2>1
    <3> QED BY <3>1 DEF ListenerInv, Stages
  <2> QED BY <1>2, <2>2 DEF ListenerInv, Stages
<1>8. Fresh' <=> Fresh
  <2>1. Head(buf') = buf'[1] /\ (buf # <<>> => Head(buf) = buf[1])
    BY <1>6, Taken
  <2>2. CASE buf = <<>>
    <3>1. n = 0
      BY <2>2, EmptySeq DEF n
    <3> QED BY <1>4, <1>6, <2>1, <2>2, <3>1 DEF Fresh
  <2>3. CASE buf # <<>>
    <3>1. 1 \in 1 .. n
      BY <1>6, <2>3, EmptySeq DEF n
    <3> QED BY <1>6, <2>1, <2>3, <3>1 DEF Fresh
  <2> QED BY <2>2, <2>3
<1>9. Announced' /\ Listing'
  BY <1>2, <1>8 DEF ListenerInv, Announced, Serving, Listing, Hold, AfterReset, AfterUpdate
<1>10. Following'
  <2> SUFFICES ASSUME Going PROVE Following'
    BY <1>2 DEF Following, Going
  <2>1. Running' = Running /\ Truth' = Truth
    BY <1>2 DEF Running, IsRunning, Truth
  <2>2. /\ EventsEndTrue /\ BufEndsTrue
        /\ \A id \in work.todo : DeathComing(id) \/ Running[id]
        /\ Fresh  => \A id \in Id : Running[id] => StartComing(id)
        /\ ~Fresh => (~heldNil \/ work.reset) /\ \A id \in Id : Settling(id)
    BY <1>2 DEF ListenerInv, Following
  <2>3. /\ EventsEndTrue'
        /\ \A id \in Id : InEvents(id) <=> InEvents(id)' \/ id = ev.id
        /\ \A id \in Id, b \in BOOLEAN :
             EventSays(id, b) <=> EventSays(id, b)' \/ (id = ev.id /\ ev.started = b)
        /\ \A id \in Id : id = ev.id /\ ~InEvents(id)' => ev.started = Running[id]
    BY <1>2, <2>1, <2>2, EventTaken DEF ListenerInv
  <2>4. \A id \in Id, b \in BOOLEAN : BufSays(id, b)' <=> BufSays(id, b) \/ u.containers[id] = b
    BY <1>2, <1>4, UpdateQueued DEF ListenerInv
  <2>5. BufEndsTrue'
    <3>1. \A id \in Id : InEvents(id) => InEvents(id)' \/ u.containers[id] # Untouched
      BY <1>4, <1>5, <2>3
    <3>2. \A id \in Id : u.containers[id] # Untouched =>
                           InEvents(id)' \/ u.containers[id] = Running[id]
      BY <1>4, <2>3
    <3> QED BY <1>2, <1>4, <2>1, <2>2, <3>1, <3>2, UpdateQueued DEF ListenerInv
  <2>6. \A id \in Id, b \in BOOLEAN :
          EventSays(id, b) \/ BufSays(id, b) => EventSays(id, b)' \/ BufSays(id, b)'
    BY <1>4, <2>3, <2>4
  <2>7. \A id \in Id : /\ DeathComing(id) => DeathComing(id)'
                       /\ StartComing(id) => StartComing(id)'
                       /\ Hold(id)' = Hold(id)
    BY <1>2, <2>6 DEF DeathComing, StartComing, Hold, AfterReset, AfterUpdate
  <2>8. \A id \in work.todo : DeathComing(id)' \/ Running[id]
    <3>1. work.todo \subseteq Id
      BY DEF ListenerInv, TypeOK
    <3> QED BY <2>2, <2>7, <3>1
  <2>9. ~Fresh => \A id \in Id : Settling(id)'
    BY <2>1, <2>2, <2>7 DEF Settling
  <2>10. Fresh => \A id \in Id : Running[id] => StartComing(id)'
    BY <2>2, <2>7
  <2> QED BY <1>2, <1>8, <2>1, <2>2, <2>3, <2>5, <2>8, <2>9, <2>10 DEF Following
<1> QED BY <1>1, <1>7, <1>9, <1>10 DEF ListenerInv

\* A reader that fails will be stopped.
LEMMA ReaderFailsInv ==
  ASSUME ListenerInv, ReaderFails
  PROVE  ListenerInv'
<1>1. TypeOK'
  BY ReaderTypes DEF ListenerInv
<1>2. /\ UNCHANGED <<docker, pc, heard, list, buf, work, announced, heldNil, held, asked>>
      /\ pc # "off" /\ down \subseteq down' /\ down' # {}
  BY DEF ReaderFails, Attached, world, inspector, consumer
<1>3. Stages' /\ Announced'
  BY <1>2, AnnouncedKept DEF ListenerInv, Stages, Fresh
<1> QED BY <1>1, <1>2, <1>3 DEF ListenerInv, Listing, Following, Going

\* Taking an update: what the consumer is told to drop is what it has been
\* told of, and nothing is forgotten that is still to be said.
LEMMA TakesUpdateInv ==
  ASSUME ListenerInv, TakesUpdate
  PROVE  ListenerInv'
<1> DEFINE u == Head(buf)
           known == IF u.reset THEN {} ELSE announced
           gone == Gone(u, known)
<1>1. TypeOK'
  BY InspectorTypes DEF ListenerInv
<1>2. /\ UNCHANGED <<docker, pc, events, heard, list, down, heldNil, held, asked>>
      /\ "inspector" \notin down /\ ~work.busy /\ buf # <<>> /\ buf' = Tail(buf)
      /\ announced' = known \ gone
  BY DEF TakesUpdate, world, reader, consumer
<1>3. work' = [busy |-> TRUE, reset |-> u.reset,
               todo |-> {id \in Id : u.containers[id] = TRUE},
               out  |-> [id \in Id |-> IF id \in gone THEN None ELSE Untouched]]
  BY DEF TakesUpdate
<1>4. /\ work'.busy /\ work'.reset = u.reset
      /\ \A id : id \in work'.todo <=> id \in Id /\ u.containers[id] = TRUE
      /\ \A id \in Id : work'.out[id] = IF id \in gone THEN None ELSE Untouched
  BY <1>3
<1>5. work = NoWork /\ ~work.reset /\ work.todo = {} /\ pc = "following"
  BY <1>2 DEF ListenerInv, Stages, NoWork
<1>6. buf \in Seq(Update)
  BY DEF ListenerInv, TypeOK, Update
<1>7. u \in Update /\ u = buf[1] /\ 1 \in DOMAIN buf
  BY <1>2, <1>6, Taken
<1>8. u.reset \in BOOLEAN /\ \A id \in Id : u.containers[id] \in BOOLEAN \cup {Untouched}
  BY <1>7 DEF Update, Containers
<1>9. /\ gone = {id \in known : u.containers[id] = FALSE}
      /\ known = IF u.reset THEN {} ELSE announced
  BY DEF Gone
<1>10. \A id \in Id : id \in gone <=> ~u.reset /\ id \in announced /\ u.containers[id] = FALSE
  BY <1>9
<1>11. announced \subseteq Id /\ \A id \in Id : id \in announced' <=> id \in announced /\ ~u.reset /\ id \notin gone
  BY <1>2, <1>9 DEF ListenerInv, TypeOK
<1> HIDE DEF gone, known, u
<1>12. \A i \in DOMAIN buf' : ~buf'[i].reset
  <2> TAKE i \in DOMAIN buf'
  <2>1. i + 1 \in DOMAIN buf /\ buf'[i] = buf[i + 1] /\ i + 1 # 1
    BY <1>2, <1>6, Taken
  <2> QED BY <2>1 DEF ListenerInv, Stages
<1>13. Stages'
  <2>1. \A id \in work'.todo : work'.out[id] = Untouched
    BY <1>4, <1>10
  <2>2. \A id \in Id : work'.out[id] = None => ~work'.reset
    BY <1>4, <1>10, ListenerAssumption
  <2> QED BY <1>2, <1>4, <1>5, <1>12, <2>1, <2>2 DEF Stages
<1>14. ~Fresh' /\ (Fresh <=> u.reset)
  <2>1. buf' # <<>> => Head(buf') = buf'[1] /\ 1 \in DOMAIN buf'
    <3>1. buf' \in Seq(Update)
      BY <1>2, <1>6, Taken
    <3> QED BY <3>1, Taken
  <2> QED BY <1>2, <1>12, <2>1 DEF Fresh, u
\* What the consumer will hold.
<1>15. \A id \in Id : Hold(id) = held[id]
  BY <1>2 DEF Hold
<1>16. \A id \in Id : u.reset => Hold(id)' = None
  BY <1>4, <1>10, ListenerAssumption DEF Hold, AfterReset
<1>17. \A id \in Id : ~u.reset => Hold(id)' = IF id \in gone THEN None ELSE held[id]
  BY <1>2, <1>4, ListenerAssumption DEF Hold, AfterUpdate
<1>18. Announced'
  <2> SUFFICES ASSUME Serving' PROVE Announced'
    BY DEF Announced
  <2>1. CASE u.reset
    BY <1>4, <1>11, <1>16, <2>1 DEF Announced
  <2>2. CASE ~u.reset
    <3>1. Serving
      BY <1>2, <1>4, <1>5, <1>14, <2>2 DEF Serving
    <3>2. \A id \in Id : id \in announced <=> held[id] # None
      BY <1>15, <3>1 DEF ListenerInv, Announced
    <3>3. \A id \in Id : id \in announced' <=> Hold(id)' # None
      BY <1>11, <1>17, <2>2, <3>2
    <3>4. \A id \in Id : work'.out[id] = None => held[id] # None
      BY <1>4, <1>10, <3>2, ListenerAssumption
    <3> QED BY <1>2, <3>3, <3>4 DEF Announced
  <2> QED BY <2>1, <2>2
<1>19. Listing'
  BY <1>2, <1>5 DEF Listing
<1>20. Following'
  <2> SUFFICES ASSUME Going PROVE Following'
    BY <1>2 DEF Following, Going
  <2>1. Running' = Running /\ Truth' = Truth /\ Running \in [Id -> BOOLEAN]
    BY <1>2, RunningType DEF Running, IsRunning, Truth, ListenerInv
  <2>2. /\ EventsEndTrue /\ BufEndsTrue
        /\ Fresh  => \A id \in Id : Running[id] => StartComing(id)
        /\ ~Fresh => ~heldNil /\ \A id \in Id : Settling(id)
    BY <1>5 DEF ListenerInv, Following
  <2>3. /\ \A id \in Id, b \in BOOLEAN : BufSays(id, b) <=> BufSays(id, b)' \/ u.containers[id] = b
        /\ BufEndsTrue'
        /\ \A id \in Id : u.containers[id] # Untouched =>
             \/ InEvents(id)
             \/ u.containers[id] = Running[id]
             \/ BufSays(id, Running[id])'
    BY <1>2, <2>1, <2>2, UpdateTaken DEF ListenerInv, u
  <2>4. EventsEndTrue' /\ \A id \in Id, b \in BOOLEAN : EventSays(id, b)' <=> EventSays(id, b)
    BY <1>2, <2>1, <2>2 DEF EventsEndTrue, EventSays
  <2>5. \A id \in Id, b \in BOOLEAN :
          u.containers[id] = b => b = Running[id] \/ EventSays(id, Running[id])' \/ BufSays(id, Running[id])'
    <3> TAKE id \in Id, b \in BOOLEAN
    <3> HAVE u.containers[id] = b
    <3>1. b # Untouched
      BY ListenerAssumption
    <3>2. CASE InEvents(id)
      <4>1. EventSays(id, Running[id])
        BY <2>2, <3>2, EventsTell DEF ListenerInv
      <4> QED BY <2>1, <2>4, <4>1
    <3> QED BY <2>3, <3>1, <3>2
  <2>6. \A id \in work'.todo : DeathComing(id)' \/ Running[id]
    <3> SUFFICES ASSUME NEW id \in Id, u.containers[id] = TRUE, Running[id] = FALSE
                 PROVE  DeathComing(id)'
      BY <1>4, <2>1
    <3>1. EventSays(id, Running[id])' \/ BufSays(id, Running[id])'
      BY <2>5
    <3> QED BY <2>1, <3>1 DEF DeathComing, EventSays, BufSays
  <2>7. ASSUME NEW id \in Id PROVE Settling(id)'
    <3>1. CASE u.reset
      <4>1. CASE Running[id]
        <5>1. StartComing(id)
          BY <1>14, <2>2, <3>1, <4>1
        <5>2. StartComing(id)'
          BY <1>4, <1>5, <2>3, <2>4, <5>1 DEF StartComing
        <5> QED BY <1>16, <3>1, <5>2 DEF Settling
      <4>2. CASE ~Running[id]
        BY <1>16, <2>1, <3>1, <4>2 DEF Settling, Truth, Running
      <4> QED BY <4>1, <4>2
    <3>2. CASE ~u.reset /\ u.containers[id] = FALSE
      <4>1. Serving
        BY <1>2, <1>5, <1>14, <2>2, <3>2 DEF Serving
      <4>2. Hold(id)' = None
        BY <1>10, <1>15, <1>17, <3>2, <4>1 DEF ListenerInv, Announced
      <4>3. CASE Running[id] = TRUE
        <5>1. StartComing(id)'
          <6>1. EventSays(id, Running[id])' \/ BufSays(id, Running[id])'
            BY <2>5, <3>2, <4>3
          <6> QED BY <2>1, <4>3, <6>1 DEF StartComing, EventSays, BufSays
        <5> QED BY <4>2, <5>1 DEF Settling
      <4>4. CASE Running[id] = FALSE
        BY <2>1, <4>2, <4>4 DEF Settling, Truth, Running
      <4> QED BY <2>1, <4>3, <4>4
    <3>3. CASE ~u.reset /\ u.containers[id] # FALSE
      <4>1. Hold(id)' = Hold(id) /\ Settling(id)
        BY <1>10, <1>14, <1>15, <1>17, <2>2, <3>3
      <4>2. /\ DeathComing(id) => DeathComing(id)'
            /\ StartComing(id) => StartComing(id)'
        BY <1>4, <1>5, <2>3, <2>4, <3>3 DEF DeathComing, StartComing
      <4> QED BY <2>1, <4>1, <4>2 DEF Settling
    <3> QED BY <3>1, <3>2, <3>3
  <2>8. ~heldNil' \/ work'.reset
    BY <1>2, <1>4, <1>14, <2>2
  <2> QED BY <1>14, <2>1, <2>3, <2>4, <2>6, <2>7, <2>8 DEF Following
<1> QED BY <1>1, <1>13, <1>18, <1>19, <1>20 DEF ListenerInv

\* Inspecting a container: what it finds is the truth, or a death is coming.
LEMMA InspectsInv ==
  ASSUME ListenerInv, NEW id \in Id, Inspects(id)
  PROVE  ListenerInv'
<1>1. TypeOK'
  BY InspectorTypes DEF ListenerInv
<1>2. /\ UNCHANGED <<docker, pc, events, heard, list, down, buf, heldNil, held, asked>>
      /\ "inspector" \notin down /\ work.busy /\ id \in work.todo
      /\ announced' = IF docker[id] = None THEN announced ELSE announced \cup {id}
  BY DEF Inspects, Inspecting, world, reader, consumer
<1>3. /\ work'.busy /\ work'.reset = work.reset /\ work'.todo = work.todo \ {id}
      /\ work'.out[id] = IF docker[id] = None THEN work.out[id] ELSE docker[id]
      /\ \A c \in Id : c # id => work'.out[c] = work.out[c]
  <2>1. work \in Work
    BY DEF ListenerInv, TypeOK, Work
  <2>2. work' = [work EXCEPT !.todo = @ \ {id},
                             !.out[id] = IF docker[id] = None THEN @ ELSE docker[id]]
    BY DEF Inspects
  <2> QED BY <1>2, <2>1, <2>2 DEF Work
<1>4. pc = "following" /\ ~Fresh /\ ~Fresh' /\ work.out[id] = Untouched
  <2>1. pc = "following" /\ work.out[id] = Untouched
    BY <1>2 DEF ListenerInv, Stages, NoWork
  <2>2. ~Fresh
    <3>1. buf # <<>> => Head(buf) = buf[1] /\ 1 \in DOMAIN buf
      <4>1. buf \in Seq(Update)
        BY DEF ListenerInv, TypeOK, Update
      <4> QED BY <4>1, Taken
    <3> QED BY <1>2, <3>1 DEF ListenerInv, Stages, Fresh
  <2> QED BY <1>2, <2>1, <2>2 DEF Fresh
<1>5. docker[id] # None => docker[id] # Untouched /\ docker[id] \in Details
  <2> SUFFICES ASSUME docker[id] # None PROVE docker[id] # Untouched /\ docker[id] \in Details
    OBVIOUS
  <2>1. docker[id] \in Details
    BY DEF ListenerInv, TypeOK
  <2>2. docker[id] \in [start : Nat, running : BOOLEAN]
    BY <2>1 DEF Details
  <2> QED BY <2>1, <2>2, DetailsAreThere
<1>6. Stages'
  <2>1. work.todo \subseteq Id
    BY DEF ListenerInv, TypeOK
  <2>2. \A c \in work'.todo : work'.out[c] = Untouched
    BY <1>3, <2>1 DEF ListenerInv, Stages
  <2>3. \A c \in Id : work'.out[c] = None => ~work'.reset
    BY <1>3, <1>4, <1>5, ListenerAssumption DEF ListenerInv, Stages
  <2> QED BY <1>2, <1>3, <1>4, <2>2, <2>3 DEF ListenerInv, Stages
<1>7. \A c \in Id : c # id => Hold(c)' = Hold(c)
  BY <1>2, <1>3 DEF Hold, AfterReset, AfterUpdate
<1>8. Hold(id) = IF work.reset THEN None ELSE held[id]
  BY <1>2, <1>4, ListenerAssumption DEF Hold, AfterReset, AfterUpdate
<1>9. Hold(id)' = IF docker[id] = None THEN Hold(id)
                  ELSE IF Hold(id) = None THEN docker[id] ELSE Hold(id)
  BY <1>2, <1>3, <1>4, <1>5, <1>8, ListenerAssumption DEF Hold, AfterReset, AfterUpdate
<1>10. Announced'
  <2> SUFFICES ASSUME Serving' PROVE Announced'
    BY DEF Announced
  <2>1. Serving
    BY <1>2, <1>3, <1>4 DEF Serving
  <2>2. /\ \A c \in Id : c \in announced <=> Hold(c) # None
        /\ ~work.reset => \A c \in Id : work.out[c] = None => held[c] # None
    BY <2>1 DEF ListenerInv, Announced
  <2>3. \A c \in Id : c \in announced' <=> Hold(c)' # None
    BY <1>2, <1>7, <1>9, <2>2
  <2>4. ~work'.reset => \A c \in Id : work'.out[c] = None => held'[c] # None
    BY <1>2, <1>3, <1>4, <2>2, ListenerAssumption
  <2> QED BY <2>3, <2>4 DEF Announced
<1>11. Listing'
  BY <1>2, <1>4 DEF Listing
<1>12. Following'
  <2> SUFFICES ASSUME Going PROVE Following'
    BY <1>2 DEF Following, Going
  <2>1. Running' = Running /\ Truth' = Truth /\ Running \in [Id -> BOOLEAN]
    BY <1>2, RunningType DEF Running, IsRunning, Truth, ListenerInv
  <2>2. /\ EventsEndTrue /\ BufEndsTrue
        /\ \A c \in work.todo : DeathComing(c) \/ Running[c]
        /\ ~heldNil \/ work.reset
        /\ \A c \in Id : Settling(c)
    BY <1>4 DEF ListenerInv, Following
  <2>3. EventsEndTrue' /\ BufEndsTrue'
    BY <1>2, <2>1, <2>2 DEF EventsEndTrue, BufEndsTrue, InEvents
  <2>4. \A c \in Id : /\ DeathComing(c)' <=> DeathComing(c)
                      /\ StartComing(c) => StartComing(c)' \/ c = id
    BY <1>2, <1>3 DEF DeathComing, StartComing, EventSays, BufSays
  <2>5. \A c \in work'.todo : DeathComing(c)' \/ Running[c]
    <3>1. work.todo \subseteq Id
      BY DEF ListenerInv, TypeOK
    <3> QED BY <1>3, <2>2, <2>4, <3>1
  <2>6. \A c \in Id : c # id => Settling(c)'
    BY <1>7, <2>1, <2>2, <2>4 DEF Settling
  <2>7. Settling(id)'
    <3>1. CASE DeathComing(id)
      BY <2>4, <3>1 DEF Settling
    <3>2. CASE ~DeathComing(id)
      <4>1. Running[id] /\ docker[id] # None /\ Truth[id] = docker[id]
        BY <1>2, <2>2, <3>2 DEF Running, IsRunning, Truth
      <4>2. Hold(id) = Truth[id] \/ Hold(id) = None
        BY <2>2, <3>2 DEF Settling
      <4>3. Hold(id)' = Truth[id]
        BY <1>9, <4>1, <4>2
      <4> QED BY <2>1, <4>3 DEF Settling
    <3> QED BY <3>1, <3>2
  <2> QED BY <1>2, <1>3, <1>4, <2>1, <2>2, <2>3, <2>5, <2>6, <2>7 DEF Following
<1> QED BY <1>1, <1>6, <1>10, <1>11, <1>12 DEF ListenerInv

\* An update that is delivered makes the consumer hold what it would hold.
LEMMA DeliversInv ==
  ASSUME ListenerInv, Delivers
  PROVE  ListenerInv'
<1>1. TypeOK'
  BY InspectorTypes DEF ListenerInv
<1>2. /\ UNCHANGED <<docker, pc, events, heard, list, down, buf, announced, asked>>
      /\ "inspector" \notin down /\ work.busy /\ work.todo = {} /\ work' = NoWork
      /\ heldNil' = (heldNil /\ ~work.reset)
      /\ held' = IF work.reset THEN AfterReset(work.out)
                 ELSE IF heldNil THEN held ELSE AfterUpdate(work.out)
  BY DEF Delivers, Inspecting, world, reader
<1>3. ~NoWork.busy /\ NoWork.todo = {} /\ ~NoWork.reset
      /\ \A id \in Id : NoWork.out[id] = Untouched
  BY DEF NoWork, Nothing
<1>4. pc = "following" /\ ~Fresh /\ ~Fresh'
  <2>1. pc = "following"
    BY <1>2, <1>3 DEF ListenerInv, Stages
  <2>2. buf # <<>> => Head(buf) = buf[1] /\ 1 \in DOMAIN buf
    <3>1. buf \in Seq(Update)
      BY DEF ListenerInv, TypeOK, Update
    <3> QED BY <3>1, Taken
  <2> QED BY <1>2, <2>1, <2>2 DEF ListenerInv, Stages, Fresh
<1>5. Stages'
  BY <1>2, <1>3, <1>4, ListenerAssumption DEF ListenerInv, Stages
<1>6. ~heldNil \/ work.reset => \A id \in Id : Hold(id)' = Hold(id)
  BY <1>2, <1>3 DEF Hold
<1>7. Announced'
  <2> SUFFICES ASSUME Serving' PROVE Announced'
    BY DEF Announced
  <2>1. Serving /\ (~heldNil \/ work.reset)
    BY <1>2, <1>3, <1>4 DEF Serving, ListenerInv, TypeOK
  <2>2. \A id \in Id : id \in announced' <=> Hold(id)' # None
    BY <1>2, <1>6, <2>1 DEF ListenerInv, Announced
  <2> QED BY <1>2, <1>3, <2>2, ListenerAssumption DEF Announced
<1>8. Listing'
  BY <1>2, <1>4 DEF Listing
<1>9. Following'
  <2> SUFFICES ASSUME Going PROVE Following'
    BY <1>2 DEF Following, Going
  <2>1. Running' = Running /\ Truth' = Truth
    BY <1>2 DEF Running, IsRunning, Truth
  <2>2. /\ EventsEndTrue /\ BufEndsTrue
        /\ ~heldNil \/ work.reset
        /\ \A id \in Id : Settling(id)
    BY <1>4 DEF ListenerInv, Following
  <2>3. EventsEndTrue' /\ BufEndsTrue'
    BY <1>2, <2>1, <2>2 DEF EventsEndTrue, BufEndsTrue, InEvents
  <2>4. \A id \in Id : /\ DeathComing(id)' <=> DeathComing(id)
                       /\ StartComing(id)' <=> StartComing(id)
    BY <1>2, <1>3 DEF DeathComing, StartComing, EventSays, BufSays
  <2>5. \A id \in Id : Settling(id)'
    BY <1>6, <2>1, <2>2, <2>4 DEF Settling
  <2>6. ~heldNil'
    BY <1>2, <2>2 DEF ListenerInv, TypeOK
  <2> QED BY <1>2, <1>3, <1>4, <2>3, <2>5, <2>6 DEF Following
<1> QED BY <1>1, <1>5, <1>7, <1>8, <1>9 DEF ListenerInv

\* An inspector that fails will be stopped.
LEMMA InspectFailsInv ==
  ASSUME ListenerInv, InspectFails
  PROVE  ListenerInv'
<1>1. TypeOK'
  BY InspectorTypes DEF ListenerInv
<1>2. /\ UNCHANGED <<docker, pc, events, heard, list, buf, announced, heldNil, held, asked>>
      /\ work' = NoWork /\ "inspector" \in down'
  BY DEF InspectFails, world, reader, consumer
<1>3. ~NoWork.busy /\ NoWork.todo = {} /\ ~NoWork.reset
      /\ \A id \in Id : NoWork.out[id] = Untouched
  BY DEF NoWork, Nothing
<1>4. Stages'
  BY <1>2, <1>3, ListenerAssumption DEF ListenerInv, Stages
<1> QED BY <1>1, <1>2, <1>4 DEF ListenerInv, Announced, Serving, Listing, Following, Going

\* A consumer that asks for a reset will have the listener stopped.
LEMMA ConsumerResetsInv ==
  ASSUME ListenerInv, ConsumerResets
  PROVE  ListenerInv'
<1>1. TypeOK'
  BY StoppingTypes DEF ListenerInv
<1>2. /\ UNCHANGED <<docker, pc, events, heard, list, down, buf, work, announced>>
      /\ heldNil' = TRUE /\ held' = [id \in Id |-> None] /\ asked' = TRUE
  BY DEF ConsumerResets, world, reader, inspector
<1>3. Stages'
  BY <1>2 DEF ListenerInv, Stages
<1>4. Announced'
  <2> SUFFICES ASSUME Serving' PROVE Announced'
    BY DEF Announced
  <2>1. Serving /\ work.reset /\ Fresh' = Fresh
    BY <1>2 DEF Serving, Fresh
  <2>2. work.busy
    BY <2>1 DEF ListenerInv, Stages, NoWork
  <2>3. \A id \in Id : Hold(id)' = Hold(id)
    BY <1>2, <2>1, <2>2 DEF Hold, AfterReset
  <2> QED BY <1>2, <2>1, <2>3 DEF ListenerInv, Announced
<1> QED BY <1>1, <1>2, <1>3, <1>4 DEF ListenerInv, Listing, Following, Going

\* Every step keeps the invariant.
LEMMA StepInv == ListenerInv /\ [Next]_vars => ListenerInv'
<1> SUFFICES ASSUME ListenerInv, [Next]_vars PROVE ListenerInv'
  OBVIOUS
<1>1. CASE TakesReset \/ RestartStops
  <2>1. TypeOK' /\ Stopped
    BY <1>1, StoppingTypes DEF ListenerInv, TakesReset, RestartStops
  <2> QED BY <2>1, StoppedInv
<1>2. CASE ListenerStarts
  BY <1>2, ListenerStartsInv, StoppingTypes DEF ListenerInv
<1>3. CASE ListTaken \/ HearsEvent \/ ListingEnds \/ FollowsEvent \/ ReaderFails
  BY <1>3, ListTakenInv, HearsEventInv, ListingEndsInv, FollowsEventInv, ReaderFailsInv
<1>4. CASE TakesUpdate \/ (\E id \in Id : Inspects(id)) \/ Delivers \/ InspectFails
  BY <1>4, TakesUpdateInv, InspectsInv, DeliversInv, InspectFailsInv
<1>5. CASE \E id \in Id : Starts(id) \/ Dies(id) \/ Removed(id)
  BY <1>5, StartsInv, DiesInv, RemovedInv
<1>6. CASE ConsumerResets
  BY <1>6, ConsumerResetsInv
<1>7. CASE UNCHANGED vars
  <2>1. TypeOK'
    BY <1>7, StepTypes DEF ListenerInv
  <2>2. UNCHANGED <<docker, pc, events, heard, list, down, buf, work, announced, heldNil, held, asked>>
    BY <1>7 DEF vars, world, reader, inspector, consumer
  <2>3. Stages' /\ Announced'
    BY <2>2, AnnouncedKept DEF ListenerInv, Stages, Fresh
  <2>4. Running' = Running /\ Truth' = Truth
    BY <2>2 DEF Running, IsRunning, Truth
  <2>5. Listing' /\ Following'
    BY <2>2, <2>4 DEF ListenerInv, Listing, Following, Going, EventsEndTrue, BufEndsTrue, InEvents,
       DeathComing, StartComing, EventSays, BufSays, Fresh, Settling, Hold, AfterReset, AfterUpdate
  <2> QED BY <2>1, <2>3, <2>5 DEF ListenerInv
<1> QED BY <1>1, <1>2, <1>3, <1>4, <1>5, <1>6, <1>7 DEF Next, Listener

-----------------------------------------------------------------------------
(***************************************************************************)
(* The variables keep their types (the whole state of the listener, and of *)
(* what syncInstances makes of it).                                        *)
(***************************************************************************)
THEOREM TypeCorrect == Spec => []TypeOK
<1>1. Init => TypeOK
  BY InitInv DEF ListenerInv
<1>2. TypeOK /\ [Next]_vars => TypeOK'
  BY StepTypes
<1> QED BY <1>1, <1>2, PTL DEF Spec

\* The invariant holds, for any containers, starts, errors and resets.
LEMMA Invariance == Spec => []ListenerInv
<1> QED BY InitInv, StepInv, PTL DEF Spec

(***************************************************************************)
(* With nothing on its way the consumer holds the containers that are      *)
(* running, each as it last started: however many containers, starts,      *)
(* errors of the listener and resets there have been, and in whatever      *)
(* order (docker_listener.go:65-250).                                      *)
(***************************************************************************)
THEOREM ConsumerCaughtUp == Spec => []CaughtUp
<1>1. ListenerInv => CaughtUp
  <2> SUFFICES ASSUME ListenerInv, Quiet PROVE ~heldNil /\ held = Truth
    BY DEF CaughtUp
  <2>1. /\ pc = "following" /\ Going /\ ~Fresh /\ ~work.busy /\ ~work.reset /\ work.todo = {}
        /\ events = <<>> /\ buf = <<>>
    BY DEF Quiet, Going, Fresh, ListenerInv, Stages, NoWork
  <2>2. ~heldNil /\ \A id \in Id : Settling(id)
    BY <2>1 DEF ListenerInv, Following
  <2>3. \A id \in Id : ~DeathComing(id) /\ ~StartComing(id)
    BY <2>1 DEF DeathComing, StartComing, EventSays, BufSays
  <2>4. \A id \in Id : held[id] = Truth[id]
    BY <2>1, <2>2, <2>3 DEF Settling, Hold
  <2>5. held = [id \in Id |-> held[id]] /\ Truth = [id \in Id |-> Truth[id]]
    BY DEF ListenerInv, TypeOK, Truth
  <2> QED BY <2>2, <2>4, <2>5
<1> QED BY <1>1, Invariance, PTL

(***************************************************************************)
(* The consumer is never told that a container has gone without having     *)
(* been told of it (docker_listener.go:193-197).                           *)
(***************************************************************************)
THEOREM ToldBothOrNeither == Spec => BothOrNeither
<1> DEFINE Good == Delivers /\ ~heldNil /\ ~work.reset =>
                     \A id \in Id : work.out[id] = None => held[id] # None
<1>1. ListenerInv => Good
  <2> SUFFICES ASSUME ListenerInv, Delivers, ~heldNil, ~work.reset
               PROVE  \A id \in Id : work.out[id] = None => held[id] # None
    OBVIOUS
  <2>1. "inspector" \notin down /\ work.busy
    BY DEF Delivers, Inspecting
  <2>2. pc = "following"
    BY <2>1 DEF ListenerInv, Stages, NoWork
  <2>3. ~Fresh
    <3>1. buf \in Seq(Update)
      BY DEF ListenerInv, TypeOK, Update
    <3>2. buf # <<>> => Head(buf) = buf[1] /\ 1 \in DOMAIN buf
      BY <3>1, Taken
    <3> QED BY <2>1, <3>2 DEF ListenerInv, Stages, Fresh
  <2> QED BY <2>1, <2>2, <2>3 DEF ListenerInv, Announced, Serving
<1>2. ListenerInv /\ [Next]_vars => [Good]_vars
  BY <1>1
<1> QED BY <1>2, Invariance, PTL DEF Spec, BothOrNeither

=============================================================================
