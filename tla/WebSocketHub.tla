---------------------------- MODULE WebSocketHub ----------------------------
(***************************************************************************)
(* One server instance of the distributed WebSocket system: the consumers  *)
(* of the Redis backend (src/jararaca/presentation/websocket/redis.py),    *)
(* the connection manager (websocket_interceptor.py) and the endpoints     *)
(* that register their sockets with it.                                    *)
(*                                                                         *)
(* Messages are published by any instance.  The sections of the two locks  *)
(* that contain no await are single steps; only shutdown() keeps the       *)
(* backend's lock across one.                                              *)
(***************************************************************************)
EXTENDS Integers, FiniteSets, Sequences

CONSTANTS
  Socket,    \* the WebSocket connections of this instance
  Message,   \* the messages published on Redis, each of them once
  Traffic,   \* what they may be: their channel, and the room names on the send channel
  Name,      \* room names
  Pieces,    \* what splitting a name at its commas gives
  Garbled,   \* the names that contain the separator of the encoding
  Joins,     \* the room names a socket joins
  Fickle,    \* the sockets whose clients come and go; the others stay
  MaxTasks,  \* max_concurrent_tasks
  Faults     \* what may fail

Nil == "nil"

ASSUME HubAssumption ==
  /\ Traffic \subseteq [Message -> [channel : {"send", "broadcast"}, rooms : SUBSET Name]]
  /\ Pieces \in [Name -> SUBSET Name]
  /\ Garbled \subseteq Name
  /\ Joins \in [Socket -> SUBSET Name]
  /\ MaxTasks \in Nat \ {0}
  /\ IsFiniteSet(Message) /\ Nil \notin Message
  /\ Fickle \subseteq Socket
  /\ Faults \subseteq {"redis", "spawn", "close"}

Channel == {"send", "broadcast"}

VARIABLES
  traffic,        \* the messages
  published,      \* the messages published so far
  consumer,       \* where the consumer of each channel is
  inbox,          \* what its subscription has received and it has not read yet
  hand,           \* the message it has read and not yet handed to a task
  task_semaphore, \* free permits
  job,            \* the task that delivers a message
  snap, todo,     \* its targets, and how often it still sends to each of them
  dropped,        \* the targets it failed to reach
  received,       \* how often a socket received a message
  endpoint,       \* where the endpoint of each socket is
  conn,           \* the state of each socket
  all_websockets, \* the manager's registry
  rooms,          \*   and its rooms
  stopping,       \* shutdown_event
  closer,         \* shutdown() of the backend
  awaited         \* the consumers and messages whose tasks shutdown() gathers

consumerVars == <<traffic, published, consumer, inbox, hand>>
jobVars == <<job, snap, todo, dropped, received>>
managerVars == <<endpoint, conn, all_websockets, rooms>>
endVars == <<stopping, closer, awaited>>
hubVars == <<consumerVars, task_semaphore, jobVars, managerVars, endVars>>

ChannelOf == [m \in Message |-> traffic[m].channel]
RoomsOf == [m \in Message |-> traffic[m].rooms]

None == [s \in Socket |-> 0]

HubTypeOK ==
  /\ traffic \in Traffic
  /\ published \in SUBSET Message
  /\ consumer \in [Channel -> {"starting", "polling", "acquiring", "locking", "failed", "ended"}]
  /\ inbox \in [Channel -> Seq(Message)]
  /\ hand \in [Channel -> Message \cup {Nil}]
  /\ task_semaphore \in 0..MaxTasks
  /\ job \in [Message -> {"none", "snapshot", "sending", "done", "skipped"}]
  /\ snap \in [Message -> SUBSET Socket]
  /\ todo \in [Message -> [Socket -> Nat]]
  /\ dropped \in [Message -> SUBSET Socket]
  /\ received \in [Message -> [Socket -> Nat]]
  /\ endpoint \in [Socket -> {"away", "added", "receiving", "leaving", "left"}]
  /\ conn \in [Socket -> {"open", "gone", "failed", "read"}]
  /\ all_websockets \in SUBSET Socket
  /\ rooms \in [Name -> SUBSET Socket]
  /\ stopping \in BOOLEAN
  /\ closer \in {"none", "gathering", "closed"}
  /\ awaited \in SUBSET (Channel \cup Message)

HubInit ==
  /\ traffic \in Traffic
  /\ published = {}
  /\ consumer = [ch \in Channel |-> "starting"]
  /\ inbox = [ch \in Channel |-> <<>>]
  /\ hand = [ch \in Channel |-> Nil]
  /\ task_semaphore = MaxTasks
  /\ job = [m \in Message |-> "none"]
  /\ snap = [m \in Message |-> {}]
  /\ todo = [m \in Message |-> None]
  /\ dropped = [m \in Message |-> {}]
  /\ received = [m \in Message |-> None]
  /\ endpoint = [s \in Socket |-> IF s \in Fickle THEN "away" ELSE "receiving"]
  /\ conn = [s \in Socket |-> "open"]
  /\ all_websockets = Socket \ Fickle
  /\ rooms = [r \in Name |-> {s \in Socket \ Fickle : r \in Joins[s]}]
  /\ stopping = FALSE
  /\ closer = "none"
  /\ awaited = {}

-----------------------------------------------------------------------------
(* The messages.                                                           *)

\* SendToRoomsMessage.encode joins the rooms with commas and puts a separator
\* before the message; decode splits at both, and raises when there is another
\* separator.
DecodeFails(m) == ChannelOf[m] = "send" /\ RoomsOf[m] \cap Garbled # {}

DecodedRooms(m) == UNION {Pieces[r] : r \in RoomsOf[m]}

Subscribed(ch) == consumer[ch] \in {"polling", "acquiring", "locking"}

LockFree == closer # "gathering"

\* broadcast and send: Redis hands the message to the instances subscribed now.
PublishToRedis(m) ==
  /\ m \notin published
  /\ published' = published \cup {m}
  /\ inbox' = IF Subscribed(ChannelOf[m])
                 THEN [inbox EXCEPT ![ChannelOf[m]] = Append(@, m)] ELSE inbox
  /\ UNCHANGED <<traffic, consumer, hand, task_semaphore, jobVars, managerVars, endVars>>

-----------------------------------------------------------------------------
(* consume_send and consume_broadcast.                                     *)

\* ping, then subscribe.
SubscribeChannel(ch) ==
  /\ consumer[ch] = "starting"
  /\ consumer' = [consumer EXCEPT ![ch] = "polling"]
  /\ UNCHANGED <<traffic, published, inbox, hand, task_semaphore, jobVars, managerVars, endVars>>

\* The consumer's task is done: its subscription is gone with it, and
\* handle_send_task_done or handle_broadcast_task_done schedules another one
\* unless the application stops.
ConsumerDone(ch) ==
  /\ consumer' = [consumer EXCEPT ![ch] = IF stopping THEN "ended" ELSE "failed"]
  /\ inbox' = [inbox EXCEPT ![ch] = <<>>]
  /\ hand' = [hand EXCEPT ![ch] = Nil]
  /\ awaited' = awaited \ {ch}

\* Redis cannot be reached.
RedisFails(ch) ==
  /\ "redis" \in Faults
  /\ consumer[ch] \in {"starting", "polling"}
  /\ ConsumerDone(ch)
  /\ UNCHANGED <<traffic, published, task_semaphore, jobVars, managerVars, stopping, closer>>

\* get_message returns a message, also one it was waiting for when the application
\* began to stop.
ReadMessage(ch) ==
  /\ consumer[ch] = "polling"
  /\ inbox[ch] # <<>>
  /\ ~DecodeFails(Head(inbox[ch]))
  /\ consumer' = [consumer EXCEPT ![ch] = "acquiring"]
  /\ hand' = [hand EXCEPT ![ch] = Head(inbox[ch])]
  /\ inbox' = [inbox EXCEPT ![ch] = Tail(@)]
  /\ UNCHANGED <<traffic, published, task_semaphore, jobVars, managerVars, endVars>>

\* A message that does not decode ends the consumer.
ReadGarbled(ch) ==
  /\ consumer[ch] = "polling"
  /\ inbox[ch] # <<>>
  /\ DecodeFails(Head(inbox[ch]))
  /\ ConsumerDone(ch)
  /\ UNCHANGED <<traffic, published, task_semaphore, jobVars, managerVars, stopping, closer>>

\* Mutation of StopPolling: the event is looked at after a message only.
StopPollingLate(ch) ==
  /\ stopping /\ inbox[ch] # <<>>
  /\ consumer[ch] = "polling"
  /\ ConsumerDone(ch)
  /\ UNCHANGED <<traffic, published, task_semaphore, jobVars, managerVars, stopping, closer>>

\* The loop ends when the application stops.
StopPolling(ch) ==
  /\ stopping
  /\ consumer[ch] = "polling"
  /\ ConsumerDone(ch)
  /\ UNCHANGED <<traffic, published, task_semaphore, jobVars, managerVars, stopping, closer>>

\* Mutation of Acquire: no permit is waited for.
AcquireAnyway(ch) ==
  /\ consumer[ch] = "acquiring"
  /\ task_semaphore' = task_semaphore - 1
  /\ consumer' = [consumer EXCEPT ![ch] = "locking"]
  /\ UNCHANGED <<traffic, published, inbox, hand, jobVars, managerVars, endVars>>

\* The consumer waits for a permit of task_semaphore.
Acquire(ch) ==
  /\ consumer[ch] = "acquiring"
  /\ task_semaphore > 0
  /\ task_semaphore' = task_semaphore - 1
  /\ consumer' = [consumer EXCEPT ![ch] = "locking"]
  /\ UNCHANGED <<traffic, published, inbox, hand, jobVars, managerVars, endVars>>

\* Back to the top of the loop.
NextMessage(ch) ==
  /\ hand' = [hand EXCEPT ![ch] = Nil]
  /\ IF stopping
       THEN /\ consumer' = [consumer EXCEPT ![ch] = "ended"]
            /\ inbox' = [inbox EXCEPT ![ch] = <<>>]
            /\ awaited' = awaited \ {ch}
       ELSE /\ consumer' = [consumer EXCEPT ![ch] = "polling"]
            /\ UNCHANGED <<inbox, awaited>>

\* Under the lock, the task that delivers the message is created.
Spawn(ch) ==
  /\ consumer[ch] = "locking"
  /\ LockFree
  /\ job' = [job EXCEPT ![hand[ch]] = "snapshot"]
  /\ NextMessage(ch)
  /\ UNCHANGED <<traffic, published, task_semaphore, snap, todo, dropped, received, managerVars,
                 stopping, closer>>

\* Mutation of SpawnFails: the permit is not returned.
SpawnFailsPermit(ch) ==
  /\ "spawn" \in Faults
  /\ consumer[ch] = "locking"
  /\ LockFree
  /\ job' = [job EXCEPT ![hand[ch]] = "skipped"]
  /\ NextMessage(ch)
  /\ UNCHANGED <<traffic, published, task_semaphore, snap, todo, dropped, received, managerVars, stopping, closer>>

\* It cannot be created: the permit is returned and the message skipped.
SpawnFails(ch) ==
  /\ "spawn" \in Faults
  /\ consumer[ch] = "locking"
  /\ LockFree
  /\ task_semaphore' = task_semaphore + 1
  /\ job' = [job EXCEPT ![hand[ch]] = "skipped"]
  /\ NextMessage(ch)
  /\ UNCHANGED <<traffic, published, snap, todo, dropped, received, managerVars, stopping, closer>>

\* _retry_send_consumer_with_delay and _retry_broadcast_consumer_with_delay.
RetryConsumer(ch) ==
  /\ consumer[ch] = "failed"
  /\ consumer' = [consumer EXCEPT ![ch] = IF stopping THEN "ended" ELSE "starting"]
  /\ UNCHANGED <<traffic, published, inbox, hand, task_semaphore, jobVars, managerVars, endVars>>

-----------------------------------------------------------------------------
(* _send_from_backend and _broadcast_from_backend.                         *)

Targets(m) ==
  IF ChannelOf[m] = "broadcast" THEN all_websockets
                                ELSE UNION {rooms[r] : r \in DecodedRooms(m)}

\* Mutation of Snapshot: a socket is copied once for every room it is in.
SnapshotPerRoom(m) ==
  /\ job[m] = "snapshot"
  /\ job' = [job EXCEPT ![m] = "sending"]
  /\ snap' = [snap EXCEPT ![m] = Targets(m)]
  /\ todo' = [todo EXCEPT ![m] = [s \in Socket |-> IF ChannelOf[m] = "broadcast" THEN 1
                                   ELSE Cardinality({r \in DecodedRooms(m) : s \in rooms[r]})]]
  /\ UNCHANGED <<consumerVars, task_semaphore, dropped, received, managerVars, endVars>>

\* The targets are copied under the manager's lock, each of them once.
Snapshot(m) ==
  /\ job[m] = "snapshot"
  /\ job' = [job EXCEPT ![m] = "sending"]
  /\ snap' = [snap EXCEPT ![m] = Targets(m)]
  /\ todo' = [todo EXCEPT ![m] = [s \in Socket |-> IF s \in Targets(m) THEN 1 ELSE 0]]
  /\ UNCHANGED <<consumerVars, task_semaphore, dropped, received, managerVars, endVars>>

is_ws_connected(s) == conn[s] \in {"open", "gone"}

\* _try_send.  A send to a client that is gone fails and marks the socket.
TrySend(m, s) ==
  /\ job[m] = "sending"
  /\ todo[m][s] > 0
  /\ todo' = [todo EXCEPT ![m][s] = @ - 1]
  /\ IF is_ws_connected(s) /\ conn[s] = "open"
       THEN /\ received' = [received EXCEPT ![m][s] = @ + 1]
            /\ UNCHANGED <<dropped, conn>>
       ELSE /\ dropped' = [dropped EXCEPT ![m] = @ \cup {s}]
            /\ conn' = IF is_ws_connected(s) THEN [conn EXCEPT ![s] = "failed"] ELSE conn
            /\ UNCHANGED received
  /\ UNCHANGED <<consumerVars, task_semaphore, job, snap, endpoint, all_websockets, rooms,
                 endVars>>

\* Mutation of Forget: a failed send drops all the targets.
ForgetAll(m) ==
  /\ job[m] = "sending"
  /\ todo[m] = None
  /\ all_websockets' = all_websockets \ (IF dropped[m] = {} THEN {} ELSE snap[m])
  /\ rooms' = [r \in Name |-> rooms[r] \ (IF dropped[m] = {} THEN {} ELSE snap[m])]
  /\ task_semaphore' = task_semaphore + 1
  /\ job' = [job EXCEPT ![m] = "done"]
  /\ awaited' = awaited \ {m}
  /\ UNCHANGED <<consumerVars, snap, todo, dropped, received, endpoint, conn, stopping, closer>>

\* Mutation of Forget: the permit is not returned when a send has failed.
ForgetPermit(m) ==
  /\ job[m] = "sending"
  /\ todo[m] = None
  /\ all_websockets' = all_websockets \ dropped[m]
  /\ rooms' = [r \in Name |-> rooms[r] \ dropped[m]]
  /\ task_semaphore' = IF dropped[m] = {} THEN task_semaphore + 1 ELSE task_semaphore
  /\ job' = [job EXCEPT ![m] = "done"]
  /\ awaited' = awaited \ {m}
  /\ UNCHANGED <<consumerVars, snap, todo, dropped, received, endpoint, conn, stopping, closer>>

\* _forget, and the task is done: its permit is returned.
Forget(m) ==
  /\ job[m] = "sending"
  /\ todo[m] = None
  /\ all_websockets' = all_websockets \ dropped[m]
  /\ rooms' = [r \in Name |-> rooms[r] \ dropped[m]]
  /\ task_semaphore' = task_semaphore + 1
  /\ job' = [job EXCEPT ![m] = "done"]
  /\ awaited' = awaited \ {m}
  /\ UNCHANGED <<consumerVars, snap, todo, dropped, received, endpoint, conn, stopping, closer>>

-----------------------------------------------------------------------------
(* The endpoints.                                                          *)

Step(s, from, to) == endpoint[s] = from /\ endpoint' = [endpoint EXCEPT ![s] = to]

add_websocket(s) ==
  /\ Step(s, "away", "added")
  /\ all_websockets' = all_websockets \cup {s}
  /\ UNCHANGED <<consumerVars, task_semaphore, jobVars, conn, rooms, endVars>>

join(s) ==
  /\ Step(s, "added", "receiving")
  /\ rooms' = [r \in Name |-> IF r \in Joins[s] THEN rooms[r] \cup {s} ELSE rooms[r]]
  /\ UNCHANGED <<consumerVars, task_semaphore, jobVars, conn, all_websockets, endVars>>

\* The client goes away; neither side of the socket knows yet.
PeerLeaves(s) ==
  /\ s \in Fickle
  /\ endpoint[s] # "away"
  /\ conn[s] = "open"
  /\ conn' = [conn EXCEPT ![s] = "gone"]
  /\ UNCHANGED <<consumerVars, task_semaphore, jobVars, endpoint, all_websockets, rooms, endVars>>

\* receive_ws_text reads the disconnect, or finds that a send met it first.
ReceiveDisconnect(s) ==
  /\ conn[s] \in {"gone", "failed"}
  /\ Step(s, "receiving", "leaving")
  /\ conn' = IF conn[s] = "gone" THEN [conn EXCEPT ![s] = "read"] ELSE conn
  /\ UNCHANGED <<consumerVars, task_semaphore, jobVars, all_websockets, rooms, endVars>>

remove_websocket(s) ==
  /\ Step(s, "leaving", "left")
  /\ all_websockets' = all_websockets \ {s}
  /\ rooms' = [r \in Name |-> rooms[r] \ {s}]
  /\ UNCHANGED <<consumerVars, task_semaphore, jobVars, conn, endVars>>

-----------------------------------------------------------------------------
(* The end of the application.                                             *)

\* WebSocketInterceptor.lifecycle sets the event.
SetShutdownEvent ==
  /\ ~stopping
  /\ stopping' = TRUE
  /\ UNCHANGED <<consumerVars, task_semaphore, jobVars, managerVars, closer, awaited>>

\* shutdown() takes the lock and gathers the tasks it knows: a consumer that has
\* just been created may not be among them yet.
CloseStarts ==
  /\ "close" \in Faults
  /\ stopping
  /\ closer = "none"
  /\ closer' = "gathering"
  /\ \E new \in SUBSET {ch \in Channel : consumer[ch] = "starting"} :
       awaited' = ({ch \in Channel : consumer[ch] = "starting" \/ Subscribed(ch)} \ new)
                    \cup {m \in Message : job[m] \in {"snapshot", "sending"}}
  /\ UNCHANGED <<consumerVars, task_semaphore, jobVars, managerVars, stopping>>

\* All of them are done: the connection is closed and the lock released.
CloseEnds ==
  /\ closer = "gathering"
  /\ awaited = {}
  /\ closer' = "closed"
  /\ UNCHANGED <<consumerVars, task_semaphore, jobVars, managerVars, stopping, awaited>>

-----------------------------------------------------------------------------
ConsumerStep(ch) ==
  \/ SubscribeChannel(ch)
  \/ RedisFails(ch)
  \/ ReadMessage(ch)
  \/ ReadGarbled(ch)
  \/ StopPolling(ch)
  \/ Acquire(ch)
  \/ Spawn(ch)
  \/ SpawnFails(ch)
  \/ RetryConsumer(ch)

JobStep(m) == Snapshot(m) \/ Forget(m) \/ \E s \in Socket : TrySend(m, s)

EndpointStep(s) ==
  \/ add_websocket(s)
  \/ join(s)
  \/ ReceiveDisconnect(s)
  \/ remove_websocket(s)

HubNext ==
  \/ \E m \in Message : PublishToRedis(m) \/ JobStep(m)
  \/ \E ch \in Channel : ConsumerStep(ch)
  \/ \E s \in Socket : EndpointStep(s) \/ PeerLeaves(s)
  \/ SetShutdownEvent
  \/ CloseStarts
  \/ CloseEnds

HubSpec == HubInit /\ [][HubNext]_hubVars

\* The event loop runs every task that is ready, tasks and endpoints being finitely many.
\* Redis is reachable again and again, so that a subscription succeeds after enough
\* attempts.
HubFairness ==
  /\ \A ch \in Channel :
       /\ WF_hubVars(\/ ReadMessage(ch) \/ ReadGarbled(ch) \/ StopPolling(ch) \/ Acquire(ch)
                     \/ Spawn(ch) \/ RetryConsumer(ch))
       /\ SF_hubVars(SubscribeChannel(ch))
  /\ WF_hubVars(\/ \E m \in Message : JobStep(m)
                \/ \E s \in Socket : EndpointStep(s)
                \/ CloseEnds)

-----------------------------------------------------------------------------
(* Properties.                                                             *)

Working == {m \in Message : job[m] \in {"snapshot", "sending"}}

Locking == {ch \in Channel : consumer[ch] = "locking"}

\* Every permit of task_semaphore is free, held by a consumer about to create a task,
\* or held by a task: none leaks and none is released twice, whatever fails.
PermitsConserved ==
  task_semaphore + Cardinality(Locking) + Cardinality(Working) = MaxTasks

\* A socket receives a message once, in however many of its rooms it is, and
\* while consumers fail and restart.
ReceivedOnce == \A m \in Message, s \in Socket : received[m][s] <= 1

\* When the task of a message is done, every socket of its snapshot received the
\* message or turned out to be unusable: one dead client does not starve the rest.
DoneReachedAll ==
  \A m \in Message, s \in Socket :
    job[m] = "done" /\ s \in snap[m] => received[m][s] = 1 \/ ~is_ws_connected(s)

\* A message reaches every socket it is for that can be reached, once.
DeliveredOnce == ReceivedOnce /\ DoneReachedAll

\* The registry agrees with the endpoints: a connected socket stays in it and in its
\* rooms whatever sends to others fail, and a socket whose endpoint has left never
\* returns to it.
RegistryAgrees ==
  \A s \in Socket :
    /\ conn[s] = "open" /\ endpoint[s] \in {"added", "receiving"} => s \in all_websockets
    /\ conn[s] = "open" /\ endpoint[s] = "receiving" => \A r \in Joins[s] : s \in rooms[r]
    /\ endpoint[s] = "left" => s \notin all_websockets /\ \A r \in Name : s \notin rooms[r]

\* An endpoint whose client left comes to clean up, whether its receive or a send of
\* the manager meets the disconnect first.
DepartedCleansUp ==
  \A s \in Fickle : endpoint[s] = "receiving" /\ conn[s] # "open" ~> endpoint[s] = "left"

\* What a subscription receives is delivered, unless its consumer fails or the
\* application stops.
InboxDelivered ==
  \A m \in Message : (\E i \in 1..Len(inbox[ChannelOf[m]]) : inbox[ChannelOf[m]][i] = m) ~>
    \/ job[m] \in {"done", "skipped"}
    \/ consumer[ChannelOf[m]] \in {"failed", "ended"}
    \/ closer = "gathering"

\* A consumer that fails subscribes again.
ConsumerReturns ==
  \A ch \in Channel : consumer[ch] = "failed" ~> Subscribed(ch) \/ stopping

\* Delivering goes on across the failures of a consumer.
DeliveryGoesOn == InboxDelivered /\ ConsumerReturns

\* Once the event is set both consumers end, and shutdown() with them.  The one
\* exception: shutdown() waits for a consumer that has a message in hand, and that
\* consumer for the lock that shutdown() holds.
StopsUnlessLocked ==
  stopping ~>
    \/ \A ch \in Channel : consumer[ch] = "ended" /\ closer # "gathering"
    \/ closer = "gathering" /\ \E ch \in Channel : hand[ch] # Nil

\* What is told to end, or whose client has left, ends and cleans up.
HubWindsDown == DepartedCleansUp /\ StopsUnlessLocked
=============================================================================
