------------------------- MODULE WebSocketHubProofs -------------------------
(***************************************************************************)
(* Proofs about WebSocketHub: the permits of the semaphore, the delivery   *)
(* of a message and the registry of connections, for any sockets, messages *)
(* and rooms.                                                              *)
(***************************************************************************)
EXTENDS WebSocketHub, FiniteSetTheorems, TLAPS

\* The types that the argument uses.
HubTypes ==
  /\ traffic \in Traffic
  /\ consumer \in [Channel -> {"starting", "polling", "acquiring", "locking", "failed", "ended"}]
  /\ inbox \in [Channel -> Seq(Message)]
  /\ hand \in [Channel -> Message \cup {Nil}]
  /\ task_semaphore \in Nat
  /\ job \in [Message -> {"none", "snapshot", "sending", "done", "skipped"}]
  /\ snap \in [Message -> SUBSET Socket]
  /\ todo \in [Message -> [Socket -> Nat]]
  /\ dropped \in [Message -> SUBSET Socket]
  /\ received \in [Message -> [Socket -> Nat]]
  /\ conn \in [Socket -> {"open", "gone", "failed", "read"}]
  /\ all_websockets \in SUBSET Socket
  /\ rooms \in [Name -> SUBSET Socket]

\* A message is in one place at a time: not published, in the inbox of its channel once,
\* in the hand of its consumer, or with a task.
Ahead(ch) ==
  /\ \A i \in 1..Len(inbox[ch]) :
       /\ inbox[ch][i] \in published
       /\ job[inbox[ch][i]] = "none"
       /\ ChannelOf[inbox[ch][i]] = ch
       /\ inbox[ch][i] # hand[ch]
       /\ \A j \in 1..Len(inbox[ch]) : i # j => inbox[ch][i] # inbox[ch][j]
  /\ hand[ch] # Nil => /\ hand[ch] \in published
                       /\ job[hand[ch]] = "none"
                       /\ ChannelOf[hand[ch]] = ch
  /\ consumer[ch] \in {"acquiring", "locking"} => hand[ch] # Nil

OnePlace ==
  /\ \A ch \in Channel : Ahead(ch)
  /\ \A m \in Message : m \notin published => job[m] = "none"

\* What a task has done and has still to do for a socket.
Delivery(m, s) ==
  /\ received[m][s] + todo[m][s] <= 1
  /\ job[m] \in {"none", "snapshot"} => received[m][s] = 0 /\ todo[m][s] = 0
  /\ s \in dropped[m] => ~is_ws_connected(s)
  /\ s \in snap[m] => \/ job[m] = "sending" /\ todo[m][s] = 1
                      \/ received[m][s] = 1
                      \/ ~is_ws_connected(s)
  /\ job[m] \in {"none", "snapshot"} => s \notin snap[m]

Deliveries == \A m \in Message, s \in Socket : Delivery(m, s)

HInv ==
  /\ HubTypes
  /\ OnePlace
  /\ PermitsConserved
  /\ Deliveries

-----------------------------------------------------------------------------
\* The sets that PermitsConserved counts.
LEMMA CountedSets ==
  /\ IsFiniteSet(Locking) /\ Cardinality(Locking) \in Nat
  /\ IsFiniteSet(Working) /\ Cardinality(Working) \in Nat
<1>1. IsFiniteSet(Channel)
  <2>1. Channel = {"send"} \cup {"broadcast"}
    BY Zenon DEF Channel
  <2>2. QED
    BY <2>1, FS_Singleton, FS_AddElement, Zenon
<1>2. IsFiniteSet(Locking) /\ IsFiniteSet(Working)
  BY <1>1, FS_Subset, HubAssumption, Zenon DEF Locking, Working
<1>3. QED
  BY <1>2, FS_CardinalityType, Zenon

\* The permits stay when neither side of the sum changes.
LEMMA SamePermits ==
  ASSUME PermitsConserved, Locking' = Locking, Working' = Working,
         task_semaphore' = task_semaphore
  PROVE  PermitsConserved'
BY Zenon DEF PermitsConserved

LEMMA InitHInv == HubInit => HInv
<1> SUFFICES ASSUME HubInit PROVE HInv
  BY Zenon
<1>1. HubTypes
  BY HubAssumption DEF HubInit, HubTypes, None
<1>2. OnePlace
  BY DEF HubInit, OnePlace, Ahead
<1>3. PermitsConserved
  <2>1. Locking = {} /\ Working = {}
    BY Zenon DEF HubInit, Locking, Working
  <2>2. QED
    BY <2>1, FS_EmptySet, HubAssumption DEF HubInit, PermitsConserved
<1>4. Deliveries
  BY DEF HubInit, Deliveries, Delivery, None
<1>5. QED
  BY <1>1, <1>2, <1>3, <1>4, Zenon DEF HInv

-----------------------------------------------------------------------------
\* The invariant is a function of four groups of variables; an action that leaves a group
\* alone leaves its conjunct alone.
LEMMA SameOnePlace ==
  ASSUME OnePlace, UNCHANGED consumerVars, UNCHANGED job
  PROVE  OnePlace'
BY DEF OnePlace, Ahead, consumerVars, ChannelOf

LEMMA SameDeliveries ==
  ASSUME Deliveries, UNCHANGED jobVars, UNCHANGED conn
  PROVE  Deliveries'
BY DEF Deliveries, Delivery, jobVars, is_ws_connected

-----------------------------------------------------------------------------
(* The consumers.                                                          *)

LEMMA PublishHInv ==
  ASSUME HInv, NEW m \in Message, PublishToRedis(m)
  PROVE  HInv'
<1>0. HubTypes /\ OnePlace
  BY Zenon DEF HInv
<1>1. HubTypes'
  BY <1>0, HubAssumption
  DEF PublishToRedis, HubTypes, jobVars, managerVars, ChannelOf, Channel
<1>2. OnePlace'
  <2>1. job' = job /\ hand' = hand /\ consumer' = consumer /\ traffic' = traffic
        /\ published' = published \cup {m} /\ m \notin published
    BY Zenon DEF PublishToRedis, jobVars
  <2>2. ChannelOf' = ChannelOf
    BY <2>1, Zenon DEF ChannelOf
  <2>3. ASSUME NEW ch \in Channel PROVE Ahead(ch)'
    <3>1. CASE inbox'[ch] = inbox[ch]
      BY <3>1, <2>1, <2>2, <1>0, SMTT(30) DEF OnePlace, Ahead
    <3>2. CASE inbox'[ch] = Append(inbox[ch], m) /\ ch = ChannelOf[m]
      <4>1. inbox[ch] \in Seq(Message)
        BY <1>0, Zenon DEF HubTypes
      <4>2. Len(inbox'[ch]) = Len(inbox[ch]) + 1
            /\ \A i \in 1..Len(inbox'[ch]) :
                 inbox'[ch][i] = IF i = Len(inbox[ch]) + 1 THEN m ELSE inbox[ch][i]
        BY <4>1, <3>2
      <4>3. hand[ch] # m
        BY <2>1, <1>0, HubAssumption DEF OnePlace, Ahead
      <4>4. job[m] = "none"
        BY <2>1, <1>0, Zenon DEF OnePlace
      <4>5. QED
        BY <4>1, <4>2, <4>3, <4>4, <3>2, <2>1, <2>2, <1>0 DEF OnePlace, Ahead
    <3>3. QED
      BY <3>1, <3>2, <1>0, Zenon DEF PublishToRedis, HubTypes
  <2>4. QED
    BY <2>1, <2>3, <1>0, Zenon DEF OnePlace
<1>3. PermitsConserved'
  BY SamePermits, Zenon DEF HInv, PublishToRedis, jobVars, Locking, Working
<1>4. Deliveries'
  BY SameDeliveries, Zenon DEF HInv, PublishToRedis, managerVars
<1>5. QED
  BY <1>1, <1>2, <1>3, <1>4, Zenon DEF HInv

\* The steps of a consumer before it holds a permit, and its end.
LEMMA ReadHInv ==
  ASSUME HInv, NEW ch \in Channel,
         \/ SubscribeChannel(ch) \/ RedisFails(ch) \/ ReadMessage(ch) \/ ReadGarbled(ch)
         \/ StopPolling(ch) \/ RetryConsumer(ch)
  PROVE  HInv'
<1>0. HubTypes /\ OnePlace
  BY Zenon DEF HInv
<1>1. /\ UNCHANGED jobVars /\ UNCHANGED managerVars /\ task_semaphore' = task_semaphore
      /\ traffic' = traffic /\ published' = published
  BY Zenon
    DEF SubscribeChannel, RedisFails, ReadMessage, ReadGarbled, StopPolling, RetryConsumer,
         ConsumerDone
<1>2. consumer[ch] \in {"starting", "polling", "failed"}
  BY Zenon
    DEF SubscribeChannel, RedisFails, ReadMessage, ReadGarbled, StopPolling, RetryConsumer,
         ConsumerDone
<1>3. \E v \in {"starting", "polling", "acquiring", "failed", "ended"} :
        consumer' = [consumer EXCEPT ![ch] = v]
  BY Zenon
    DEF SubscribeChannel, RedisFails, ReadMessage, ReadGarbled, StopPolling, RetryConsumer,
         ConsumerDone
<1>4. inbox[ch] \in Seq(Message)
  BY <1>0, Zenon DEF HubTypes
<1>5. \/ inbox' = inbox /\ hand' = hand /\ consumer'[ch] # "acquiring"
      \/ /\ inbox' = [inbox EXCEPT ![ch] = <<>>] /\ hand' = [hand EXCEPT ![ch] = Nil]
         /\ consumer'[ch] # "acquiring"
      \/ /\ inbox[ch] # <<>>
         /\ inbox' = [inbox EXCEPT ![ch] = Tail(@)]
         /\ hand' = [hand EXCEPT ![ch] = Head(inbox[ch])]
  BY <1>0, Zenon
    DEF SubscribeChannel, RedisFails, ReadMessage, ReadGarbled, StopPolling, RetryConsumer,
         ConsumerDone, HubTypes
<1>6. HubTypes'
  <2>1. consumer' \in [Channel -> {"starting", "polling", "acquiring", "locking", "failed",
                                   "ended"}]
    BY <1>0, <1>3, Zenon DEF HubTypes
  <2>2. inbox[ch] # <<>> => Tail(inbox[ch]) \in Seq(Message) /\ Head(inbox[ch]) \in Message
    BY <1>4
  <2>3. <<>> \in Seq(Message)
    OBVIOUS
  <2>4. inbox' \in [Channel -> Seq(Message)]
    BY <1>0, <1>5, <2>2, <2>3, ZenonT(60) DEF HubTypes
  <2>5. hand' \in [Channel -> Message \cup {Nil}]
    BY <1>0, <1>5, <2>2, ZenonT(60) DEF HubTypes
  <2>6. QED
    BY <1>0, <1>1, <2>1, <2>4, <2>5, Zenon DEF HubTypes, jobVars, managerVars
<1>7. OnePlace'
  <2>1. ChannelOf' = ChannelOf
    BY <1>1, Zenon DEF ChannelOf
  <2>2. ASSUME NEW c \in Channel PROVE Ahead(c)'
    <3>1. CASE c # ch
      <4>1. consumer'[c] = consumer[c] /\ inbox'[c] = inbox[c] /\ hand'[c] = hand[c]
        BY <3>1, <1>0, <1>3, <1>5, Zenon DEF HubTypes
      <4>2. Ahead(c)
        BY <1>0, Zenon DEF OnePlace
      <4>3. QED
        BY <4>1, <4>2, <2>1, <1>1 DEF Ahead, jobVars
    <3>2. CASE c = ch /\ inbox' = inbox /\ hand' = hand /\ consumer'[ch] # "acquiring"
      <4>1. consumer'[ch] \notin {"acquiring", "locking"}
        BY <3>2, <1>0, <1>3, Zenon DEF HubTypes
      <4>2. Ahead(ch)
        BY <1>0, Zenon DEF OnePlace
      <4>3. QED
        BY <3>2, <4>1, <4>2, <2>1, <1>1 DEF Ahead, jobVars
    <3>3. CASE /\ c = ch /\ inbox' = [inbox EXCEPT ![ch] = <<>>]
               /\ hand' = [hand EXCEPT ![ch] = Nil] /\ consumer'[ch] # "acquiring"
      BY <3>3, <2>1, <1>0, <1>1, <1>3 DEF HubTypes, OnePlace, Ahead, jobVars
    <3>4. CASE /\ c = ch /\ inbox[ch] # <<>>
               /\ inbox' = [inbox EXCEPT ![ch] = Tail(@)]
               /\ hand' = [hand EXCEPT ![ch] = Head(inbox[ch])]
      <4>1. /\ Len(inbox'[ch]) = Len(inbox[ch]) - 1 /\ Len(inbox[ch]) \in Nat \ {0}
            /\ \A i \in 1..Len(inbox'[ch]) : inbox'[ch][i] = inbox[ch][i + 1]
            /\ hand'[ch] = inbox[ch][1] /\ inbox[ch][1] \in Message
        BY <3>4, <1>0, <1>4 DEF HubTypes
      <4>2. Ahead(ch)
        BY <1>0 DEF OnePlace
      <4>3. hand'[ch] # Nil
        BY <4>1, HubAssumption, Zenon
      <4>4. job' = job /\ published' = published /\ c = ch
        BY <3>4, <1>1, Zenon DEF jobVars
      <4> DEFINE n == Len(inbox[ch])
      <4>5. \A i \in 1..(n - 1) : i + 1 \in 1..n /\ i + 1 # 1 /\ 1 \in 1..n
        BY <4>1
      <4>6. ASSUME NEW i \in 1..Len(inbox'[ch])
            PROVE  /\ inbox'[ch][i] \in published' /\ job'[inbox'[ch][i]] = "none"
                   /\ ChannelOf'[inbox'[ch][i]] = ch /\ inbox'[ch][i] # hand'[ch]
        BY <4>1, <4>2, <4>4, <4>5, <2>1 DEF Ahead
      <4>7. ASSUME NEW i \in 1..Len(inbox'[ch]), NEW j \in 1..Len(inbox'[ch]), i # j
            PROVE  inbox'[ch][i] # inbox'[ch][j]
        <5>1. i + 1 \in 1..n /\ j + 1 \in 1..n /\ i + 1 # j + 1
          BY <4>1, <4>5, <4>7, SMTT(30)
        <5>2. inbox[ch][i + 1] # inbox[ch][j + 1]
          BY <4>2, <5>1, Zenon DEF Ahead
        <5>3. QED
          BY <4>1, <5>2, Zenon
      <4>8. /\ hand'[ch] \in published' /\ job'[hand'[ch]] = "none"
            /\ ChannelOf'[hand'[ch]] = ch
        <5>1. 1 \in 1..Len(inbox[ch])
          BY <4>1
        <5>2. QED
          BY <5>1, <4>1, <4>2, <4>4, <2>1, Zenon DEF Ahead
      <4>9. QED
        BY <4>3, <4>4, <4>6, <4>7, <4>8, ZenonT(60) DEF Ahead
    <3>5. QED
      BY <3>1, <3>2, <3>3, <3>4, <1>5, Zenon
  <2>3. QED
    BY <2>2, <1>0, <1>1, Zenon DEF OnePlace, jobVars
<1>8. PermitsConserved'
  <2>1. Locking' = Locking
    BY <1>0, <1>2, <1>3, Zenon DEF HubTypes, Locking
  <2>2. Working' = Working
    BY <1>1, Zenon DEF Working, jobVars
  <2>3. QED
    BY <2>1, <2>2, <1>1, SamePermits, Zenon DEF HInv
<1>9. Deliveries'
  BY <1>1, SameDeliveries, Zenon DEF HInv, managerVars
<1>10. QED
  BY <1>6, <1>7, <1>8, <1>9, Zenon DEF HInv

\* A consumer takes a permit, and hands it on to the task or returns it.
LEMMA AcquireHInv ==
  ASSUME HInv, NEW ch \in Channel, Acquire(ch)
  PROVE  HInv'
<1>0. HubTypes /\ OnePlace /\ PermitsConserved
  BY Zenon DEF HInv
<1>1. /\ UNCHANGED jobVars /\ UNCHANGED managerVars
      /\ UNCHANGED <<traffic, published, inbox, hand>>
      /\ consumer' = [consumer EXCEPT ![ch] = "locking"] /\ consumer[ch] = "acquiring"
      /\ task_semaphore > 0 /\ task_semaphore' = task_semaphore - 1
  BY Zenon DEF Acquire
<1>2. HubTypes'
  BY <1>0, <1>1 DEF HubTypes, jobVars, managerVars
<1>3. OnePlace'
  <2>1. ChannelOf' = ChannelOf
    BY <1>1, Zenon DEF ChannelOf
  <2>2. ASSUME NEW c \in Channel PROVE Ahead(c)'
    <3>1. consumer'[c] \in {"acquiring", "locking"} => consumer[c] \in {"acquiring", "locking"}
      BY <1>0, <1>1, Zenon DEF HubTypes
    <3>2. Ahead(c)
      BY <1>0, Zenon DEF OnePlace
    <3>3. QED
      BY <3>1, <3>2, <2>1, <1>1 DEF Ahead, jobVars
  <2>3. QED
    BY <2>2, <1>0, <1>1, Zenon DEF OnePlace, jobVars
<1>4. PermitsConserved'
  <2>1. Locking' = Locking \cup {ch} /\ ch \notin Locking
    BY <1>0, <1>1, Zenon DEF HubTypes, Locking
  <2>2. Cardinality(Locking') = Cardinality(Locking) + 1
    BY <2>1, CountedSets, FS_AddElement, ZenonT(60)
  <2>3. Working' = Working
    BY <1>1, Zenon DEF Working, jobVars
  <2>4. QED
    BY <2>2, <2>3, <1>0, <1>1, CountedSets DEF HubTypes, PermitsConserved
<1>5. Deliveries'
  BY <1>1, SameDeliveries, Zenon DEF HInv, managerVars
<1>6. QED
  BY <1>2, <1>3, <1>4, <1>5, Zenon DEF HInv

LEMMA SpawnHInv ==
  ASSUME HInv, NEW ch \in Channel, Spawn(ch) \/ SpawnFails(ch)
  PROVE  HInv'
<1>0. HubTypes /\ OnePlace /\ PermitsConserved /\ Deliveries
  BY Zenon DEF HInv
<1>1. /\ UNCHANGED <<snap, todo, dropped, received>> /\ UNCHANGED managerVars
      /\ UNCHANGED <<traffic, published>> /\ consumer[ch] = "locking"
      /\ hand' = [hand EXCEPT ![ch] = Nil]
  BY Zenon DEF Spawn, SpawnFails, NextMessage
<1>2. \/ inbox' = inbox /\ consumer' = [consumer EXCEPT ![ch] = "polling"]
      \/ /\ inbox' = [inbox EXCEPT ![ch] = <<>>]
         /\ consumer' = [consumer EXCEPT ![ch] = "ended"]
  BY Zenon DEF Spawn, SpawnFails, NextMessage
<1>3. \/ task_semaphore' = task_semaphore /\ job' = [job EXCEPT ![hand[ch]] = "snapshot"]
      \/ task_semaphore' = task_semaphore + 1 /\ job' = [job EXCEPT ![hand[ch]] = "skipped"]
  BY Zenon DEF Spawn, SpawnFails
<1>4. /\ hand[ch] \in Message /\ job[hand[ch]] = "none" /\ ChannelOf[hand[ch]] = ch
      /\ hand[ch] \in published
  BY <1>0, <1>1 DEF HubTypes, OnePlace, Ahead
<1>5. \A m \in Message : m # hand[ch] => job'[m] = job[m]
  BY <1>0, <1>3, Zenon DEF HubTypes
<1>6. HubTypes'
  <2>1. job' \in [Message -> {"none", "snapshot", "sending", "done", "skipped"}]
        /\ task_semaphore' \in Nat
    <3>1. job \in [Message -> {"none", "snapshot", "sending", "done", "skipped"}]
          /\ task_semaphore \in Nat
      BY <1>0, Zenon DEF HubTypes
    <3>2. QED
      BY <1>3, <1>4, <3>1
  <2>2. <<>> \in Seq(Message)
    OBVIOUS
  <2>3. inbox' \in [Channel -> Seq(Message)]
    <3>1. inbox \in [Channel -> Seq(Message)]
      BY <1>0, Zenon DEF HubTypes
    <3>2. inbox' = inbox \/ inbox' = [inbox EXCEPT ![ch] = <<>>]
      BY <1>2, Zenon
    <3>3. QED
      BY <2>2, <3>1, <3>2, Zenon
  <2>4. consumer' \in [Channel -> {"starting", "polling", "acquiring", "locking", "failed",
                                   "ended"}]
    BY <1>0, <1>2, Zenon DEF HubTypes
  <2>5. QED
    BY <1>0, <1>1, <2>1, <2>3, <2>4, Zenon DEF HubTypes, managerVars
<1>7. OnePlace'
  <2>1. ChannelOf' = ChannelOf
    BY <1>1, Zenon DEF ChannelOf
  <2>2. ASSUME NEW c \in Channel PROVE Ahead(c)'
    <3>1. Ahead(c) /\ Ahead(ch)
      BY <1>0, Zenon DEF OnePlace
    <3>2. inbox[c] \in Seq(Message)
      BY <1>0, Zenon DEF HubTypes
    <3>3. \A i \in 1..Len(inbox[c]) : inbox[c][i] \in Message /\ inbox[c][i] # hand[ch]
      BY <3>1, <3>2, <1>4, SMTT(30) DEF Ahead
    <3>4. CASE c # ch
      <4>1. consumer'[c] = consumer[c] /\ inbox'[c] = inbox[c] /\ hand'[c] = hand[c]
        BY <3>4, <1>0, <1>1, <1>2, Zenon DEF HubTypes
      <4>2. hand[c] # Nil => hand[c] # hand[ch] /\ hand[c] \in Message
        <5>1. hand[c] \in Message \cup {Nil}
          BY <1>0, Zenon DEF HubTypes
        <5>2. hand[c] # Nil => ChannelOf[hand[c]] = c
          BY <3>1, Zenon DEF Ahead
        <5>3. QED
          BY <5>1, <5>2, <3>4, <1>4, Zenon
      <4>3. QED
        BY <4>1, <4>2, <3>1, <3>3, <2>1, <1>1, <1>5, SMTT(30) DEF Ahead
    <3>5. CASE c = ch
      <4>1. consumer'[c] \notin {"acquiring", "locking"} /\ hand'[c] = Nil
            /\ (inbox'[c] = inbox[c] \/ inbox'[c] = <<>>)
        BY <3>5, <1>0, <1>1, <1>2, Zenon DEF HubTypes
      <4>2. \A i \in 1..Len(inbox[c]) : inbox[c][i] # Nil
        BY <3>3, HubAssumption, Zenon
      <4>3. CASE inbox'[c] = <<>>
        BY <4>1, <4>3, SMTT(30) DEF Ahead
      <4>4. CASE inbox'[c] = inbox[c]
        BY <4>1, <4>2, <4>4, <3>1, <3>3, <2>1, <1>1, <1>5, SMTT(30) DEF Ahead
      <4>5. QED
        BY <4>1, <4>3, <4>4, Zenon
    <3>6. QED
      BY <3>4, <3>5, Zenon
  <2>3. QED
    BY <2>2, <1>0, <1>1, <1>4, <1>5, Zenon DEF OnePlace
<1>8. PermitsConserved'
  <2>1. Locking' = Locking \ {ch} /\ ch \in Locking
    BY <1>0, <1>1, <1>2 DEF HubTypes, Locking
  <2>2. Cardinality(Locking') = Cardinality(Locking) - 1
    BY <2>1, CountedSets, FS_RemoveElement, Zenon
  <2>3. CASE task_semaphore' = task_semaphore /\ job' = [job EXCEPT ![hand[ch]] = "snapshot"]
    <3>1. Working' = Working \cup {hand[ch]} /\ hand[ch] \notin Working
      BY <2>3, <1>0, <1>4 DEF HubTypes, Working
    <3>2. Cardinality(Working') = Cardinality(Working) + 1
      BY <3>1, CountedSets, FS_AddElement, Zenon
    <3>3. QED
      BY <2>2, <2>3, <3>2, <1>0, CountedSets, SMTT(30) DEF HubTypes, PermitsConserved
  <2>4. CASE /\ task_semaphore' = task_semaphore + 1
             /\ job' = [job EXCEPT ![hand[ch]] = "skipped"]
    <3>1. Working' = Working
      BY <2>4, <1>0, <1>4, Zenon DEF HubTypes, Working
    <3>2. QED
      BY <2>2, <2>4, <3>1, <1>0, CountedSets, SMTT(30) DEF HubTypes, PermitsConserved
  <2>5. QED
    BY <2>3, <2>4, <1>3, Zenon
<1>9. Deliveries'
  <2>1. ASSUME NEW m \in Message, NEW s \in Socket PROVE Delivery(m, s)'
    <3>1. Delivery(m, s) /\ is_ws_connected(s)' = is_ws_connected(s)
      <4>1. Delivery(m, s)
        BY <1>0, Zenon DEF Deliveries
      <4>2. is_ws_connected(s)' = is_ws_connected(s)
        BY <1>1, Zenon DEF managerVars, is_ws_connected
      <4>3. QED
        BY <4>1, <4>2, Zenon
    <3>2. CASE m # hand[ch]
      BY <3>1, <3>2, <1>1, <1>5, Zenon DEF Delivery
    <3>3. CASE m = hand[ch]
      <4>1. job[m] = "none" /\ job'[m] \in {"snapshot", "skipped"}
        BY <3>3, <1>0, <1>3, <1>4 DEF HubTypes
      <4>2. QED
        BY <4>1, <3>1, <1>1, Zenon DEF Delivery
    <3>4. QED
      BY <3>2, <3>3, Zenon
  <2>2. QED
    BY <2>1, Zenon DEF Deliveries
<1>10. QED
  BY <1>6, <1>7, <1>8, <1>9, Zenon DEF HInv

-----------------------------------------------------------------------------
(* The tasks.                                                              *)

LEMMA SnapshotHInv ==
  ASSUME HInv, NEW m \in Message, Snapshot(m)
  PROVE  HInv'
<1>0. HubTypes /\ OnePlace /\ PermitsConserved /\ Deliveries
  BY Zenon DEF HInv
<1>1. /\ UNCHANGED consumerVars /\ UNCHANGED <<task_semaphore, dropped, received>>
      /\ UNCHANGED managerVars /\ job[m] = "snapshot" /\ job' = [job EXCEPT ![m] = "sending"]
      /\ snap' = [snap EXCEPT ![m] = Targets(m)]
      /\ todo' = [todo EXCEPT ![m] = [s \in Socket |-> IF s \in Targets(m) THEN 1 ELSE 0]]
  BY Zenon DEF Snapshot
<1>2. Targets(m) \in SUBSET Socket
  <2>1. DecodedRooms(m) \subseteq Name
    BY <1>0, HubAssumption, SMTT(30) DEF HubTypes, DecodedRooms, RoomsOf
  <2>2. QED
    BY <2>1, <1>0 DEF HubTypes, Targets
<1>3. HubTypes'
  BY <1>0, <1>1, <1>2, Zenon DEF HubTypes, consumerVars, managerVars
<1>4. \A k \in Message : k # m => job'[k] = job[k] /\ snap'[k] = snap[k] /\ todo'[k] = todo[k]
  BY <1>0, <1>1, Zenon DEF HubTypes
<1>5. OnePlace'
  <2>1. ChannelOf' = ChannelOf
    BY <1>1, Zenon DEF ChannelOf, consumerVars
  <2>2. \A k \in Message : job[k] = "none" => job'[k] = "none"
    BY <1>0, <1>1, Zenon DEF HubTypes
  <2>3. ASSUME NEW c \in Channel PROVE Ahead(c)'
    <3>1. Ahead(c) /\ inbox[c] \in Seq(Message) /\ hand[c] \in Message \cup {Nil}
      BY <1>0, Zenon DEF OnePlace, HubTypes
    <3>2. \A i \in 1..Len(inbox[c]) : inbox[c][i] \in Message
      BY <3>1
    <3>3. QED
      BY <3>1, <3>2, <2>1, <2>2, <1>1, SMTT(30) DEF Ahead, consumerVars
  <2>4. QED
    BY <2>2, <2>3, <1>0, <1>1, Zenon DEF OnePlace, consumerVars
<1>6. PermitsConserved'
  <2>1. Working' = Working /\ Locking' = Locking
    BY <1>0, <1>1, Zenon DEF HubTypes, Working, Locking, consumerVars
  <2>2. QED
    BY <2>1, <1>0, <1>1, SamePermits, Zenon
<1>7. Deliveries'
  <2>1. ASSUME NEW k \in Message, NEW s \in Socket PROVE Delivery(k, s)'
    <3>1. Delivery(k, s) /\ is_ws_connected(s)' = is_ws_connected(s)
      <4>1. Delivery(k, s)
        BY <1>0, Zenon DEF Deliveries
      <4>2. is_ws_connected(s)' = is_ws_connected(s)
        BY <1>1, Zenon DEF managerVars, is_ws_connected
      <4>3. QED
        BY <4>1, <4>2, Zenon
    <3>2. CASE k # m
      BY <3>1, <3>2, <1>1, <1>4, Zenon DEF Delivery
    <3>3. CASE k = m
      <4>1. job'[k] = "sending" /\ received'[k][s] = 0 /\ dropped' = dropped
            /\ snap'[k] = Targets(m) /\ todo'[k][s] = IF s \in Targets(m) THEN 1 ELSE 0
        BY <3>1, <3>3, <1>0, <1>1, Zenon DEF HubTypes, Delivery
      <4>2. QED
        BY <4>1, <3>1, SMTT(30) DEF Delivery
    <3>4. QED
      BY <3>2, <3>3, Zenon
  <2>2. QED
    BY <2>1, Zenon DEF Deliveries
<1>8. QED
  BY <1>3, <1>5, <1>6, <1>7 DEF HInv

LEMMA TrySendHInv ==
  ASSUME HInv, NEW m \in Message, NEW s \in Socket, TrySend(m, s)
  PROVE  HInv'
<1>0. HubTypes /\ OnePlace /\ PermitsConserved /\ Deliveries
  BY Zenon DEF HInv
<1>1. /\ UNCHANGED consumerVars
      /\ UNCHANGED <<task_semaphore, job, snap, endpoint, all_websockets, rooms>>
      /\ job[m] = "sending" /\ todo[m][s] > 0
      /\ todo' = [todo EXCEPT ![m][s] = @ - 1]
  BY Zenon DEF TrySend
<1>2. \/ /\ conn[s] = "open" /\ received' = [received EXCEPT ![m][s] = @ + 1]
         /\ dropped' = dropped /\ conn' = conn
      \/ /\ conn[s] # "open" /\ received' = received
         /\ dropped' = [dropped EXCEPT ![m] = @ \cup {s}]
         /\ conn' = IF is_ws_connected(s) THEN [conn EXCEPT ![s] = "failed"] ELSE conn
  BY Zenon DEF TrySend, is_ws_connected
<1>3. \A t \in Socket : /\ conn'[t] = "open" => conn[t] = "open"
                        /\ conn[t] = "open" => conn'[t] = "open"
                        /\ ~is_ws_connected(t) => ~is_ws_connected(t)'
  BY <1>0, <1>2, SMTT(30) DEF HubTypes, is_ws_connected
<1>4. HubTypes'
  <2>1. conn' \in [Socket -> {"open", "gone", "failed", "read"}]
        /\ dropped' \in [Message -> SUBSET Socket]
    <3>1. conn \in [Socket -> {"open", "gone", "failed", "read"}]
          /\ dropped \in [Message -> SUBSET Socket]
      BY <1>0, Zenon DEF HubTypes
    <3>2. dropped[m] \cup {s} \in SUBSET Socket
      BY <3>1, Zenon
    <3>3. conn' \in [Socket -> {"open", "gone", "failed", "read"}]
      BY <1>2, <3>1, Zenon
    <3>4. dropped' \in [Message -> SUBSET Socket]
      BY <1>2, <3>1, <3>2, Zenon
    <3>5. QED
      BY <3>3, <3>4, Zenon
  <2>2. received' \in [Message -> [Socket -> Nat]]
    <3>1. received \in [Message -> [Socket -> Nat]] /\ received[m][s] + 1 \in Nat
      BY <1>0 DEF HubTypes
    <3>2. QED
      BY <1>2, <3>1
  <2>3. todo' \in [Message -> [Socket -> Nat]]
    <3>1. todo[m][s] - 1 \in Nat
      BY <1>0, <1>1 DEF HubTypes
    <3>2. QED
      BY <3>1, <1>0, <1>1, Zenon DEF HubTypes
  <2>4. QED
    BY <2>1, <2>2, <2>3, <1>0, <1>1, Zenon DEF HubTypes, consumerVars
<1>5. OnePlace'
  BY <1>0, <1>1, SameOnePlace, Zenon
<1>6. PermitsConserved'
  BY <1>0, <1>1, SamePermits, Zenon DEF Working, Locking, consumerVars
<1>7. Deliveries'
  <2>1. ASSUME NEW k \in Message, NEW t \in Socket PROVE Delivery(k, t)'
    <3>1. Delivery(k, t) /\ received[k][t] \in Nat /\ todo[k][t] \in Nat
      BY <1>0, Zenon DEF Deliveries, HubTypes
    <3>2. CASE k # m \/ t # s
      <4>1. todo'[k][t] = todo[k][t] /\ received'[k][t] = received[k][t]
            /\ (t \in dropped'[k] => t \in dropped[k])
        BY <3>2, <1>0, <1>1, <1>2, SMTT(30) DEF HubTypes
      <4>2. QED
        BY <4>1, <3>1, <1>1, <1>3, Zenon DEF Delivery
    <3>3. CASE k = m /\ t = s
      <4>1. todo'[m][s] = todo[m][s] - 1 /\ todo[m][s] = 1 /\ received[m][s] = 0
        BY <3>1, <3>3, <1>0, <1>1, SMTT(30) DEF HubTypes, Delivery
      <4>2. CASE conn[s] = "open" /\ received' = [received EXCEPT ![m][s] = @ + 1]
                 /\ dropped' = dropped /\ conn' = conn
        <5>1. received'[m][s] = 1
          BY <4>1, <4>2, <1>0, SMTT(30) DEF HubTypes
        <5>2. QED
          BY <5>1, <4>1, <4>2, <3>1, <3>3, <1>1, <1>3, SMTT(30) DEF Delivery
      <4>3. CASE received' = received /\ ~is_ws_connected(s)'
        BY <4>1, <4>3, <3>1, <3>3, <1>1, SMTT(30) DEF Delivery
      <4>4. QED
        BY <4>2, <4>3, <1>0, <1>2, <1>3, Zenon DEF HubTypes, is_ws_connected
    <3>4. QED
      BY <3>2, <3>3, Zenon
  <2>2. QED
    BY <2>1, Zenon DEF Deliveries
<1>8. QED
  BY <1>4, <1>5, <1>6, <1>7, Zenon DEF HInv

LEMMA ForgetHInv ==
  ASSUME HInv, NEW m \in Message, Forget(m)
  PROVE  HInv'
<1>0. HubTypes /\ OnePlace /\ PermitsConserved /\ Deliveries
  BY DEF HInv
<1>1. /\ UNCHANGED consumerVars /\ UNCHANGED <<snap, todo, dropped, received, endpoint, conn>>
      /\ job[m] = "sending" /\ todo[m] = None /\ job' = [job EXCEPT ![m] = "done"]
      /\ all_websockets' = all_websockets \ dropped[m]
      /\ rooms' = [r \in Name |-> rooms[r] \ dropped[m]]
      /\ task_semaphore' = task_semaphore + 1
  BY Zenon DEF Forget
<1>2. HubTypes'
  BY <1>0, <1>1 DEF HubTypes, consumerVars
<1>3. OnePlace'
  <2>1. ChannelOf' = ChannelOf
    BY <1>1, Zenon DEF ChannelOf, consumerVars
  <2>2. \A k \in Message : job[k] = "none" => job'[k] = "none"
    BY <1>0, <1>1, Zenon DEF HubTypes
  <2>3. ASSUME NEW c \in Channel PROVE Ahead(c)'
    <3>1. Ahead(c) /\ inbox[c] \in Seq(Message) /\ hand[c] \in Message \cup {Nil}
      BY <1>0, SMTT(30) DEF OnePlace, HubTypes
    <3>2. \A i \in 1..Len(inbox[c]) : inbox[c][i] \in Message
      BY <3>1
    <3>3. QED
      BY <3>1, <3>2, <2>1, <2>2, <1>1, ZenonT(60) DEF Ahead, consumerVars
  <2>4. QED
    BY <2>2, <2>3, <1>0, <1>1, ZenonT(60) DEF OnePlace, consumerVars
<1>4. PermitsConserved'
  <2>1. Working' = Working \ {m} /\ m \in Working /\ Locking' = Locking
    BY <1>0, <1>1, Zenon DEF HubTypes, Working, Locking, consumerVars
  <2>2. Cardinality(Working') = Cardinality(Working) - 1
    BY <2>1, CountedSets, FS_RemoveElement, ZenonT(60)
  <2>3. QED
    BY <2>1, <2>2, <1>0, <1>1, CountedSets, SMTT(30) DEF HubTypes, PermitsConserved
<1>5. Deliveries'
  <2>1. ASSUME NEW k \in Message, NEW s \in Socket PROVE Delivery(k, s)'
    <3>1. Delivery(k, s) /\ is_ws_connected(s)' = is_ws_connected(s)
      BY <1>0, <1>1, Zenon DEF Deliveries, is_ws_connected
    <3>2. CASE k # m
      BY <3>1, <3>2, <1>0, <1>1, Zenon DEF Delivery, HubTypes
    <3>3. CASE k = m
      <4>1. todo[k][s] = 0 /\ job'[k] = "done"
        BY <3>3, <1>0, <1>1, Zenon DEF HubTypes, None
      <4>2. QED
        BY <4>1, <3>1, <3>3, <1>1, SMTT(30) DEF Delivery
    <3>4. QED
      BY <3>2, <3>3
  <2>2. QED
    BY <2>1 DEF Deliveries
<1>6. QED
  BY <1>2, <1>3, <1>4, <1>5 DEF HInv

-----------------------------------------------------------------------------
(* The endpoints, and the end of the application.                          *)

LEMMA EndpointHInv ==
  ASSUME HInv, NEW s \in Socket, EndpointStep(s) \/ PeerLeaves(s)
  PROVE  HInv'
<1>0. HubTypes /\ OnePlace /\ PermitsConserved /\ Deliveries
  BY Zenon DEF HInv
<1>1. UNCHANGED consumerVars /\ task_semaphore' = task_semaphore /\ UNCHANGED jobVars
  BY Zenon
    DEF EndpointStep, add_websocket, join, ReceiveDisconnect, remove_websocket, PeerLeaves
\* What a step may do to the registry and to the connection.
<1>2. \/ all_websockets' = all_websockets
      \/ all_websockets' = all_websockets \cup {s}
      \/ all_websockets' = all_websockets \ {s}
  BY Zenon
    DEF EndpointStep, add_websocket, join, ReceiveDisconnect, remove_websocket, PeerLeaves
<1>3. \/ rooms' = rooms
      \/ rooms' = [r \in Name |-> IF r \in Joins[s] THEN rooms[r] \cup {s} ELSE rooms[r]]
      \/ rooms' = [r \in Name |-> rooms[r] \ {s}]
  BY Zenon
    DEF EndpointStep, add_websocket, join, ReceiveDisconnect, remove_websocket, PeerLeaves
<1>4. \/ conn' = conn
      \/ conn[s] = "open" /\ conn' = [conn EXCEPT ![s] = "gone"]
      \/ conn[s] = "gone" /\ conn' = [conn EXCEPT ![s] = "read"]
  BY Zenon
    DEF EndpointStep, add_websocket, join, ReceiveDisconnect, remove_websocket, PeerLeaves
<1>5. HubTypes'
  <2>1. /\ all_websockets \in SUBSET Socket /\ rooms \in [Name -> SUBSET Socket]
        /\ conn \in [Socket -> {"open", "gone", "failed", "read"}]
    BY <1>0, Zenon DEF HubTypes
  <2>2. all_websockets' \in SUBSET Socket /\ rooms' \in [Name -> SUBSET Socket]
    BY <2>1, <1>2, <1>3, SMTT(30)
  <2>3. conn' \in [Socket -> {"open", "gone", "failed", "read"}]
    BY <2>1, <1>4, Zenon
  <2>4. QED
    BY <2>2, <2>3, <1>0, <1>1, ZenonT(60) DEF HubTypes, consumerVars, jobVars
<1>6. OnePlace'
  BY <1>0, <1>1, SameOnePlace, Zenon DEF jobVars
<1>7. PermitsConserved'
  BY <1>0, <1>1, SamePermits, Zenon DEF Working, Locking, consumerVars, jobVars
<1>8. Deliveries'
  <2>1. \A t \in Socket : ~is_ws_connected(t) => ~is_ws_connected(t)'
    BY <1>0, <1>4, Zenon DEF HubTypes, is_ws_connected
  <2>2. QED
    BY <2>1, <1>0, <1>1, ZenonT(60) DEF Deliveries, Delivery, jobVars
<1>9. QED
  BY <1>5, <1>6, <1>7, <1>8, Zenon DEF HInv

LEMMA EndHInv ==
  ASSUME HInv, SetShutdownEvent \/ CloseStarts \/ CloseEnds \/ UNCHANGED hubVars
  PROVE  HInv'
<1>1. /\ UNCHANGED consumerVars /\ task_semaphore' = task_semaphore
      /\ UNCHANGED jobVars /\ UNCHANGED managerVars
  BY ZenonT(60) DEF SetShutdownEvent, CloseStarts, CloseEnds, hubVars
<1>2. HubTypes'
  BY <1>1, Zenon DEF HInv, HubTypes, consumerVars, jobVars, managerVars
<1>3. OnePlace' /\ Deliveries'
  BY <1>1, SameOnePlace, SameDeliveries, Zenon DEF HInv, jobVars, managerVars
<1>4. PermitsConserved'
  BY <1>1, SamePermits, Zenon DEF HInv, Working, Locking, consumerVars, jobVars
<1>5. QED
  BY <1>2, <1>3, <1>4, Zenon DEF HInv

LEMMA NextHInv == HInv /\ [HubNext]_hubVars => HInv'
BY PublishHInv, ReadHInv, AcquireHInv, SpawnHInv, SnapshotHInv, TrySendHInv, ForgetHInv,
   EndpointHInv, EndHInv, Zenon
DEF HubNext, JobStep, ConsumerStep

-----------------------------------------------------------------------------
\* No permit of task_semaphore leaks and none is returned twice, whatever fails and
\* whenever the application stops (consume_send, consume_broadcast and their done
\* callbacks).
THEOREM PermitsKept == HubSpec => []PermitsConserved
<1>1. HInv => PermitsConserved
  BY Zenon DEF HInv
<1>2. QED
  BY <1>1, InitHInv, NextHInv, PTL DEF HubSpec

\* A socket receives a message at most once, in however many of its rooms it is
\* (_send_from_backend), and a task that is done has reached all of its targets that could
\* be reached (_try_send catches what a dead client raises).
THEOREM MessagesDelivered == HubSpec => []DeliveredOnce
<1>1. HInv => ReceivedOnce
  BY SMTT(30) DEF HInv, HubTypes, Deliveries, Delivery, ReceivedOnce
<1>2. HInv => DoneReachedAll
  BY Zenon DEF HInv, Deliveries, Delivery, DoneReachedAll
<1>3. HInv => DeliveredOnce
  BY <1>1, <1>2, Zenon DEF DeliveredOnce
<1>4. QED
  BY <1>3, InitHInv, NextHInv, PTL DEF HubSpec

-----------------------------------------------------------------------------
(* The registry of the sockets.                                            *)

\* The types that the argument uses.
RegistryTypes ==
  /\ dropped \in [Message -> SUBSET Socket]
  /\ endpoint \in [Socket -> {"away", "added", "receiving", "leaving", "left"}]
  /\ conn \in [Socket -> {"open", "gone", "failed", "read"}]
  /\ all_websockets \in SUBSET Socket
  /\ rooms \in [Name -> SUBSET Socket]

\* An endpoint leaves after its client has.
LeavesGone == \A s \in Socket : endpoint[s] \in {"leaving", "left"} => conn[s] # "open"

\* A task forgets only sockets whose client has left.
DroppedGone == \A m \in Message : \A s \in dropped[m] : conn[s] # "open"

RegistryInv == RegistryTypes /\ LeavesGone /\ DroppedGone /\ RegistryAgrees

LEMMA InitRegistry == HubInit => RegistryInv
BY HubAssumption
  DEF HubInit, RegistryInv, RegistryTypes, LeavesGone, DroppedGone, RegistryAgrees

LEMMA SameRegistry ==
  ASSUME RegistryInv, UNCHANGED managerVars, UNCHANGED dropped
  PROVE  RegistryInv'
BY Zenon DEF RegistryInv, RegistryTypes, LeavesGone, DroppedGone, RegistryAgrees, managerVars

-----------------------------------------------------------------------------
(* The steps that change the registry.                                     *)

LEMMA TrySendRegistry ==
  ASSUME RegistryInv, NEW m \in Message, NEW s \in Socket, TrySend(m, s)
  PROVE  RegistryInv'
<1>0. RegistryTypes /\ LeavesGone /\ DroppedGone /\ RegistryAgrees
  BY Zenon DEF RegistryInv
<1>1. endpoint' = endpoint /\ all_websockets' = all_websockets /\ rooms' = rooms
  BY Zenon DEF TrySend
<1>2. \/ dropped' = dropped /\ conn' = conn
      \/ /\ conn[s] # "open" /\ dropped' = [dropped EXCEPT ![m] = @ \cup {s}]
         /\ conn' = conn \/ conn' = [conn EXCEPT ![s] = "failed"]
  BY Zenon DEF TrySend, is_ws_connected
<1>3. RegistryTypes'
  BY <1>0, <1>1, <1>2, SMTT(30) DEF RegistryTypes
<1>4. \A t \in Socket : conn'[t] = "open" <=> conn[t] = "open"
  BY <1>0, <1>2, Zenon DEF RegistryTypes
<1>5. LeavesGone' /\ RegistryAgrees'
  BY <1>0, <1>1, <1>4, ZenonT(60) DEF LeavesGone, RegistryAgrees
<1>6. DroppedGone'
  <2>1. ASSUME NEW k \in Message, NEW t \in dropped'[k] PROVE conn[t] # "open" /\ t \in Socket
    BY <1>0, <1>2, SMTT(30) DEF RegistryTypes, DroppedGone
  <2>2. QED
    BY <2>1, <1>4, Zenon DEF DroppedGone
<1>7. QED
  BY <1>3, <1>5, <1>6, Zenon DEF RegistryInv

LEMMA ForgetRegistry ==
  ASSUME RegistryInv, NEW m \in Message, Forget(m)
  PROVE  RegistryInv'
<1>0. RegistryTypes /\ LeavesGone /\ DroppedGone /\ RegistryAgrees
  BY Zenon DEF RegistryInv
<1>1. /\ UNCHANGED <<dropped, endpoint, conn>>
      /\ all_websockets' = all_websockets \ dropped[m]
      /\ rooms' = [r \in Name |-> rooms[r] \ dropped[m]]
  BY Zenon DEF Forget
<1>2. RegistryTypes'
  BY <1>0, <1>1, Zenon DEF RegistryTypes
<1>3. LeavesGone' /\ DroppedGone'
  BY <1>0, <1>1, Zenon DEF LeavesGone, DroppedGone
<1>4. RegistryAgrees'
  <2>1. \A s \in Socket : conn[s] = "open" => s \notin dropped[m]
    BY <1>0, Zenon DEF DroppedGone
  <2>2. \A s \in Socket : Joins[s] \subseteq Name
    BY HubAssumption, Zenon
  <2>3. QED
    BY <2>1, <2>2, <1>0, <1>1, Zenon DEF RegistryAgrees
<1>5. QED
  BY <1>2, <1>3, <1>4, Zenon DEF RegistryInv

LEMMA EndpointRegistry ==
  ASSUME RegistryInv, NEW s \in Socket, EndpointStep(s) \/ PeerLeaves(s)
  PROVE  RegistryInv'
<1>0. RegistryTypes /\ LeavesGone /\ DroppedGone /\ RegistryAgrees
  BY Zenon DEF RegistryInv
<1>t. /\ endpoint \in [Socket -> {"away", "added", "receiving", "leaving", "left"}]
      /\ conn \in [Socket -> {"open", "gone", "failed", "read"}]
      /\ all_websockets \in SUBSET Socket /\ rooms \in [Name -> SUBSET Socket]
      /\ Joins[s] \subseteq Name
  BY <1>0, HubAssumption, Zenon DEF RegistryTypes
<1>u. dropped' = dropped
  BY Zenon DEF EndpointStep, add_websocket, join, ReceiveDisconnect, remove_websocket,
               PeerLeaves, jobVars
<1>a. \/ /\ endpoint[s] = "away" /\ endpoint' = [endpoint EXCEPT ![s] = "added"]
         /\ all_websockets' = all_websockets \cup {s} /\ rooms' = rooms /\ conn' = conn
      \/ /\ endpoint[s] = "added" /\ endpoint' = [endpoint EXCEPT ![s] = "receiving"]
         /\ rooms' = [r \in Name |-> IF r \in Joins[s] THEN rooms[r] \cup {s} ELSE rooms[r]]
         /\ all_websockets' = all_websockets /\ conn' = conn
      \/ /\ endpoint[s] = "receiving" /\ endpoint' = [endpoint EXCEPT ![s] = "leaving"]
         /\ conn[s] \in {"gone", "failed"}
         /\ conn' = (IF conn[s] = "gone" THEN [conn EXCEPT ![s] = "read"] ELSE conn)
         /\ rooms' = rooms /\ all_websockets' = all_websockets
      \/ /\ endpoint[s] = "leaving" /\ endpoint' = [endpoint EXCEPT ![s] = "left"]
         /\ all_websockets' = all_websockets \ {s} /\ rooms' = [r \in Name |-> rooms[r] \ {s}]
         /\ conn' = conn
      \/ /\ conn[s] = "open" /\ conn' = [conn EXCEPT ![s] = "gone"]
         /\ endpoint' = endpoint /\ rooms' = rooms /\ all_websockets' = all_websockets
  BY ZenonT(60) DEF EndpointStep, add_websocket, join, ReceiveDisconnect, remove_websocket,
                    PeerLeaves, Step
\* What a step may do to each of the four, whatever it does to the others.
<1>e. endpoint' = endpoint \/ \E x \in {"added", "receiving", "leaving", "left"} :
                                endpoint' = [endpoint EXCEPT ![s] = x]
  BY <1>a, Zenon
<1>k. \/ conn' = conn
      \/ conn[s] = "open" /\ conn' = [conn EXCEPT ![s] = "gone"]
      \/ conn[s] = "gone" /\ conn' = [conn EXCEPT ![s] = "read"]
  BY <1>a, Zenon
<1>w. \/ all_websockets' = all_websockets
      \/ all_websockets' = all_websockets \cup {s}
      \/ all_websockets' = all_websockets \ {s}
  BY <1>a, Zenon
<1>r. \/ rooms' = rooms
      \/ rooms' = [r \in Name |-> IF r \in Joins[s] THEN rooms[r] \cup {s} ELSE rooms[r]]
      \/ rooms' = [r \in Name |-> rooms[r] \ {s}]
  BY <1>a, Zenon
<1>1. RegistryTypes'
  <2>1. /\ endpoint' \in [Socket -> {"away", "added", "receiving", "leaving", "left"}]
        /\ conn' \in [Socket -> {"open", "gone", "failed", "read"}]
    BY <1>t, <1>e, <1>k, SMTT(30)
  <2>2. all_websockets' \in SUBSET Socket /\ rooms' \in [Name -> SUBSET Socket]
    BY <1>t, <1>w, <1>r, SMTT(30)
  <2>3. QED
    BY <2>1, <2>2, <1>0, <1>u, Zenon DEF RegistryTypes
<1>2. \A t \in Socket : conn[t] # "open" => conn'[t] # "open"
  BY <1>t, <1>k, Zenon
<1>3. DroppedGone'
  BY <1>0, <1>2, <1>u, Zenon DEF DroppedGone, RegistryTypes
<1>4. LeavesGone'
  <2>1. \A t \in Socket : endpoint[t] \in {"leaving", "left"} => conn[t] # "open"
    BY <1>0, Zenon DEF LeavesGone
  <2>2. \A t \in Socket : endpoint'[t] \in {"leaving", "left"} => conn'[t] # "open"
    BY <2>1, <1>t, <1>a, <1>2, Zenon
  <2>3. QED
    BY <2>2, Zenon DEF LeavesGone
<1>5. RegistryAgrees'
  <2>1. ASSUME NEW t \in Socket
        PROVE  /\ conn[t] = "open" /\ endpoint[t] \in {"added", "receiving"}
                    => t \in all_websockets
               /\ conn[t] = "open" /\ endpoint[t] = "receiving"
                    => \A r \in Joins[t] : t \in rooms[r]
               /\ endpoint[t] = "left"
                    => t \notin all_websockets /\ \A r \in Name : t \notin rooms[r]
               /\ Joins[t] \subseteq Name
               /\ conn[t] = "open" => endpoint[t] \notin {"leaving", "left"}
    BY <1>0, HubAssumption, ZenonT(60) DEF RegistryAgrees, LeavesGone
  <2>2. ASSUME NEW t \in Socket, t # s
        PROVE  /\ endpoint'[t] = endpoint[t] /\ conn'[t] = conn[t]
               /\ t \in all_websockets' <=> t \in all_websockets
               /\ \A r \in Name : t \in rooms'[r] <=> t \in rooms[r]
    <3>1. endpoint'[t] = endpoint[t]
      BY <2>2, <1>t, <1>e, Zenon
    <3>2. conn'[t] = conn[t]
      BY <2>2, <1>t, <1>k, Zenon
    <3>3. t \in all_websockets' <=> t \in all_websockets
      BY <2>2, <1>w, Zenon
    <3>4. ASSUME NEW r \in Name
          PROVE  t \in rooms'[r] <=> t \in rooms[r]
      BY <1>r, <3>4, <2>2, Zenon
    <3>5. QED
      BY <3>1, <3>2, <3>3, <3>4, Zenon
  <2>3. /\ conn'[s] = "open" /\ endpoint'[s] \in {"added", "receiving"} => s \in all_websockets'
        /\ conn'[s] = "open" /\ endpoint'[s] = "receiving" => \A r \in Joins[s] : s \in rooms'[r]
        /\ endpoint'[s] = "left" => s \notin all_websockets' /\ \A r \in Name : s \notin rooms'[r]
    <3>1. CASE /\ endpoint[s] = "away" /\ endpoint' = [endpoint EXCEPT ![s] = "added"]
               /\ all_websockets' = all_websockets \cup {s}
      BY <3>1, <1>t, Zenon
    <3>2. CASE /\ endpoint[s] = "added" /\ endpoint' = [endpoint EXCEPT ![s] = "receiving"]
               /\ rooms' = [r \in Name |-> IF r \in Joins[s] THEN rooms[r] \cup {s} ELSE rooms[r]]
               /\ all_websockets' = all_websockets /\ conn' = conn
      BY <3>2, <2>1, <1>t, Zenon
    <3>3. CASE endpoint[s] = "receiving" /\ endpoint' = [endpoint EXCEPT ![s] = "leaving"]
      BY <3>3, <1>t, Zenon
    <3>4. CASE /\ endpoint[s] = "leaving" /\ endpoint' = [endpoint EXCEPT ![s] = "left"]
               /\ all_websockets' = all_websockets \ {s}
               /\ rooms' = [r \in Name |-> rooms[r] \ {s}]
      BY <3>4, <1>t, Zenon
    <3>5. CASE /\ conn[s] = "open" /\ conn' = [conn EXCEPT ![s] = "gone"]
               /\ endpoint' = endpoint /\ rooms' = rooms /\ all_websockets' = all_websockets
      BY <3>5, <2>1, <1>t, Zenon
    <3>6. QED
      BY <3>1, <3>2, <3>3, <3>4, <3>5, <1>a, Zenon
  <2>4. ASSUME NEW t \in Socket
        PROVE  /\ conn'[t] = "open" /\ endpoint'[t] \in {"added", "receiving"}
                    => t \in all_websockets'
               /\ conn'[t] = "open" /\ endpoint'[t] = "receiving"
                    => \A r \in Joins[t] : t \in rooms'[r]
               /\ endpoint'[t] = "left"
                    => t \notin all_websockets' /\ \A r \in Name : t \notin rooms'[r]
    <3>1. CASE t = s
      BY <2>3, <3>1, Zenon
    <3>2. CASE t # s
      BY <2>1, <2>2, <3>2, Zenon
    <3>3. QED
      BY <3>1, <3>2, Zenon
  <2>5. QED
    BY <2>4, Zenon DEF RegistryAgrees
<1>6. QED
  BY <1>1, <1>3, <1>4, <1>5, Zenon DEF RegistryInv

-----------------------------------------------------------------------------
\* No other step touches the registry.
LEMMA OtherRegistry ==
  ASSUME RegistryInv,
         \/ \E m \in Message : PublishToRedis(m) \/ Snapshot(m)
         \/ \E ch \in Channel : ConsumerStep(ch)
         \/ SetShutdownEvent \/ CloseStarts \/ CloseEnds \/ UNCHANGED hubVars
  PROVE  RegistryInv'
<1>1. CASE \E m \in Message : PublishToRedis(m) \/ Snapshot(m)
  BY <1>1, SameRegistry, ZenonT(60) DEF PublishToRedis, Snapshot, jobVars
<1>2. CASE \E ch \in Channel : ConsumerStep(ch)
  <2>1. PICK ch \in Channel : ConsumerStep(ch)
    BY <1>2, Zenon
  <2>2. UNCHANGED managerVars
    BY <2>1, ZenonT(60)
   
      DEF ConsumerStep, SubscribeChannel, RedisFails, ReadMessage, ReadGarbled, StopPolling,
          Acquire,
        Spawn, SpawnFails, RetryConsumer
  <2>3. dropped' = dropped
    BY <2>1, ZenonT(60)
   
      DEF ConsumerStep, SubscribeChannel, RedisFails, ReadMessage, ReadGarbled, StopPolling,
          Acquire,
        Spawn, SpawnFails, RetryConsumer, jobVars
  <2>4. QED
    BY <2>2, <2>3, SameRegistry, Zenon
<1>3. CASE SetShutdownEvent \/ CloseStarts \/ CloseEnds \/ UNCHANGED hubVars
  BY <1>3, SameRegistry, ZenonT(60)
    DEF SetShutdownEvent, CloseStarts, CloseEnds, hubVars, jobVars
<1>4. QED
  BY <1>1, <1>2, <1>3, Zenon

LEMMA NextRegistry == RegistryInv /\ [HubNext]_hubVars => RegistryInv'
BY OtherRegistry, TrySendRegistry, ForgetRegistry, EndpointRegistry, Zenon DEF HubNext, JobStep

\* The registry of the manager agrees with the endpoints whatever tasks clean up behind
\* their back (_forget, remove_websocket).
THEOREM RegistryKept == HubSpec => []RegistryAgrees
<1>1. RegistryInv => RegistryAgrees
  BY Zenon DEF RegistryInv
<1>2. QED
  BY <1>1, InitRegistry, NextRegistry, PTL DEF HubSpec

-----------------------------------------------------------------------------
(* What the other two invariants leave out.                                *)

EndTypes ==
  /\ published \in SUBSET Message
  /\ stopping \in BOOLEAN
  /\ closer \in {"none", "gathering", "closed"}
  /\ awaited \in SUBSET (Channel \cup Message)

LEMMA NextEndTypes == EndTypes /\ [HubNext]_hubVars => EndTypes'
<1> SUFFICES ASSUME EndTypes, [HubNext]_hubVars PROVE EndTypes'
  OBVIOUS
<1>1. ASSUME NEW ch \in Channel, ConsumerStep(ch) PROVE EndTypes'
  <2>1. /\ UNCHANGED <<published, stopping, closer>> /\ awaited' \in {awaited, awaited \ {ch}}
    BY <1>1, Zenon
    DEF ConsumerStep, SubscribeChannel, RedisFails, ReadMessage, ReadGarbled, StopPolling, Acquire,
        Spawn, SpawnFails, RetryConsumer, ConsumerDone, NextMessage, endVars
  <2> QED BY <2>1, Zenon DEF EndTypes
<1>2. ASSUME NEW m \in Message, PublishToRedis(m) \/ JobStep(m) PROVE EndTypes'
  <2>1. /\ published' \in {published, published \cup {m}} /\ UNCHANGED <<stopping, closer>>
        /\ awaited' \in {awaited, awaited \ {m}}
    BY <1>2, Zenon
    DEF PublishToRedis, JobStep, Snapshot, Forget, TrySend, consumerVars, endVars
  <2> QED BY <2>1, Zenon DEF EndTypes
<1>3. ASSUME NEW s \in Socket, EndpointStep(s) \/ PeerLeaves(s) PROVE EndTypes'
  BY <1>3, Zenon
  DEF EndTypes, EndpointStep, PeerLeaves, add_websocket, join, ReceiveDisconnect, remove_websocket,
      consumerVars, endVars
<1>4. CASE SetShutdownEvent \/ CloseEnds
  BY <1>4, Zenon DEF EndTypes, SetShutdownEvent, CloseEnds, consumerVars
<1>5. CASE CloseStarts
  BY <1>5, Zenon DEF EndTypes, CloseStarts, consumerVars
<1>6. CASE UNCHANGED hubVars
  BY <1>6, Zenon DEF EndTypes, hubVars, consumerVars, endVars
<1> QED BY <1>1, <1>2, <1>3, <1>4, <1>5, <1>6, Zenon DEF HubNext

\* Every variable of the hub stays in its type; in particular no permit is returned that
\* was not taken, so that the semaphore never exceeds max_concurrent_tasks.
THEOREM HubTypesKept == HubSpec => []HubTypeOK
<1>1. HubInit => EndTypes
  BY Zenon DEF HubInit, EndTypes
<1>2. HInv /\ RegistryInv /\ EndTypes => HubTypeOK
  <2> SUFFICES ASSUME HInv, RegistryInv, EndTypes PROVE HubTypeOK
    OBVIOUS
  <2>1. task_semaphore \in Nat /\ PermitsConserved
    BY Zenon DEF HInv, HubTypes
  <2>2. task_semaphore \in 0..MaxTasks
    BY <2>1, CountedSets, HubAssumption DEF PermitsConserved
  <2> QED BY <2>2, Zenon DEF HInv, HubTypes, RegistryInv, RegistryTypes, EndTypes, HubTypeOK
<1> QED BY <1>1, <1>2, NextEndTypes, InitHInv, NextHInv, InitRegistry, NextRegistry, PTL DEF HubSpec
=============================================================================
