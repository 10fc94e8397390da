--------------------------- MODULE DeliveryProofs ---------------------------
(***************************************************************************)
(* Proofs about how messages come to their handlers and what becomes of    *)
(* those that do not, for any number of messages, beat workers, handlers,  *)
(* channels, retries, deployments, queues and letters.                     *)
(* DelayedMessages: the two halves of an entry stay together and a message *)
(* has one holder.  ConsumerSetup: the lock is held exactly while a        *)
(* channel is being opened, and the failed set-up of a queue ends no       *)
(* consumer of another channel.  DeadLetterTools: without --force and      *)
(* interaction nothing is deleted, and no letter is acknowledged that was  *)
(* not handed on; deployments that end well leave the topology complete,   *)
(* because whatever one deletes it goes on to declare and bind.            *)
(***************************************************************************)
EXTENDS DelayedMessages, ConsumerSetup, DeadLetterTools, TLAPS

-----------------------------------------------------------------------------
(* Delayed messages.                                                       *)

USE DEF Id, Number, Absent

\* Entries are never confused with the missing entry.
LEMMA EntriesNumbered ==
  /\ NoEntry.n = 0
  /\ NoEntry \notin Entry
  /\ \A e \in Entry : e.n \in Number
BY DelayedAssumption DEF NoEntry, Entry

\* What Store does to the two halves.
LEMMA StoreEffect ==
  ASSUME TypeOK, NEW i \in Id, NEW e \in Entry, NEW due \in Nat, Store(i, e, due)
  PROVE  /\ score' \in [Id -> Nat \cup {Absent}]
         /\ meta' \in [Id -> Entry \cup {NoEntry}]
         /\ score'[i] # Absent
         /\ meta'[i] # NoEntry
         /\ meta'[i] \in {meta[i], e}
         /\ \A j \in Id \ {i} : score'[j] = score[j] /\ meta'[j] = meta[j]
<1>1. /\ score' \in [Id -> Nat \cup {Absent}]
      /\ score'[i] # Absent
      /\ \A j \in Id \ {i} : score'[j] = score[j]
  BY DEF Store, ZAdd, TypeOK, Pending
<1>2. /\ meta' \in [Id -> Entry \cup {NoEntry}]
      /\ meta'[i] # NoEntry
      /\ meta'[i] \in {meta[i], e}
      /\ \A j \in Id \ {i} : meta'[j] = meta[j]
  BY EntriesNumbered, Zenon DEF Store, TypeOK
<1> QED BY <1>1, <1>2, Zenon

\* What Remove does to the two halves.
LEMMA RemoveEffect ==
  ASSUME TypeOK, NEW S \in SUBSET Id, Remove(S)
  PROVE  /\ score' \in [Id -> Nat \cup {Absent}]
         /\ meta' \in [Id -> Entry \cup {NoEntry}]
         /\ \A j \in S : score'[j] = Absent /\ meta'[j] = NoEntry
         /\ \A j \in Id \ S : score'[j] = score[j] /\ meta'[j] = meta[j]
BY Zenon DEF Remove, TypeOK

\* What the claim script returns.
LEMMA PayloadsHeld ==
  ASSUME TypeOK, NEW S \in SUBSET Id
  PROVE  /\ Payloads(S) \subseteq Held
         /\ \A h \in Payloads(S) : h.id \in S /\ h.e = meta[h.id] /\ h.e # NoEntry
         /\ \A g, h \in Payloads(S) : g.id = h.id => g = h
<1>1. ASSUME NEW h \in Payloads(S)
      PROVE  h \in Held /\ h.id \in S /\ h.e = meta[h.id] /\ h.e # NoEntry
  BY Zenon DEF Payloads, Held, TypeOK
<1>2. ASSUME NEW g \in Payloads(S), NEW h \in Payloads(S), g.id = h.id
      PROVE  g = h
  BY <1>2 DEF Payloads
<1> QED BY <1>1, <1>2, Zenon

-----------------------------------------------------------------------------
\* Enqueue brings in a fresh number.
LEMMA EnqueueKeeps ==
  ASSUME IInv, NEW i \in Id, NEW pp \in PayloadPolicy, NEW tp \in TimePolicy,
         NEW due \in 0..MaxClock, Enqueue(i, pp, tp, due)
  PROVE  IInv'
<1> DEFINE e == [n |-> enqueued + 1, pp |-> pp, tp |-> tp]
<1>1. e \in Entry /\ e.n = enqueued + 1 /\ due \in Nat
  BY DelayedAssumption DEF Enqueue, Entry, IInv, TypeOK
<1>2. Store(i, e, due)
  BY Zenon DEF Enqueue
<1> HIDE DEF e
<1>3. /\ score' \in [Id -> Nat \cup {Absent}]
      /\ meta' \in [Id -> Entry \cup {NoEntry}]
      /\ score'[i] # Absent /\ meta'[i] # NoEntry /\ meta'[i] \in {meta[i], e}
      /\ \A j \in Id \ {i} : score'[j] = score[j] /\ meta'[j] = meta[j]
  BY <1>1, <1>2, StoreEffect, Zenon DEF IInv
<1>4. TypeOK'
  BY SMTT(30), <1>3, DelayedAssumption DEF IInv, TypeOK, Enqueue
<1>5. HalvesTogether'
  BY <1>3, Zenon DEF IInv, HalvesTogether, Pending
<1>6. NumbersInOrder'
  <2>0. enqueued \in Nat /\ enqueued' = enqueued + 1 /\ claimed' = claimed /\ sent' = sent
    BY DEF Enqueue, IInv, TypeOK
  <2>1. \A j \in Id : meta[j].n \in Nat
    BY EntriesNumbered DEF IInv, TypeOK
  <2>2. \A j \in Id : meta'[j].n <= enqueued + 1
    BY <1>1, <1>3, <2>0, <2>1 DEF IInv, NumbersInOrder
  <2>3. \A b \in Beat : \A h \in claimed[b] : h.e.n \in Nat /\ h.e.n <= enqueued
    BY EntriesNumbered DEF IInv, TypeOK, NumbersInOrder, Held
  <2>4. \A n \in Number : sent[n] > 0 => n <= enqueued
    BY Zenon DEF IInv, NumbersInOrder
  <2> QED BY <2>0, <2>2, <2>3, <2>4 DEF NumbersInOrder
<1>7. OneHolder' /\ SentOnce'
  <2>0. /\ claimed' = claimed /\ sent' = sent /\ enqueued \in Nat
    BY DEF Enqueue, IInv, TypeOK
  <2>1. \A k \in Id, j \in Id : k # j /\ meta'[k] # NoEntry => meta'[k].n # meta'[j].n
    BY <1>1, <1>3, <2>0 DEF IInv, OneHolder, NumbersInOrder
  <2>2. Stored' \subseteq Stored \cup {enqueued + 1}
    BY <1>1, <1>3 DEF Stored
  <2>3. \A b \in Beat : enqueued + 1 \notin HeldBy(b)
    BY <2>0 DEF IInv, NumbersInOrder, HeldBy
  <2>4. \A n \in Number : sent[n] > 0 => n # enqueued + 1
    BY <2>0 DEF IInv, NumbersInOrder
  <2>5. \A b \in Beat : HeldBy(b)' = HeldBy(b)
    BY <2>0, Zenon DEF HeldBy
  <2>6. OneHolder'
    BY <2>0, <2>1, <2>2, <2>3, <2>5 DEF IInv, OneHolder
  <2>7. SentOnce'
    BY <2>0, <2>2, <2>4, <2>5, Zenon DEF IInv, SentOnce
  <2> QED BY <2>6, <2>7, Zenon
<1>8. HoldsWhileDispatching'
  BY Zenon DEF IInv, HoldsWhileDispatching, Enqueue
<1> QED BY <1>4, <1>5, <1>6, <1>7, <1>8, Zenon DEF IInv

\* A claimed batch leaves the store and reaches one beat worker, or is lost.
LEMMA ClaimKeeps ==
  ASSUME IInv, NEW b \in Beat, NEW S \in SUBSET Id, Remove(S), step[b] = "claiming",
         NEW T, T \subseteq Payloads(S),
         claimed' = [claimed EXCEPT ![b] = T],
         step' = [step EXCEPT ![b] = "dispatching"],
         UNCHANGED <<clock, enqueued, usedIds, now, stopping, sent>>
  PROVE  IInv'
<1>1. /\ score' \in [Id -> Nat \cup {Absent}]
      /\ meta' \in [Id -> Entry \cup {NoEntry}]
      /\ \A j \in S : score'[j] = Absent /\ meta'[j] = NoEntry
      /\ \A j \in Id \ S : score'[j] = score[j] /\ meta'[j] = meta[j]
  BY RemoveEffect, Zenon DEF IInv
<1>2. /\ T \subseteq Held
      /\ \A h \in T : h.id \in S /\ h.e = meta[h.id] /\ h.e # NoEntry
      /\ \A g, h \in T : g.id = h.id => g = h
  BY PayloadsHeld, Zenon DEF IInv
<1>3. /\ claimed'[b] = T
      /\ \A c \in Beat \ {b} : claimed'[c] = claimed[c]
  BY Zenon DEF IInv, TypeOK
<1>4. TypeOK'
  BY <1>1, <1>2, Zenon DEF IInv, TypeOK
<1>5. HalvesTogether'
  BY <1>1, Zenon DEF IInv, HalvesTogether, Pending
<1>6. NumbersInOrder'
  <2>1. \A i \in Id : meta'[i].n <= enqueued
    BY <1>1, EntriesNumbered DEF IInv, TypeOK, NumbersInOrder
  <2>2. \A c \in Beat : \A h \in claimed'[c] : h.e.n <= enqueued
    BY <1>2, <1>3 DEF IInv, NumbersInOrder
  <2> QED BY <2>1, <2>2, Zenon DEF IInv, NumbersInOrder
<1>7. OneHolder' /\ SentOnce'
  <2>1. \A k \in Id, j \in Id : k # j /\ meta'[k] # NoEntry => meta'[k].n # meta'[j].n
    <3>1. \A k \in Id : meta'[k] # NoEntry => meta'[k] = meta[k] /\ meta[k].n \in Number
      BY <1>1, EntriesNumbered, Zenon DEF IInv, TypeOK
    <3>2. \A k \in Id : meta'[k] = NoEntry => meta'[k].n = 0
      BY EntriesNumbered, Zenon
    <3> QED BY <3>1, <3>2 DEF IInv, OneHolder
  <2>2. \A n \in Stored' : n \in Stored /\ \A h \in T : h.e.n # n
    BY <1>1, <1>2 DEF Stored, IInv, OneHolder
  <2>3. \A h \in T : h.e.n \in Stored
    BY <1>2, Zenon DEF Stored
  <2>4. \A g, h \in T : g.e.n = h.e.n => g = h
    BY <1>2 DEF IInv, OneHolder
  <2>5. /\ HeldBy(b)' = {h.e.n : h \in T}
        /\ \A c \in Beat \ {b} : HeldBy(c)' = HeldBy(c)
    BY <1>3, Zenon DEF HeldBy
  <2>6. \A c \in Beat : HeldBy(c)' \cap Stored' = {}
    BY <2>2, <2>5 DEF IInv, OneHolder
  <2>7. \A c, d \in Beat : c # d => HeldBy(c)' \cap HeldBy(d)' = {}
    BY <2>3, <2>5 DEF IInv, OneHolder
  <2>8. \A c \in Beat : \A g, h \in claimed'[c] : g.e.n = h.e.n => g = h
    BY <1>3, <2>4 DEF IInv, OneHolder
  <2>9. SentOnce'
    BY <2>2, <2>3, <2>5 DEF IInv, SentOnce
  <2> QED BY <2>1, <2>6, <2>7, <2>8, <2>9, Zenon DEF OneHolder
<1>8. HoldsWhileDispatching'
  BY <1>3, Zenon DEF IInv, TypeOK, HoldsWhileDispatching
<1> QED BY <1>4, <1>5, <1>6, <1>7, <1>8, Zenon DEF IInv

\* A held message is dispatched once and then held by nobody.
LEMMA DispatchKeeps ==
  ASSUME IInv, NEW b \in Beat, NEW h \in claimed[b], Dispatch(b, h)
  PROVE  IInv'
<1>0. h \in Held /\ h.e.n \in Number
  BY EntriesNumbered DEF IInv, TypeOK, Held
<1>1. /\ claimed'[b] = claimed[b] \ {h}
      /\ \A c \in Beat \ {b} : claimed'[c] = claimed[c]
      /\ \A c \in Beat : claimed'[c] \subseteq claimed[c]
  BY Zenon DEF Dispatch, Release, IInv, TypeOK
<1>2. /\ sent'[h.e.n] = sent[h.e.n] + 1
      /\ \A n \in Number \ {h.e.n} : sent'[n] = sent[n]
      /\ sent' \in [Number -> Nat]
  BY <1>0 DEF Dispatch, IInv, TypeOK
<1>3. /\ UNCHANGED <<store, enqueued, step>>
      /\ Stored' = Stored
  BY Zenon DEF Dispatch, Stored, store
<1>4. TypeOK'
  BY <1>2, Zenon DEF IInv, TypeOK, Dispatch, Release, store
<1>5. HalvesTogether'
  BY <1>3, Zenon DEF IInv, HalvesTogether, Pending, store
<1>6. NumbersInOrder'
  BY <1>0, <1>1, <1>2, <1>3, Zenon DEF IInv, NumbersInOrder, store
<1>7. OneHolder' /\ SentOnce'
  <2>1. \A c \in Beat : HeldBy(c)' \subseteq HeldBy(c)
    BY <1>1, Zenon DEF HeldBy
  <2>2. h.e.n \in HeldBy(b)
    BY Zenon DEF HeldBy
  <2>3. "confirm" \notin Faults => sent[h.e.n] = 0
    <3>1. sent[h.e.n] \in Nat
      BY <1>0, Zenon DEF IInv, TypeOK
    <3>2. "confirm" \notin Faults => ~(sent[h.e.n] > 0)
      BY <1>0, <2>2, Zenon DEF IInv, SentOnce
    <3> QED BY <3>1, <3>2
  <2>4. h.e.n \notin HeldBy(b)'
    BY <1>1, Zenon DEF IInv, OneHolder, HeldBy
  <2>5. \A c \in Beat : h.e.n \notin HeldBy(c)'
    BY <2>1, <2>2, <2>4 DEF IInv, OneHolder
  <2>6. h.e.n \notin Stored
    BY <2>2, Zenon DEF IInv, OneHolder
  <2>7. SentOnce'
    BY <1>0, <1>2, <1>3, <2>1, <2>3, <2>5, <2>6, SMTT(30) DEF IInv, SentOnce
  <2> QED BY <1>1, <1>3, <2>1, <2>7 DEF IInv, OneHolder, store
<1>8. HoldsWhileDispatching'
  BY <1>1, <1>3, Zenon DEF IInv, HoldsWhileDispatching
<1> QED BY <1>4, <1>5, <1>6, <1>7, <1>8, Zenon DEF IInv

\* An unconfirmed publish changes only how often the message was sent.
LEMMA UnconfirmedKeeps ==
  ASSUME IInv, NEW b \in Beat, NEW h \in claimed[b], DispatchUnconfirmed(b, h)
  PROVE  IInv'
<1>1. h.e.n \in Number /\ h.e.n <= enqueued
  BY EntriesNumbered DEF IInv, TypeOK, Held, NumbersInOrder
<1>2. /\ "confirm" \in Faults
      /\ UNCHANGED <<clock, score, meta, enqueued, usedIds, now, step, stopping, claimed>>
      /\ sent' = [sent EXCEPT ![h.e.n] = @ + 1]
  BY Zenon DEF DispatchUnconfirmed, store
<1>3. TypeOK'
  BY <1>1, <1>2 DEF IInv, TypeOK
<1>4. HalvesTogether' /\ HoldsWhileDispatching' /\ SentOnce'
  BY <1>2, Zenon DEF IInv, HalvesTogether, Pending, HoldsWhileDispatching, SentOnce
<1>5. OneHolder'
  <2>1. Stored' = Stored /\ \A c \in Beat : HeldBy(c)' = HeldBy(c)
    BY <1>2, Zenon DEF Stored, HeldBy
  <2> QED BY <1>2, <2>1, Zenon DEF IInv, OneHolder
<1>6. NumbersInOrder'
  BY <1>1, <1>2, Zenon DEF IInv, TypeOK, NumbersInOrder
<1> QED BY <1>3, <1>4, <1>5, <1>6, Zenon DEF IInv

\* A message that is put back leaves its beat worker in the same step.
LEMMA PutBackKeeps ==
  ASSUME IInv, NEW b \in Beat, NEW h \in claimed[b], DispatchFails(b, h)
  PROVE  IInv'
<1>0. h \in Held /\ h.e \in Entry /\ h.e.n \in Number /\ h.id \in Id
  BY EntriesNumbered DEF IInv, TypeOK, Held
<1>1. /\ claimed'[b] = claimed[b] \ {h}
      /\ \A c \in Beat \ {b} : claimed'[c] = claimed[c]
      /\ \A c \in Beat : claimed'[c] \subseteq claimed[c]
      /\ claimed' \in [Beat -> SUBSET Held]
  BY Zenon DEF DispatchFails, Release, IInv, TypeOK
<1>2. PICK i \in PutBackId(h) : /\ Store(i, h.e, clock + PutBackDelay)
                                /\ usedIds' = usedIds \cup ({i} \cap Anon)
  BY Zenon DEF DispatchFails
<1>3. i \in Id /\ clock + PutBackDelay \in Nat
  BY <1>0, <1>2, DelayedAssumption, SMTT(30) DEF PutBackId, IInv, TypeOK
<1>4. /\ score' \in [Id -> Nat \cup {Absent}]
      /\ meta' \in [Id -> Entry \cup {NoEntry}]
      /\ score'[i] # Absent /\ meta'[i] # NoEntry /\ meta'[i] \in {meta[i], h.e}
      /\ \A j \in Id \ {i} : score'[j] = score[j] /\ meta'[j] = meta[j]
  BY <1>0, <1>2, <1>3, StoreEffect, Zenon DEF IInv
<1>5. UNCHANGED <<clock, enqueued, now, step, sent>>
  BY Zenon DEF DispatchFails
<1>6. TypeOK'
  <2>1. stopping' \in [Beat -> BOOLEAN]
    BY Zenon DEF DispatchFails, IInv, TypeOK
  <2> QED BY <1>1, <1>2, <1>4, <1>5, <2>1, Zenon DEF IInv, TypeOK
<1>7. HalvesTogether'
  BY <1>4, Zenon DEF IInv, HalvesTogether, Pending
<1>8. NumbersInOrder'
  BY <1>1, <1>4, <1>5, Zenon DEF IInv, NumbersInOrder
<1>9. OneHolder' /\ SentOnce'
  <2>1. h.e.n \in HeldBy(b) /\ h.e.n \notin Stored
    BY SMTT(30) DEF HeldBy, IInv, OneHolder
  <2>2. \A c \in Beat : HeldBy(c)' \subseteq HeldBy(c) /\ h.e.n \notin HeldBy(c)'
    <3>1. \A c \in Beat : HeldBy(c)' \subseteq HeldBy(c)
      BY <1>1, Zenon DEF HeldBy
    <3>2. h.e.n \notin HeldBy(b)'
      BY <1>1, Zenon DEF HeldBy, IInv, OneHolder
    <3> QED BY <2>1, <3>1, <3>2 DEF IInv, OneHolder
  <2>3. Stored' \subseteq Stored \cup {h.e.n}
    BY <1>3, <1>4 DEF Stored
  <2>4. \A j \in Id : meta[j].n # h.e.n
    BY <1>0, <2>1, EntriesNumbered, SMTT(30) DEF Stored, IInv, TypeOK
  <2>5. \A k \in Id, j \in Id : k # j /\ meta'[k] # NoEntry => meta'[k].n # meta'[j].n
    BY <1>3, <1>4, <2>4 DEF IInv, OneHolder
  <2>6. "confirm" \notin Faults => sent[h.e.n] = 0
    <3>1. sent[h.e.n] \in Nat
      BY <1>0, Zenon DEF IInv, TypeOK
    <3>2. "confirm" \notin Faults => ~(sent[h.e.n] > 0)
      BY <1>0, <2>1, Zenon DEF IInv, SentOnce
    <3> QED BY <3>1, <3>2, SMTT(30)
  <2>7. \A c \in Beat : HeldBy(c)' \cap Stored' = {}
    BY <2>2, <2>3, SMTT(30) DEF IInv, OneHolder
  <2>8. SentOnce'
    BY <1>0, <1>5, <2>2, <2>3, <2>6, SMTT(30) DEF IInv, SentOnce
  <2> QED BY <1>1, <2>2, <2>5, <2>7, <2>8, Zenon DEF IInv, OneHolder
<1>10. HoldsWhileDispatching'
  BY <1>1, <1>5, Zenon DEF IInv, HoldsWhileDispatching
<1> QED BY <1>6, <1>7, <1>8, <1>9, <1>10, Zenon DEF IInv

\* Messages that are dropped leave the rest as it was.
LEMMA DropKeeps ==
  ASSUME IInv, claimed' \in [Beat -> SUBSET Held],
         \A b \in Beat : claimed'[b] \subseteq claimed[b],
         step' \in [Beat -> {"idle", "claiming", "dispatching", "stopped"}],
         stopping' \in [Beat -> BOOLEAN],
         \A b \in Beat : step'[b] # "dispatching" => claimed'[b] = {},
         now' \in [Beat -> Nat], clock' \in Nat,
         UNCHANGED <<score, meta, enqueued, usedIds, sent>>
  PROVE  IInv'
<1>1. \A b \in Beat : HeldBy(b)' \subseteq HeldBy(b)
  BY Zenon DEF HeldBy
<1>2. Stored' = Stored
  BY Zenon DEF Stored
<1>3. TypeOK' /\ HalvesTogether' /\ NumbersInOrder' /\ HoldsWhileDispatching'
  BY Zenon DEF IInv, TypeOK, HalvesTogether, Pending, NumbersInOrder, HoldsWhileDispatching
<1>4. OneHolder' /\ SentOnce'
  BY <1>1, <1>2 DEF IInv, OneHolder, SentOnce
<1> QED BY <1>3, <1>4, Zenon DEF IInv

\* IInv holds in every reachable state.
THEOREM DelayedInductive == Spec => []IInv
<1>1. Init => IInv
  <2> SUFFICES ASSUME Init PROVE IInv BY Zenon
  <2>1. TypeOK /\ HalvesTogether /\ HoldsWhileDispatching
    BY DelayedAssumption DEF Init, TypeOK, HalvesTogether, Pending, HoldsWhileDispatching
  <2>2. OneHolder /\ SentOnce /\ NumbersInOrder
    BY EntriesNumbered DEF Init, OneHolder, SentOnce, Stored, HeldBy, NumbersInOrder
  <2> QED BY <2>1, <2>2, Zenon DEF IInv
<1>2. IInv /\ [Next]_vars => IInv'
  <2> SUFFICES ASSUME IInv, [Next]_vars PROVE IInv' BY Zenon
  <2>1. CASE Tick
    BY <2>1, DropKeeps DEF Tick, store, IInv, TypeOK, HoldsWhileDispatching
  <2>2. CASE \E i \in Id, pp \in PayloadPolicy, tp \in TimePolicy, due \in 0..MaxClock :
               Enqueue(i, pp, tp, due)
    BY <2>2, EnqueueKeeps, Zenon
  <2>3. CASE \E b \in Beat : BeatNext(b)
    <3> PICK b \in Beat : BeatNext(b) BY <2>3, Zenon
    <3>1. CASE StartCycle(b)
      BY <3>1, DropKeeps, Zenon DEF StartCycle, store, IInv, TypeOK, HoldsWhileDispatching
    <3>2. CASE Claim(b)
      <4> PICK S \in SUBSET Id :
               \E parsed \in SUBSET Payloads(S) :
                 Remove(S) /\ claimed' = [claimed EXCEPT ![b] = parsed]
        BY <3>2, Zenon DEF Claim
      <4> QED BY <3>2, ClaimKeeps, Zenon DEF Claim
    <3>3. CASE ClaimReplyLost(b)
      <4> PICK S \in SUBSET Id : Remove(S)
        BY <3>3, Zenon DEF ClaimReplyLost
      <4>1. claimed[b] = {} /\ claimed' = [claimed EXCEPT ![b] = {}]
        BY <3>3, Zenon DEF ClaimReplyLost, IInv, HoldsWhileDispatching, TypeOK
      <4> QED BY <3>3, <4>1, ClaimKeeps, Zenon DEF ClaimReplyLost
    <3>4. CASE \E h \in claimed[b] : Dispatch(b, h)
      BY <3>4, DispatchKeeps, Zenon
    <3>5. CASE \E h \in claimed[b] : DispatchFails(b, h)
      BY <3>5, PutBackKeeps, Zenon
    <3>6. CASE \E h \in claimed[b] : PutBackFails(b, h)
      BY SMTT(30), <3>6, DropKeeps
        DEF PutBackFails, Release, store, IInv, TypeOK, HoldsWhileDispatching
    <3>7. CASE EndCycle(b)
      BY <3>7, DropKeeps, Zenon DEF EndCycle, store, IInv, TypeOK, HoldsWhileDispatching
    <3>8. CASE BeatCrash(b)
      BY <3>8, DropKeeps, Zenon DEF BeatCrash, store, IInv, TypeOK, HoldsWhileDispatching
    <3>9. CASE Shutdown(b)
      BY <3>9, DropKeeps, Zenon DEF Shutdown, store, IInv, TypeOK, HoldsWhileDispatching
    <3>10. CASE Stop(b)
      BY <3>10, DropKeeps, Zenon DEF Stop, store, IInv, TypeOK, HoldsWhileDispatching
    <3>11. CASE Restart(b)
      BY <3>11, DropKeeps, Zenon DEF Restart, store, IInv, TypeOK, HoldsWhileDispatching
    <3>12. CASE \E h \in claimed[b] : DispatchUnconfirmed(b, h)
      BY <3>12, UnconfirmedKeeps
    <3> QED BY <3>1, <3>2, <3>3, <3>4, <3>5, <3>6, <3>7, <3>8, <3>9, <3>10, <3>11, <3>12, Zenon
            DEF BeatNext
  <2>4. CASE UNCHANGED vars
    BY <2>4, DropKeeps, Zenon DEF vars, IInv, TypeOK, HoldsWhileDispatching
  <2> QED BY <2>1, <2>2, <2>3, <2>4, Zenon DEF Next
<1> QED BY <1>1, <1>2, PTL DEF Spec

\* Whatever the policies and the failures, with any number of beat workers, a message is
\* stored whole, held once, or published, and unless a confirmation is lost published once
\* (enqueue_delayed_message, dequeue_next_delayed_messages, run_scheduled_actions).
THEOREM MessagesInOnePlace == Spec => []InOnePlace
<1>1. IInv => InOnePlace
  BY Zenon DEF IInv, InOnePlace
<1> QED BY <1>1, DelayedInductive, PTL

HIDE DEF Id, Number, Absent

-----------------------------------------------------------------------------
(* Setting up the consumers.                                               *)

\* A queue's set-up retries, or gives up.
LEMMA RetryTypes ==
  ASSUME SetupTypeOK, NEW q \in Work, Retry(q) \/ GiveUp(q)
  PROVE  /\ setup' \in [Work -> {"none", "waiting", "opening", "lookup", "subscribe",
                                 "consuming", "backoff", "true", "false"}]
         /\ attempts' \in [Work -> 0..SetupRetries]
         /\ setup'[q] \in {"backoff", "false"}
         /\ \A w \in Work \ {q} : setup'[w] = setup[w]
         /\ \A w \in Work : attempts'[w] >= attempts[w]
         /\ setup'[q] = "false" \/ attempts'[q] > 0
<1> USE SetupAssumption
<1>1. CASE Retry(q) /\ attempts[q] < SetupRetries
  <2>1. /\ setup' = [setup EXCEPT ![q] = "backoff"]
        /\ attempts' = [attempts EXCEPT ![q] = @ + 1]
    BY <1>1, Zenon DEF Retry
  <2>2. attempts[q] + 1 \in 0..SetupRetries /\ attempts[q] + 1 > 0
    BY <1>1 DEF SetupTypeOK
  <2>3. \A w \in Work : attempts[w] \in Nat
    BY DEF SetupTypeOK
  <2>4. QED
    BY <2>1, <2>2, <2>3 DEF SetupTypeOK
<1>2. CASE GiveUp(q) \/ ~(attempts[q] < SetupRetries)
  <2>1. setup' = [setup EXCEPT ![q] = "false"] /\ attempts' = attempts
    BY <1>2, Zenon DEF Retry, GiveUp
  <2>2. \A w \in Work : attempts[w] \in Nat
    BY DEF SetupTypeOK
  <2>3. QED
    BY <2>1, <2>2 DEF SetupTypeOK
<1>3. QED
  BY <1>1, <1>2, Zenon

LEMMA NotFoundTypes ==
  ASSUME SetupTypeOK, NEW q \in Work, NotFound(q)
  PROVE  /\ setup' \in [Work -> {"none", "waiting", "opening", "lookup", "subscribe",
                                 "consuming", "backoff", "true", "false"}]
         /\ attempts' \in [Work -> 0..SetupRetries]
         /\ chan' \in [Chan -> {"none", "open", "closed"}]
         /\ attached' \subseteq Work
<1>1. chan' = [chan EXCEPT ![ChanOf[q]] = "closed"] /\ attached' = Without(ChanOf[q])
  BY Zenon DEF NotFound
<1>2. Without(ChanOf[q]) \subseteq Work
  BY Zenon DEF SetupTypeOK, Without
<1>3. chan' \in [Chan -> {"none", "open", "closed"}]
  BY <1>1, SetupAssumption, Zenon DEF SetupTypeOK
<1>4. QED
  BY <1>1, <1>2, <1>3, RetryTypes, Zenon DEF NotFound

-----------------------------------------------------------------------------
\* The steps of a set-up task keep the types.
LEMMA TaskTypes ==
  ASSUME SetupTypeOK, NEW q \in Work, SetupTask(q)
  PROVE  SetupTypeOK'
<1> USE SetupAssumption
<1>1. CASE TakeLock(q)
  BY <1>1 DEF SetupTypeOK, TakeLock, worldVars
<1>2. CASE OpenChan(q)
  <2>1. CASE link
    BY <1>2, <2>1, SMTT(30) DEF SetupTypeOK, OpenChan, worldVars
  <2>2. CASE ~link
    BY <1>2, <2>2 DEF SetupTypeOK, OpenChan, worldVars, GiveUp
  <2>3. QED
    BY <2>1, <2>2, Zenon
<1>3. CASE OpenChanFails(q)
  <2>1. CASE opened < SetupRetries
    BY <1>3, <2>1, SMTT(30) DEF SetupTypeOK, OpenChanFails, worldVars
  <2>2. CASE ~(opened < SetupRetries)
    BY <1>3, <2>2, RetryTypes DEF SetupTypeOK, OpenChanFails, worldVars
  <2>3. QED
    BY <2>1, <2>2, Zenon
<1>4. CASE Lookup(q)
  <2>1. CASE q \in there
    BY <1>4, <2>1, SMTT(30) DEF SetupTypeOK, Lookup, worldVars
  <2>2. CASE q \notin there
    BY <1>4, <2>2, NotFoundTypes, Zenon DEF SetupTypeOK, Lookup, worldVars
  <2>3. QED
    BY <2>1, <2>2, Zenon
<1>5. CASE Subscribe(q)
  <2>1. CASE q \in there
    <3>1. setup' = [setup EXCEPT ![q] = "consuming"] /\ attached' = attached \cup {q}
      BY <1>5, <2>1, Zenon DEF Subscribe
    <3>2. UNCHANGED <<life, tries, link, infra, there, lock, opened, severed, shutdown, chan,
                      attempts>>
      BY <1>5, <2>1, Zenon DEF Subscribe, worldVars
    <3>3. QED
      BY <3>1, <3>2, Zenon DEF SetupTypeOK
  <2>2. CASE q \notin there
    BY <1>5, <2>2, NotFoundTypes, Zenon DEF SetupTypeOK, Subscribe, worldVars
  <2>3. QED
    BY <2>1, <2>2, Zenon
<1>6. CASE ChanGone(q)
  BY <1>6, RetryTypes, Zenon DEF SetupTypeOK, ChanGone, worldVars
<1>7. CASE BackoffOver(q)
  BY <1>7, Zenon DEF SetupTypeOK, BackoffOver, worldVars
<1>8. CASE CancelConsumer(q)
  <2>1. CASE setup' = [setup EXCEPT ![q] = "true"] /\ UNCHANGED attempts
    BY <1>8, <2>1, Zenon DEF SetupTypeOK, CancelConsumer, worldVars
  <2>2. CASE Retry(q)
    BY <1>8, <2>2, RetryTypes, Zenon DEF SetupTypeOK, CancelConsumer, worldVars
  <2>3. QED
    BY <1>8, <2>1, <2>2, Zenon DEF CancelConsumer
<1>9. QED
  BY <1>1, <1>2, <1>3, <1>4, <1>5, <1>6, <1>7, <1>8, Zenon DEF SetupTask, SetupGoesOn

\* So do the other steps of the worker, and those around it.
LEMMA WorkerTypes ==
  ASSUME SetupTypeOK,
         StartStep \/ HealthCheck \/ Signal \/ Leave \/ BrokerStep
  PROVE  SetupTypeOK'
<1> USE SetupAssumption DEF worldVars, queueVars
<1>1. CASE CreateConsumer \/ CreateFails \/ Connect
  <2>1. CASE CreateConsumer \/ CreateFails
    BY <2>1, Zenon DEF SetupTypeOK, CreateConsumer, CreateFails
  <2>2. CASE Connect
    BY <2>2, SMTT(30) DEF SetupTypeOK, Connect
  <2>3. QED
    BY <1>1, <2>1, <2>2, Zenon
<1>2. CASE ConnectFails \/ VerifyRaises
  BY <1>2 DEF SetupTypeOK, ConnectFails, VerifyRaises, TryAgain
<1>3. CASE TakeConnection
  BY <1>3, Zenon DEF SetupTypeOK, TakeConnection
<1>4. CASE Verify
  <2>1. tries' \in 0..ConnRetries
    BY <1>4 DEF Verify
  <2>2. QED
    BY <1>4, <2>1, Zenon DEF SetupTypeOK, Verify
<1>5. CASE BrokerStep
  <2>1. CASE LoseLink \/ InfraDeleted \/ Declared
    BY <2>1, Zenon DEF SetupTypeOK, LoseLink, InfraDeleted, Declared
  <2>2. CASE \E c \in Chan : ChannelCloses(c)
    BY <2>2, Zenon DEF SetupTypeOK, ChannelCloses, Without
  <2>3. CASE \E q \in Work : QueueDeleted(q)
    BY <2>3, Zenon DEF SetupTypeOK, QueueDeleted
  <2>4. QED
    BY <1>5, <2>1, <2>2, <2>3, Zenon DEF BrokerStep
<1>6. CASE HealthCheck \/ Signal
  BY <1>6, Zenon DEF SetupTypeOK, HealthCheck, Signal
<1>7. CASE Leave
  <2>1. 0 \in 0..SetupRetries
    OBVIOUS
  <2>2. QED
    BY <1>7, <2>1, Zenon DEF SetupTypeOK, Leave
<1>8. QED
  BY <1>1, <1>2, <1>3, <1>4, <1>5, <1>6, <1>7, Zenon DEF StartStep

LEMMA TypeStep == SetupTypeOK /\ [SetupNext]_setupVars => SetupTypeOK'
<1> SUFFICES ASSUME SetupTypeOK, [SetupNext]_setupVars PROVE SetupTypeOK'
  BY Zenon
<1>1. CASE \E q \in Work : SetupTask(q)
  BY <1>1, TaskTypes, Zenon
<1>2. CASE StartStep \/ HealthCheck \/ Signal \/ Leave \/ BrokerStep
  BY <1>2, WorkerTypes, Zenon
<1>3. CASE UNCHANGED setupVars
  BY <1>3, Zenon DEF SetupTypeOK, setupVars
<1>4. QED
  BY <1>1, <1>2, <1>3, Zenon DEF SetupNext

-----------------------------------------------------------------------------
\* Before consume() has checked the infrastructure there are no set-up tasks.
NotBegun == life \in {"starting", "connecting", "verifying", "checking"} =>
              \A q \in Work : setup[q] = "none"

SInv == SetupTypeOK /\ NotBegun /\ LockIsHeld /\ ConsumedWhileUp

LEMMA InitSInv == SetupInit => SInv
<1> SUFFICES ASSUME SetupInit PROVE SInv
  OBVIOUS
<1>1. there \subseteq Work
  BY Zenon DEF SetupInit
<1>2. /\ life = "starting" /\ lock = "free" /\ attached = {} /\ severed = {}
      /\ tries \in 0..ConnRetries /\ opened \in 0..SetupRetries
      /\ link \in BOOLEAN /\ infra \in BOOLEAN /\ shutdown \in BOOLEAN
  <2>1. tries = 0 /\ opened = 0
    BY Zenon DEF SetupInit
  <2>2. tries \in 0..ConnRetries /\ opened \in 0..SetupRetries
    BY <2>1, SetupAssumption
  <2>3. QED
    BY <2>2, Zenon DEF SetupInit
<1>3. /\ chan \in [Chan -> {"none", "open", "closed"}]
      /\ setup = [q \in Work |-> "none"]
      /\ attempts \in [Work -> 0..SetupRetries]
  BY SetupAssumption DEF SetupInit
<1>4. SetupTypeOK
  BY <1>1, <1>2, <1>3, Zenon DEF SetupTypeOK
<1>5. QED
  BY <1>2, <1>3, <1>4, SetupAssumption, Zenon DEF SInv, NotBegun, LockIsHeld, ConsumedWhileUp

\* Only a running worker has set-up tasks that move, and none of them ends the run.
LEMMA TaskNotBegun ==
  ASSUME NEW q \in Work, SetupTask(q)
  PROVE  life = "running" /\ life' = life /\ link' = link
<1>1. life = "running"
  BY Zenon DEF SetupTask, SetupGoesOn
<1>2. life' = life /\ link' = link
  <2>1. CASE TakeLock(q) \/ OpenChan(q) \/ OpenChanFails(q) \/ Lookup(q)
    BY <2>1, Zenon DEF TakeLock, OpenChan, OpenChanFails, Lookup
  <2>2. CASE Subscribe(q) \/ ChanGone(q) \/ BackoffOver(q) \/ CancelConsumer(q)
    BY <2>2, Zenon DEF Subscribe, ChanGone, BackoffOver, CancelConsumer
  <2>3. QED
    BY <2>1, <2>2, Zenon DEF SetupTask, SetupGoesOn
<1>3. QED
  BY <1>1, <1>2, Zenon

\* The lock is taken by the task that goes to open a channel, and returned by it however
\* the opening ends.
LEMMA TaskLock ==
  ASSUME SInv, NEW q \in Work, SetupTask(q)
  PROVE  LockIsHeld'
<1> USE SetupAssumption DEF SInv
<1>1. setup \in [Work -> {"none", "waiting", "opening", "lookup", "subscribe", "consuming",
                          "backoff", "true", "false"}]
  BY Zenon DEF SetupTypeOK
<1>2. CASE TakeLock(q)
  BY <1>1, <1>2 DEF LockIsHeld, TakeLock
<1>3. CASE OpenChan(q)
  BY <1>1, <1>3, Zenon DEF LockIsHeld, OpenChan, GiveUp
<1>4. CASE OpenChanFails(q)
  <2>1. CASE opened < SetupRetries
    BY <1>4, <2>1, Zenon DEF LockIsHeld, OpenChanFails
  <2>2. CASE ~(opened < SetupRetries)
    <3>1. lock' = "free" /\ Retry(q) /\ setup[q] = "opening"
      BY <1>4, <2>2, Zenon DEF OpenChanFails
    <3>2. setup'[q] # "opening" /\ \A w \in Work \ {q} : setup'[w] = setup[w]
      BY <3>1, RetryTypes, Zenon
    <3>3. lock = q
      BY <3>1, Zenon DEF LockIsHeld
    <3>4. QED
      BY <3>1, <3>2, <3>3, Zenon DEF LockIsHeld
  <2>3. QED
    BY <2>1, <2>2, Zenon
<1>5. CASE Lookup(q) \/ Subscribe(q) \/ ChanGone(q) \/ BackoffOver(q) \/ CancelConsumer(q)
  <2>1. setup[q] # "opening" /\ lock' = lock
    BY <1>5, Zenon DEF Lookup, Subscribe, ChanGone, BackoffOver, CancelConsumer
  <2>2. setup'[q] # "opening" /\ \A w \in Work \ {q} : setup'[w] = setup[w]
    <3>1. CASE Retry(q) \/ GiveUp(q)
      BY <3>1, RetryTypes, Zenon
    <3>2. CASE ~(Retry(q) \/ GiveUp(q))
      BY <1>1, <1>5, <3>2, Zenon
        DEF Lookup, Subscribe, NotFound, ChanGone, BackoffOver, CancelConsumer
    <3>3. QED
      BY <3>1, <3>2, Zenon
  <2>3. QED
    BY <2>1, <2>2, Zenon DEF LockIsHeld
<1>6. QED
  BY <1>2, <1>3, <1>4, <1>5, Zenon DEF SetupTask, SetupGoesOn

\* A set-up task detaches the consumers of its own channel only, and only by failing.
LEMMA TaskConsumed ==
  ASSUME SInv, NEW q \in Work, SetupTask(q)
  PROVE  ConsumedWhileUp'
<1> USE SetupAssumption DEF SInv
<1>1. /\ setup \in [Work -> {"none", "waiting", "opening", "lookup", "subscribe", "consuming",
                             "backoff", "true", "false"}]
      /\ attempts \in [Work -> 0..SetupRetries]
  BY Zenon DEF SetupTypeOK
<1>2. life = "running" /\ life' = life /\ link' = link
  BY TaskNotBegun, Zenon
\* Nothing takes the excuse of a queue away.
<1>3. /\ \A w \in Work : attempts'[w] >= attempts[w] /\ attempts'[w] \in Int
      /\ \A w \in Work \ {q} : setup'[w] = setup[w]
      /\ setup[q] # "false"
  <2>1. setup[q] # "false"
    BY Zenon DEF SetupTask, SetupGoesOn, TakeLock, OpenChan, OpenChanFails, Lookup, Subscribe,
           ChanGone, BackoffOver, CancelConsumer
  <2>2. CASE Retry(q) \/ GiveUp(q)
    BY <2>1, <2>2, RetryTypes, SMTT(30)
  <2>3. CASE ~(Retry(q) \/ GiveUp(q))
    <3>1. attempts' = attempts
      BY <2>3, ZenonT(60) DEF SetupTask, SetupGoesOn, TakeLock, OpenChan, OpenChanFails, Lookup,
                  Subscribe, NotFound, ChanGone, BackoffOver, CancelConsumer
    <3>2. \A w \in Work \ {q} : setup'[w] = setup[w]
      BY <1>1, <2>3, Zenon
        DEF SetupTask, SetupGoesOn, TakeLock, OpenChan, OpenChanFails, Lookup,
                        Subscribe, NotFound, ChanGone, BackoffOver, CancelConsumer
    <3>3. QED
      BY <1>1, <2>1, <3>1, <3>2, SMTT(30)
  <2>4. QED
    BY <2>2, <2>3, Zenon
<1>0. \A w \in Work \ {q} : w \in severed => w \in severed'
  BY Zenon DEF SetupTask, SetupGoesOn, TakeLock, OpenChan, OpenChanFails, Lookup, Subscribe,
         ChanGone, BackoffOver, CancelConsumer
<1>4. CASE /\ \A w \in Work \ {q} : w \in attached => w \in attached'
           /\ setup'[q] = "consuming" => q \in attached'
  <2> SUFFICES ASSUME NEW v \in Work, setup'[v] = "consuming", link',
                      v \notin (attached \cup severed)'
               PROVE  \E w \in Work \ {v} : ChanOf[w] = ChanOf[v]
                                            /\ (attempts'[w] > 0 \/ setup'[w] = "false")
    BY <1>2, Zenon DEF ConsumedWhileUp
  <2>1. v # q /\ setup[v] = "consuming" /\ v \notin attached \cup severed
    BY <1>0, <1>3, <1>4, Zenon
  <2>2. PICK w \in Work \ {v} : ChanOf[w] = ChanOf[v] /\ (attempts[w] > 0 \/ setup[w] = "false")
    BY <1>2, <2>1, Zenon DEF ConsumedWhileUp
  <2>3. attempts'[w] > 0 \/ setup'[w] = "false"
    BY <1>1, <1>3, <2>2
  <2>4. QED
    BY <2>2, <2>3, Zenon
<1>5. CASE (Lookup(q) \/ Subscribe(q)) /\ q \notin there
  <2>1. Retry(q) /\ attached' = {w \in attached : ChanOf[w] # ChanOf[q]}
    BY <1>5, Zenon DEF Lookup, Subscribe, NotFound, Without
  <2>2. setup'[q] \in {"backoff", "false"} /\ (setup'[q] = "false" \/ attempts'[q] > 0)
    BY <2>1, RetryTypes, Zenon
  <2> SUFFICES ASSUME NEW v \in Work, setup'[v] = "consuming", link',
                      v \notin (attached \cup severed)'
               PROVE  \E w \in Work \ {v} : ChanOf[w] = ChanOf[v]
                                            /\ (attempts'[w] > 0 \/ setup'[w] = "false")
    BY <1>2 DEF ConsumedWhileUp
  <2>3. v # q /\ setup[v] = "consuming"
    BY <1>3, <2>2, Zenon
  <2>4. CASE ChanOf[v] = ChanOf[q]
    BY <2>2, <2>3, <2>4, Zenon
  <2>5. CASE ChanOf[v] # ChanOf[q]
    <3>1. v \notin attached \cup severed
      BY <1>0, <2>1, <2>3, <2>5, Zenon
    <3>2. PICK w \in Work \ {v} : ChanOf[w] = ChanOf[v]
                                  /\ (attempts[w] > 0 \/ setup[w] = "false")
      BY <1>2, <2>3, <3>1, Zenon DEF ConsumedWhileUp
    <3>3. attempts'[w] > 0 \/ setup'[w] = "false"
      BY <1>1, <1>3, <3>2
    <3>4. QED
      BY <3>2, <3>3
  <2>6. QED
    BY <2>4, <2>5, Zenon
<1>6. CASE \/ TakeLock(q) \/ OpenChan(q) \/ OpenChanFails(q) \/ ChanGone(q) \/ BackoffOver(q)
           \/ CancelConsumer(q) \/ ((Lookup(q) \/ Subscribe(q)) /\ q \in there)
  <2>1. \A w \in Work \ {q} : w \in attached => w \in attached'
    BY <1>6, Zenon
      DEF TakeLock, OpenChan, OpenChanFails, Lookup, Subscribe, ChanGone, BackoffOver,
                CancelConsumer
  <2>2. setup'[q] = "consuming" => q \in attached'
    <3>1. CASE Retry(q) \/ GiveUp(q)
      BY <3>1, RetryTypes, Zenon
    <3>2. CASE ~(Retry(q) \/ GiveUp(q))
      BY <1>1, <1>6, <3>2, Zenon
        DEF TakeLock, OpenChan, OpenChanFails, Lookup, Subscribe, ChanGone,
                              BackoffOver, CancelConsumer
    <3>3. QED
      BY <3>1, <3>2, Zenon
  <2>3. QED
    BY <1>4, <2>1, <2>2, Zenon
<1>7. \/ TakeLock(q) \/ OpenChan(q) \/ OpenChanFails(q) \/ Lookup(q) \/ Subscribe(q)
      \/ ChanGone(q) \/ BackoffOver(q) \/ CancelConsumer(q)
  BY Zenon DEF SetupTask, SetupGoesOn
<1>8. CASE Lookup(q) \/ Subscribe(q)
  BY <1>5, <1>6, <1>8, Zenon
<1>9. QED
  BY <1>6, <1>7, <1>8, Zenon

\* The rest of the worker moves no set-up task while it runs.
LEMMA WorkerSInv ==
  ASSUME SInv,
         StartStep \/ HealthCheck \/ Signal \/ Leave \/ BrokerStep
  PROVE  NotBegun' /\ LockIsHeld' /\ ConsumedWhileUp'
<1> USE SetupAssumption DEF SInv, worldVars, queueVars
<1>1. CASE \/ CreateConsumer \/ CreateFails \/ Connect \/ ConnectFails \/ TakeConnection
           \/ VerifyRaises
  BY <1>1, Zenon
    DEF NotBegun, LockIsHeld, ConsumedWhileUp, CreateConsumer, CreateFails, Connect,
              ConnectFails, TakeConnection, VerifyRaises, TryAgain
<1>2. CASE Verify
  BY <1>2, SMTT(30) DEF SetupTypeOK, NotBegun, LockIsHeld, ConsumedWhileUp, Verify
<1>3. CASE BrokerStep
  <2>1. NotBegun' /\ LockIsHeld'
    BY <1>3, Zenon DEF NotBegun, LockIsHeld, BrokerStep, LoseLink, Declared, InfraDeleted,
           ChannelCloses, QueueDeleted
  <2>2. CASE LoseLink
    <3>1. ~link'
      BY <2>2, Zenon DEF LoseLink
    <3>2. QED
      BY <2>1, <3>1, Zenon DEF ConsumedWhileUp
  <2>3. CASE ~LoseLink
    <3>1. UNCHANGED <<setup, life, link, attempts>>
      BY <1>3, <2>3, Zenon DEF BrokerStep, Declared, InfraDeleted, ChannelCloses, QueueDeleted
    <3>2. attached \cup severed \subseteq (attached \cup severed)'
      BY <1>3, <2>3, Zenon
        DEF BrokerStep, Declared, InfraDeleted, ChannelCloses, QueueDeleted, Without
    <3>3. ASSUME NEW q \in Work, setup'[q] = "consuming", life' = "running", link',
                 q \notin (attached \cup severed)'
          PROVE  \E w \in Work \ {q} : ChanOf[w] = ChanOf[q]
                                       /\ (attempts'[w] > 0 \/ setup'[w] = "false")
      <4>1. setup[q] = "consuming" /\ life = "running" /\ link /\ q \notin attached \cup severed
        BY <3>1, <3>2, <3>3, Zenon
      <4>2. QED
        BY <3>1, <4>1, Zenon DEF ConsumedWhileUp
    <3>4. QED
      BY <2>1, <3>3, Zenon DEF ConsumedWhileUp
  <2>4. QED
    BY <2>1, <2>2, <2>3, Zenon
<1>4. CASE HealthCheck \/ Signal
  BY <1>4, SMTT(30) DEF NotBegun, LockIsHeld, ConsumedWhileUp, HealthCheck, Signal
<1>5. CASE Leave
  BY <1>5 DEF NotBegun, LockIsHeld, ConsumedWhileUp, Leave
<1>6. QED
  BY <1>1, <1>2, <1>3, <1>4, <1>5, Zenon DEF StartStep

LEMMA NextSInv == SInv /\ [SetupNext]_setupVars => SInv'
<1> SUFFICES ASSUME SInv, [SetupNext]_setupVars PROVE SInv'
  OBVIOUS
<1>1. SetupTypeOK'
  BY TypeStep, Zenon DEF SInv
<1>2. CASE \E q \in Work : SetupTask(q)
  <2>1. PICK q \in Work : SetupTask(q)
    BY <1>2
  <2>2. NotBegun'
    BY <2>1, TaskNotBegun, Zenon DEF NotBegun
  <2>3. QED
    BY <1>1, <2>1, <2>2, TaskLock, TaskConsumed, Zenon DEF SInv
<1>3. CASE StartStep \/ HealthCheck \/ Signal \/ Leave \/ BrokerStep
  BY <1>1, <1>3, WorkerSInv, Zenon DEF SInv
<1>4. CASE UNCHANGED setupVars
  BY <1>1, <1>4, ZenonT(60) DEF SInv, NotBegun, LockIsHeld, ConsumedWhileUp, setupVars
<1>5. QED
  BY <1>2, <1>3, <1>4, Zenon DEF SetupNext

-----------------------------------------------------------------------------
\* retrieve_channel_lock is held exactly by the task that is opening a channel, however
\* many retries, refusals and lost connections there are; and a queue that was subscribed
\* is consumed while the connection is up, unless the broker closed its channel, the queue
\* was deleted, or the set-up of another queue of its channel failed (worker.py,
\* _setup_message_handler_consumer and retrieve_channel).
THEOREM ChannelsSafe == SetupSpec => []ChannelsKept
<1>1. SInv => ChannelsKept
  BY Zenon DEF SInv, ChannelsKept
<1>2. QED
  BY <1>1, InitSInv, NextSInv, PTL DEF SetupSpec

-----------------------------------------------------------------------------
(* The declarations and the dead letters.                                  *)

Fates == {"kept", "deleted", "purged", "requeued", "unroutable"}

\* The types the proofs need.
BrokerTypes ==
  /\ entity \in [Entity -> {"right", "other", "absent"}]
  /\ fate \in [Letter -> Fates]
  /\ flag \in [Deployment -> Flags]
  /\ calls \in [Deployment -> Seq(Op)]
  /\ left \in [Deployment -> SUBSET Queue]

\* A sequence of calls that deletes nothing.
Harmless(cs) == cs \in Seq(Op) /\ \A i \in 1..Len(cs) : cs[i].op # "delete"

-----------------------------------------------------------------------------
(* The sequences of calls.                                                 *)

\* CallsTo makes one call per name.
LEMMA CallsToOp ==
  ASSUME NEW op \in {"probe", "delete", "declare", "bind"}, NEW names \in Seq(Entity)
  PROVE  CallsTo(op, names) \in Seq(Op) /\ (op # "delete" => Harmless(CallsTo(op, names)))
<1> DEFINE cs == CallsTo(op, names)
<1>1. \A i \in 1..Len(names) : [op |-> op, on |-> names[i]] \in Op
  BY DEF Op
<1>2. cs \in [1..Len(names) -> Op] /\ Len(names) \in Nat
  BY <1>1 DEF CallsTo
<1>3. cs \in Seq(Op) /\ Len(cs) = Len(names)
  BY <1>2
<1>4. \A i \in 1..Len(names) : cs[i].op = op
  BY Zenon DEF CallsTo
<1>5. QED
  BY <1>3, <1>4, Zenon DEF Harmless

LEMMA Appended ==
  ASSUME NEW a, NEW b, a \in Seq(Op), b \in Seq(Op)
  PROVE  a \o b \in Seq(Op) /\ (Harmless(a) /\ Harmless(b) => Harmless(a \o b))
<1>1. a \o b \in Seq(Op) /\ Len(a \o b) = Len(a) + Len(b)
  OBVIOUS
<1>2. ASSUME Harmless(a), Harmless(b), NEW i \in 1..Len(a \o b)
      PROVE  (a \o b)[i].op # "delete"
  <2>1. CASE i <= Len(a)
    BY <1>2, <2>1 DEF Harmless
  <2>2. CASE i > Len(a)
    <3>1. i - Len(a) \in 1..Len(b) /\ (a \o b)[i] = b[i - Len(a)]
      BY <1>1, <1>2, <2>2
    <3>2. QED
      BY <1>2, <3>1, Zenon DEF Harmless
  <2>3. QED
    BY <1>1, <2>1, <2>2
<1>3. QED
  BY <1>1, <1>2, Zenon DEF Harmless

\* What declares, probes or binds deletes nothing.
LEMMA CallsHarmless ==
  /\ Harmless(<<>>)
  /\ Harmless(ProbeCalls) /\ Harmless(DeclareCalls) /\ DeleteCalls \in Seq(Op)
  /\ \A q \in Entity : Harmless(QueueCalls(q)) /\ CallsTo("delete", <<q>>) \in Seq(Op)
<1>1. /\ <<"main", "dlx", "dlq">> \in Seq(Entity) /\ <<"dlq">> \in Seq(Entity)
      /\ \A q \in Entity : <<q>> \in Seq(Entity)
  BY DEF Entity, Exchange
<1>2. Harmless(<<>>)
  BY DEF Harmless
<1>3. Harmless(ProbeCalls) /\ DeleteCalls \in Seq(Op)
  BY <1>1, CallsToOp, Zenon DEF ProbeCalls, DeleteCalls
<1>4. Harmless(DeclareCalls)
  <2>1. /\ Harmless(CallsTo("declare", <<"main", "dlx", "dlq">>))
        /\ Harmless(CallsTo("bind", <<"dlq">>))
    BY <1>1, CallsToOp, Zenon
  <2>2. QED
    BY <2>1, Appended, Zenon DEF DeclareCalls, Harmless
<1>5. ASSUME NEW q \in Entity
      PROVE  Harmless(QueueCalls(q)) /\ CallsTo("delete", <<q>>) \in Seq(Op)
  <2>1. /\ Harmless(CallsTo("declare", <<q>>)) /\ Harmless(CallsTo("bind", <<q>>))
        /\ CallsTo("delete", <<q>>) \in Seq(Op)
    BY <1>1, CallsToOp, Zenon
  <2>2. QED
    BY <2>1, Appended, Zenon DEF QueueCalls, Harmless
<1>6. QED
  BY <1>2, <1>3, <1>4, <1>5, Zenon

LEMMA TailHarmless ==
  ASSUME NEW cs \in Seq(Op), cs # <<>>
  PROVE  /\ Head(cs) \in Op /\ Tail(cs) \in Seq(Op)
         /\ Harmless(cs) => Head(cs).op # "delete" /\ Harmless(Tail(cs))
<1>1. Len(cs) \in Nat /\ Len(cs) >= 1 /\ Head(cs) = cs[1] /\ cs[1] \in Op
  OBVIOUS
<1>2. Tail(cs) \in Seq(Op) /\ Len(Tail(cs)) = Len(cs) - 1
  OBVIOUS
<1>3. \A i \in 1..Len(Tail(cs)) : Tail(cs)[i] = cs[i + 1] /\ i + 1 \in 1..Len(cs)
  BY <1>1, <1>2
<1>4. QED
  BY <1>1, <1>2, <1>3 DEF Harmless

-----------------------------------------------------------------------------
(* The steps of a deployment.                                              *)

PlainCalls == \A d \in Deployment : flag[d] = "plain" => Harmless(calls[d])

\* What a call does to the broker.
LEMMA ApplyEffects ==
  ASSUME BrokerTypes, NEW c \in Op, Apply(c)
  PROVE  /\ entity' \in [Entity -> {"right", "other", "absent"}]
         /\ fate' \in [Letter -> Fates]
         /\ \A l \in Letter : fate'[l] = "kept" => fate[l] = "kept"
         /\ letters' # letters => \A l \in Letter : fate'[l] # "kept"
         /\ c.op # "delete" =>
              /\ \A e \in Entity : entity[e] # "absent" => entity'[e] # "absent"
              /\ bound \subseteq bound' /\ fate' = fate
<1>1. c.on \in Entity /\ c.op \in {"probe", "delete", "declare", "bind"}
  BY Zenon DEF Op
<1>2. /\ entity' \in [Entity -> {"right", "other", "absent"}]
      /\ c.op # "delete" => \A e \in Entity : entity[e] # "absent" => entity'[e] # "absent"
  BY <1>1, Zenon DEF BrokerTypes, Apply
<1>3. /\ fate' \in [Letter -> Fates]
      /\ \A l \in Letter : fate'[l] = fate[l] \/ fate'[l] = "deleted"
      /\ c.op = "delete" /\ c.on = "dlq" => \A l \in Letter : fate'[l] # "kept"
  BY <1>1, Zenon DEF BrokerTypes, Fates, Apply
<1>4. c.op # "delete" => bound \subseteq bound'
  BY <1>1, Zenon DEF Apply
<1>5. c.op # "delete" => fate' = fate
  BY <1>1, Zenon DEF BrokerTypes, Apply
<1>6. letters' # letters => c.op = "delete" /\ c.on = "dlq"
  BY Zenon DEF Apply
<1>7. QED
  BY <1>2, <1>3, <1>4, <1>5, <1>6, Zenon

\* A deployment touches the broker by the call at the head of its list only.
LEMMA DeclareTouches ==
  ASSUME NEW d \in Deployment, DeclareStep(d)
  PROVE  UNCHANGED brokerVars \/ (calls[d] # <<>> /\ Apply(Head(calls[d])))
BY Zenon
  DEF DeclareStep, CallSucceeds, NothingThere, AllThere, InfraFails, NextQueue, QueueFails,
       CommandFails, CommandDone

\* A deployment that is neither forced nor interactive never has a deletion on its list.
LEMMA DeclareLists ==
  ASSUME BrokerTypes, PlainCalls, NEW d \in Deployment, DeclareStep(d)
  PROVE  /\ flag' = flag /\ calls' \in [Deployment -> Seq(Op)]
         /\ left' \in [Deployment -> SUBSET Queue] /\ PlainCalls'
<1>1. flag' = flag
  BY Zenon
    DEF DeclareStep, CallSucceeds, NothingThere, AllThere, InfraFails, NextQueue, QueueFails,
         CommandFails, CommandDone
<1>2. left' \in [Deployment -> SUBSET Queue]
  BY Zenon
    DEF BrokerTypes, DeclareStep, CallSucceeds, NothingThere, AllThere, InfraFails, NextQueue,
         QueueFails, CommandFails, CommandDone
<1>3. flag[d] = "plain" => ShouldRecreate(d) = {FALSE}
  BY Zenon DEF ShouldRecreate
<1>4. \E cs \in Seq(Op) : /\ calls' = [calls EXCEPT ![d] = cs]
                          /\ flag[d] = "plain" => Harmless(cs)
  <2>1. calls[d] # <<>> => Head(calls[d]).on \in Entity
    BY TailHarmless, Zenon DEF BrokerTypes, Op
  <2>2. /\ DeleteCalls \o DeclareCalls \in Seq(Op) /\ DeclareCalls \in Seq(Op)
        /\ <<>> \in Seq(Op)
        /\ \A q \in Entity : /\ QueueCalls(q) \in Seq(Op)
                             /\ CallsTo("delete", <<q>>) \o QueueCalls(q) \in Seq(Op)
    BY CallsHarmless, Appended, Zenon DEF Harmless
  <2>3. CASE CallSucceeds(d)
    <3>1. calls[d] # <<>> /\ calls' = [calls EXCEPT ![d] = Tail(calls[d])]
      BY <2>3, Zenon DEF CallSucceeds, BrokerTypes
    <3>2. /\ Tail(calls[d]) \in Seq(Op)
          /\ flag[d] = "plain" => Harmless(Tail(calls[d]))
      BY <3>1, TailHarmless, Zenon DEF BrokerTypes, PlainCalls
    <3>3. QED
      BY <3>1, <3>2, Zenon
  <2>4. CASE NothingThere(d)
    <3>1. PICK r \in ShouldRecreate(d) :
            calls' = [calls EXCEPT ![d] = IF r THEN DeleteCalls \o DeclareCalls ELSE DeclareCalls]
      BY <2>4, Zenon DEF NothingThere, GoTo
    <3>2. QED
      BY <1>3, <2>2, <3>1, CallsHarmless, Zenon
  <2>5. CASE InfraFails(d)
    <3>1. PICK r \in ShouldRecreate(d) :
            calls' = [calls EXCEPT ![d] = IF r THEN DeleteCalls \o DeclareCalls ELSE <<>>]
      BY <2>5, Zenon DEF InfraFails, GoTo
    <3>2. QED
      BY <1>3, <2>2, <3>1, CallsHarmless, Zenon
  <2>6. CASE QueueFails(d)
    <3> DEFINE q == Head(calls[d]).on
    <3>1. PICK r \in ShouldRecreate(d) :
            calls' = [calls EXCEPT ![d] = IF r THEN CallsTo("delete", <<q>>) \o QueueCalls(q)
                                               ELSE <<>>]
      BY <2>6, Zenon DEF QueueFails, GoTo
    <3>2. q \in Entity
      BY <2>1, <2>6, Zenon DEF QueueFails
    <3>3. QED
      BY <1>3, <2>2, <3>1, <3>2, CallsHarmless, Zenon
  <2>7. CASE NextQueue(d)
    <3>1. PICK q \in left[d] : calls' = [calls EXCEPT ![d] = QueueCalls(q)]
      BY <2>7, Zenon DEF NextQueue, GoTo
    <3>2. q \in Entity
      BY <3>1, Zenon DEF BrokerTypes, Entity
    <3>3. QED
      BY <2>2, <3>1, <3>2, CallsHarmless, Zenon
  <2>8. CASE AllThere(d) \/ CommandFails(d) \/ CommandDone(d)
    BY <2>2, <2>8, CallsHarmless, Zenon DEF AllThere, CommandFails, CommandDone, GoTo
  <2>9. QED
    BY <2>3, <2>4, <2>5, <2>6, <2>7, <2>8, Zenon DEF DeclareStep
<1>5. QED
  BY <1>1, <1>2, <1>4, Zenon DEF BrokerTypes, PlainCalls

-----------------------------------------------------------------------------
\* A letter that was published is no longer "kept"; a command holds one letter at a time.
DInv ==
  /\ BrokerTypes
  /\ PlainCalls
  /\ AckedIsPublished
  /\ place = "taken" => \E l \in held : held = {l}
  /\ place = "published" => \A l \in held \cap Letter : fate[l] # "kept"

LEMMA InitDInv == DlqInit => DInv
<1> SUFFICES ASSUME DlqInit PROVE DInv
  BY Zenon
<1> USE DEF DlqInit
<1>1. place \in {"fetch", "count"}
  BY Zenon DEF ToolInit
<1>2. flag \in [Deployment -> Flags] /\ left \in [Deployment -> SUBSET Queue]
  BY Zenon DEF TopologyInit
<1>3. calls \in [Deployment -> Seq(Op)] /\ PlainCalls
  BY CallsHarmless, Zenon DEF TopologyInit, PlainCalls, Harmless
<1>4. fate \in [Letter -> Fates] /\ AckedIsPublished
  BY Zenon DEF TopologyInit, Fates, AckedIsPublished
<1>5. entity \in [Entity -> {"right", "other", "absent"}]
  BY TopologyAssumption, Zenon DEF TopologyInit
<1>6. QED
  BY <1>1, <1>2, <1>3, <1>4, <1>5, Zenon DEF DInv, BrokerTypes

\* A step of a deployment.
LEMMA DeclareDInv ==
  ASSUME DInv, NEW d \in Deployment, DeclareStep(d), UNCHANGED toolVars
  PROVE  DInv'
<1>1. /\ flag' = flag /\ calls' \in [Deployment -> Seq(Op)]
      /\ left' \in [Deployment -> SUBSET Queue] /\ PlainCalls'
  BY DeclareLists, Zenon DEF DInv
<1>2. /\ entity' \in [Entity -> {"right", "other", "absent"}]
      /\ fate' \in [Letter -> Fates]
      /\ \A l \in Letter : fate'[l] = "kept" => fate[l] = "kept"
      /\ letters' # letters => \A l \in Letter : fate'[l] # "kept"
  <2>1. CASE UNCHANGED brokerVars
    BY <2>1, Zenon DEF DInv, BrokerTypes, brokerVars
  <2>2. CASE calls[d] # <<>> /\ Apply(Head(calls[d]))
    <3>1. Head(calls[d]) \in Op
      BY <2>2, TailHarmless, Zenon DEF DInv, BrokerTypes
    <3>2. QED
      BY <2>2, <3>1, ApplyEffects, Zenon DEF DInv
  <2>3. QED
    BY <2>1, <2>2, DeclareTouches, Zenon
<1>3. AckedIsPublished'
  BY <1>2, Zenon DEF DInv, AckedIsPublished
<1>4. place' = place /\ held' = held
  BY Zenon DEF toolVars
<1>5. QED
  BY <1>1, <1>2, <1>3, <1>4, Zenon DEF DInv, BrokerTypes

\* The steps of a command that leave the broker alone.
LEMMA LookDInv ==
  ASSUME DInv, \/ CountLetters \/ Fetch \/ GiveBack \/ FetchEnds \/ Confirm \/ OpenChannel
               \/ Take \/ TakeEnds \/ PassOver \/ PublishFails \/ ToolDies
  PROVE  DInv'
<1>1. UNCHANGED topologyVars
  BY Zenon DEF CountLetters, Fetch, GiveBack, FetchEnds, Confirm, OpenChannel, Take, TakeEnds,
         PassOver, PublishFails, ToolDies
<1>2. BrokerTypes' /\ PlainCalls' /\ AckedIsPublished'
  BY <1>1, Zenon DEF DInv, BrokerTypes, PlainCalls, AckedIsPublished, topologyVars
<1>3. place' # "published"
  BY Zenon DEF CountLetters, Fetch, GiveBack, FetchEnds, Confirm, OpenChannel, Take, TakeEnds,
         PassOver, PublishFails, ToolDies
<1>4. place' = "taken" => \E l \in held' : held' = {l}
  BY Zenon DEF CountLetters, Fetch, GiveBack, FetchEnds, Confirm, OpenChannel, Take, TakeEnds,
         PassOver, PublishFails, ToolDies
<1>5. QED
  BY <1>2, <1>3, <1>4, Zenon DEF DInv

\* purge gives every letter in the queue its fate, a publication its own, and only then
\* is a letter acknowledged.
LEMMA SettleDInv ==
  ASSUME DInv, Purge \/ Publish \/ Ack
  PROVE  DInv'
<1>1. entity' = entity /\ flag' = flag /\ calls' = calls /\ left' = left
  BY Zenon DEF Purge, Publish, Ack
<1>2. PlainCalls'
  BY <1>1, Zenon DEF DInv, PlainCalls
<1>3. CASE Purge
  <2>1. place' \notin {"taken", "published"} /\ fate' \in [Letter -> Fates]
    BY <1>3, Zenon DEF DInv, BrokerTypes, Fates, Purge
  <2>2. AckedIsPublished'
    BY <1>3, Zenon DEF DInv, BrokerTypes, AckedIsPublished, Purge
  <2>3. QED
    BY <1>1, <1>2, <2>1, <2>2, Zenon DEF DInv, BrokerTypes
<1>4. CASE Publish
  <2>1. PICK l \in held : /\ fate' = [fate EXCEPT ![l] = IF Origin[l] \in RoutesTo(RoutingKey(l))
                                                     THEN "requeued" ELSE "unroutable"]
                          /\ held = {l}
    BY <1>4, Zenon DEF DInv, Publish
  <2>2. fate' \in [Letter -> Fates]
    BY <2>1, Zenon DEF DInv, BrokerTypes, Fates
  <2>3. \A k \in Letter : fate'[k] = fate[k] \/ fate'[k] # "kept"
    BY <2>1, Zenon DEF DInv, BrokerTypes
  <2>4. place' = "published" /\ held' = held /\ letters' = letters
    BY <1>4, Zenon DEF Publish
  <2>5. \A k \in held' \cap Letter : fate'[k] # "kept"
    BY <2>1, <2>4, Zenon DEF DInv, BrokerTypes
  <2>6. AckedIsPublished'
    BY <2>3, <2>4, Zenon DEF DInv, AckedIsPublished
  <2>7. QED
    BY <1>1, <1>2, <2>2, <2>4, <2>5, <2>6, Zenon DEF DInv, BrokerTypes
<1>5. CASE Ack
  <2>1. fate' = fate /\ letters' = letters \ held /\ place' = "take" /\ place = "published"
    BY <1>5, Zenon DEF Ack
  <2>2. AckedIsPublished'
    BY <2>1, Zenon DEF DInv, AckedIsPublished
  <2>3. QED
    BY <1>1, <1>2, <2>1, <2>2, Zenon DEF DInv, BrokerTypes
<1>6. QED
  BY <1>3, <1>4, <1>5, Zenon

LEMMA NextDInv == DInv /\ [DlqNext]_dlqVars => DInv'
<1> SUFFICES ASSUME DInv, [DlqNext]_dlqVars PROVE DInv'
  BY Zenon
<1>1. CASE UNCHANGED dlqVars
  BY <1>1, Zenon
    DEF DInv, BrokerTypes, PlainCalls, AckedIsPublished, dlqVars, topologyVars, toolVars
<1>2. CASE \E d \in Deployment : DeclareStep(d) /\ UNCHANGED toolVars
  BY <1>2, DeclareDInv, Zenon
<1>3. CASE ToolStep \/ ToolDies
  BY <1>3, LookDInv, SettleDInv, Zenon DEF ToolStep
<1>4. QED
  BY <1>1, <1>2, <1>3, Zenon DEF DlqNext

-----------------------------------------------------------------------------
\* Without --force and interaction `jararaca declare' deletes nothing, whatever it finds
\* and however many run at once, also while the dead letter commands run.
LEMMA PlainIsHarmless ==
  ASSUME DInv, [DlqNext]_dlqVars
  PROVE  PlainDeletesNothing
<1> SUFFICES ASSUME \A d \in Deployment : flag[d] = "plain"
             PROVE  /\ \A e \in Entity : entity[e] # "absent" => entity'[e] # "absent"
                    /\ bound \subseteq bound'
                    /\ \A l \in Letter : fate'[l] = "deleted" => fate[l] = "deleted"
  BY Zenon DEF PlainDeletesNothing
<1>1. CASE \E d \in Deployment : DeclareStep(d) /\ UNCHANGED toolVars
  <2>1. PICK d \in Deployment : DeclareStep(d)
    BY <1>1, Zenon
  <2>2. CASE UNCHANGED brokerVars
    BY <2>2, Zenon DEF brokerVars
  <2>3. CASE calls[d] # <<>> /\ Apply(Head(calls[d]))
    <3>1. Head(calls[d]) \in Op /\ Head(calls[d]).op # "delete"
      BY <2>3, TailHarmless, Zenon DEF DInv, BrokerTypes, PlainCalls
    <3>2. QED
      BY <2>3, <3>1, ApplyEffects, Zenon DEF DInv
  <2>4. QED
    BY <2>1, <2>2, <2>3, DeclareTouches, Zenon
<1>2. CASE Purge \/ Publish \/ Ack
  <2>1. entity' = entity /\ bound' = bound
    BY <1>2, Zenon DEF Purge, Publish, Ack
  <2>2. \A l \in Letter : fate'[l] = "deleted" => fate[l] = "deleted"
    BY <1>2, Zenon DEF DInv, BrokerTypes, Purge, Publish, Ack
  <2>3. QED
    BY <2>1, <2>2, Zenon
<1>3. CASE \/ CountLetters \/ Fetch \/ GiveBack \/ FetchEnds \/ Confirm \/ OpenChannel
           \/ Take \/ TakeEnds \/ PassOver \/ PublishFails \/ ToolDies
  <2>1. UNCHANGED topologyVars
    BY <1>3, Zenon
      DEF CountLetters, Fetch, GiveBack, FetchEnds, Confirm, OpenChannel, Take, TakeEnds,
                PassOver, PublishFails, ToolDies
  <2>2. QED
    BY <2>1, Zenon DEF topologyVars
<1>4. CASE UNCHANGED dlqVars
  BY <1>4, Zenon DEF dlqVars, topologyVars
<1>5. QED
  BY <1>1, <1>2, <1>3, <1>4, Zenon DEF DlqNext, ToolStep

\* No letter leaves the dead letter queue that was not handed to the main exchange, purged
\* or deleted with its queue (dlq_requeue acknowledges after it publishes), and a plain
\* deployment deletes nothing.  It does not say that what is handed on arrives: the main
\* exchange routes none of the requeued letters (RequeuedArrives).
THEOREM LettersAreHandedOn == DlqSpec => LettersHandedOn
<1>1. DInv => AckedIsPublished
  BY Zenon DEF DInv
<1>2. DInv /\ [DlqNext]_dlqVars => PlainDeletesNothing
  BY PlainIsHarmless, Zenon
<1>3. QED
  BY <1>1, <1>2, InitDInv, NextDInv, PTL DEF DlqSpec, LettersHandedOn

-----------------------------------------------------------------------------
(* What deployments leave behind.                                          *)

Infra == {"main", "dlx", "dlq"}

\* A call is among those of a list.
Has(cs, o, e) == \E i \in 1..Len(cs) : cs[i] = [op |-> o, on |-> e]

\* A list that deletes something goes on to declare it, and to bind it or what was bound
\* to it.
Restores(cs) ==
  \A i \in 1..Len(cs) : cs[i].op = "delete" =>
    \A e \in Entity, q \in Queue \cup {"dlq"} :
      /\ e = cs[i].on => \E j \in (i + 1)..Len(cs) : cs[j] = [op |-> "declare", on |-> e]
      /\ q = cs[i].on \/ (cs[i].on = "dlx" /\ q = "dlq") =>
           \E j \in (i + 1)..Len(cs) : cs[j] = [op |-> "bind", on |-> q]

\* A list about the entities of S, as a phase starts with it.
Sound(cs, S) ==
  /\ cs \in Seq(Op)
  /\ Restores(cs)
  /\ \A i \in 1..Len(cs) : /\ cs[i].on \in S
                           /\ cs[i].op = "bind" => cs[i].on \in Queue \cup {"dlq"}

\* The calls that are needed.
Wanted(o, e) == (o = "declare" /\ e \in Entity) \/ (o = "bind" /\ e \in Queue \cup {"dlq"})

\* What the list is about and which queues are left, in each phase.
Fit(ph, cs, lf) ==
  /\ ph \in {"check", "infra", "reinfra"} => lf = Queue /\ Sound(cs, Infra)
  /\ ph \in {"queue", "requeue"} => cs = <<>> \/ \E q \in Queue : Sound(cs, {q})
  /\ ph \in {"done", "failed"} => cs = <<>>
  /\ ph = "done" => lf = {}

\* Whether a deployment in this state is still to make call o on e, or has given up.
Pledges(ph, cs, lf, sk, o, e) ==
  ph \in {"check", "failed"} \/ sk \/ e \in lf \/ Has(cs, o, e)

PledgedBy(d, o, e) == Pledges(phase[d], calls[d], left[d], skipped[d], o, e)

\* Whatever is not as it should be, some deployment is still to see to.
Pledged ==
  /\ \A e \in Entity : entity[e] = "right" \/ \E d \in Deployment : PledgedBy(d, "declare", e)
  /\ \A q \in Queue \cup {"dlq"} : q \in bound \/ \E d \in Deployment : PledgedBy(d, "bind", q)

DeclareTypes ==
  /\ bound \subseteq Queue \cup {"dlq"}
  /\ phase \in [Deployment -> {"check", "infra", "reinfra", "queue", "requeue", "done", "failed"}]
  /\ skipped \in [Deployment -> BOOLEAN]
  /\ \A d \in Deployment : Fit(phase[d], calls[d], left[d])

DeclareInv == DeclareTypes /\ Pledged

\* The calls, one by one.
LEMMA CallsToList ==
  ASSUME NEW o, NEW names \in Seq(Entity)
  PROVE  /\ Len(CallsTo(o, names)) = Len(names)
         /\ \A i \in 1..Len(names) : CallsTo(o, names)[i] = [op |-> o, on |-> names[i]]
BY DEF CallsTo

LEMMA Concatenated ==
  ASSUME NEW a \in Seq(Op), NEW b \in Seq(Op)
  PROVE  /\ Len(a \o b) = Len(a) + Len(b)
         /\ \A i \in 1..Len(a) : (a \o b)[i] = a[i]
         /\ \A i \in 1..Len(b) : (a \o b)[Len(a) + i] = b[i]
<1>1. Len(a \o b) = Len(a) + Len(b) /\ Len(a) \in Nat /\ Len(b) \in Nat
  OBVIOUS
<1>2. ASSUME NEW i \in 1..Len(a) PROVE (a \o b)[i] = a[i]
  BY <1>1, <1>2
<1>3. ASSUME NEW i \in 1..Len(b) PROVE (a \o b)[Len(a) + i] = b[i]
  <2>1. Len(a) + i \in 1..(Len(a) + Len(b)) /\ Len(a) + i > Len(a) /\ (Len(a) + i) - Len(a) = i
    BY <1>1, <1>3
  <2> QED BY <1>1, <2>1
<1> QED BY <1>1, <1>2, <1>3, Zenon

LEMMA InfraLists ==
  /\ Len(DeclareCalls) = 4
  /\ DeclareCalls[1] = [op |-> "declare", on |-> "main"]
  /\ DeclareCalls[2] = [op |-> "declare", on |-> "dlx"]
  /\ DeclareCalls[3] = [op |-> "declare", on |-> "dlq"]
  /\ DeclareCalls[4] = [op |-> "bind", on |-> "dlq"]
  /\ Len(DeleteCalls) = 3
  /\ DeleteCalls[1] = [op |-> "delete", on |-> "main"]
  /\ DeleteCalls[2] = [op |-> "delete", on |-> "dlx"]
  /\ DeleteCalls[3] = [op |-> "delete", on |-> "dlq"]
  /\ Len(ProbeCalls) = 3
  /\ \A i \in 1..3 : ProbeCalls[i].op = "probe" /\ ProbeCalls[i].on \in Infra
<1> DEFINE three == <<"main", "dlx", "dlq">>
           one == <<"dlq">>
<1>1. /\ three \in Seq(Entity) /\ Len(three) = 3
      /\ three[1] = "main" /\ three[2] = "dlx" /\ three[3] = "dlq"
      /\ one \in Seq(Entity) /\ Len(one) = 1 /\ one[1] = "dlq"
  BY DEF Entity, Exchange
<1> HIDE DEF three, one
<1>2. ASSUME NEW o \in {"probe", "delete", "declare", "bind"}
      PROVE  /\ CallsTo(o, three) \in Seq(Op) /\ Len(CallsTo(o, three)) = 3
             /\ CallsTo(o, three)[1] = [op |-> o, on |-> "main"]
             /\ CallsTo(o, three)[2] = [op |-> o, on |-> "dlx"]
             /\ CallsTo(o, three)[3] = [op |-> o, on |-> "dlq"]
  <2>1. CallsTo(o, three) \in Seq(Op)
    BY <1>1, CallsToOp, Zenon
  <2>2. 1 \in 1..Len(three) /\ 2 \in 1..Len(three) /\ 3 \in 1..Len(three)
    BY <1>1
  <2> QED BY <1>1, <2>1, <2>2, CallsToList, Zenon
<1>3. /\ CallsTo("bind", one) \in Seq(Op) /\ Len(CallsTo("bind", one)) = 1
      /\ CallsTo("bind", one)[1] = [op |-> "bind", on |-> "dlq"]
  <2>1. CallsTo("bind", one) \in Seq(Op)
    BY <1>1, CallsToOp, Zenon
  <2>2. 1 \in 1..Len(one)
    BY <1>1
  <2> QED BY <1>1, <2>1, <2>2, CallsToList, Zenon
<1>4. /\ DeclareCalls = CallsTo("declare", three) \o CallsTo("bind", one)
      /\ DeleteCalls = CallsTo("delete", three) /\ ProbeCalls = CallsTo("probe", three)
  BY Zenon DEF DeclareCalls, DeleteCalls, ProbeCalls, three, one
<1>5. /\ Len(DeclareCalls) = 4
      /\ DeclareCalls[1] = [op |-> "declare", on |-> "main"]
      /\ DeclareCalls[2] = [op |-> "declare", on |-> "dlx"]
      /\ DeclareCalls[3] = [op |-> "declare", on |-> "dlq"]
      /\ DeclareCalls[4] = [op |-> "bind", on |-> "dlq"]
  <2> DEFINE a == CallsTo("declare", three)
             b == CallsTo("bind", one)
  <2>1. a \in Seq(Op) /\ b \in Seq(Op) /\ Len(a) = 3 /\ Len(b) = 1 /\ DeclareCalls = a \o b
    BY <1>2, <1>3, <1>4, Zenon
  <2>2. /\ a[1] = [op |-> "declare", on |-> "main"] /\ a[2] = [op |-> "declare", on |-> "dlx"]
        /\ a[3] = [op |-> "declare", on |-> "dlq"] /\ b[1] = [op |-> "bind", on |-> "dlq"]
    BY <1>2, <1>3, Zenon
  <2> HIDE DEF a, b
  <2>3. /\ Len(a \o b) = 4 /\ (a \o b)[1] = a[1] /\ (a \o b)[2] = a[2] /\ (a \o b)[3] = a[3]
        /\ (a \o b)[4] = b[1]
    <3>1. /\ 1 \in 1..Len(a) /\ 2 \in 1..Len(a) /\ 3 \in 1..Len(a) /\ 1 \in 1..Len(b)
          /\ Len(a) + 1 = 4 /\ Len(a) + Len(b) = 4
      BY <2>1
    <3>2. (a \o b)[Len(a) + 1] = b[1]
      BY <2>1, <3>1, Concatenated, Zenon
    <3> QED BY <2>1, <3>1, <3>2, Concatenated, Zenon
  <2> QED BY <2>1, <2>2, <2>3, Zenon
<1>6. \A i \in 1..3 : ProbeCalls[i].op = "probe" /\ ProbeCalls[i].on \in Infra
  <2>1. /\ ProbeCalls[1] = [op |-> "probe", on |-> "main"]
        /\ ProbeCalls[2] = [op |-> "probe", on |-> "dlx"]
        /\ ProbeCalls[3] = [op |-> "probe", on |-> "dlq"]
    BY <1>2, <1>4, Zenon
  <2> QED BY <2>1 DEF Infra
<1> QED BY <1>2, <1>4, <1>5, <1>6, Zenon

LEMMA InfraApart == Infra \subseteq Entity /\ Queue \subseteq Entity /\ Queue \cap Infra = {}
                    /\ Entity = Infra \cup Queue
BY TopologyAssumption, Zenon DEF Infra, Entity, Exchange

LEMMA DeclareSound ==
  Sound(DeclareCalls, Infra) /\ \A o : \A e \in Infra : Wanted(o, e) => Has(DeclareCalls, o, e)
<1> DEFINE cs == DeclareCalls
<1>1. /\ cs \in Seq(Op) /\ Len(cs) = 4
      /\ cs[1] = [op |-> "declare", on |-> "main"] /\ cs[2] = [op |-> "declare", on |-> "dlx"]
      /\ cs[3] = [op |-> "declare", on |-> "dlq"] /\ cs[4] = [op |-> "bind", on |-> "dlq"]
  BY InfraLists, CallsHarmless, Zenon DEF Harmless
<1> HIDE DEF cs
<1>2. \A i \in 1..Len(cs) : i = 1 \/ i = 2 \/ i = 3 \/ i = 4
  BY <1>1, SMTT(30)
<1>3. \A i \in 1..Len(cs) : cs[i].on \in Infra /\ cs[i].op # "delete"
                            /\ (cs[i].op = "bind" => cs[i].on \in Queue \cup {"dlq"})
  BY <1>1, <1>2 DEF Infra
<1>4. Sound(cs, Infra)
  BY <1>1, <1>3, Zenon DEF Sound, Restores
<1>5. 1 \in 1..Len(cs) /\ 2 \in 1..Len(cs) /\ 3 \in 1..Len(cs) /\ 4 \in 1..Len(cs)
  BY <1>1
<1>6. ASSUME NEW o, NEW e \in Infra, Wanted(o, e) PROVE Has(cs, o, e)
  <2>1. (o = "declare" /\ e \in {"main", "dlx", "dlq"}) \/ (o = "bind" /\ e = "dlq")
    BY <1>6, TopologyAssumption, Zenon DEF Wanted, Infra
  <2> QED BY <1>1, <1>5, <2>1, Zenon DEF Has
<1> QED BY <1>4, <1>6, Zenon DEF cs

LEMMA RebuildSound ==
  /\ Sound(DeleteCalls \o DeclareCalls, Infra)
  /\ \A o : \A e \in Infra : Wanted(o, e) => Has(DeleteCalls \o DeclareCalls, o, e)
<1> DEFINE a == DeleteCalls
           b == DeclareCalls
           cs == a \o b
<1>1. a \in Seq(Op) /\ b \in Seq(Op) /\ Len(a) = 3 /\ Len(b) = 4
  BY InfraLists, CallsHarmless, Zenon DEF Harmless
<1>2. /\ a[1] = [op |-> "delete", on |-> "main"] /\ a[2] = [op |-> "delete", on |-> "dlx"]
      /\ a[3] = [op |-> "delete", on |-> "dlq"]
      /\ b[1] = [op |-> "declare", on |-> "main"] /\ b[2] = [op |-> "declare", on |-> "dlx"]
      /\ b[3] = [op |-> "declare", on |-> "dlq"] /\ b[4] = [op |-> "bind", on |-> "dlq"]
  BY InfraLists, Zenon
<1> HIDE DEF a, b
<1>3. cs \in Seq(Op) /\ Len(cs) = 7
  <2>1. Len(cs) = Len(a) + Len(b)
    BY <1>1, Concatenated, Zenon
  <2> QED BY <1>1, <2>1, Appended
<1>4. cs[1] = a[1] /\ cs[2] = a[2] /\ cs[3] = a[3]
  <2>1. 1 \in 1..Len(a) /\ 2 \in 1..Len(a) /\ 3 \in 1..Len(a)
    BY <1>1
  <2> QED BY <1>1, <2>1, Concatenated, Zenon
<1>5. cs[4] = b[1] /\ cs[5] = b[2] /\ cs[6] = b[3] /\ cs[7] = b[4]
  <2>1. /\ 1 \in 1..Len(b) /\ 2 \in 1..Len(b) /\ 3 \in 1..Len(b) /\ 4 \in 1..Len(b)
        /\ Len(a) + 1 = 4 /\ Len(a) + 2 = 5 /\ Len(a) + 3 = 6 /\ Len(a) + 4 = 7
    BY <1>1
  <2>2. /\ cs[Len(a) + 1] = b[1] /\ cs[Len(a) + 2] = b[2] /\ cs[Len(a) + 3] = b[3]
        /\ cs[Len(a) + 4] = b[4]
    BY <1>1, <2>1, Concatenated, ZenonT(40)
  <2> QED BY <2>1, <2>2, Zenon
<1> HIDE DEF cs
<1>6. \A i \in 1..Len(cs) : i = 1 \/ i = 2 \/ i = 3 \/ i = 4 \/ i = 5 \/ i = 6 \/ i = 7
  BY <1>3
<1>7. \A i \in 1..Len(cs) : cs[i].on \in Infra
                            /\ (cs[i].op = "bind" => cs[i].on \in Queue \cup {"dlq"})
                            /\ (cs[i].op = "delete" => i = 1 \/ i = 2 \/ i = 3)
  BY <1>2, <1>4, <1>5, <1>6 DEF Infra
<1>8. Restores(cs)
  <2> SUFFICES ASSUME NEW i \in 1..Len(cs), cs[i].op = "delete",
                      NEW e \in Entity, NEW q \in Queue \cup {"dlq"}
               PROVE  /\ e = cs[i].on =>
                           \E j \in (i + 1)..Len(cs) : cs[j] = [op |-> "declare", on |-> e]
                      /\ q = cs[i].on \/ (cs[i].on = "dlx" /\ q = "dlq") =>
                           \E j \in (i + 1)..Len(cs) : cs[j] = [op |-> "bind", on |-> q]
    BY Zenon DEF Restores
  <2>1. i = 1 \/ i = 2 \/ i = 3
    BY <1>7, Zenon
  <2>2. i + 3 \in (i + 1)..Len(cs) /\ cs[i + 3] = [op |-> "declare", on |-> cs[i].on]
    BY <1>2, <1>3, <1>4, <1>5, <2>1, SMTT(30)
  <2>3. 7 \in (i + 1)..Len(cs) /\ cs[7] = [op |-> "bind", on |-> "dlq"]
    BY <1>2, <1>3, <1>5, <2>1, SMTT(30)
  <2>4. q = cs[i].on => q = "dlq"
    BY <1>2, <1>4, <2>1, TopologyAssumption
  <2> QED BY <2>2, <2>3, <2>4, Zenon
<1>9. Sound(cs, Infra)
  BY <1>3, <1>7, <1>8, Zenon DEF Sound
<1>10. 4 \in 1..Len(cs) /\ 5 \in 1..Len(cs) /\ 6 \in 1..Len(cs) /\ 7 \in 1..Len(cs)
  BY <1>3, SMTT(30)
<1>11. ASSUME NEW o, NEW e \in Infra, Wanted(o, e) PROVE Has(cs, o, e)
  <2>1. (o = "declare" /\ e \in {"main", "dlx", "dlq"}) \/ (o = "bind" /\ e = "dlq")
    BY <1>11, TopologyAssumption DEF Wanted, Infra
  <2> QED BY <1>2, <1>5, <1>10, <2>1 DEF Has
<1> QED BY <1>9, <1>11, Zenon DEF cs, a, b

LEMMA QueueSound ==
  ASSUME NEW q \in Queue
  PROVE  /\ Sound(QueueCalls(q), {q})
         /\ Sound(CallsTo("delete", <<q>>) \o QueueCalls(q), {q})
         /\ \A o \in {"declare", "bind"} :
              Has(QueueCalls(q), o, q) /\ Has(CallsTo("delete", <<q>>) \o QueueCalls(q), o, q)
<1>1. ASSUME NEW o \in {"delete", "declare", "bind"}
      PROVE  /\ CallsTo(o, <<q>>) \in Seq(Op) /\ Len(CallsTo(o, <<q>>)) = 1
             /\ CallsTo(o, <<q>>)[1] = [op |-> o, on |-> q]
  <2>1. <<q>> \in Seq(Entity) /\ Len(<<q>>) = 1 /\ <<q>>[1] = q /\ 1 \in 1..Len(<<q>>)
    BY InfraApart
  <2> QED BY <2>1, CallsToOp, CallsToList, Zenon
<1> DEFINE a == CallsTo("declare", <<q>>)
           b == CallsTo("bind", <<q>>)
           x == CallsTo("delete", <<q>>)
           ab == QueueCalls(q)
           xab == x \o ab
<1>2. /\ a \in Seq(Op) /\ Len(a) = 1 /\ a[1] = [op |-> "declare", on |-> q]
      /\ b \in Seq(Op) /\ Len(b) = 1 /\ b[1] = [op |-> "bind", on |-> q]
      /\ x \in Seq(Op) /\ Len(x) = 1 /\ x[1] = [op |-> "delete", on |-> q]
  BY <1>1, Zenon
<1>3. ab = a \o b
  BY Zenon DEF QueueCalls
<1> HIDE DEF a, b, x, ab
<1>4. /\ ab \in Seq(Op) /\ Len(ab) = 2
      /\ ab[1] = [op |-> "declare", on |-> q] /\ ab[2] = [op |-> "bind", on |-> q]
  <2>1. 1 \in 1..Len(a) /\ 1 \in 1..Len(b) /\ Len(a) + 1 = 2 /\ Len(a) + Len(b) = 2
    BY <1>2
  <2>2. (a \o b)[1] = a[1] /\ (a \o b)[Len(a) + 1] = b[1] /\ Len(a \o b) = Len(a) + Len(b)
    BY <1>2, <2>1, Concatenated, ZenonT(40)
  <2>3. a \o b \in Seq(Op)
    BY <1>2, Appended, Zenon
  <2> QED BY <1>2, <1>3, <2>1, <2>2, <2>3, Zenon
<1>5. /\ xab \in Seq(Op) /\ Len(xab) = 3 /\ xab[1] = [op |-> "delete", on |-> q]
      /\ xab[2] = [op |-> "declare", on |-> q] /\ xab[3] = [op |-> "bind", on |-> q]
  <2>1. /\ 1 \in 1..Len(x) /\ 1 \in 1..Len(ab) /\ 2 \in 1..Len(ab)
        /\ Len(x) + 1 = 2 /\ Len(x) + 2 = 3 /\ Len(x) + Len(ab) = 3
    BY <1>2, <1>4
  <2>2. /\ xab[1] = x[1] /\ xab[Len(x) + 1] = ab[1] /\ xab[Len(x) + 2] = ab[2]
        /\ Len(xab) = Len(x) + Len(ab)
    BY <1>2, <1>4, <2>1, Concatenated, ZenonT(60)
  <2>3. xab \in Seq(Op)
    BY <1>2, <1>4, Appended, Zenon
  <2> QED BY <1>2, <1>4, <2>1, <2>2, <2>3, Zenon
<1> HIDE DEF xab
<1>6. Sound(ab, {q})
  <2>1. \A i \in 1..Len(ab) : i = 1 \/ i = 2
    BY <1>4
  <2>2. \A i \in 1..Len(ab) : ab[i].on = q /\ ab[i].op # "delete"
    BY <1>4, <2>1
  <2> QED BY <1>4, <2>2, Zenon DEF Sound, Restores
<1>7. Sound(xab, {q})
  <2>1. \A i \in 1..Len(xab) : i = 1 \/ i = 2 \/ i = 3
    BY <1>5
  <2>2. \A i \in 1..Len(xab) : xab[i].on = q /\ (xab[i].op = "delete" => i = 1)
    BY <1>5, <2>1, SMTT(30)
  <2>3. q \notin {"dlx", "dlq"} /\ 2 \in (1 + 1)..Len(xab) /\ 3 \in (1 + 1)..Len(xab)
    BY <1>5, TopologyAssumption, SMTT(30)
  <2>4. Restores(xab)
    BY <1>5, <2>2, <2>3 DEF Restores
  <2> QED BY <1>5, <2>2, <2>4, Zenon DEF Sound
<1>8. ASSUME NEW o \in {"declare", "bind"} PROVE Has(ab, o, q) /\ Has(xab, o, q)
  <2>1. 1 \in 1..Len(ab) /\ 2 \in 1..Len(ab) /\ 2 \in 1..Len(xab) /\ 3 \in 1..Len(xab)
    BY <1>4, <1>5, SMTT(30)
  <2> QED BY <1>4, <1>5, <2>1, Zenon DEF Has
<1> QED BY <1>6, <1>7, <1>8, Zenon DEF ab, xab, x

\* ProbeCalls only asks.
LEMMA ProbeSound == Sound(ProbeCalls, Infra)
<1>1. <<"main", "dlx", "dlq">> \in Seq(Entity) /\ Len(<<"main", "dlx", "dlq">>) = 3
  BY InfraApart DEF Infra
<1>2. /\ ProbeCalls \in Seq(Op) /\ Len(ProbeCalls) = 3
      /\ \A i \in 1..3 : ProbeCalls[i] = [op |-> "probe", on |-> <<"main", "dlx", "dlq">>[i]]
  BY <1>1, CallsToList, CallsHarmless, Zenon DEF ProbeCalls, Harmless
<1>3. \A i \in 1..3 : <<"main", "dlx", "dlq">>[i] \in Infra
  BY DEF Infra
<1> QED BY <1>2, <1>3 DEF Sound, Restores

\* What is left of a list after its first call.
LEMMA TailSound ==
  ASSUME NEW S, NEW cs, Sound(cs, S), cs # <<>>
  PROVE  /\ Head(cs) \in Op /\ Head(cs).on \in S
         /\ Head(cs).op = "bind" => Head(cs).on \in Queue \cup {"dlq"}
         /\ Sound(Tail(cs), S)
         /\ \A o, e : Has(cs, o, e) => Head(cs) = [op |-> o, on |-> e] \/ Has(Tail(cs), o, e)
         /\ Head(cs).op = "delete" =>
              /\ \A e \in Entity : e = Head(cs).on => Has(Tail(cs), "declare", e)
              /\ \A q \in Queue \cup {"dlq"} :
                   q = Head(cs).on \/ (Head(cs).on = "dlx" /\ q = "dlq") =>
                     Has(Tail(cs), "bind", q)
<1>1. cs \in Seq(Op) /\ Restores(cs)
  BY Zenon DEF Sound
<1>2. Len(cs) \in Nat /\ Len(cs) >= 1 /\ Head(cs) = cs[1] /\ cs[1] \in Op /\ 1 \in 1..Len(cs)
  BY <1>1
<1>3. Tail(cs) \in Seq(Op) /\ Len(Tail(cs)) = Len(cs) - 1
  BY <1>1
<1>4. \A i \in 1..Len(Tail(cs)) : Tail(cs)[i] = cs[i + 1] /\ i + 1 \in 1..Len(cs)
  BY <1>1, <1>2, <1>3
<1> DEFINE t == Tail(cs)
           h == Head(cs)
           n == Len(cs)
<1>5. /\ n \in Nat /\ n >= 1 /\ Len(t) = n - 1 /\ h = cs[1]
      /\ \A i \in 1..Len(t) : t[i] = cs[i + 1] /\ i + 1 \in 1..n
  BY <1>2, <1>3, <1>4, Zenon
<1>6. /\ \A i \in 1..n : cs[i].on \in S /\ (cs[i].op = "bind" => cs[i].on \in Queue \cup {"dlq"})
      /\ \A i \in 1..n : cs[i].op = "delete" =>
           \A e \in Entity, q \in Queue \cup {"dlq"} :
             /\ e = cs[i].on => \E j \in (i + 1)..n : cs[j] = [op |-> "declare", on |-> e]
             /\ q = cs[i].on \/ (cs[i].on = "dlx" /\ q = "dlq") =>
                  \E j \in (i + 1)..n : cs[j] = [op |-> "bind", on |-> q]
  BY Zenon DEF Sound, Restores
<1> HIDE DEF t, h, n
<1>7. ASSUME NEW i \in 1..n, NEW j \in (i + 1)..n
      PROVE  j - 1 \in i..Len(t) /\ j - 1 \in 1..Len(t) /\ t[j - 1] = cs[j]
  <2>1. j - 1 \in i..Len(t) /\ j - 1 \in 1..Len(t) /\ (j - 1) + 1 = j
    BY <1>5, SMTT(30)
  <2> QED BY <1>5, <2>1, Zenon
<1>8. \A i \in 1..Len(t) : t[i].on \in S /\ (t[i].op = "bind" => t[i].on \in Queue \cup {"dlq"})
  BY <1>5, <1>6
<1>9. ASSUME NEW i \in 1..Len(t), t[i].op = "delete",
             NEW e \in Entity, NEW q \in Queue \cup {"dlq"}
      PROVE  /\ e = t[i].on => \E j \in (i + 1)..Len(t) : t[j] = [op |-> "declare", on |-> e]
             /\ q = t[i].on \/ (t[i].on = "dlx" /\ q = "dlq") =>
                  \E j \in (i + 1)..Len(t) : t[j] = [op |-> "bind", on |-> q]
  <2>1. i + 1 \in 1..n /\ t[i] = cs[i + 1]
    BY <1>5, Zenon
  <2>2. \A j \in ((i + 1) + 1)..n : j - 1 \in (i + 1)..Len(t) /\ t[j - 1] = cs[j]
    BY <1>7, <2>1, Zenon
  <2>3. /\ e = t[i].on => \E j \in ((i + 1) + 1)..n : cs[j] = [op |-> "declare", on |-> e]
        /\ q = t[i].on \/ (t[i].on = "dlx" /\ q = "dlq") =>
             \E j \in ((i + 1) + 1)..n : cs[j] = [op |-> "bind", on |-> q]
    BY <1>6, <1>9, <2>1
  <2> QED BY <2>2, <2>3, Zenon
<1>10. Restores(t)
  BY <1>9, Zenon DEF Restores
<1>11. \A j \in (1 + 1)..n : j - 1 \in 1..Len(t) /\ t[j - 1] = cs[j]
  BY <1>2, <1>5, <1>7, Zenon DEF n
<1>12. ASSUME NEW o, NEW e, Has(cs, o, e) PROVE h = [op |-> o, on |-> e] \/ Has(t, o, e)
  <2>1. PICK j \in 1..n : cs[j] = [op |-> o, on |-> e]
    BY <1>12, Zenon DEF Has, n
  <2>2. j = 1 \/ j \in (1 + 1)..n
    BY <1>5
  <2> QED BY <1>5, <1>11, <2>1, <2>2, Zenon DEF Has
<1>13. ASSUME h.op = "delete"
       PROVE  /\ \A e \in Entity : e = h.on => Has(t, "declare", e)
              /\ \A q \in Queue \cup {"dlq"} :
                   q = h.on \/ (h.on = "dlx" /\ q = "dlq") => Has(t, "bind", q)
  <2>1. 1 \in 1..n /\ cs[1].op = "delete"
    BY <1>5, <1>13, SMTT(30)
  <2>2. ASSUME NEW e \in Entity, NEW q \in Queue \cup {"dlq"}
        PROVE  /\ e = h.on => \E j \in (1 + 1)..n : cs[j] = [op |-> "declare", on |-> e]
               /\ q = h.on \/ (h.on = "dlx" /\ q = "dlq") =>
                    \E j \in (1 + 1)..n : cs[j] = [op |-> "bind", on |-> q]
    BY <1>5, <1>6, <2>1
  <2>3. "main" \in Entity /\ "dlq" \in Queue \cup {"dlq"}
    BY InfraApart, Zenon DEF Infra
  <2>4. \A o, e : (\E j \in (1 + 1)..n : cs[j] = [op |-> o, on |-> e]) => Has(t, o, e)
    BY <1>11, Zenon DEF Has
  <2>5. \A e \in Entity : e = h.on => Has(t, "declare", e)
    BY <2>2, <2>3, <2>4, Zenon
  <2>6. \A q \in Queue \cup {"dlq"} :
          q = h.on \/ (h.on = "dlx" /\ q = "dlq") => Has(t, "bind", q)
    BY <2>2, <2>3, <2>4, Zenon
  <2> QED BY <2>5, <2>6, Zenon
<1> QED BY <1>2, <1>3, <1>5, <1>6, <1>8, <1>10, <1>12, <1>13, Zenon DEF Sound, t, h, n

\* A step that makes no call: the new list is sound, and pledges what the deployment did.
LEMMA Moves ==
  ASSUME BrokerTypes, DeclareTypes, NEW d \in Deployment, DeclareStep(d), ~CallSucceeds(d)
  PROVE  /\ UNCHANGED brokerVars
         /\ \E ph \in {"infra", "reinfra", "queue", "requeue", "done", "failed"},
               cs \in Seq(Op), lf \in SUBSET Queue, sk \in BOOLEAN :
              /\ phase' = [phase EXCEPT ![d] = ph] /\ calls' = [calls EXCEPT ![d] = cs]
              /\ left' = [left EXCEPT ![d] = lf] /\ skipped' = [skipped EXCEPT ![d] = sk]
              /\ Fit(ph, cs, lf)
              /\ \A o, e : Wanted(o, e) /\ PledgedBy(d, o, e) => Pledges(ph, cs, lf, sk, o, e)
<1> DEFINE Goal(ph, cs, lf, sk) ==
             /\ phase' = [phase EXCEPT ![d] = ph] /\ calls' = [calls EXCEPT ![d] = cs]
             /\ left' = [left EXCEPT ![d] = lf] /\ skipped' = [skipped EXCEPT ![d] = sk]
             /\ Fit(ph, cs, lf)
             /\ \A o, e : Wanted(o, e) /\ PledgedBy(d, o, e) => Pledges(ph, cs, lf, sk, o, e)
           Rebuild == DeleteCalls \o DeclareCalls
<1>1. UNCHANGED brokerVars
  BY Zenon
    DEF DeclareStep, NothingThere, AllThere, InfraFails, NextQueue, QueueFails, CommandFails,
         CommandDone
<1>2. /\ phase[d] \in {"check", "infra", "reinfra", "queue", "requeue", "done", "failed"}
      /\ skipped[d] \in BOOLEAN /\ left[d] \in SUBSET Queue
      /\ Fit(phase[d], calls[d], left[d])
  BY Zenon DEF BrokerTypes, DeclareTypes
<1>3. left = [left EXCEPT ![d] = left[d]] /\ skipped = [skipped EXCEPT ![d] = skipped[d]]
  BY ZenonT(40) DEF BrokerTypes, DeclareTypes
<1>4. /\ DeclareCalls \in Seq(Op) /\ Rebuild \in Seq(Op) /\ <<>> \in Seq(Op)
      /\ \A q \in Queue : QueueCalls(q) \in Seq(Op) /\ CallsTo("delete", <<q>>) \o QueueCalls(q) \in Seq(Op)
  <2>1. <<>> \in Seq(Op)
    OBVIOUS
  <2>2. DeclareCalls \in Seq(Op) /\ Rebuild \in Seq(Op)
    BY DeclareSound, RebuildSound, Zenon DEF Sound
  <2>3. \A q \in Queue : QueueCalls(q) \in Seq(Op)
                           /\ CallsTo("delete", <<q>>) \o QueueCalls(q) \in Seq(Op)
    BY QueueSound, Zenon DEF Sound
  <2> QED BY <2>1, <2>2, <2>3, Zenon
<1>5. \A o, e : Wanted(o, e) =>
        e \in Queue \/ (e \in Infra /\ Has(DeclareCalls, o, e) /\ Has(Rebuild, o, e))
  <2>1. \A o, e : Wanted(o, e) => e \in Queue \/ e \in Infra
    BY InfraApart, Zenon DEF Wanted, Infra
  <2> QED BY <2>1, DeclareSound, RebuildSound, Zenon
<1>6. \A o, e : Wanted(o, e) => o \in {"declare", "bind"}
  BY Zenon DEF Wanted
<1>7. \A o, e : ~Has(<<>>, o, e)
  BY DEF Has
<1> HIDE DEF Rebuild
<1>8. CASE NothingThere(d) \/ AllThere(d)
  <2>1. PICK cs \in {DeclareCalls, Rebuild} :
          phase' = [phase EXCEPT ![d] = "infra"] /\ calls' = [calls EXCEPT ![d] = cs]
    BY <1>8, Zenon DEF NothingThere, AllThere, GoTo, Rebuild
  <2>2. left' = left /\ skipped' = skipped /\ phase[d] = "check"
    BY <1>8, Zenon DEF NothingThere, AllThere
  <2>3. Sound(cs, Infra) /\ left[d] = Queue /\ cs \in Seq(Op)
    BY <1>2, <1>4, <2>1, <2>2, DeclareSound, RebuildSound, Zenon DEF Fit, Rebuild
  <2>4. Fit("infra", cs, left[d])
    BY <2>3, Zenon DEF Fit
  <2>5. \A o, e : Wanted(o, e) => Pledges("infra", cs, left[d], skipped[d], o, e)
    BY <1>5, <2>1, <2>3, Zenon DEF Pledges
  <2>6. Goal("infra", cs, left[d], skipped[d])
    BY <1>3, <2>1, <2>2, <2>4, <2>5, Zenon
  <2> QED BY <1>1, <1>2, <2>3, <2>6, Zenon
<1>9. CASE InfraFails(d)
  <2>1. \/ /\ phase' = [phase EXCEPT ![d] = "reinfra"] /\ calls' = [calls EXCEPT ![d] = Rebuild]
           /\ skipped' = skipped
        \/ /\ phase' = [phase EXCEPT ![d] = "queue"] /\ calls' = [calls EXCEPT ![d] = <<>>]
           /\ skipped' = [skipped EXCEPT ![d] = TRUE]
    BY <1>9, Zenon DEF InfraFails, GoTo, Rebuild
  <2>2. left' = left /\ left[d] = Queue
    BY <1>2, <1>9, Zenon DEF InfraFails, Fit
  <2>3. Fit("reinfra", Rebuild, left[d]) /\ Fit("queue", <<>>, left[d])
    BY <2>2, RebuildSound, Zenon DEF Fit, Rebuild
  <2>4. \A o, e : Wanted(o, e) => Pledges("reinfra", Rebuild, left[d], skipped[d], o, e)
    BY <1>5, <2>2, Zenon DEF Pledges
  <2>5. \A o, e : Pledges("queue", <<>>, left[d], TRUE, o, e)
    BY Zenon DEF Pledges
  <2>6. Goal("reinfra", Rebuild, left[d], skipped[d]) \/ Goal("queue", <<>>, left[d], TRUE)
    BY <1>3, <2>1, <2>2, <2>3, <2>4, <2>5, Zenon
  <2>7. TRUE \in BOOLEAN /\ Rebuild \in Seq(Op) /\ <<>> \in Seq(Op)
    BY <1>4, Zenon
  <2> HIDE DEF Goal
  <2>8. \E ph \in {"infra", "reinfra", "queue", "requeue", "done", "failed"},
           cs \in Seq(Op), lf \in SUBSET Queue, sk \in BOOLEAN : Goal(ph, cs, lf, sk)
    BY <1>2, <2>6, <2>7, Zenon
  <2> QED BY <1>1, <2>8, ZenonT(60) DEF Goal
<1>10. CASE NextQueue(d)
  <2>1. PICK q \in left[d] : /\ phase' = [phase EXCEPT ![d] = "queue"]
                             /\ calls' = [calls EXCEPT ![d] = QueueCalls(q)]
                             /\ left' = [left EXCEPT ![d] = left[d] \ {q}]
    BY <1>10, Zenon DEF NextQueue, GoTo
  <2>2. skipped' = skipped /\ calls[d] = <<>> /\ phase[d] \notin {"check", "failed"}
    BY <1>10, Zenon DEF NextQueue
  <2>3. q \in Queue /\ left[d] \ {q} \in SUBSET Queue
    BY <1>2, Zenon
  <2>4. Fit("queue", QueueCalls(q), left[d] \ {q})
    BY <2>3, QueueSound, Zenon DEF Fit
  <2>5. ASSUME NEW o, NEW e, Wanted(o, e), PledgedBy(d, o, e)
        PROVE  Pledges("queue", QueueCalls(q), left[d] \ {q}, skipped[d], o, e)
    <3>1. skipped[d] \/ e \in left[d]
      BY <1>7, <2>2, <2>5, Zenon DEF PledgedBy, Pledges
    <3>2. Has(QueueCalls(q), o, q)
      BY <1>6, <2>3, <2>5, QueueSound, Zenon
    <3> QED BY <3>1, <3>2, Zenon DEF Pledges
  <2>6. Goal("queue", QueueCalls(q), left[d] \ {q}, skipped[d])
    BY <1>3, <2>1, <2>2, <2>4, <2>5, Zenon
  <2> QED BY <1>1, <1>2, <1>4, <2>3, <2>6, Zenon
<1>11. CASE QueueFails(d)
  <2> DEFINE q == Head(calls[d]).on
             Again == CallsTo("delete", <<q>>) \o QueueCalls(q)
  <2>1. \/ /\ phase' = [phase EXCEPT ![d] = "requeue"] /\ calls' = [calls EXCEPT ![d] = Again]
           /\ skipped' = skipped
        \/ /\ phase' = [phase EXCEPT ![d] = "queue"] /\ calls' = [calls EXCEPT ![d] = <<>>]
           /\ skipped' = [skipped EXCEPT ![d] = TRUE]
    BY <1>11, Zenon DEF QueueFails, GoTo
  <2>2. left' = left /\ calls[d] # <<>> /\ phase[d] = "queue"
    BY <1>11, Zenon DEF QueueFails
  <2>3. PICK r \in Queue : Sound(calls[d], {r})
    BY <1>2, <2>2, Zenon DEF Fit
  <2>4. q = r
    <3>1. Head(calls[d]).on \in {r}
      BY <2>2, <2>3, TailSound, Zenon
    <3> QED BY <3>1, Zenon
  <2> HIDE DEF q
  <2>5. \A i \in 1..Len(calls[d]) : calls[d][i].on = q
    BY <2>3, <2>4, Zenon DEF Sound
  <2>6. Sound(Again, {q}) /\ Again \in Seq(Op)
    BY <1>4, <2>3, <2>4, QueueSound, Zenon
  <2>7. Fit("requeue", Again, left[d]) /\ Fit("queue", <<>>, left[d])
    BY <2>3, <2>4, <2>6, Zenon DEF Fit
  <2>8. ASSUME NEW o, NEW e, Wanted(o, e), PledgedBy(d, o, e)
        PROVE  Pledges("requeue", Again, left[d], skipped[d], o, e)
    <3>1. skipped[d] \/ e \in left[d] \/ Has(calls[d], o, e)
      BY <2>2, <2>8, ZenonT(40) DEF PledgedBy, Pledges
    <3>2. Has(calls[d], o, e) => e = q
      BY <2>5 DEF Has
    <3>3. Has(Again, o, q)
      BY <1>6, <2>3, <2>4, <2>8, QueueSound, Zenon
    <3> QED BY <3>1, <3>2, <3>3, Zenon DEF Pledges
  <2>9. \A o, e : Pledges("queue", <<>>, left[d], TRUE, o, e)
    BY Zenon DEF Pledges
  <2> HIDE DEF Again
  <2>10. Goal("requeue", Again, left[d], skipped[d]) \/ Goal("queue", <<>>, left[d], TRUE)
    BY <1>3, <2>1, <2>2, <2>7, <2>8, <2>9, Zenon
  <2>11. TRUE \in BOOLEAN /\ <<>> \in Seq(Op)
    BY <1>4, Zenon
  <2> HIDE DEF Goal
  <2>12. \E ph \in {"infra", "reinfra", "queue", "requeue", "done", "failed"},
            cs \in Seq(Op), lf \in SUBSET Queue, sk \in BOOLEAN : Goal(ph, cs, lf, sk)
    BY <1>2, <2>6, <2>10, <2>11, Zenon
  <2> QED BY <1>1, <2>12, Zenon DEF Goal
<1>12. CASE CommandFails(d)
  <2>1. /\ phase' = [phase EXCEPT ![d] = "failed"] /\ calls' = [calls EXCEPT ![d] = <<>>]
        /\ left' = left /\ skipped' = skipped
    BY <1>12, Zenon DEF CommandFails, GoTo
  <2>2. Fit("failed", <<>>, left[d]) /\ \A o, e : Pledges("failed", <<>>, left[d], skipped[d], o, e)
    BY Zenon DEF Fit, Pledges
  <2>3. Goal("failed", <<>>, left[d], skipped[d])
    BY <1>3, <2>1, <2>2, Zenon
  <2> QED BY <1>1, <1>2, <1>4, <2>3, Zenon
<1>13. CASE CommandDone(d)
  <2>1. /\ phase' = [phase EXCEPT ![d] = "done"] /\ calls' = [calls EXCEPT ![d] = <<>>]
        /\ left' = left /\ skipped' = skipped /\ left[d] = {} /\ calls[d] = <<>>
        /\ phase[d] \notin {"check", "failed"}
    BY <1>13, Zenon DEF CommandDone, GoTo
  <2>2. Fit("done", <<>>, left[d])
    BY <2>1, Zenon DEF Fit
  <2>3. \A o, e : PledgedBy(d, o, e) => Pledges("done", <<>>, left[d], skipped[d], o, e)
    BY <1>7, <2>1, Zenon DEF PledgedBy, Pledges
  <2>4. Goal("done", <<>>, left[d], skipped[d])
    BY <1>3, <2>1, <2>2, <2>3, Zenon
  <2> QED BY <1>1, <1>2, <1>4, <2>4, Zenon
<1> QED BY <1>8, <1>9, <1>10, <1>11, <1>12, <1>13, Zenon DEF DeclareStep

\* A step of one deployment leaves the pledges of the others.
LEMMA OthersPledge ==
  ASSUME BrokerTypes, DeclareTypes, NEW d \in Deployment,
         NEW ph, NEW cs, NEW lf, NEW sk,
         phase' = [phase EXCEPT ![d] = ph], calls' = [calls EXCEPT ![d] = cs],
         left' = [left EXCEPT ![d] = lf], skipped' = [skipped EXCEPT ![d] = sk]
  PROVE  /\ \A o, e : PledgedBy(d, o, e)' <=> Pledges(ph, cs, lf, sk, o, e)
         /\ \A k \in Deployment \ {d} : \A o, e : PledgedBy(k, o, e) => PledgedBy(k, o, e)'
         /\ Fit(ph, cs, lf) => \A k \in Deployment : Fit(phase'[k], calls'[k], left'[k])
<1>1. phase'[d] = ph /\ calls'[d] = cs /\ left'[d] = lf /\ skipped'[d] = sk
  BY Zenon DEF BrokerTypes, DeclareTypes
<1>2. \A k \in Deployment \ {d} : /\ phase'[k] = phase[k] /\ calls'[k] = calls[k]
                                  /\ left'[k] = left[k] /\ skipped'[k] = skipped[k]
  BY Zenon DEF BrokerTypes, DeclareTypes
<1>3. \A k \in Deployment : Fit(phase[k], calls[k], left[k])
  BY Zenon DEF DeclareTypes
<1>4. \A o, e : PledgedBy(d, o, e)' <=> Pledges(ph, cs, lf, sk, o, e)
  BY <1>1, Zenon DEF PledgedBy
<1>5. \A k \in Deployment \ {d} : \A o, e : PledgedBy(k, o, e) => PledgedBy(k, o, e)'
  BY <1>2, Zenon DEF PledgedBy
<1>6. Fit(ph, cs, lf) => \A k \in Deployment : Fit(phase'[k], calls'[k], left'[k])
  BY <1>1, <1>2, <1>3
<1> QED BY <1>4, <1>5, <1>6, Zenon

LEMMA MoveKeeps ==
  ASSUME BrokerTypes, DeclareInv, NEW d \in Deployment, DeclareStep(d), ~CallSucceeds(d)
  PROVE  DeclareInv'
<1> DEFINE Phases == {"check", "infra", "reinfra", "queue", "requeue", "done", "failed"}
<1>1. DeclareTypes /\ Pledged
  BY Zenon DEF DeclareInv
<1>2. entity' = entity /\ bound' = bound
  BY <1>1, Moves, Zenon DEF brokerVars
<1>3. PICK ph \in {"infra", "reinfra", "queue", "requeue", "done", "failed"},
           cs \in Seq(Op), lf \in SUBSET Queue, sk \in BOOLEAN :
             /\ phase' = [phase EXCEPT ![d] = ph] /\ calls' = [calls EXCEPT ![d] = cs]
             /\ left' = [left EXCEPT ![d] = lf] /\ skipped' = [skipped EXCEPT ![d] = sk]
             /\ Fit(ph, cs, lf)
             /\ \A o, e : Wanted(o, e) /\ PledgedBy(d, o, e) => Pledges(ph, cs, lf, sk, o, e)
  BY <1>1, Moves, Zenon
<1>4. phase' \in [Deployment -> Phases] /\ skipped' \in [Deployment -> BOOLEAN]
  BY <1>1, <1>3, Zenon DEF DeclareTypes
<1>5. /\ \A o, e : Wanted(o, e) /\ PledgedBy(d, o, e) => PledgedBy(d, o, e)'
      /\ \A k \in Deployment \ {d} : \A o, e : PledgedBy(k, o, e) => PledgedBy(k, o, e)'
      /\ \A k \in Deployment : Fit(phase'[k], calls'[k], left'[k])
  BY <1>1, <1>3, OthersPledge, Zenon
<1>6. DeclareTypes'
  BY <1>1, <1>2, <1>4, <1>5, Zenon DEF DeclareTypes
<1>7. \A k \in Deployment : \A o, e : Wanted(o, e) /\ PledgedBy(k, o, e) => PledgedBy(k, o, e)'
  BY <1>5, Zenon
<1>8. /\ \A e \in Entity : Wanted("declare", e)
      /\ \A q \in Queue \cup {"dlq"} : Wanted("bind", q)
  BY Zenon DEF Wanted
<1>9. Pledged'
  BY <1>1, <1>2, <1>7, <1>8, Zenon DEF Pledged
<1> QED BY <1>6, <1>9, Zenon DEF DeclareInv

\* A call does its part, and what a deletion undoes is further down the list or left to
\* come: the main exchange, which takes the bindings of all queues along, is deleted only
\* before the first queue.
LEMMA CallKeepsPledges ==
  ASSUME BrokerTypes, DeclareInv, NEW d \in Deployment, CallSucceeds(d)
  PROVE  DeclareInv'
<1> DEFINE h == Head(calls[d])
           t == Tail(calls[d])
<1>1. DeclareTypes /\ Pledged
  BY Zenon DEF DeclareInv
<1>2. calls[d] # <<>> /\ Apply(h) /\ phase' = phase /\ left' = left /\ skipped' = skipped
  BY Zenon DEF CallSucceeds
<1>3. /\ phase' = [phase EXCEPT ![d] = phase[d]] /\ calls' = [calls EXCEPT ![d] = t]
      /\ left' = [left EXCEPT ![d] = left[d]] /\ skipped' = [skipped EXCEPT ![d] = skipped[d]]
  BY <1>1, <1>2, Zenon DEF CallSucceeds, BrokerTypes, DeclareTypes
<1>4. PICK S \in {Infra} \cup {{q} : q \in Queue} :
        /\ Sound(calls[d], S)
        /\ S = Infra => left[d] = Queue
        /\ Sound(t, S) => Fit(phase[d], t, left[d])
  <2>1. Fit(phase[d], calls[d], left[d])
        /\ phase[d] \in {"check", "infra", "reinfra", "queue", "requeue", "done", "failed"}
    BY <1>1, Zenon DEF DeclareTypes
  <2>2. CASE phase[d] \in {"check", "infra", "reinfra"}
    <3>1. left[d] = Queue /\ Sound(calls[d], Infra)
      BY <2>1, <2>2, Zenon DEF Fit
    <3>2. Sound(t, Infra) => Fit(phase[d], t, left[d])
      BY <2>2, <3>1, Zenon DEF Fit
    <3> QED BY <3>1, <3>2, Zenon
  <2>3. CASE phase[d] \in {"queue", "requeue"}
    <3>1. PICK q \in Queue : Sound(calls[d], {q})
      BY <1>2, <2>1, <2>3, Zenon DEF Fit
    <3>2. Sound(t, {q}) => Fit(phase[d], t, left[d])
      BY <2>3, Zenon DEF Fit
    <3>3. {q} # Infra
      BY DEF Infra
    <3> QED BY <3>1, <3>2, <3>3, Zenon
  <2>4. phase[d] \notin {"done", "failed"}
    BY <1>2, <2>1, Zenon DEF Fit
  <2> QED BY <2>1, <2>2, <2>3, <2>4, Zenon
<1>5. /\ h \in Op /\ h.on \in S /\ (h.op = "bind" => h.on \in Queue \cup {"dlq"})
      /\ Sound(t, S)
      /\ \A o, e : Has(calls[d], o, e) => h = [op |-> o, on |-> e] \/ Has(t, o, e)
      /\ h.op = "delete" =>
           /\ \A e \in Entity : e = h.on => Has(t, "declare", e)
           /\ \A q \in Queue \cup {"dlq"} :
                q = h.on \/ (h.on = "dlx" /\ q = "dlq") => Has(t, "bind", q)
  BY <1>2, <1>4, TailSound, Zenon
<1> HIDE DEF h, t
<1>6. Fit(phase[d], t, left[d])
  BY <1>4, <1>5, Zenon
<1>7. /\ \A o, e : PledgedBy(d, o, e)' <=> Pledges(phase[d], t, left[d], skipped[d], o, e)
      /\ \A k \in Deployment \ {d} : \A o, e : PledgedBy(k, o, e) => PledgedBy(k, o, e)'
      /\ \A k \in Deployment : Fit(phase'[k], calls'[k], left'[k])
  BY <1>1, <1>3, <1>6, OthersPledge, Zenon
<1>8. h.op \in {"probe", "delete", "declare", "bind"} /\ h.on \in Entity
  BY <1>5, Zenon DEF Op
<1>9. bound' \subseteq Queue \cup {"dlq"}
  BY <1>1, <1>2, <1>5, <1>8, Zenon DEF DeclareTypes, Apply
<1>10. DeclareTypes'
  BY <1>1, <1>2, <1>7, <1>9, Zenon DEF DeclareTypes
<1>11. \A k \in Deployment : \A o, e :
         PledgedBy(k, o, e) => PledgedBy(k, o, e)' \/ h = [op |-> o, on |-> e]
  <2>1. \A o, e : PledgedBy(d, o, e) => PledgedBy(d, o, e)' \/ h = [op |-> o, on |-> e]
    BY <1>5, <1>7, Zenon DEF PledgedBy, Pledges
  <2> QED BY <1>7, <2>1, Zenon
<1>12. \A o, e : Has(t, o, e) \/ e \in left[d] => PledgedBy(d, o, e)'
  BY <1>7, Zenon DEF Pledges
<1>13. ASSUME NEW e \in Entity
       PROVE  entity'[e] = "right" \/ \E k \in Deployment : PledgedBy(k, "declare", e)'
  <2>1. h = [op |-> "declare", on |-> e] => entity'[e] = "right"
    BY <1>2 DEF Apply, BrokerTypes
  <2>2. entity[e] = "right" => entity'[e] = "right" \/ (h.op = "delete" /\ h.on = e)
    BY <1>2, <1>8, Zenon DEF Apply, BrokerTypes
  <2>3. h.op = "delete" /\ h.on = e => PledgedBy(d, "declare", e)'
    BY <1>5, <1>12, Zenon
  <2>4. entity[e] = "right" \/ \E k \in Deployment : PledgedBy(k, "declare", e)
    BY <1>1, Zenon DEF Pledged
  <2> QED BY <1>11, <2>1, <2>2, <2>3, <2>4, Zenon
<1>14. ASSUME NEW q \in Queue \cup {"dlq"}
       PROVE  q \in bound' \/ \E k \in Deployment : PledgedBy(k, "bind", q)'
  <2>1. h = [op |-> "bind", on |-> q] => q \in bound'
    BY <1>2 DEF Apply
  <2>2. q \in bound => q \in bound' \/ (h.op = "delete" /\ (h.on = q \/ HomeOf(q) = h.on))
    BY <1>2, <1>8, Zenon DEF Apply
  <2>3. h.op = "delete" /\ (h.on = q \/ HomeOf(q) = h.on) => PledgedBy(d, "bind", q)'
    <3>1. ASSUME q \in Queue, HomeOf(q) = h.on PROVE q \in left[d]
      <4>1. h.on = "main"
        BY <3>1, TopologyAssumption, Zenon DEF HomeOf
      <4>2. S = Infra
        BY <1>4, <1>5, <4>1, TopologyAssumption, Zenon
      <4> QED BY <1>4, <3>1, <4>2, Zenon
    <3>2. q = "dlq" => HomeOf(q) = "dlx"
      BY Zenon DEF HomeOf
    <3>3. q \in Queue \/ q = "dlq"
      BY Zenon
    <3> QED BY <1>5, <1>12, <3>1, <3>2, <3>3, Zenon
  <2>4. q \in bound \/ \E k \in Deployment : PledgedBy(k, "bind", q)
    BY <1>1, Zenon DEF Pledged
  <2> QED BY <1>11, <2>1, <2>2, <2>3, <2>4, Zenon
<1>15. Pledged'
  BY <1>13, <1>14, Zenon DEF Pledged
<1> QED BY <1>10, <1>15, Zenon DEF DeclareInv

LEMMA DeclareInitially == ASSUME Deployment # {} PROVE DlqInit => DeclareInv
<1> SUFFICES ASSUME DlqInit PROVE DeclareInv
  BY Zenon
<1>1. /\ phase = [d \in Deployment |-> "check"] /\ calls = [d \in Deployment |-> ProbeCalls]
      /\ left = [d \in Deployment |-> Queue] /\ skipped = [d \in Deployment |-> FALSE]
      /\ \E f \in Found : bound = f.bound
  BY Zenon DEF DlqInit, TopologyInit
<1>2. bound \subseteq Queue \cup {"dlq"}
  BY <1>1, TopologyAssumption, Zenon
<1>3. Fit("check", ProbeCalls, Queue)
  BY ProbeSound, Zenon DEF Fit
<1>4. DeclareTypes
  BY <1>1, <1>2, <1>3, Zenon DEF DeclareTypes
<1>5. \A d \in Deployment : \A o, e : PledgedBy(d, o, e)
  BY <1>1, Zenon DEF PledgedBy, Pledges
<1>6. Pledged
  BY <1>5, Zenon DEF Pledged
<1> QED BY <1>4, <1>6, Zenon DEF DeclareInv

LEMMA DeclareKept == BrokerTypes /\ DeclareInv /\ [DlqNext]_dlqVars => DeclareInv'
<1> SUFFICES ASSUME BrokerTypes, DeclareInv, [DlqNext]_dlqVars PROVE DeclareInv'
  BY Zenon
<1>1. CASE UNCHANGED <<entity, bound, phase, calls, left, skipped>>
  BY <1>1, Zenon DEF DeclareInv, DeclareTypes, Pledged, PledgedBy
<1>2. ToolStep \/ ToolDies \/ UNCHANGED dlqVars =>
        UNCHANGED <<entity, bound, phase, calls, left, skipped>>
  BY Zenon
    DEF ToolStep, CountLetters, Fetch, GiveBack, FetchEnds, Confirm, Purge, OpenChannel, Take,
         TakeEnds, PassOver, Publish, PublishFails, Ack, ToolDies, dlqVars, topologyVars
<1>3. CASE \E d \in Deployment : DeclareStep(d)
  BY <1>3, MoveKeeps, CallKeepsPledges, Zenon
<1> QED BY <1>1, <1>2, <1>3, Zenon DEF DlqNext

\* Deployments that all end well and give nothing up leave every exchange and queue as the
\* worker needs it, for any number of them, of queues and of flags, from any topology, and
\* with the commands on dead letters in between: whatever one deletes it goes on to declare
\* and bind after.
THEOREM DeploymentsComplete == ASSUME Deployment # {} PROVE DlqSpec => []DeclaredIsComplete
<1>1. DlqInit => DInv /\ DeclareInv
  BY InitDInv, DeclareInitially, Zenon
<1>2. DInv /\ DeclareInv /\ [DlqNext]_dlqVars => DInv' /\ DeclareInv'
  BY NextDInv, DeclareKept, ZenonT(60) DEF DInv
<1>3. DInv /\ DeclareInv => DeclaredIsComplete
  <2> SUFFICES ASSUME DInv, DeclareInv, \A d \in Deployment : phase[d] = "done" /\ ~skipped[d]
               PROVE  Complete
    BY Zenon DEF DeclaredIsComplete
  <2>1. \A d \in Deployment : calls[d] = <<>> /\ left[d] = {}
    BY Zenon DEF DeclareInv, DeclareTypes, Fit
  <2>2. \A d \in Deployment : \A o, e : ~PledgedBy(d, o, e)
    BY <2>1 DEF PledgedBy, Pledges, Has
  <2>3. /\ \A e \in Entity : entity[e] = "right"
        /\ \A q \in Queue \cup {"dlq"} : q \in bound
    BY <2>2, Zenon DEF DeclareInv, Pledged
  <2> QED BY <2>3, Zenon DEF DeclareInv, DeclareTypes, Complete
<1> QED BY <1>1, <1>2, <1>3, PTL DEF DlqSpec
=============================================================================
