---------------------------- MODULE OutboxProofs ----------------------------
(***************************************************************************)
(* Theorems about Outbox for any finite set of videos, any API processes,  *)
(* any Cap and Limit and any bounds on failures.                           *)
(***************************************************************************)
EXTENDS Outbox, FiniteSetTheorems, TLAPS

-----------------------------------------------------------------------------
(* Types.                                                                  *)

LEMMA TypeInit == Init => TypeOK
  BY Bounds DEF Init, TypeOK

\* A consumer that has a delivery works on a message.
LEMMA JobType ==
    ASSUME TypeOK, NEW a \in Apis, inbox[a] # <<>>
    PROVE  /\ Job(a) \in Message
           /\ Job(a).video \in Videos
           /\ Tail(inbox[a]) \in Seq(Message)
  <1>1. inbox[a] \in Seq(Message)
    BY DEF TypeOK
  <1>2. Job(a) \in Message
    BY <1>1 DEF Job
  <1> QED BY <1>1, <1>2 DEF Message

LEMMA PollerTypes ==
    ASSUME TypeOK, NEW a \in Apis, Poller(a)
    PROVE  TypeOK'
<1> USE DEF database, polling, broker, consuming, feed, redis
<1>1. CASE Poll(a)
  BY <1>1 DEF Poll, TypeOK, Oldest, UpTo
<1>2. ASSUME NEW v \in batch[a], Send(a, v) PROVE TypeOK'
  <2>1. v \in Videos /\ sends \in Nat
    BY DEF TypeOK
  <2>2. queue' \subseteq Message /\ sends' \in Nat
    BY <1>2, <2>1 DEF Send, TypeOK, Message
  <2> QED BY <1>2, <2>2 DEF Send, TypeOK, Row
<1>3. ASSUME NEW v \in batch[a], SendRefused(a, v) PROVE TypeOK'
  BY <1>3, Bounds DEF SendRefused, NextRow, Fail, TypeOK
<1>4. ASSUME NEW v \in batch[a], Delete(a, v) PROVE TypeOK'
  BY <1>4, Bounds DEF Delete, NextRow, Fail, TypeOK
<1> QED BY <1>1, <1>2, <1>3, <1>4 DEF Poller

LEMMA ConsumerTypes ==
    ASSUME TypeOK, NEW a \in Apis, Consumer(a)
    PROVE  TypeOK'
<1> USE DEF database, polling, broker, consuming, feed, redis
<1>1. CASE Receive(a)
  <2>1. PICK m \in queue : /\ queue' = queue \ {m}
                           /\ inbox' = [inbox EXCEPT ![a] = Append(@, m)]
    BY <1>1 DEF Receive
  <2>2. Append(inbox[a], m) \in Seq(Message) /\ Append(inbox[a], m) # <<>>
    BY <2>1 DEF TypeOK
  <2> QED BY <1>1, <2>1, <2>2 DEF Receive, TypeOK
<1>2. CASE Add(a)
  BY <1>2, JobType DEF Add, Busy, Goto, TypeOK
<1>3. CASE AddFails(a)
  <2>1. queue' \subseteq Message
    BY <1>3, JobType DEF AddFails, Busy, TypeOK
  <2>2. timeline' \subseteq Videos /\ consumed' \subseteq Videos
    BY <1>3, JobType DEF AddFails, Busy, TypeOK
  <2> QED BY <1>3, <2>1, <2>2, JobType, Bounds
          DEF AddFails, Busy, Fail, TypeOK
<1>4. CASE Trim(a)
  BY <1>4, Bounds DEF Trim, Busy, Goto, Fail, TypeOK
<1>5. CASE Ack(a)
  BY <1>5, JobType DEF Ack, Busy, Goto, TypeOK
<1> QED BY <1>1, <1>2, <1>3, <1>4, <1>5 DEF Consumer

LEMMA RebuildTypes ==
    ASSUME TypeOK, NEW a \in Apis, Rebuild(a)
    PROVE  TypeOK'
<1> USE DEF database, polling, broker, consuming, feed, redis
<1>1. CASE RebuildStarts(a)
  BY <1>1 DEF RebuildStarts, TypeOK
<1>2. CASE RebuildReads(a)
  <2>1. snapshot' \in [Apis -> SUBSET Videos]
    BY <1>2 DEF RebuildReads, TypeOK
  <2>2. rebuild' \in [Apis -> {"idle", "read", "save"}]
    BY <1>2 DEF RebuildReads, TypeOK
  <2>3. failures' \in 0..MaxFailures
    BY <1>2, Bounds DEF RebuildReads, Fail, TypeOK
  <2> QED BY <1>2, <2>1, <2>2, <2>3 DEF RebuildReads, TypeOK
<1>3. CASE RebuildSaves(a)
  BY <1>3, Bounds DEF RebuildSaves, Fail, TypeOK
<1> QED BY <1>1, <1>2, <1>3 DEF Rebuild

LEMMA TypeStep == TypeOK /\ [Next]_vars => TypeOK'
<1> SUFFICES ASSUME TypeOK, [Next]_vars PROVE TypeOK'
  OBVIOUS
<1> USE DEF database, polling, broker, consuming, feed, redis
<1>1. ASSUME NEW v \in Videos, Publish(v) PROVE TypeOK'
  BY <1>1 DEF Publish, TypeOK
<1>2. ASSUME NEW a \in Apis, Restart(a) PROVE TypeOK'
  <2>1. queue' \subseteq Message
    BY <1>2 DEF Restart, TypeOK
  <2> QED BY <1>2, <2>1, Bounds DEF Restart, Fail, TypeOK
<1>3. CASE Lose
  BY <1>3, Bounds DEF Lose, TypeOK
<1>4. CASE UNCHANGED vars
  BY <1>4 DEF vars, TypeOK
<1> QED BY <1>1, <1>2, <1>3, <1>4, PollerTypes, ConsumerTypes, RebuildTypes,
           Bounds DEF Next

\* Every reachable state of Outbox is well typed; a poller about to delete has
\* a row and a consumer past its ZADD has a delivery.
THEOREM TypeCorrect == Spec => []TypeOK
  BY TypeInit, TypeStep, PTL DEF Spec

-----------------------------------------------------------------------------
(* What flows is stored, and the timeline is written before the ack.       *)

\* Removing the head or appending a message leaves the other deliveries.
LEMMA InboxKept ==
    ASSUME NEW s \in Seq(Message), s # <<>>
    PROVE  /\ DOMAIN s = 1..Len(s) /\ Len(s) \in Nat \ {0}
           /\ Head(s) = s[1]
           /\ DOMAIN Tail(s) = 1..(Len(s) - 1)
           /\ \A i \in DOMAIN Tail(s) : i + 1 \in DOMAIN s /\ Tail(s)[i] = s[i + 1]
           /\ \A i \in DOMAIN s : i # 1 => i - 1 \in DOMAIN Tail(s)
                                           /\ Tail(s)[i - 1] = s[i]
  OBVIOUS

LEMMA InboxGrown ==
    ASSUME NEW s \in Seq(Message), NEW m \in Message
    PROVE  /\ DOMAIN Append(s, m) = 1..(Len(s) + 1)
           /\ DOMAIN s = 1..Len(s) /\ Len(s) \in Nat
           /\ \A i \in DOMAIN s : Append(s, m)[i] = s[i]
           /\ Append(s, m)[Len(s) + 1] = m
  OBVIOUS

LEMMA FlowInit == Init => FlowInv
  BY TypeInit DEF Init, FlowInv, Known, WrittenFirst

\* The video under work is stored.
LEMMA JobStored ==
    ASSUME FlowInv, NEW a \in Apis, inbox[a] # <<>>
    PROVE  Job(a).video \in stored
  <1>1. inbox[a] \in Seq(Message)
    BY DEF FlowInv, TypeOK
  <1>2. 1 \in DOMAIN inbox[a] /\ Job(a) = inbox[a][1]
    BY <1>1, InboxKept DEF Job
  <1> QED BY <1>2 DEF FlowInv, Known

LEMMA FlowPoller ==
    ASSUME FlowInv, NEW a \in Apis, Poller(a)
    PROVE  Known' /\ WrittenFirst'
<1> USE DEF FlowInv, Known, WrittenFirst, database, polling, broker, consuming,
            feed, redis
<1>0. TypeOK
  OBVIOUS
<1>1. CASE Poll(a)
  BY <1>0, <1>1 DEF Poll, Job, TypeOK
<1>2. ASSUME NEW v \in batch[a], Send(a, v) PROVE Known' /\ WrittenFirst'
  BY <1>0, <1>2 DEF Send, Job, TypeOK
<1>3. ASSUME NEW v \in batch[a], SendRefused(a, v) PROVE Known' /\ WrittenFirst'
  BY <1>0, <1>3 DEF SendRefused, NextRow, Job, TypeOK
<1>4. ASSUME NEW v \in batch[a], Delete(a, v) PROVE Known' /\ WrittenFirst'
  BY <1>0, <1>4 DEF Delete, NextRow, Job, TypeOK
<1> QED BY <1>1, <1>2, <1>3, <1>4 DEF Poller

LEMMA FlowConsumer ==
    ASSUME FlowInv, NEW a \in Apis, Consumer(a)
    PROVE  Known' /\ WrittenFirst'
<1> USE DEF database, polling, broker, consuming, feed, redis
<1>0. /\ TypeOK /\ Known /\ WrittenFirst
      /\ inbox \in [Apis -> Seq(Message)]
      /\ consumer \in [Apis -> {"add", "trim", "ack"}]
  BY DEF FlowInv, TypeOK
<1>1. CASE Receive(a)
  <2>1. PICK m \in queue : /\ queue' = queue \ {m}
                           /\ inbox' = [inbox EXCEPT ![a] = Append(@, m)]
    BY <1>1 DEF Receive
  <2>2. m \in Message /\ m.video \in stored
    BY <1>0, <2>1 DEF TypeOK, Known
  <2>3. UNCHANGED <<stored, outbox, consumed, batch, consumer>>
    BY <1>1 DEF Receive
  <2>4. ASSUME NEW b \in Apis, NEW i \in DOMAIN inbox'[b]
        PROVE  inbox'[b][i].video \in stored
    <3>1. CASE b # a
      BY <1>0, <2>1, <3>1 DEF Known
    <3>2. CASE b = a
      <4>1. inbox'[a] = Append(inbox[a], m) /\ inbox[a] \in Seq(Message)
        BY <1>0, <2>1
      <4>2. i \in DOMAIN inbox[a] \/ i = Len(inbox[a]) + 1
        BY <2>2, <2>4, <3>2, <4>1, InboxGrown
      <4> QED BY <1>0, <2>2, <3>2, <4>1, <4>2, InboxGrown DEF Known
    <3> QED BY <3>1, <3>2
  <2>5. Known'
    BY <1>0, <2>1, <2>3, <2>4 DEF Known
  <2>6. ASSUME NEW b \in Apis, consumer'[b] # "add"
        PROVE  Head(inbox'[b]).video \in consumed
    <3>1. inbox[b] # <<>> /\ Head(inbox[b]).video \in consumed
      BY <1>0, <2>3, <2>6 DEF TypeOK, WrittenFirst, Job
    <3>2. Head(inbox'[b]) = Head(inbox[b])
      BY <1>0, <2>1, <2>2, <3>1
    <3> QED BY <3>1, <3>2
  <2> QED BY <2>3, <2>5, <2>6 DEF WrittenFirst, Job
<1>2. CASE Add(a)
  BY <1>0, <1>2, JobStored DEF Add, Busy, Goto, Known, WrittenFirst, Job
<1>3. CASE AddFails(a)
  <2>1. /\ inbox[a] # <<>> /\ consumer[a] = "add"
        /\ inbox' = [inbox EXCEPT ![a] = Tail(@)]
        /\ queue' = queue \cup {Job(a)}
        /\ consumed' \subseteq consumed \cup {Job(a).video}
        /\ consumed \subseteq consumed'
        /\ UNCHANGED <<stored, outbox, batch, consumer>>
    BY <1>3 DEF AddFails, Busy
  <2>2. Job(a).video \in stored
    BY <2>1, JobStored
  <2>3. ASSUME NEW b \in Apis, NEW i \in DOMAIN inbox'[b]
        PROVE  inbox'[b][i].video \in stored
    <3>1. CASE b # a
      BY <1>0, <2>1, <3>1 DEF Known
    <3>2. CASE b = a
      BY <1>0, <2>1, <2>3, <3>2, InboxKept DEF Known
    <3> QED BY <3>1, <3>2
  <2>4. Known'
    BY <1>0, <2>1, <2>2, <2>3 DEF Known
  <2>5. WrittenFirst'
    BY <1>0, <2>1 DEF WrittenFirst, Job
  <2> QED BY <2>4, <2>5
<1>4. CASE Trim(a)
  BY <1>0, <1>4 DEF Trim, Busy, Goto, Known, WrittenFirst, Job
<1>5. CASE Ack(a)
  <2>1. /\ inbox[a] # <<>>
        /\ inbox' = [inbox EXCEPT ![a] = Tail(@)]
        /\ consumer' = [consumer EXCEPT ![a] = "add"]
        /\ UNCHANGED <<stored, outbox, batch, consumed, queue>>
    BY <1>5 DEF Ack, Busy, Goto
  <2>2. ASSUME NEW b \in Apis, NEW i \in DOMAIN inbox'[b]
        PROVE  inbox'[b][i].video \in stored
    <3>1. CASE b # a
      BY <1>0, <2>1, <3>1 DEF Known
    <3>2. CASE b = a
      BY <1>0, <2>1, <2>2, <3>2, InboxKept DEF Known
    <3> QED BY <3>1, <3>2
  <2>3. Known'
    BY <1>0, <2>1, <2>2 DEF Known
  <2>4. WrittenFirst'
    BY <1>0, <2>1 DEF WrittenFirst, Job
  <2> QED BY <2>3, <2>4
<1> QED BY <1>1, <1>2, <1>3, <1>4, <1>5 DEF Consumer

LEMMA FlowStep == FlowInv /\ [Next]_vars => FlowInv'
<1> SUFFICES ASSUME FlowInv, [Next]_vars PROVE Known' /\ WrittenFirst'
  BY TypeStep DEF FlowInv
<1> USE DEF database, polling, broker, consuming, feed, redis
<1>0. /\ TypeOK /\ Known /\ WrittenFirst
      /\ inbox \in [Apis -> Seq(Message)]
      /\ consumer \in [Apis -> {"add", "trim", "ack"}]
  BY DEF FlowInv, TypeOK
<1>1. ASSUME NEW v \in Videos, Publish(v) PROVE Known' /\ WrittenFirst'
  BY <1>0, <1>1 DEF Publish, Known, WrittenFirst, Job
<1>2. ASSUME NEW a \in Apis, Restart(a) PROVE Known' /\ WrittenFirst'
  <2>1. Known'
    BY <1>0, <1>2 DEF Restart, Known, TypeOK
  <2>2. WrittenFirst'
    BY <1>0, <1>2 DEF Restart, WrittenFirst, Job
  <2> QED BY <2>1, <2>2
<1>3. ASSUME NEW a \in Apis, Rebuild(a) PROVE Known' /\ WrittenFirst'
  BY <1>0, <1>3 DEF Rebuild, RebuildStarts, RebuildReads, RebuildSaves, Known,
     WrittenFirst, Job
<1>4. CASE Lose
  BY <1>0, <1>4 DEF Lose, Known, WrittenFirst, Job
<1>5. CASE UNCHANGED vars
  BY <1>0, <1>5 DEF vars, Known, WrittenFirst, Job
<1> QED BY <1>1, <1>2, <1>3, <1>4, <1>5, FlowPoller, FlowConsumer, Bounds
        DEF Next

LEMMA FlowHolds == Spec => []FlowInv
  BY FlowInit, FlowStep, PTL DEF Spec

-----------------------------------------------------------------------------
(* Outbox implements the safety part of Relay.                             *)

LEMMA RelayStep == FlowInv /\ [Next]_vars => [R!Next]_(R!vars)
<1> SUFFICES ASSUME FlowInv, [Next]_vars PROVE [R!Next]_(R!vars)
  OBVIOUS
<1> USE DEF database, polling, broker, consuming, feed, redis, R!vars
<1>0. consumed \subseteq stored /\ stored \subseteq Videos
  BY DEF FlowInv, TypeOK, Known
<1>1. ASSUME NEW v \in Videos, Publish(v) PROVE R!Next
  BY <1>1 DEF Publish, R!Next, R!Commit
<1>2. ASSUME NEW a \in Apis, inbox[a] # <<>>, UNCHANGED <<stored, dropped>>,
             consumed' = consumed \cup {Job(a).video}
      PROVE  R!Next
  <2>1. Job(a).video \in stored
    BY <1>2, JobStored
  <2> QED BY <1>0, <1>2, <2>1 DEF R!Next, R!HandOver
<1>3. ASSUME NEW a \in Apis, Poller(a) PROVE [R!Next]_(R!vars)
  <2>1. ASSUME NEW v \in batch[a], Send(a, v) PROVE [R!Next]_(R!vars)
    <3>1. v \in stored /\ v \in Videos
      BY <1>0 DEF FlowInv, Known
    <3>2. UNCHANGED <<stored, consumed>>
      BY <2>1 DEF Send
    <3>3. dropped' = dropped \/ dropped' = dropped \cup {v}
      BY <2>1 DEF Send
    <3> QED BY <3>1, <3>2, <3>3 DEF R!Next, R!Lose
  <2>2. CASE Poll(a) \/ \E v \in batch[a] : SendRefused(a, v) \/ Delete(a, v)
    BY <2>2 DEF Poll, SendRefused, Delete
  <2> QED BY <1>3, <2>1, <2>2 DEF Poller
<1>4. ASSUME NEW a \in Apis, Consumer(a) PROVE [R!Next]_(R!vars)
  <2>1. CASE Add(a)
    BY <1>2, <2>1 DEF Add, Busy
  <2>2. CASE AddFails(a)
    BY <1>2, <2>2 DEF AddFails, Busy
  <2>3. CASE Receive(a) \/ Trim(a) \/ Ack(a)
    BY <2>3 DEF Receive, Trim, Ack
  <2> QED BY <1>4, <2>1, <2>2, <2>3 DEF Consumer
<1>5. ASSUME NEW a \in Apis, Rebuild(a) PROVE UNCHANGED R!vars
  BY <1>5 DEF Rebuild, RebuildStarts, RebuildReads, RebuildSaves
<1>6. ASSUME NEW a \in Apis, Restart(a) PROVE UNCHANGED R!vars
  BY <1>6 DEF Restart
<1>7. CASE Lose
  BY <1>7 DEF Lose
<1>8. CASE UNCHANGED vars
  BY <1>8 DEF vars
<1> QED BY <1>1, <1>3, <1>4, <1>5, <1>6, <1>7, <1>8, Bounds DEF Next

\* Whatever is lost, repeated or reordered, every step of Outbox is a commit, a
\* hand-over of a committed video, its loss to an unconfirmed publication, or
\* no step of Relay.
THEOREM ImplementsRelay == Spec => R!SafeSpec
<1>1. Init => R!Init
  BY DEF Init, R!Init
<1> QED BY <1>1, FlowHolds, RelayStep, PTL DEF Spec, R!SafeSpec

-----------------------------------------------------------------------------
(* Nothing is forgotten but what the broker never had.                     *)

\* A message in flight stays in flight until its video has been written.
LEMMA FlightKept ==
    ASSUME FlowInv, [Next]_vars, NEW v \in Videos, InFlight(v)
    PROVE  v \in consumed' \/ InFlight(v)'
<1> USE DEF database, polling, broker, consuming, feed, redis
<1>0. /\ TypeOK /\ WrittenFirst
      /\ inbox \in [Apis -> Seq(Message)]
      /\ queue \subseteq Message
  BY DEF FlowInv, TypeOK
<1>1. CASE UNCHANGED <<queue, inbox>>
  BY <1>1 DEF InFlight
<1>2. CASE queue \subseteq queue' /\ inbox' = inbox
  BY <1>2 DEF InFlight
<1>3. ASSUME NEW a \in Apis, Receive(a) PROVE InFlight(v)'
  <2>1. PICK m \in queue : /\ queue' = queue \ {m}
                           /\ inbox' = [inbox EXCEPT ![a] = Append(@, m)]
    BY <1>3 DEF Receive
  <2>2. m \in Message /\ inbox[a] \in Seq(Message)
        /\ inbox'[a] = Append(inbox[a], m)
    BY <1>0, <2>1
  <2>3. CASE \E n \in queue : n.video = v
    <3>1. PICK n \in queue : n.video = v
      BY <2>3
    <3>2. CASE n # m
      BY <2>1, <3>1, <3>2 DEF InFlight
    <3>3. CASE n = m
      <4>1. Len(inbox[a]) + 1 \in DOMAIN inbox'[a]
            /\ inbox'[a][Len(inbox[a]) + 1] = m
        BY <2>2, InboxGrown
      <4> QED BY <3>1, <3>3, <4>1 DEF InFlight
    <3> QED BY <3>2, <3>3
  <2>4. CASE \E b \in Apis : \E i \in DOMAIN inbox[b] : inbox[b][i].video = v
    <3>0. PICK b \in Apis : \E i \in DOMAIN inbox[b] : inbox[b][i].video = v
      BY <2>4
    <3>1. PICK i \in DOMAIN inbox[b] : inbox[b][i].video = v
      BY <3>0
    <3>2. CASE b # a
      BY <1>0, <2>1, <3>1, <3>2 DEF InFlight
    <3>3. CASE b = a
      <4>1. i \in DOMAIN inbox'[a] /\ inbox'[a][i] = inbox[a][i]
        BY <2>2, <3>1, <3>3, InboxGrown
      <4> QED BY <3>1, <3>3, <4>1 DEF InFlight
    <3> QED BY <3>2, <3>3
  <2> QED BY <2>3, <2>4 DEF InFlight
<1>4. ASSUME NEW a \in Apis, inbox[a] # <<>>,
             inbox' = [inbox EXCEPT ![a] = Tail(@)],
             queue \subseteq queue',
             Job(a).video \in consumed' \/ Job(a) \in queue'
      PROVE  v \in consumed' \/ InFlight(v)'
  <2>1. inbox[a] \in Seq(Message) /\ inbox'[a] = Tail(inbox[a])
    BY <1>0, <1>4
  <2>2. CASE \E n \in queue : n.video = v
    BY <1>4, <2>2 DEF InFlight
  <2>3. CASE \E b \in Apis : \E i \in DOMAIN inbox[b] : inbox[b][i].video = v
    <3>0. PICK b \in Apis : \E i \in DOMAIN inbox[b] : inbox[b][i].video = v
      BY <2>3
    <3>1. PICK i \in DOMAIN inbox[b] : inbox[b][i].video = v
      BY <3>0
    <3>2. CASE b # a
      BY <1>0, <1>4, <3>1, <3>2 DEF InFlight
    <3>3. CASE b = a /\ i = 1
      <4>1. Job(a) = inbox[a][1]
        BY <1>4, <2>1, InboxKept DEF Job
      <4> QED BY <1>4, <3>1, <3>3, <4>1 DEF InFlight
    <3>4. CASE b = a /\ i # 1
      <4>1. i - 1 \in DOMAIN inbox'[a] /\ inbox'[a][i - 1] = inbox[a][i]
        BY <1>4, <2>1, <3>1, <3>4, InboxKept
      <4> QED BY <3>1, <3>4, <4>1 DEF InFlight
    <3> QED BY <3>2, <3>3, <3>4
  <2> QED BY <2>2, <2>3 DEF InFlight
<1>5. ASSUME NEW a \in Apis, AddFails(a) PROVE v \in consumed' \/ InFlight(v)'
  BY <1>4, <1>5 DEF AddFails, Busy
<1>6. ASSUME NEW a \in Apis, Ack(a) PROVE v \in consumed' \/ InFlight(v)'
  <2>1. Job(a).video \in consumed'
    BY <1>0, <1>6 DEF Ack, Busy, WrittenFirst
  <2> QED BY <1>4, <1>6, <2>1 DEF Ack, Busy
<1>7. ASSUME NEW a \in Apis, Restart(a) PROVE InFlight(v)'
  <2>1. CASE \E n \in queue : n.video = v
    BY <1>7, <2>1 DEF Restart, InFlight
  <2>2. CASE \E b \in Apis : \E i \in DOMAIN inbox[b] : inbox[b][i].video = v
    <3>0. PICK b \in Apis : \E i \in DOMAIN inbox[b] : inbox[b][i].video = v
      BY <2>2
    <3>1. PICK i \in DOMAIN inbox[b] : inbox[b][i].video = v
      BY <3>0
    <3>2. CASE b # a
      BY <1>0, <1>7, <3>1, <3>2 DEF Restart, InFlight
    <3>3. CASE b = a
      BY <1>7, <3>1, <3>3 DEF Restart, InFlight
    <3> QED BY <3>2, <3>3
  <2> QED BY <2>1, <2>2 DEF InFlight
<1>8. ASSUME NEW a \in Apis, Poller(a) PROVE v \in consumed' \/ InFlight(v)'
  BY <1>1, <1>2, <1>8 DEF Poller, Poll, Send, SendRefused, Delete
<1>9. ASSUME NEW a \in Apis, Rebuild(a) PROVE v \in consumed' \/ InFlight(v)'
  BY <1>1, <1>9 DEF Rebuild, RebuildStarts, RebuildReads, RebuildSaves
<1>10. ASSUME NEW a \in Apis, Consumer(a) PROVE v \in consumed' \/ InFlight(v)'
  <2>1. CASE Add(a) \/ Trim(a)
    BY <1>1, <2>1 DEF Add, Trim
  <2> QED BY <1>3, <1>5, <1>6, <1>10, <2>1 DEF Consumer
<1>11. CASE (\E w \in Videos : Publish(w)) \/ Lose \/ UNCHANGED vars
  BY <1>1, <1>11 DEF Publish, Lose, vars
<1> QED BY <1>7, <1>8, <1>9, <1>10, <1>11, Bounds DEF Next

LEMMA ConsumedGrows == FlowInv /\ [Next]_vars => consumed \subseteq consumed'
<1> SUFFICES ASSUME FlowInv, [Next]_vars PROVE consumed \subseteq consumed'
  OBVIOUS
<1> USE DEF database, polling, broker, consuming, feed, redis
<1>1. CASE UNCHANGED consumed
  BY <1>1
<1>2. ASSUME NEW a \in Apis, Consumer(a) PROVE consumed \subseteq consumed'
  BY <1>2 DEF Consumer, Receive, Add, AddFails, Trim, Ack
<1>3. ASSUME NEW a \in Apis, Poller(a) PROVE UNCHANGED consumed
  BY <1>3 DEF Poller, Poll, Send, SendRefused, Delete
<1>4. ASSUME NEW a \in Apis, Rebuild(a) PROVE UNCHANGED consumed
  BY <1>4 DEF Rebuild, RebuildStarts, RebuildReads, RebuildSaves
<1>5. ASSUME NEW a \in Apis, Restart(a) PROVE UNCHANGED consumed
  BY <1>5 DEF Restart
<1>6. CASE (\E v \in Videos : Publish(v)) \/ Lose \/ UNCHANGED vars
  BY <1>6 DEF Publish, Lose, vars
<1> QED BY <1>1, <1>2, <1>3, <1>4, <1>5, <1>6, Bounds DEF Next

LEMMA GivenKept ==
    ASSUME FlowInv, [Next]_vars, NEW v \in Videos, Given(v)
    PROVE  v \in consumed' \/ Given(v)'
<1>1. dropped \subseteq dropped'
  <2> USE DEF database, polling, broker, consuming, feed, redis
  <2>1. CASE UNCHANGED dropped
    BY <2>1
  <2>2. ASSUME NEW a \in Apis, Poller(a) PROVE dropped \subseteq dropped'
    BY <2>2 DEF Poller, Poll, Send, SendRefused, Delete
  <2>3. ASSUME NEW a \in Apis, Consumer(a) PROVE UNCHANGED dropped
    BY <2>3 DEF Consumer, Receive, Add, AddFails, Trim, Ack
  <2>4. ASSUME NEW a \in Apis, Rebuild(a) PROVE UNCHANGED dropped
    BY <2>4 DEF Rebuild, RebuildStarts, RebuildReads, RebuildSaves
  <2>5. ASSUME NEW a \in Apis, Restart(a) PROVE UNCHANGED dropped
    BY <2>5 DEF Restart
  <2>6. CASE (\E w \in Videos : Publish(w)) \/ Lose \/ UNCHANGED vars
    BY <2>6 DEF Publish, Lose, vars
  <2> QED BY <2>1, <2>2, <2>3, <2>4, <2>5, <2>6, Bounds DEF Next
<1> QED BY <1>1, FlightKept DEF Given

\* A row comes up for deletion only when it has been sent.
LEMMA SentStep ==
    ASSUME FlowInv, SentFirst, [Next]_vars
    PROVE  SentFirst'
<1> USE DEF database, polling, broker, consuming, feed, redis
<1> SUFFICES ASSUME NEW a \in Apis, NEW v \in Videos,
                    poller'[a] = "delete", Row(a, v)'
             PROVE  v \in consumed' \/ Given(v)'
  BY DEF SentFirst
<1>0. /\ batch \in [Apis -> SUBSET Videos]
      /\ poller \in [Apis -> {"send", "delete"}]
      /\ poller[a] = "delete" => batch[a] # {}
      /\ queue \subseteq Message
  BY DEF FlowInv, TypeOK
<1>1. CASE batch'[a] = batch[a] /\ poller'[a] = poller[a]
  <2>1. v \in consumed \/ Given(v)
    BY <1>1 DEF SentFirst, Row
  <2> QED BY <2>1, GivenKept, ConsumedGrows
<1>2. ASSUME NEW b \in Apis, Poller(b)
      PROVE  v \in consumed' \/ Given(v)'
  <2>1. CASE b # a
    <3>1. batch'[a] = batch[a] /\ poller'[a] = poller[a]
      BY <1>0, <1>2, <2>1
      DEF Poller, Poll, Send, SendRefused, Delete, NextRow
    <3> QED BY <1>1, <3>1
  <2>2. CASE b = a /\ Poll(a)
    BY <1>0, <2>2 DEF Poll
  <2>3. CASE b = a /\ \E w \in batch[a] : SendRefused(a, w) \/ Delete(a, w)
    BY <1>0, <2>3 DEF SendRefused, Delete, NextRow
  <2>4. CASE b = a /\ \E w \in batch[a] : Send(a, w)
    <3>1. PICK w \in batch[a] : Send(a, w)
      BY <2>4
    <3>2. /\ w \in Nat /\ v \in Nat
          /\ Row(a, w) /\ Row(a, v)
      BY <1>0, <3>1, VideoTimes DEF Send, Row
    <3>3. w = v
      BY <3>2 DEF Row
    <3>4. [id |-> sends, video |-> v] \in queue' \/ v \in dropped'
      BY <3>1, <3>3 DEF Send
    <3> QED BY <3>4 DEF Given, InFlight
  <2> QED BY <1>2, <2>1, <2>2, <2>3, <2>4 DEF Poller
<1>3. ASSUME NEW b \in Apis, Restart(b)
      PROVE  v \in consumed' \/ Given(v)'
  <2>1. CASE b = a
    BY <1>0, <1>3, <2>1 DEF Restart
  <2>2. CASE b # a
    <3>1. batch'[a] = batch[a] /\ poller'[a] = poller[a]
      BY <1>0, <1>3, <2>2 DEF Restart
    <3> QED BY <1>1, <3>1
  <2> QED BY <2>1, <2>2
<1>4. ASSUME NEW b \in Apis, Consumer(b)
      PROVE  v \in consumed' \/ Given(v)'
  BY <1>1, <1>4 DEF Consumer, Receive, Add, AddFails, Trim, Ack
<1>5. ASSUME NEW b \in Apis, Rebuild(b)
      PROVE  v \in consumed' \/ Given(v)'
  BY <1>1, <1>5 DEF Rebuild, RebuildStarts, RebuildReads, RebuildSaves
<1>6. CASE (\E w \in Videos : Publish(w)) \/ Lose \/ UNCHANGED vars
  BY <1>1, <1>6 DEF Publish, Lose, vars
<1> QED BY <1>2, <1>3, <1>4, <1>5, <1>6, Bounds DEF Next

LEMMA ForgottenStep ==
    ASSUME FlowInv, SentFirst, NothingForgotten, [Next]_vars
    PROVE  NothingForgotten'
<1> USE DEF database, polling, broker, consuming, feed, redis
<1> SUFFICES ASSUME NEW v \in stored', v \notin consumed'
             PROVE  v \in outbox' \/ Given(v)'
  BY DEF NothingForgotten
<1>1. CASE v \in stored /\ outbox \subseteq outbox'
  <2>1. v \in Videos /\ v \notin consumed
    BY <1>1, ConsumedGrows DEF FlowInv, TypeOK
  <2>2. v \in outbox \/ Given(v)
    BY <1>1, <2>1 DEF NothingForgotten
  <2> QED BY <1>1, <2>1, <2>2, GivenKept
<1>2. ASSUME NEW a \in Apis, Poller(a) PROVE v \in outbox' \/ Given(v)'
  <2>1. CASE UNCHANGED <<stored, outbox>>
    BY <1>1, <2>1
  <2>2. CASE \E w \in batch[a] : Delete(a, w)
    <3>1. PICK w \in batch[a] : Delete(a, w)
      BY <2>2
    <3>2. v \in stored /\ v \in Videos /\ v \notin consumed
      BY <3>1, ConsumedGrows DEF Delete, FlowInv, TypeOK
    <3>3. v \in outbox \/ Given(v)
      BY <3>2 DEF NothingForgotten
    <3>4. CASE v = w
      <4>1. Given(v)
        BY <3>1, <3>2, <3>4 DEF Delete, SentFirst
      <4> QED BY <3>2, <4>1, GivenKept
    <3>5. CASE v # w
      <4>1. v \in outbox => v \in outbox'
        BY <3>1, <3>5 DEF Delete
      <4> QED BY <3>2, <3>3, <4>1, GivenKept
    <3> QED BY <3>4, <3>5
  <2> QED BY <1>2, <2>1, <2>2 DEF Poller, Poll, Send, SendRefused
<1>3. CASE \E w \in Videos : Publish(w)
  <2>1. PICK w \in Videos : Publish(w)
    BY <1>3
  <2>2. CASE v = w
    BY <2>1, <2>2 DEF Publish
  <2>3. CASE v # w
    BY <1>1, <2>1, <2>3 DEF Publish
  <2> QED BY <2>2, <2>3
<1>4. ASSUME NEW a \in Apis, Consumer(a) PROVE v \in outbox' \/ Given(v)'
  BY <1>1, <1>4 DEF Consumer, Receive, Add, AddFails, Trim, Ack
<1>5. ASSUME NEW a \in Apis, Rebuild(a) PROVE v \in outbox' \/ Given(v)'
  BY <1>1, <1>5 DEF Rebuild, RebuildStarts, RebuildReads, RebuildSaves
<1>6. ASSUME NEW a \in Apis, Restart(a) PROVE v \in outbox' \/ Given(v)'
  BY <1>1, <1>6 DEF Restart
<1>7. CASE Lose \/ UNCHANGED vars
  BY <1>1, <1>7 DEF Lose, vars
<1> QED BY <1>2, <1>3, <1>4, <1>5, <1>6, <1>7, Bounds DEF Next

\* No video is lost on its way to the timeline but by an unconfirmed send:
\* whatever number of processes poll, however calls fail and processes
\* restart, it is in the outbox, in flight or already there.
THEOREM NothingForgottenHolds == Spec => []NothingForgotten
<1>1. Init => SentFirst /\ NothingForgotten
  BY DEF Init, SentFirst, NothingForgotten
<1>2. FlowInv /\ SentFirst /\ NothingForgotten /\ [Next]_vars
        => SentFirst' /\ NothingForgotten'
  BY SentStep, ForgottenStep
<1> QED BY <1>1, <1>2, FlowHolds, PTL DEF Spec

-----------------------------------------------------------------------------
(* Nothing leaves the timeline early.                                      *)

Newer(v, S) == {w \in S : w > v}

\* More members of the timeline, more of them newer than v.
LEMMA NewerGrows ==
    ASSUME NEW S, NEW T, IsFiniteSet(T), S \subseteq T, NEW v
    PROVE  Cardinality(Newer(v, S)) <= Cardinality(Newer(v, T))
<1>1. Newer(v, S) \subseteq Newer(v, T) /\ Newer(v, T) \subseteq T
  BY DEF Newer
<1> QED BY <1>1, FS_Subset

\* A trim drops what has Cap newer members, and takes none of these from it.
LEMMA TrimKeepsNewest ==
    ASSUME NEW T, IsFiniteSet(T), T \subseteq Nat,
           NEW K, Newest(Cap, K, T), NEW v \in Nat, v \notin K,
           v \in T \/ Cardinality(Newer(v, T)) >= Cap
    PROVE  Cardinality(Newer(v, K)) >= Cap
<1> USE Sizes
<1>0. /\ K \subseteq T
      /\ IsFiniteSet(K) /\ Cardinality(K) \in Nat
      /\ \A x \in K, w \in T \ K : w < x
  BY FS_Subset, FS_CardinalityType DEF Newest, UpTo
<1>1. CASE Cardinality(T) <= Cap
  BY <1>1 DEF Newest, UpTo
<1>2. CASE ~(Cardinality(T) <= Cap)
  <2>1. Cardinality(K) = Cap
    BY <1>2 DEF Newest, UpTo
  <2>2. ASSUME NEW x \in K, ~(x > v) PROVE FALSE
    <3>1. x \in Nat /\ x < v /\ v \notin T
      BY <1>0, <2>2
    <3>2. Newer(v, T) \subseteq K \ {x}
      <4> SUFFICES ASSUME NEW w \in T, w > v PROVE w \in K \ {x}
        BY DEF Newer
      <4>1. w \in Nat /\ ~(w < x) /\ w # x
        BY <3>1
      <4> QED BY <1>0, <4>1
    <3>3. IsFiniteSet(K \ {x}) /\ Cardinality(K \ {x}) = Cap - 1
      BY <1>0, <2>1, <2>2, FS_RemoveElement
    <3>4. Cardinality(Newer(v, T)) <= Cap - 1
      BY <3>2, <3>3, FS_Subset
    <3>5. Cardinality(Newer(v, T)) \in Nat
      BY <3>2, <3>3, FS_Subset, FS_CardinalityType
    <3> QED BY <3>1, <3>4, <3>5
  <2>3. Newer(v, K) = K
    BY <2>2 DEF Newer
  <2> QED BY <2>1, <2>3
<1> QED BY <1>1, <1>2

\* The sorted set only grows, unless it is trimmed or lost.
LEMMA StaysStep == TypeOK /\ StaysUntilSurpassed /\ [Next]_vars
                     => StaysUntilSurpassed'
<1> USE DEF database, polling, broker, consuming, feed, redis
<1> SUFFICES ASSUME TypeOK, StaysUntilSurpassed, [Next]_vars,
                    losses' = 0, NEW v \in consumed' \ timeline'
             PROVE  Cardinality(Newer(v, timeline')) >= Cap
  BY DEF StaysUntilSurpassed, Newer
<1>0. /\ losses \in Nat /\ consumed \subseteq Nat
      /\ timeline \subseteq Nat /\ IsFiniteSet(timeline)
  <2>1. losses \in Nat
    BY Bounds DEF TypeOK
  <2>2. timeline \in SUBSET Videos /\ consumed \subseteq Nat
    BY VideoTimes DEF TypeOK
  <2>3. IsFiniteSet(timeline) /\ timeline \subseteq Nat
    BY <2>2, VideoTimes, FS_Subset
  <2> QED BY <2>1, <2>2, <2>3
<1>1. ASSUME losses = 0, v \in consumed, v \notin timeline
      PROVE  Cardinality(Newer(v, timeline)) >= Cap
  BY <1>1 DEF StaysUntilSurpassed, Newer
<1>2. ASSUME losses' = losses, IsFiniteSet(timeline'),
             timeline \subseteq timeline',
             consumed' \ timeline' \subseteq consumed
      PROVE  Cardinality(Newer(v, timeline')) >= Cap
  <2>1. Cardinality(Newer(v, timeline)) >= Cap
    BY <1>1, <1>2
  <2>2. Cardinality(Newer(v, timeline)) <= Cardinality(Newer(v, timeline'))
    BY <1>2, NewerGrows
  <2>3. /\ Newer(v, timeline) \subseteq timeline
        /\ Newer(v, timeline') \subseteq timeline'
    BY DEF Newer
  <2>4. /\ Cardinality(Newer(v, timeline)) \in Nat
        /\ Cardinality(Newer(v, timeline')) \in Nat
    BY <1>0, <1>2, <2>3, FS_Subset, FS_CardinalityType
  <2> QED BY <2>1, <2>2, <2>4, Sizes
<1>3. CASE UNCHANGED <<timeline, consumed, losses>>
  BY <1>0, <1>2, <1>3
<1>4. ASSUME NEW a \in Apis, Add(a) \/ AddFails(a)
      PROVE  Cardinality(Newer(v, timeline')) >= Cap
  <2>1. timeline' \subseteq timeline \cup {Job(a).video}
    BY <1>4 DEF Add, AddFails
  <2>2. IsFiniteSet(timeline')
    BY <1>0, <2>1, FS_AddElement, FS_Subset
  <2> QED BY <1>2, <1>4, <2>2 DEF Add, AddFails
<1>5. ASSUME NEW a \in Apis, RebuildSaves(a)
      PROVE  Cardinality(Newer(v, timeline')) >= Cap
  <2>1. timeline' \subseteq Videos
    BY <1>5 DEF RebuildSaves, TypeOK
  <2>2. IsFiniteSet(timeline')
    BY <2>1, VideoTimes, FS_Subset
  <2> QED BY <1>2, <1>5, <2>2 DEF RebuildSaves
<1>6. ASSUME NEW a \in Apis, Trim(a)
      PROVE  Cardinality(Newer(v, timeline')) >= Cap
  <2>1. CASE timeline' = timeline
    BY <1>0, <1>2, <1>6, <2>1 DEF Trim
  <2>2. CASE Newest(Cap, timeline', timeline)
    <3>1. losses = 0 /\ v \in consumed /\ v \in Nat
      BY <1>0, <1>6 DEF Trim
    <3>2. v \in timeline \/ Cardinality(Newer(v, timeline)) >= Cap
      BY <1>1, <3>1
    <3> QED BY <1>0, <2>2, <3>1, <3>2, TrimKeepsNewest
  <2> QED BY <1>6, <2>1, <2>2 DEF Trim
<1>7. CASE Lose
  BY <1>0, <1>7 DEF Lose
<1>8. ASSUME NEW a \in Apis, Receive(a) \/ Ack(a) \/ Restart(a)
      PROVE  UNCHANGED <<timeline, consumed, losses>>
  BY <1>8 DEF Receive, Ack, Restart
<1>9. ASSUME NEW a \in Apis, RebuildStarts(a) \/ RebuildReads(a)
      PROVE  UNCHANGED <<timeline, consumed, losses>>
  BY <1>9 DEF RebuildStarts, RebuildReads
<1>10. ASSUME NEW a \in Apis, Poller(a)
       PROVE  UNCHANGED <<timeline, consumed, losses>>
  BY <1>10 DEF Poller, Poll, Send, SendRefused, Delete
<1>11. CASE (\E w \in Videos : Publish(w)) \/ UNCHANGED vars
  BY <1>3, <1>11 DEF Publish, vars
<1> QED BY <1>3, <1>4, <1>5, <1>6, <1>7, <1>8, <1>9, <1>10, <1>11, Bounds
        DEF Next, Consumer, Rebuild

\* Out-of-order events, failed trims and rebuilds from old rows never push a
\* video out of the timeline before Cap newer ones are in it.
THEOREM StaysUntilSurpassedHolds == Spec => []StaysUntilSurpassed
<1>1. Init => StaysUntilSurpassed
  BY DEF Init, StaysUntilSurpassed
<1> QED BY <1>1, StaysStep, TypeCorrect, PTL DEF Spec

\* While Redis keeps the set, a timeline of at most Cap members is complete
\* from its oldest member on, but for videos whose event is still to come or
\* was dropped by the broker: the premise of ListLatest's hot path.
THEOREM NoHoleHolds ==
    ASSUME MaxLosses = 0
    PROVE  Spec => []NoHoleAboveWatermark
<1>1. TypeOK /\ StaysUntilSurpassed /\ NothingForgotten
        => NoHoleAboveWatermark
  <2> SUFFICES ASSUME TypeOK, StaysUntilSurpassed, NothingForgotten,
                      Cardinality(timeline) <= Cap,
                      NEW w \in timeline, NEW v \in stored \ timeline,
                      Watermark(w), v > w
               PROVE  v \in outbox \/ Given(v)
    BY DEF NoHoleAboveWatermark
  <2>1. CASE v \notin consumed
    BY <2>1 DEF NothingForgotten
  <2>2. CASE v \in consumed
    <3>1. /\ losses = 0 /\ IsFiniteSet(timeline)
          /\ v \in Nat /\ w \in Nat
      <4>1. timeline \in SUBSET Videos /\ stored \subseteq Videos
        BY DEF TypeOK
      <4>2. IsFiniteSet(timeline)
        BY <4>1, VideoTimes, FS_Subset
      <4>3. losses = 0
        BY DEF TypeOK
      <4> QED BY <4>1, <4>2, <4>3, VideoTimes
    <3>2. Cardinality(Newer(v, timeline)) >= Cap
      BY <2>2, <3>1 DEF StaysUntilSurpassed, Newer
    <3>3. Newer(v, timeline) \subseteq timeline \ {w}
      BY <3>1 DEF Newer
    <3>4. /\ IsFiniteSet(timeline \ {w})
          /\ Cardinality(timeline \ {w}) = Cardinality(timeline) - 1
      BY <3>1, FS_RemoveElement
    <3>5. /\ Cardinality(Newer(v, timeline)) <= Cardinality(timeline) - 1
          /\ Cardinality(Newer(v, timeline)) \in Nat
          /\ Cardinality(timeline) \in Nat
      BY <3>1, <3>3, <3>4, FS_Subset, FS_CardinalityType
    <3> QED BY <3>2, <3>5, Sizes
  <2> QED BY <2>1, <2>2
<1> QED BY <1>1, TypeCorrect, StaysUntilSurpassedHolds, NothingForgottenHolds,
        PTL
=============================================================================
