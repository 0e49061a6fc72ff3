------------------------------ MODULE Outbox ------------------------------
(***************************************************************************)
(* From a published video to the global timeline.                          *)
(*                                                                         *)
(* VideoService.Publish (internal/video/video_service.go) commits the video *)
(* and an outbox row in one transaction.  Every API process runs a poller   *)
(* that sends the rows to RabbitMQ and deletes them, and a consumer that    *)
(* adds the ids to the Redis sorted set feed:global_timeline and trims it   *)
(* (internal/worker/outboxworker.go).  FeedService.ListLatest               *)
(* (internal/feed/service.go) reads the oldest score of that set as a       *)
(* watermark: newer videos come from the set alone, and an empty set is     *)
(* rebuilt from MySQL.                                                      *)
(*                                                                         *)
(* A video is named by its create_time: videos created in the same          *)
(* millisecond are not distinguished.  The transaction that stores it       *)
(* commits later, so videos are stored in any order.                        *)
(***************************************************************************)
EXTENDS Integers, Sequences, FiniteSets

CONSTANTS
    Videos,       \* the videos, as their creation times
    Apis,         \* API processes: poller, consumer and feed service each
    Rebuilders,   \* bound: those whose feed service is asked to list
    Cap,          \* the sorted set keeps the newest Cap (1000)
    Limit,        \* rows a poll fetches (100)
    Unconfirmed,  \* TRUE: a message the client has sent may be lost
    MaxFailures,  \* bound: failed calls and API restarts
    MaxLosses     \* bound: times Redis loses the sorted set

ASSUME VideoTimes == Videos \subseteq Nat /\ IsFiniteSet(Videos)
ASSUME Sizes      == Cap \in Nat \ {0} /\ Limit \in Nat \ {0}
ASSUME Bounds     == /\ Rebuilders \subseteq Apis
                     /\ Unconfirmed \in BOOLEAN
                     /\ MaxFailures \in Nat
                     /\ MaxLosses \in Nat

VARIABLES
    stored,    \* rows of videos
    outbox,    \* rows of outbox_msgs, by video
    batch,     \* batch[a]: rows a's poller has fetched and not dealt with
    poller,    \* poller[a]: what it does with the oldest row of its batch
    queue,     \* ready messages of the timeline queue
    inbox,     \* inbox[a]: deliveries a's consumer has not acknowledged
    consumer,  \* consumer[a]: what it does with the head of its inbox
    timeline,  \* members of feed:global_timeline
    rebuild,   \* rebuild[a]: where a's rebuild of the timeline is
    snapshot,  \* snapshot[a]: the rows that rebuild has read
    sends,     \* messages accepted by the broker; the next one's id
    failures,  \* failed calls and restarts so far
    losses,    \* losses of the sorted set so far
    consumed,  \* history: videos whose event was written to the timeline
    dropped    \* history: videos a message of which the broker never had

database  == <<stored, outbox>>
polling   == <<batch, poller>>
broker    == <<queue, sends, dropped>>
consuming == <<inbox, consumer>>
feed      == <<rebuild, snapshot>>
redis     == <<timeline, consumed>>
vars == <<database, polling, broker, consuming, feed, redis, failures, losses>>

-----------------------------------------------------------------------------
Message == [id : Nat, video : Videos]

\* K is all of S if S has at most n members, and n of them otherwise.
UpTo(n, K, S) == /\ K \subseteq S
                 /\ IF Cardinality(S) <= n THEN K = S ELSE Cardinality(K) = n

\* K holds the n newest members of S, or all of them: what ZREMRANGEBYRANK
\* 0 -(n+1) leaves, and ORDER BY create_time DESC LIMIT n selects.
Newest(n, K, S) == UpTo(n, K, S) /\ \A v \in K, w \in S \ K : w < v

\* ORDER BY create_time ASC LIMIT n.
Oldest(n, K, S) == UpTo(n, K, S) /\ \A v \in K, w \in S \ K : v < w

TypeOK ==
    /\ stored \subseteq Videos
    /\ outbox \subseteq Videos
    /\ batch \in [Apis -> SUBSET Videos]
    /\ poller \in [Apis -> {"send", "delete"}]
    /\ queue \subseteq Message
    /\ inbox \in [Apis -> Seq(Message)]
    /\ consumer \in [Apis -> {"add", "trim", "ack"}]
    /\ timeline \subseteq Videos
    /\ rebuild \in [Apis -> {"idle", "read", "save"}]
    /\ snapshot \in [Apis -> SUBSET Videos]
    /\ sends \in Nat
    /\ failures \in 0..MaxFailures
    /\ losses \in 0..MaxLosses
    /\ consumed \subseteq Videos
    /\ dropped \subseteq Videos
    /\ \A a \in Apis : /\ poller[a] = "delete" => batch[a] # {}
                       /\ consumer[a] # "add" => inbox[a] # <<>>

Init ==
    /\ stored = {}
    /\ outbox = {}
    /\ batch = [a \in Apis |-> {}]
    /\ poller = [a \in Apis |-> "send"]
    /\ queue = {}
    /\ inbox = [a \in Apis |-> <<>>]
    /\ consumer = [a \in Apis |-> "add"]
    /\ timeline = {}
    /\ rebuild = [a \in Apis |-> "idle"]
    /\ snapshot = [a \in Apis |-> {}]
    /\ sends = 0
    /\ failures = 0
    /\ losses = 0
    /\ consumed = {}
    /\ dropped = {}

Fail == /\ failures < MaxFailures
        /\ failures' = failures + 1

-----------------------------------------------------------------------------
(* VideoService.Publish: one transaction.                                  *)

Publish(v) ==
    /\ v \notin stored
    /\ stored' = stored \cup {v}
    /\ outbox' = outbox \cup {v}
    /\ UNCHANGED <<polling, broker, consuming, feed, redis, failures, losses>>

-----------------------------------------------------------------------------
(* StartOutboxPoller.                                                      *)

Poll(a) ==
    /\ batch[a] = {}
    /\ outbox # {}
    /\ \E rows \in SUBSET outbox :
          /\ Oldest(Limit, rows, outbox)
          /\ batch' = [batch EXCEPT ![a] = rows]
    /\ UNCHANGED <<database, poller, broker, consuming, feed, redis, failures,
                   losses>>

\* v is the row the loop has come to.
Row(a, v) == v \in batch[a] /\ \A w \in batch[a] : v <= w

\* Mutant of NextRow: the next row is taken for one that has been sent.
NextRow_Mut(a, v) == /\ batch' = [batch EXCEPT ![a] = @ \ {v}]
                     /\ poller' = poller

\* The row is dealt with: the loop goes on with the next one.
NextRow(a, v) == /\ batch' = [batch EXCEPT ![a] = @ \ {v}]
                 /\ poller' = [poller EXCEPT ![a] = "send"]

\* PublishVideo returned nil: the bytes are on their way, and no confirmation
\* is asked for.
Send(a, v) ==
    /\ Row(a, v)
    /\ poller[a] = "send"
    /\ \/ /\ queue' = queue \cup {[id |-> sends, video |-> v]}
          /\ sends' = sends + 1
          /\ UNCHANGED dropped
       \/ /\ Unconfirmed
          /\ dropped' = dropped \cup {v}
          /\ UNCHANGED <<queue, sends>>
    /\ poller' = [poller EXCEPT ![a] = "delete"]
    /\ UNCHANGED <<database, batch, consuming, feed, redis, failures, losses>>

\* Mutant of SendRefused: the row is deleted whatever PublishVideo returned.
SendRefused_Mut(a, v) ==
    /\ Row(a, v)
    /\ poller[a] = "send"
    /\ Fail
    /\ poller' = [poller EXCEPT ![a] = "delete"]
    /\ UNCHANGED <<database, batch, broker, consuming, feed, redis, losses>>

\* PublishVideo failed: the row stays for a later poll.
SendRefused(a, v) ==
    /\ Row(a, v)
    /\ poller[a] = "send"
    /\ Fail
    /\ NextRow(a, v)
    /\ UNCHANGED <<database, broker, consuming, feed, redis, losses>>

\* db.Delete; its error is ignored, and the row will be sent again.
Delete(a, v) ==
    /\ Row(a, v)
    /\ poller[a] = "delete"
    /\ \/ /\ outbox' = outbox \ {v}
          /\ UNCHANGED failures
       \/ /\ Fail
          /\ UNCHANGED outbox
    /\ NextRow(a, v)
    /\ UNCHANGED <<stored, broker, consuming, feed, redis, losses>>

-----------------------------------------------------------------------------
(* StartConsumer.                                                          *)

\* The broker pushes the oldest ready message.  The channel sets no Qos, so
\* the number of unacknowledged deliveries has no limit.
Receive(a) ==
    /\ \E m \in queue :
          /\ \A n \in queue : m.id <= n.id
          /\ queue' = queue \ {m}
          /\ inbox' = [inbox EXCEPT ![a] = Append(@, m)]
    /\ UNCHANGED <<database, polling, sends, dropped, consumer, feed, redis, failures,
                   losses>>

Job(a) == Head(inbox[a])

Busy(a, s) == inbox[a] # <<>> /\ consumer[a] = s

Goto(a, s) == consumer' = [consumer EXCEPT ![a] = s]

\* ZADD.
Add(a) ==
    /\ Busy(a, "add")
    /\ timeline' = timeline \cup {Job(a).video}
    /\ consumed' = consumed \cup {Job(a).video}
    /\ Goto(a, "trim")
    /\ UNCHANGED <<database, polling, broker, inbox, feed, failures, losses>>

\* Mutant of AddFails: the delivery is acknowledged instead of requeued.
AddFails_Mut(a) ==
    /\ Busy(a, "add")
    /\ Fail
    /\ inbox' = [inbox EXCEPT ![a] = Tail(@)]
    /\ UNCHANGED <<database, polling, broker, consumer, feed, redis, losses>>

\* ZADD returned an error, which after a timeout does not say that Redis did
\* not run it; the delivery goes back to its place in the queue.
AddFails(a) ==
    /\ Busy(a, "add")
    /\ Fail
    /\ \/ UNCHANGED redis
       \/ /\ timeline' = timeline \cup {Job(a).video}
          /\ consumed' = consumed \cup {Job(a).video}
    /\ queue' = queue \cup {Job(a)}
    /\ inbox' = [inbox EXCEPT ![a] = Tail(@)]
    /\ UNCHANGED <<database, polling, sends, dropped, consumer, feed, losses>>

\* Mutant of Trim: the ranks are counted from the newest.
Trim_Mut(a) ==
    /\ Busy(a, "trim")
    /\ \E kept \in SUBSET timeline : /\ Oldest(Cap, kept, timeline)
                                    /\ timeline' = kept
    /\ Goto(a, "ack")
    /\ UNCHANGED <<database, polling, broker, inbox, feed, consumed, failures,
                   losses>>

\* ZREMRANGEBYRANK; its error is only logged.
Trim(a) ==
    /\ Busy(a, "trim")
    /\ \/ /\ \E kept \in SUBSET timeline : /\ Newest(Cap, kept, timeline)
                                          /\ timeline' = kept
          /\ UNCHANGED failures
       \/ /\ Fail
          /\ UNCHANGED timeline
    /\ Goto(a, "ack")
    /\ UNCHANGED <<database, polling, broker, inbox, feed, consumed, losses>>

Ack(a) ==
    /\ Busy(a, "ack")
    /\ inbox' = [inbox EXCEPT ![a] = Tail(@)]
    /\ Goto(a, "add")
    /\ UNCHANGED <<database, polling, broker, feed, redis, failures, losses>>

-----------------------------------------------------------------------------
(* ListLatest on an empty sorted set; the singleflight group lets one       *)
(* rebuild run per process.                                                 *)

RebuildStarts(a) ==
    /\ rebuild[a] = "idle"
    /\ timeline = {}
    /\ rebuild' = [rebuild EXCEPT ![a] = "read"]
    /\ UNCHANGED <<database, polling, broker, consuming, snapshot, redis,
                   failures, losses>>

\* With no rows it returns "EMPTY_DB" and writes nothing; an error of the
\* query goes to the reader, who writes nothing either.
RebuildReads(a) ==
    /\ rebuild[a] = "read"
    /\ \/ /\ \E rows \in SUBSET stored :
                /\ Newest(Cap, rows, stored)
                /\ snapshot' = [snapshot EXCEPT ![a] = rows]
          /\ rebuild' = [rebuild EXCEPT ![a] =
                            IF stored = {} THEN "idle" ELSE "save"]
          /\ UNCHANGED failures
       \/ /\ Fail
          /\ rebuild' = [rebuild EXCEPT ![a] = "idle"]
          /\ UNCHANGED snapshot
    /\ UNCHANGED <<database, polling, broker, consuming, redis, losses>>

\* ZADD of all of them, without a trim; its error is ignored.
RebuildSaves(a) ==
    /\ rebuild[a] = "save"
    /\ \/ /\ timeline' = timeline \cup snapshot[a]
          /\ UNCHANGED failures
       \/ /\ Fail
          /\ UNCHANGED timeline
    /\ rebuild' = [rebuild EXCEPT ![a] = "idle"]
    /\ snapshot' = [snapshot EXCEPT ![a] = {}]
    /\ UNCHANGED <<database, polling, broker, consuming, consumed, losses>>

-----------------------------------------------------------------------------
\* The API process stops and is started again.
Restart(a) ==
    /\ Fail
    /\ batch' = [batch EXCEPT ![a] = {}]
    /\ poller' = [poller EXCEPT ![a] = "send"]
    /\ queue' = queue \cup {inbox[a][i] : i \in DOMAIN inbox[a]}
    /\ inbox' = [inbox EXCEPT ![a] = <<>>]
    /\ consumer' = [consumer EXCEPT ![a] = "add"]
    /\ rebuild' = [rebuild EXCEPT ![a] = "idle"]
    /\ snapshot' = [snapshot EXCEPT ![a] = {}]
    /\ UNCHANGED <<database, sends, dropped, redis, losses>>

\* Redis restarts empty, evicts the key, or the seed command deletes feed:*.
Lose ==
    /\ losses < MaxLosses
    /\ timeline # {}
    /\ timeline' = {}
    /\ losses' = losses + 1
    /\ UNCHANGED <<database, polling, broker, consuming, feed, consumed,
                   failures>>

-----------------------------------------------------------------------------
Poller(a)   == Poll(a) \/ \E v \in batch[a] : \/ Send(a, v)
                                              \/ SendRefused(a, v)
                                              \/ Delete(a, v)

Consumer(a) == Receive(a) \/ Add(a) \/ AddFails(a) \/ Trim(a) \/ Ack(a)

Rebuild(a)  == RebuildStarts(a) \/ RebuildReads(a) \/ RebuildSaves(a)

Next == \/ \E v \in Videos : Publish(v)
        \/ \E a \in Apis : Poller(a) \/ Consumer(a) \/ Restart(a)
        \/ \E a \in Rebuilders : Rebuild(a)
        \/ Lose

Spec == Init /\ [][Next]_vars

Polling(a)   == Poll(a) \/ \E v \in batch[a] : Send(a, v) \/ Delete(a, v)

Consuming(a) == Receive(a) \/ Add(a) \/ Trim(a) \/ Ack(a)

\* Both goroutines are endless loops; nothing is assumed of publishers,
\* readers, failures or restarts.
FairSpec == /\ Spec
            /\ \A a \in Apis : WF_vars(Polling(a)) /\ WF_vars(Consuming(a))

-----------------------------------------------------------------------------
(* Properties.                                                             *)

InFlight(v) == \/ \E m \in queue : m.video = v
               \/ \E a \in Apis : \E i \in DOMAIN inbox[a] :
                                     inbox[a][i].video = v

\* What became of a video that was sent, before the consumer wrote it.
Given(v) == InFlight(v) \/ v \in dropped

\* A stored video whose event has not reached the timeline has its outbox row
\* or its message, unless the broker never had a message it was sent: no order
\* of polls, deletes, requeues and restarts forgets it.
NothingForgotten ==
    \A v \in stored \ consumed : v \in outbox \/ Given(v)

\* The outbox hands every committed video over at least once or loses it to an
\* unconfirmed publication, and hands over only committed ones, under the
\* fairness of the two loops.
R == INSTANCE Relay WITH Items <- Videos, committed <- stored,
                         handed <- consumed, lost <- dropped

RelayImplemented == R!Spec

\* A video that reached the timeline stays there until Cap newer ones are in
\* it: events out of order, rebuilds from an old snapshot, failed trims and a
\* second consumer never push it out earlier, unless Redis loses the set.
StaysUntilSurpassed ==
    losses = 0 =>
        \A v \in consumed \ timeline :
            Cardinality({w \in timeline : w > v}) >= Cap

Watermark(v) == v \in timeline /\ \A w \in timeline : v <= w

\* ListLatest serves everything newer than the watermark from the sorted set,
\* so the set may not miss a stored video newer than its oldest member, unless
\* its event is still to come or was dropped.  A set that has outgrown Cap, before a trim or
\* after a failed one, is excused until it is trimmed.
NoHoleAboveWatermark ==
    Cardinality(timeline) <= Cap =>
        \A w \in timeline, v \in stored \ timeline :
            Watermark(w) /\ v > w => v \in outbox \/ Given(v)

-----------------------------------------------------------------------------
(* What NothingForgotten needs to be inductive.                            *)

\* Everything downstream of the transaction is a stored video.
Known ==
    /\ outbox \subseteq stored
    /\ consumed \subseteq stored
    /\ \A a \in Apis : batch[a] \subseteq stored
    /\ \A m \in queue : m.video \in stored
    /\ \A a \in Apis : \A i \in DOMAIN inbox[a] : inbox[a][i].video \in stored

\* A consumer past its ZADD has written the video it is working on.
WrittenFirst ==
    \A a \in Apis : consumer[a] # "add" => Job(a).video \in consumed

\* The row a poller is about to delete has been sent.
SentFirst ==
    \A a \in Apis, v \in Videos :
        poller[a] = "delete" /\ Row(a, v) => v \in consumed \/ Given(v)

FlowInv == TypeOK /\ Known /\ WrittenFirst

IInv == FlowInv /\ SentFirst /\ NothingForgotten
=============================================================================
