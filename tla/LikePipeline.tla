--------------------------- MODULE LikePipeline ---------------------------
(***************************************************************************)
(* Likes from the HTTP request to the counters.                            *)
(*                                                                         *)
(* POST /like/like and /like/unlike are served by LikeService              *)
(* (internal/video/like_service.go) in the API process: it reads the row,  *)
(* then publishes a like event and a popularity event, and writes MySQL or *)
(* Redis itself only for the publication that was refused.  LikeWorker     *)
(* (internal/worker/likeworker.go), in the worker process, consumes the    *)
(* like events with manual acknowledgement and changes the row, the two    *)
(* counters and the Redis feed item in separate statements.                *)
(*                                                                         *)
(* The row (video, user) is the truth; videos.likes_count and              *)
(* videos.popularity are denormalised.  Everything below is about how far  *)
(* the three may part.  The popularity stream itself (buckets, ranking) is *)
(* not modelled here: heat[v] is the sum of the changes handed to it.      *)
(***************************************************************************)
EXTENDS Integers, Sequences, FiniteSets

CONSTANTS
    Users, Videos,      \* account and video ids a request can name
    Stored,             \* the ids that have a row in videos
    Clients,            \* concurrent request goroutines of the API process
    Workers,            \* LikeWorker instances consuming like.events
    Prefetch,           \* Qos: unacknowledged deliveries per worker (50)
    MaxCalls,           \* bound: requests made in a behaviour
    MaxFailures,        \* bound: failed statements, crashes, lost requests
    LikePublish,        \* outcomes of LikeMQ publish the run considers
    HeatPublish,        \* outcomes of PopularityMQ publish
    RedisUp,            \* FALSE: the cache client is nil
    MaxCopies           \* bound: counts of one video that readers hold at a time

\* "queued": err == nil and the broker has the message.  "dropped": err == nil
\* but, without publisher confirms, the broker never routed it.  "refused": err.
Outcomes == {"queued", "dropped", "refused"}

ASSUME UsersFinite   == IsFiniteSet(Users)
ASSUME ClientsFinite == IsFiniteSet(Clients)
ASSUME WorkersFinite == IsFiniteSet(Workers)
ASSUME StoredVideos  == Stored \subseteq Videos
ASSUME ActorsApart   == Clients \cap Workers = {}
ASSUME Bounds == /\ Prefetch \in Nat \ {0}
                 /\ MaxCalls \in Nat
                 /\ MaxFailures \in Nat
                 /\ MaxCopies \in Nat
ASSUME Environment == /\ LikePublish \subseteq Outcomes
                      /\ HeatPublish \subseteq Outcomes
                      /\ RedisUp \in BOOLEAN

VARIABLES
    likes,       \* rows of the likes table: <<video, user>>, a unique key
    likesCount,  \* videos.likes_count
    popularity,  \* videos.popularity, its part that comes from likes
    likeQueue,   \* like.events: the ready messages, in the order of their ids
    inbox,       \* inbox[w]: deliveries w has not acknowledged, oldest first
    step,        \* step[w]: what w does next with Head(inbox[w])
    rpc,         \* rpc[c]: what request c does next
    call,        \* call[c]: the arguments of request c
    sent,        \* sent[c]: the stores request c has handed to a queue
    loaded,      \* loaded[a]: the feed item a has read and not yet saved
    view,        \* view[v]: likes_count inside Redis feed:item:<v>
    copies,      \* copies[v]: the likes_counts readers of the row of v still
                 \* hold, each with the changes of the row since it was read
    heat,        \* heat[v]: popularity changes handed to the ranking
    calls,       \* requests made so far
    published,   \* like events published so far; the next one's id
    failures,    \* failures so far
    lost,        \* history: counter changes owed for a row and never made
    clamped,     \* history: decrements that GREATEST(x - 1, 0) swallowed
    latest,      \* history: latest[<<v, u>>]: the last event queued about the pair
    reordered,   \* history: pairs with an event put back while the latest one
                 \* was with a worker
    stale        \* history: stale[v]: the feed item comes from a copy that did
                 \* not have the changes it should

tables  == <<likes, likesCount, popularity>>
broker  == <<likeQueue, inbox, step>>
request == <<rpc, call, sent>>
item    == <<view, copies, stale>>
redis   == <<loaded, item, heat>>
history == <<lost, clamped>>
order   == <<published, latest, reordered>>
vars    == <<tables, broker, request, redis, calls, failures, history, order>>

-----------------------------------------------------------------------------
Acts     == {"like", "unlike"}
Call     == [act : Acts, user : Users, video : Videos]
Event    == [id : Nat, act : Acts, user : Users, video : Videos]
NoCall   == [act |-> "none"]
NoEvent  == [act |-> "none"]
Copy     == [count : Nat, behind : Nat]
NoEntry  == -1
Entry    == Nat \cup {NoEntry}

Delta(act) == IF act = "like" THEN 1 ELSE -1

\* Mutant of Clamp: likes_count + change without GREATEST.
Clamp_Mut(n) == n

\* GREATEST(x + change, 0), and the clamp of ChangeFeedVideoLikesCount.
Clamp(n) == IF n < 0 THEN 0 ELSE n

IsExist(v)    == v \in Stored
IsLiked(v, u) == <<v, u>> \in likes

LikersOf(v) == {u \in Users : <<v, u>> \in likes}

TablesType ==
    /\ likes \subseteq Videos \X Users
    /\ likesCount \in [Videos -> Nat]
    /\ popularity \in [Videos -> Nat]

BrokerType ==
    /\ likeQueue \subseteq Event
    /\ inbox \in [Workers -> Seq(Event)]
    /\ step \in [Workers -> {"row", "count", "load", "save", "pop", "ack"}]

RequestType ==
    /\ rpc \in [Clients -> {"idle", "like", "heat", "tx", "hot", "load",
                           "save"}]
    /\ call \in [Clients -> Call \cup {NoCall}]
    /\ sent \in [Clients -> SUBSET {"mysql", "redis"}]

RedisType ==
    /\ loaded \in [Clients \cup Workers -> Entry]
    /\ view \in [Videos -> Entry]
    /\ copies \in [Videos -> SUBSET Copy]
    /\ heat \in [Videos -> Int]

HistoryType ==
    /\ calls \in 0..MaxCalls
    /\ failures \in 0..MaxFailures
    /\ published \in Nat
    /\ lost \in [Videos -> Int]
    /\ clamped \in [Videos -> Nat]
    /\ latest \in [Videos \X Users -> Event \cup {NoEvent}]
    /\ reordered \subseteq Videos \X Users
    /\ stale \in [Videos -> BOOLEAN]

TypeOK == TablesType /\ BrokerType /\ RequestType /\ RedisType /\ HistoryType

\* A video is published with zero counters; its feed item, saved by
\* saveFeedReadModel, may have expired since.
Init ==
    /\ likes = {}
    /\ likesCount = [v \in Videos |-> 0]
    /\ popularity = [v \in Videos |-> 0]
    /\ likeQueue = {}
    /\ inbox = [w \in Workers |-> <<>>]
    /\ step = [w \in Workers |-> "row"]
    /\ rpc = [c \in Clients |-> "idle"]
    /\ call = [c \in Clients |-> NoCall]
    /\ sent = [c \in Clients |-> {}]
    /\ loaded = [a \in Clients \cup Workers |-> NoEntry]
    /\ view \in [Videos -> IF RedisUp THEN {NoEntry, 0} ELSE {NoEntry}]
    /\ copies = [v \in Videos |-> {}]
    /\ heat = [v \in Videos |-> 0]
    /\ calls = 0
    /\ published = 0
    /\ failures = 0
    /\ lost = [v \in Videos |-> 0]
    /\ clamped = [v \in Videos |-> 0]
    /\ latest = [p \in Videos \X Users |-> NoEvent]
    /\ reordered = {}
    /\ stale = [v \in Videos |-> FALSE]

Fail == /\ failures < MaxFailures
        /\ failures' = failures + 1

\* A statement changes videos.likes_count of v: the copies that readers hold
\* do not have the change.
Overtake(v) ==
    copies' = [copies EXCEPT ![v] = {[k EXCEPT !.behind = @ + 1] : k \in @}]

-----------------------------------------------------------------------------
(* LikeService.Like and LikeService.Unlike, one action per call they make. *)

Return(c) == /\ rpc' = [rpc EXCEPT ![c] = "idle"]
             /\ call' = [call EXCEPT ![c] = NoCall]
             /\ sent' = [sent EXCEPT ![c] = {}]

\* The checks.  A missing video, and a row that already is what the request
\* asks for, return an error and change nothing: such a request is no step.
\* What is read here is not read again before the message is published.
Begin(c) ==
    /\ rpc[c] = "idle"
    /\ calls < MaxCalls
    /\ \E act \in Acts, u \in Users, v \in Videos :
          /\ IsExist(v)
          /\ IsLiked(v, u) <=> act = "unlike"
          /\ call' = [call EXCEPT ![c] = [act |-> act, user |-> u,
                                          video |-> v]]
    /\ rpc' = [rpc EXCEPT ![c] = "like"]
    /\ calls' = calls + 1
    /\ UNCHANGED <<tables, broker, sent, redis, failures, history, order>>

\* likeMQ.Like, likeMQ.Unlike.
PublishLike(c) ==
    /\ rpc[c] = "like"
    /\ \E outcome \in LikePublish :
          /\ IF outcome = "queued"
             THEN LET k == call[c]
                      p == <<k.video, k.user>>
                      e == [id |-> published, act |-> k.act,
                            user |-> k.user, video |-> k.video]
                  IN  /\ likeQueue' = likeQueue \cup {e}
                      /\ published' = published + 1
                      /\ latest' = [latest EXCEPT ![p] = e]
                      /\ reordered' = reordered \ {p}
             ELSE UNCHANGED <<likeQueue, order>>
          /\ sent' = [sent EXCEPT ![c] = IF outcome = "refused"
                                         THEN @ ELSE @ \cup {"mysql"}]
    /\ rpc' = [rpc EXCEPT ![c] = "heat"]
    /\ UNCHANGED <<tables, inbox, step, call, redis, calls, failures, history>>

\* popularityMQ.Update; with both publications accepted the request is done.
PublishHeat(c) ==
    /\ rpc[c] = "heat"
    /\ \E outcome \in HeatPublish :
          /\ heat' = IF outcome # "queued" THEN heat
                     ELSE [heat EXCEPT ![call[c].video] = @ + Delta(call[c].act)]
          /\ IF outcome # "refused" /\ "mysql" \in sent[c]
             THEN Return(c)
             ELSE /\ sent' = [sent EXCEPT ![c] = IF outcome = "refused"
                                                 THEN @ ELSE @ \cup {"redis"}]
                  /\ rpc' = [rpc EXCEPT ![c] = IF "mysql" \in sent[c]
                                               THEN "hot" ELSE "tx"]
                  /\ call' = call
    /\ UNCHANGED <<tables, broker, loaded, item, calls, failures, history,
                   order>>

\* Mutant of LikeTx: the duplicate-key error is swallowed, so that the handler
\* goes on to the ranking as if it had inserted a row.
LikeTx_Mut(c) ==
    /\ rpc[c] = "tx"
    /\ call[c].act = "like"
    /\ LET v == call[c].video
           fresh == ~ IsLiked(v, call[c].user)
       IN  /\ likes' = likes \cup {<<v, call[c].user>>}
           /\ likesCount' = [likesCount EXCEPT ![v] = IF fresh THEN @ + 1 ELSE @]
           /\ popularity' = [popularity EXCEPT ![v] = IF fresh THEN @ + 1 ELSE @]
           /\ IF fresh THEN Overtake(v) ELSE UNCHANGED copies
    /\ rpc' = [rpc EXCEPT ![c] = "hot"]
    /\ UNCHANGED <<broker, call, sent, loaded, view, stale, heat, calls, failures,
                   history, order>>

\* The fallback transaction of Like: the unique key refuses a second row.
LikeTx(c) ==
    /\ rpc[c] = "tx"
    /\ call[c].act = "like"
    /\ LET v == call[c].video
           u == call[c].user
       IN  IF IsLiked(v, u)
           THEN /\ Return(c)
                /\ UNCHANGED <<tables, copies>>
           ELSE /\ likes' = likes \cup {<<v, u>>}
                /\ likesCount' = [likesCount EXCEPT ![v] = @ + 1]
                /\ popularity' = [popularity EXCEPT ![v] = @ + 1]
                /\ Overtake(v)
                /\ rpc' = [rpc EXCEPT ![c] = "hot"]
                /\ UNCHANGED <<call, sent>>
    /\ UNCHANGED <<broker, loaded, view, stale, heat, calls, failures, history,
                   order>>

\* Mutant of UnlikeTx: RowsAffected is not looked at.
UnlikeTx_Mut(c) ==
    /\ rpc[c] = "tx"
    /\ call[c].act = "unlike"
    /\ LET v == call[c].video
       IN  /\ likes' = likes \ {<<v, call[c].user>>}
           /\ likesCount' = [likesCount EXCEPT ![v] = Clamp(@ - 1)]
           /\ popularity' = [popularity EXCEPT ![v] = Clamp(@ - 1)]
           /\ Overtake(v)
    /\ rpc' = [rpc EXCEPT ![c] = "hot"]
    /\ UNCHANGED <<broker, call, sent, loaded, view, stale, heat, calls, failures,
                   history, order>>

\* The fallback transaction of Unlike: no row deleted is an error.
UnlikeTx(c) ==
    /\ rpc[c] = "tx"
    /\ call[c].act = "unlike"
    /\ LET v == call[c].video
           u == call[c].user
       IN  IF ~ IsLiked(v, u)
           THEN /\ Return(c)
                /\ UNCHANGED <<tables, copies, clamped>>
           ELSE /\ likes' = likes \ {<<v, u>>}
                /\ likesCount' = [likesCount EXCEPT ![v] = Clamp(@ - 1)]
                /\ popularity' = [popularity EXCEPT ![v] = Clamp(@ - 1)]
                /\ clamped' = [clamped EXCEPT ![v] =
                                  IF likesCount[v] = 0 THEN @ + 1 ELSE @]
                /\ Overtake(v)
                /\ rpc' = [rpc EXCEPT ![c] = "hot"]
                /\ UNCHANGED <<call, sent>>
    /\ UNCHANGED <<broker, loaded, view, stale, heat, calls, failures, lost, order>>

\* UpdatePopularityCache when the popularity event was refused; its errors
\* are ignored.  The feed item follows only after a direct write.
BumpHot(c) ==
    /\ rpc[c] = "hot"
    /\ LET v == call[c].video
       IN  \/ /\ heat' = IF RedisUp /\ "redis" \notin sent[c]
                         THEN [heat EXCEPT ![v] = @ + Delta(call[c].act)]
                         ELSE heat
              /\ UNCHANGED failures
           \/ /\ RedisUp /\ "redis" \notin sent[c]
              /\ Fail
              /\ UNCHANGED heat
    /\ IF RedisUp /\ "mysql" \notin sent[c]
       THEN /\ rpc' = [rpc EXCEPT ![c] = "load"]
            /\ UNCHANGED <<call, sent>>
       ELSE Return(c)
    /\ UNCHANGED <<tables, broker, loaded, item, calls, history, order>>

\* The transaction fails and is rolled back, the API process dies, or the
\* request's context ends: nothing later in the handler happens.
RequestFails(c) ==
    /\ rpc[c] # "idle"
    /\ Fail
    /\ Return(c)
    /\ loaded' = [loaded EXCEPT ![c] = NoEntry]
    /\ UNCHANGED <<tables, broker, item, heat, calls, history, order>>

-----------------------------------------------------------------------------
(* readmodel.ChangeFeedVideoLikesCount: load, modify, save, as two Redis   *)
(* commands.  A miss and an error are both "return err": nothing is saved. *)

LoadItem(a, v) == loaded' = [loaded EXCEPT ![a] = view[v]]

\* Mutant of SaveItem: the item is saved as it was loaded.
SaveItem_Mut(a, v, act) ==
    /\ view' = [view EXCEPT ![v] = loaded[a]]
    /\ loaded' = [loaded EXCEPT ![a] = NoEntry]

SaveItem(a, v, act) ==
    /\ view' = [view EXCEPT ![v] = Clamp(loaded[a] + Delta(act))]
    /\ loaded' = [loaded EXCEPT ![a] = NoEntry]

ClientLoads(c) ==
    /\ rpc[c] = "load"
    /\ IF view[call[c].video] = NoEntry
       THEN /\ Return(c)
            /\ UNCHANGED loaded
       ELSE /\ LoadItem(c, call[c].video)
            /\ rpc' = [rpc EXCEPT ![c] = "save"]
            /\ UNCHANGED <<call, sent>>
    /\ UNCHANGED <<tables, broker, item, heat, calls, failures, history, order>>

ClientSaves(c) ==
    /\ rpc[c] = "save"
    /\ SaveItem(c, call[c].video, call[c].act)
    /\ Return(c)
    /\ UNCHANGED <<tables, broker, copies, stale, heat, calls, failures, history,
                   order>>

-----------------------------------------------------------------------------
(* LikeWorker.                                                             *)

Job(w) == Head(inbox[w])

\* The x-death count.  Only dead-lettering sets the header, and no consumer
\* rejects without requeue, so a redelivered message still carries none.
GetRetryCount(m) == 0

MaxRetryCount == 3

Busy(w, s) == inbox[w] # <<>> /\ step[w] = s

Goto(w, s) == step' = [step EXCEPT ![w] = s]

\* Mutant of Deliver: any ready message may come first.
Deliver_Mut(w) ==
    /\ Len(inbox[w]) < Prefetch
    /\ \E m \in likeQueue :
          /\ likeQueue' = likeQueue \ {m}
          /\ inbox' = [inbox EXCEPT ![w] = Append(@, m)]
    /\ UNCHANGED <<tables, step, request, redis, calls, failures, history, order>>

\* The broker pushes the oldest ready message while the prefetch allows it.
Deliver(w) ==
    /\ Len(inbox[w]) < Prefetch
    /\ \E m \in likeQueue :
          /\ \A n \in likeQueue : m.id <= n.id
          /\ likeQueue' = likeQueue \ {m}
          /\ inbox' = [inbox EXCEPT ![w] = Append(@, m)]
    /\ UNCHANGED <<tables, step, request, redis, calls, failures, history,
                   order>>

\* Mutant of ApplyRow: "created" and "deleted" are ignored.
ApplyRow_Mut(w) ==
    /\ Busy(w, "row")
    /\ LET m == Job(w)
       IN  likes' = IF m.act = "like" THEN likes \cup {<<m.video, m.user>>}
                                      ELSE likes \ {<<m.video, m.user>>}
    /\ Goto(w, "count")
    /\ UNCHANGED <<likesCount, popularity, likeQueue, inbox, request, redis,
                   calls, failures, history, order>>

\* IsExist, then LikeIgnoreDuplicate or DeleteByVideoAndAccount.  An event
\* that finds nothing to change is done.
ApplyRow(w) ==
    /\ Busy(w, "row")
    /\ LET m == Job(w)
       IN  IF IsExist(m.video) /\ (IsLiked(m.video, m.user) <=> m.act = "unlike")
           THEN /\ likes' = IF m.act = "like" THEN likes \cup {<<m.video, m.user>>}
                                              ELSE likes \ {<<m.video, m.user>>}
                /\ Goto(w, "count")
           ELSE /\ Goto(w, "ack")
                /\ UNCHANGED likes
    /\ UNCHANGED <<likesCount, popularity, likeQueue, inbox, request, redis,
                   calls, failures, history, order>>

\* ChangeLikesCount.
ApplyCount(w) ==
    /\ Busy(w, "count")
    /\ LET m == Job(w)
       IN  /\ likesCount' = [likesCount EXCEPT ![m.video] = Clamp(@ + Delta(m.act))]
           /\ clamped' = [clamped EXCEPT ![m.video] =
                             IF m.act = "unlike" /\ likesCount[m.video] = 0
                             THEN @ + 1 ELSE @]
           /\ Overtake(m.video)
    /\ Goto(w, IF RedisUp THEN "load" ELSE "pop")
    /\ UNCHANGED <<likes, popularity, likeQueue, inbox, request, loaded, view,
                   stale, heat, calls, failures, lost, order>>

WorkerLoads(w) ==
    /\ Busy(w, "load")
    /\ \/ /\ IF view[Job(w).video] = NoEntry
             THEN Goto(w, "pop") /\ UNCHANGED loaded
             ELSE Goto(w, "save") /\ LoadItem(w, Job(w).video)
          /\ UNCHANGED failures
       \/ /\ Fail
          /\ Goto(w, "pop")
          /\ UNCHANGED loaded
    /\ UNCHANGED <<tables, likeQueue, inbox, request, item, heat, calls, history,
                   order>>

WorkerSaves(w) ==
    /\ Busy(w, "save")
    /\ \/ /\ SaveItem(w, Job(w).video, Job(w).act)
          /\ UNCHANGED failures
       \/ /\ Fail
          /\ loaded' = [loaded EXCEPT ![w] = NoEntry]
          /\ UNCHANGED view
    /\ Goto(w, "pop")
    /\ UNCHANGED <<tables, likeQueue, inbox, request, copies, stale, heat, calls,
                   history, order>>

\* ChangePopularity.
ApplyPopularity(w) ==
    /\ Busy(w, "pop")
    /\ LET m == Job(w)
       IN  popularity' = [popularity EXCEPT ![m.video] = Clamp(@ + Delta(m.act))]
    /\ Goto(w, "ack")
    /\ UNCHANGED <<likes, likesCount, likeQueue, inbox, request, redis, calls,
                   failures, history, order>>

\* Mutant of Ack: the delivery is not acknowledged and comes round again.
Ack_Mut(w) ==
    /\ Busy(w, "ack")
    /\ Goto(w, "row")
    /\ UNCHANGED <<tables, likeQueue, inbox, request, redis, calls, failures,
                   history, order>>

\* handleDelivery after process returned nil.
Ack(w) ==
    /\ Busy(w, "ack")
    /\ inbox' = [inbox EXCEPT ![w] = Tail(@)]
    /\ Goto(w, "row")
    /\ UNCHANGED <<tables, likeQueue, request, redis, calls, failures, history,
                   order>>

\* The change of likes_count that w still owes for the row it has changed.
Forfeit(w) ==
    lost' = IF step[w] = "count"
            THEN [lost EXCEPT ![Job(w).video] = @ + Delta(Job(w).act)]
            ELSE lost

\* The events in back go back to their places in the queue; the broker does
\* not put them before those that workers hold already.
PutBack(back) ==
    reordered' =
        {p \in Videos \X Users :
            /\ latest[p] \notin back
            /\ \/ p \in reordered
               \/ /\ \E m \in back : m.video = p[1] /\ m.user = p[2]
                  /\ \E x \in Workers, i \in 1 .. Prefetch :
                        i <= Len(inbox[x]) /\ inbox[x][i] = latest[p]}

\* handleDelivery after a MySQL statement failed: Nack with requeue, which
\* puts the message back in its place, or, at the retry limit, Ack.  What
\* the earlier statements did stays done.
StepFails(w) ==
    /\ inbox[w] # <<>>
    /\ step[w] \in {"row", "count", "pop"}
    /\ Fail
    /\ likeQueue' = IF GetRetryCount(Job(w)) >= MaxRetryCount
                    THEN likeQueue ELSE likeQueue \cup {Job(w)}
    /\ inbox' = [inbox EXCEPT ![w] = Tail(@)]
    /\ Goto(w, "row")
    /\ Forfeit(w)
    /\ PutBack({Job(w)})
    /\ UNCHANGED <<tables, request, redis, calls, clamped, published, latest>>

\* The worker process stops: its channel closes, the broker requeues every
\* unacknowledged delivery, and the restarted process begins again.
Crash(w) ==
    /\ inbox[w] # <<>>
    /\ Fail
    /\ likeQueue' = likeQueue \cup {inbox[w][i] : i \in DOMAIN inbox[w]}
    /\ inbox' = [inbox EXCEPT ![w] = <<>>]
    /\ Goto(w, "row")
    /\ loaded' = [loaded EXCEPT ![w] = NoEntry]
    /\ Forfeit(w)
    /\ PutBack({inbox[w][i] : i \in DOMAIN inbox[w]})
    /\ UNCHANGED <<tables, request, item, heat, calls, clamped, published, latest>>

-----------------------------------------------------------------------------
(* The other writer of the feed item: FeedService saves what it read from   *)
(* MySQL, whether an item is there or not.                                 *)

\* A page read from MySQL (buildFeedVideos), or the row of an item that was
\* missed (GetVideoByIDs).
FillReads(v) ==
    /\ RedisUp
    /\ v \in Stored
    /\ Cardinality(copies[v]) < MaxCopies
    /\ copies' = [copies EXCEPT ![v] = @ \cup {[count |-> likesCount[v], behind |-> 0]}]
    /\ UNCHANGED <<tables, broker, request, loaded, view, stale, heat, calls,
                   failures, history, order>>

\* The worker that copies a change of v is at s.
Copier(v, s) == \E w \in Workers : Busy(w, s) /\ Job(w).video = v

\* setFeedReadModel's goroutine.  The copy is right if it lacks just what the
\* worker has still to load the item for; what the worker has loaded it will
\* save over this.  The copy may stay: GetVideoByIDs keeps rows in the process
\* and, for an hour, under video:entity, and fills from them as well.
FillSaves(v) ==
    /\ \E k \in copies[v] :
          /\ view' = [view EXCEPT ![v] = k.count]
          /\ stale' = [stale EXCEPT ![v] =
                IF Copier(v, "save") THEN @
                ELSE k.behind # (IF Copier(v, "load") THEN 1 ELSE 0)]
    /\ UNCHANGED <<tables, broker, request, loaded, copies, heat, calls, failures,
                   history, order>>

\* The goroutine is done, its SET failed, or the row's key has expired.
CopyEnds(v) ==
    /\ \E k \in copies[v] : copies' = [copies EXCEPT ![v] = @ \ {k}]
    /\ UNCHANGED <<tables, broker, request, loaded, view, stale, heat, calls,
                   failures, history, order>>

\* The item's TTL ends; who has loaded it still saves it.
Expire(v) ==
    /\ view[v] # NoEntry
    /\ view' = [view EXCEPT ![v] = NoEntry]
    /\ stale' = [stale EXCEPT ![v] = @ /\ Copier(v, "save")]
    /\ UNCHANGED <<tables, broker, request, loaded, copies, heat, calls,
                   failures, history, order>>

-----------------------------------------------------------------------------
Request(c) == \/ Begin(c) \/ PublishLike(c) \/ PublishHeat(c)
              \/ LikeTx(c) \/ UnlikeTx(c) \/ BumpHot(c)
              \/ ClientLoads(c) \/ ClientSaves(c) \/ RequestFails(c)

Worker(w) == \/ Deliver(w) \/ ApplyRow(w) \/ ApplyCount(w)
             \/ WorkerLoads(w) \/ WorkerSaves(w) \/ ApplyPopularity(w)
             \/ Ack(w) \/ StepFails(w) \/ Crash(w)

FeedItem(v) == FillReads(v) \/ FillSaves(v) \/ CopyEnds(v) \/ Expire(v)

Next == \/ \E c \in Clients : Request(c)
        \/ \E w \in Workers : Worker(w)
        \/ \E v \in Videos : FeedItem(v)

Spec == Init /\ [][Next]_vars

\* The consumer loop of Run keeps taking deliveries and the broker keeps
\* pushing them.  Nothing is assumed of clients, failures or expiry.
Progress(w) == \/ Deliver(w) \/ ApplyRow(w) \/ ApplyCount(w) \/ WorkerLoads(w)
               \/ WorkerSaves(w) \/ ApplyPopularity(w) \/ Ack(w)

FairSpec == Spec /\ \A w \in Workers : WF_vars(Progress(w))

-----------------------------------------------------------------------------
(* Properties.                                                             *)

\* The workers between a row they changed for v and the counter statement.
Owing(v, act) == {w \in Workers : /\ Busy(w, "count")
                                  /\ Job(w).video = v
                                  /\ Job(w).act = act}

\* likes_count is the number of rows, less what workers still owe or failed to
\* add, plus what they still owe or failed to take away and what GREATEST
\* swallowed: retries, duplicates, crashes and the fallback's transactions
\* never make it wrong in any other way.
LikesAccounting ==
    \A v \in Videos :
        likesCount[v] = Cardinality(LikersOf(v))
                        - Cardinality(Owing(v, "like"))
                        + Cardinality(Owing(v, "unlike"))
                        - lost[v] + clamped[v]

\* As long as no statement failed and no process died, the published counter
\* never falls short of the rows, increments still owed apart: concurrent
\* workers and fallback transactions can only leave it too high.
NeverUndercounts ==
    failures = 0 =>
        \A v \in Videos : likesCount[v] + Cardinality(Owing(v, "like"))
                             >= Cardinality(LikersOf(v))

AtRest == /\ \A c \in Clients : rpc[c] = "idle"
          /\ likeQueue = {}
          /\ \A w \in Workers : inbox[w] = <<>>

\* With one worker and no refused publication, once everything is consumed
\* both counters equal the number of rows, however often a row was asked for
\* twice because the check read it before the worker wrote it.
SettledCountsExact ==
    AtRest => \A v \in Videos : /\ likesCount[v] = Cardinality(LikersOf(v))
                                /\ popularity[v] = Cardinality(LikersOf(v))

\* Once everything is consumed, the row is what the last event queued about
\* the pair asked for, however many deliveries a worker holds: unless an older
\* one of the pair failed, and went back to the queue, while the worker held
\* that last one.
LastEventWins ==
    AtRest => \A v \in Videos, u \in Users :
                 <<v, u>> \notin reordered =>
                     (IsLiked(v, u) <=> latest[<<v, u>>].act = "like")

\* The item is changed by load, modify and save, expires, and is written by
\* readers of the row as well; yet it ends up equal to the column it copies,
\* unless a reader saved a count that lacked a change the worker had copied,
\* or had one it was about to copy, and nobody saved a right one since; or a
\* request has taken its fallback, which loads and saves the item beside others.
FeedItemFollows ==
    (AtRest /\ published = calls) =>
        \A v \in Videos : view[v] # NoEntry /\ ~stale[v] => view[v] = likesCount[v]

\* With the broker down, so that every request takes both fallbacks, the
\* changes handed to the ranking add up to the rows: a request whose
\* transaction finds nothing to do returns before it touches the ranking.
HeatFollowsLikes ==
    (AtRest /\ published = 0) => \A v \in Videos : heat[v] = Cardinality(LikersOf(v))

Pending(i) == \/ \E m \in likeQueue : m.id = i
              \/ \E w \in Workers :
                    \E k \in DOMAIN inbox[w] : inbox[w][k].id = i

\* Every like event the broker accepted is eventually acknowledged, through
\* crashes and requeues, as long as these are finitely many.
EventsLand == \A i \in 0..MaxCalls : Pending(i) ~> ~ Pending(i)

-----------------------------------------------------------------------------
(* What LikesAccounting and NeverUndercounts need to be inductive.         *)

RequestsHaveCalls == \A c \in Clients : rpc[c] # "idle" => call[c] \in Call

StepsHaveJobs == \A w \in Workers : step[w] # "row" => inbox[w] # <<>>

LostByFailure == failures = 0 => \A v \in Videos : lost[v] = 0

TypeInv == TypeOK /\ RequestsHaveCalls /\ StepsHaveJobs

IInv == TypeInv /\ LikesAccounting /\ LostByFailure
=============================================================================
