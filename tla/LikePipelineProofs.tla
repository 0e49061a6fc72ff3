------------------------ MODULE LikePipelineProofs ------------------------
(***************************************************************************)
(* Theorems about LikePipeline for any sets of users, videos, clients and  *)
(* workers and any bounds.                                                 *)
(***************************************************************************)
EXTENDS LikePipeline, FiniteSetTheorems, SequenceTheorems, TLAPS

\* What Clamp (GREATEST) and Delta return.
LEMMA ClampType == \A n, d \in Int : Clamp(n - 1) \in Nat /\ Clamp(n + d) \in Nat
  BY DEF Clamp

LEMMA DeltaType == \A a \in Acts : Delta(a) \in Int
  BY DEF Delta

\* The program point of a worker that holds no delivery is "row", so a worker
\* at any other point works on the head of its inbox, an event.
LEMMA JobType ==
    ASSUME TypeInv, NEW w \in Workers, inbox[w] # <<>>
    PROVE  Job(w) \in Event /\ Tail(inbox[w]) \in Seq(Event)
  BY DEF TypeInv, TypeOK, BrokerType, Job

-----------------------------------------------------------------------------
LEMMA TypeInit == Init => TypeInv
  BY Bounds DEF Init, TypeInv, TypeOK, TablesType, BrokerType, RequestType,
     RedisType, HistoryType, RequestsHaveCalls, StepsHaveJobs, Entry, NoEntry,
     Acts

\* A step keeps the type of the variables it does not touch.
LEMMA Untouched ==
    ASSUME TypeInv
    PROVE  /\ UNCHANGED tables  => TablesType'
           /\ UNCHANGED broker  => BrokerType' /\ StepsHaveJobs'
           /\ UNCHANGED request => RequestType' /\ RequestsHaveCalls'
           /\ UNCHANGED redis   => RedisType'
  BY DEF TypeInv, TypeOK, TablesType, BrokerType, RequestType, RedisType,
     StepsHaveJobs, RequestsHaveCalls, tables, broker, request, redis, item

\* Nor do copies, when they come to lack a change.
LEMMA OvertakeType ==
    ASSUME TypeInv, NEW v, Overtake(v)
    PROVE  copies' \in [Videos -> SUBSET Copy]
<1>1. copies \in [Videos -> SUBSET Copy]
  BY DEF TypeInv, TypeOK, RedisType
<1>2. ASSUME NEW k \in Copy PROVE [k EXCEPT !.behind = @ + 1] \in Copy
  BY DEF Copy
<1>3. ASSUME v \in Videos PROVE {[k EXCEPT !.behind = @ + 1] : k \in copies[v]} \in SUBSET Copy
  BY <1>1, <1>2, <1>3
<1> QED BY <1>1, <1>3 DEF Overtake

\* A request that is not idle has arguments.
LEMMA CallType ==
    ASSUME TypeInv, NEW c \in Clients, rpc[c] # "idle"
    PROVE  /\ call[c] \in Call
           /\ call[c].act \in Acts
           /\ call[c].user \in Users
           /\ call[c].video \in Videos
           /\ Delta(call[c].act) \in Int
  BY DeltaType DEF TypeInv, RequestsHaveCalls, Call

\* Every step of a request keeps the types.
LEMMA RequestTypes ==
    ASSUME TypeInv, NEW c \in Clients, Request(c)
    PROVE  TypeInv'
<1> USE Bounds, Untouched DEF TypeInv, TypeOK, Return, Fail
<1>1. ASSUME Begin(c) PROVE TypeInv'
  <2> USE <1>1 DEF Begin
  <2>1. TablesType' /\ BrokerType' /\ StepsHaveJobs' /\ RedisType'
    OBVIOUS
  <2>2. RequestType' /\ RequestsHaveCalls'
    BY DEF RequestType, RequestsHaveCalls, Acts, Call
  <2>3. HistoryType'
    BY DEF HistoryType, history, order, redis, item
  <2> QED BY <2>1, <2>2, <2>3
<1>2. ASSUME PublishLike(c) PROVE TypeInv'
  <2> USE <1>2, CallType DEF PublishLike
  <2>1. TablesType' /\ RedisType'
    OBVIOUS
  <2>2. BrokerType' /\ StepsHaveJobs'
    <3>1. published \in Nat
      BY DEF HistoryType
    <3>2. [id |-> published, act |-> call[c].act, user |-> call[c].user,
           video |-> call[c].video] \in Event
      BY <3>1 DEF Event
    <3>3. likeQueue' \subseteq Event
      BY <3>2 DEF BrokerType
    <3> QED BY <3>3 DEF BrokerType, StepsHaveJobs
  <2>3. RequestType' /\ RequestsHaveCalls'
    BY DEF RequestType, RequestsHaveCalls
  <2>4. CASE UNCHANGED order
    BY <2>1, <2>2, <2>3, <2>4 DEF HistoryType, history, order, redis, item
  <2>5. CASE \E e \in Event : /\ published' = published + 1
                             /\ latest' = [latest EXCEPT ![<<e.video, e.user>>] = e]
                             /\ reordered' = reordered \ {<<e.video, e.user>>}
    <3>1. PICK e \in Event : /\ published' = published + 1
                            /\ latest' = [latest EXCEPT ![<<e.video, e.user>>] = e]
                            /\ reordered' = reordered \ {<<e.video, e.user>>}
      BY <2>5
    <3>2. latest' \in [Videos \X Users -> Event \cup {NoEvent}]
      BY <3>1 DEF HistoryType
    <3>3. published' \in Nat /\ reordered' \subseteq Videos \X Users
      BY <3>1 DEF HistoryType
    <3> QED BY <2>1, <2>2, <2>3, <3>2, <3>3 DEF HistoryType, history, redis, item
  <2>6. published \in Nat
    BY DEF HistoryType
  <2>7. [id |-> published, act |-> call[c].act, user |-> call[c].user,
         video |-> call[c].video] \in Event
    BY <2>6 DEF Event
  <2>8. CASE ~UNCHANGED order
    <3>1. PICK e \in Event : /\ e = [id |-> published, act |-> call[c].act,
                                     user |-> call[c].user, video |-> call[c].video]
                            /\ published' = published + 1
                            /\ latest' = [latest EXCEPT ![<<e.video, e.user>>] = e]
                            /\ reordered' = reordered \ {<<e.video, e.user>>}
      BY <2>7, <2>8
    <3> QED BY <2>5, <3>1
  <2> QED BY <2>4, <2>8
<1>3. ASSUME PublishHeat(c) PROVE TypeInv'
  <2> USE <1>3, CallType DEF PublishHeat
  <2>1. TablesType' /\ BrokerType' /\ StepsHaveJobs'
    OBVIOUS
  <2>2. RequestType' /\ RequestsHaveCalls'
    BY DEF RequestType, RequestsHaveCalls
  <2>3. RedisType'
    BY DEF RedisType, item
  <2>4. HistoryType'
    BY DEF HistoryType, history, order, redis, item
  <2> QED BY <2>1, <2>2, <2>3, <2>4
<1>4. ASSUME LikeTx(c) PROVE TypeInv'
  <2> USE <1>4, CallType DEF LikeTx
  <2>1. BrokerType' /\ StepsHaveJobs'
    OBVIOUS
  <2>5. RedisType'
    BY OvertakeType DEF RedisType, item
  <2>2. TablesType'
    BY DEF TablesType, tables
  <2>3. RequestType' /\ RequestsHaveCalls'
    BY DEF RequestType, RequestsHaveCalls
  <2>4. HistoryType'
    BY DEF HistoryType, history, order, redis, item
  <2> QED BY <2>1, <2>2, <2>3, <2>4, <2>5
<1>5. ASSUME UnlikeTx(c) PROVE TypeInv'
  <2> USE <1>5, CallType DEF UnlikeTx
  <2>1. BrokerType' /\ StepsHaveJobs'
    OBVIOUS
  <2>5. RedisType'
    BY OvertakeType DEF RedisType, item
  <2>2. TablesType'
    BY ClampType DEF TablesType, tables
  <2>3. RequestType' /\ RequestsHaveCalls'
    BY DEF RequestType, RequestsHaveCalls
  <2>4. HistoryType'
    BY DEF HistoryType, order, redis, item, tables
  <2> QED BY <2>1, <2>2, <2>3, <2>4, <2>5
<1>6. ASSUME BumpHot(c) PROVE TypeInv'
  <2> USE <1>6, CallType DEF BumpHot
  <2>1. TablesType' /\ BrokerType' /\ StepsHaveJobs'
    OBVIOUS
  <2>2. RequestType' /\ RequestsHaveCalls'
    BY DEF RequestType, RequestsHaveCalls
  <2>3. RedisType'
    BY DEF RedisType, item
  <2>4. HistoryType'
    BY DEF HistoryType, history, order, redis, item
  <2> QED BY <2>1, <2>2, <2>3, <2>4
<1>7. ASSUME ClientLoads(c) PROVE TypeInv'
  <2> USE <1>7, CallType DEF ClientLoads
  <2>1. TablesType' /\ BrokerType' /\ StepsHaveJobs'
    OBVIOUS
  <2>2. RequestType' /\ RequestsHaveCalls'
    BY DEF RequestType, RequestsHaveCalls
  <2>3. RedisType'
    BY DEF RedisType, item, LoadItem
  <2>4. HistoryType'
    BY DEF HistoryType, history, order, redis, item
  <2> QED BY <2>1, <2>2, <2>3, <2>4
<1>8. ASSUME ClientSaves(c) PROVE TypeInv'
  <2> USE <1>8, CallType DEF ClientSaves
  <2>1. TablesType' /\ BrokerType' /\ StepsHaveJobs'
    OBVIOUS
  <2>2. RequestType' /\ RequestsHaveCalls'
    BY DEF RequestType, RequestsHaveCalls
  <2>3. RedisType'
    BY ClampType DEF RedisType, item, SaveItem, Entry, NoEntry
  <2>4. HistoryType'
    BY DEF HistoryType, history, order, redis, item
  <2> QED BY <2>1, <2>2, <2>3, <2>4
<1>9. ASSUME RequestFails(c) PROVE TypeInv'
  <2> USE <1>9 DEF RequestFails
  <2>1. TablesType' /\ BrokerType' /\ StepsHaveJobs'
    OBVIOUS
  <2>2. RequestType' /\ RequestsHaveCalls'
    BY DEF RequestType, RequestsHaveCalls
  <2>3. RedisType'
    BY DEF RedisType, item, Entry
  <2>4. HistoryType'
    BY DEF HistoryType, history, order, redis, item
  <2> QED BY <2>1, <2>2, <2>3, <2>4
<1> QED
  BY <1>1, <1>2, <1>3, <1>4, <1>5, <1>6, <1>7, <1>8, <1>9 DEF Request

\* Every step of a worker, its failures and crashes included, keeps the types.
LEMMA WorkerTypes ==
    ASSUME TypeInv, NEW w \in Workers, Worker(w)
    PROVE  TypeInv'
<1> USE Bounds, Untouched, JobType DEF TypeInv, TypeOK, Goto, Busy, Fail
<1> DEFINE m == Job(w)
<1>0. ASSUME inbox[w] # <<>>
      PROVE  /\ m.video \in Videos /\ m.user \in Users
             /\ m.act \in Acts /\ Delta(m.act) \in Int
  BY <1>0, DeltaType DEF Event
<1>1. ASSUME Deliver(w) PROVE TypeInv'
  <2> USE <1>1 DEF Deliver
  <2>1. TablesType' /\ RequestType' /\ RequestsHaveCalls' /\ RedisType'
    OBVIOUS
  <2>2. BrokerType' /\ StepsHaveJobs'
    BY DEF BrokerType, StepsHaveJobs
  <2>3. HistoryType'
    BY DEF HistoryType, history, order, redis, item
  <2> QED BY <2>1, <2>2, <2>3
<1>2. ASSUME ApplyRow(w) PROVE TypeInv'
  <2> USE <1>2, <1>0 DEF ApplyRow
  <2>1. RequestType' /\ RequestsHaveCalls' /\ RedisType'
    OBVIOUS
  <2>2. BrokerType' /\ StepsHaveJobs'
    BY DEF BrokerType, StepsHaveJobs
  <2>3. TablesType'
    BY DEF TablesType
  <2>4. HistoryType'
    BY DEF HistoryType, history, order, redis, item
  <2> QED BY <2>1, <2>2, <2>3, <2>4
<1>3. ASSUME ApplyCount(w) PROVE TypeInv'
  <2> USE <1>3, <1>0 DEF ApplyCount
  <2>1. RequestType' /\ RequestsHaveCalls'
    OBVIOUS
  <2>5. RedisType'
    BY OvertakeType DEF RedisType, item
  <2>2. BrokerType' /\ StepsHaveJobs'
    BY DEF BrokerType, StepsHaveJobs
  <2>3. TablesType'
    <3>1. m.video \in Videos /\ Delta(m.act) \in Int
      OBVIOUS
    <3>2. likesCount[m.video] \in Int
      BY <3>1 DEF TablesType
    <3>3. Clamp(likesCount[m.video] + Delta(m.act)) \in Nat
      BY <3>1, <3>2, ClampType
    <3> QED BY <3>3 DEF TablesType
  <2>4. HistoryType'
    BY DEF HistoryType, order
  <2> QED BY <2>1, <2>2, <2>3, <2>4, <2>5
<1>4. ASSUME WorkerLoads(w) PROVE TypeInv'
  <2> USE <1>4, <1>0 DEF WorkerLoads
  <2>1. TablesType' /\ RequestType' /\ RequestsHaveCalls'
    OBVIOUS
  <2>2. BrokerType' /\ StepsHaveJobs'
    BY DEF BrokerType, StepsHaveJobs
  <2>3. RedisType'
    BY DEF RedisType, item, LoadItem
  <2>4. HistoryType'
    BY DEF HistoryType, history, order, redis, item
  <2> QED BY <2>1, <2>2, <2>3, <2>4
<1>5. ASSUME WorkerSaves(w) PROVE TypeInv'
  <2> USE <1>5, <1>0 DEF WorkerSaves
  <2>1. TablesType' /\ RequestType' /\ RequestsHaveCalls'
    OBVIOUS
  <2>2. BrokerType' /\ StepsHaveJobs'
    BY DEF BrokerType, StepsHaveJobs
  <2>3. RedisType'
    <3>1. m.video \in Videos /\ Delta(m.act) \in Int
      OBVIOUS
    <3>2. loaded[w] \in Int
      BY DEF RedisType, Entry, NoEntry
    <3>3. Clamp(loaded[w] + Delta(m.act)) \in Nat
      BY <3>1, <3>2, ClampType
    <3> QED BY <3>3 DEF RedisType, SaveItem, Entry, item
  <2>4. HistoryType'
    BY DEF HistoryType, history, order, redis, item
  <2> QED BY <2>1, <2>2, <2>3, <2>4
<1>6. ASSUME ApplyPopularity(w) PROVE TypeInv'
  <2> USE <1>6, <1>0 DEF ApplyPopularity
  <2>1. RequestType' /\ RequestsHaveCalls' /\ RedisType'
    OBVIOUS
  <2>2. BrokerType' /\ StepsHaveJobs'
    BY DEF BrokerType, StepsHaveJobs
  <2>3. TablesType'
    <3>1. m.video \in Videos /\ Delta(m.act) \in Int
      OBVIOUS
    <3>2. popularity[m.video] \in Int
      BY <3>1 DEF TablesType
    <3>3. Clamp(popularity[m.video] + Delta(m.act)) \in Nat
      BY <3>1, <3>2, ClampType
    <3> QED BY <3>3 DEF TablesType
  <2>4. HistoryType'
    BY DEF HistoryType, history, order, redis, item
  <2> QED BY <2>1, <2>2, <2>3, <2>4
<1>7. ASSUME Ack(w) PROVE TypeInv'
  <2> USE <1>7, <1>0 DEF Ack
  <2>1. TablesType' /\ RequestType' /\ RequestsHaveCalls' /\ RedisType'
    OBVIOUS
  <2>2. BrokerType' /\ StepsHaveJobs'
    BY DEF BrokerType, StepsHaveJobs
  <2>3. HistoryType'
    BY DEF HistoryType, history, order, redis, item
  <2> QED BY <2>1, <2>2, <2>3
<1>8. ASSUME StepFails(w) PROVE TypeInv'
  <2> USE <1>8, <1>0 DEF StepFails
  <2>1. TablesType' /\ RequestType' /\ RequestsHaveCalls' /\ RedisType'
    OBVIOUS
  <2>2. BrokerType' /\ StepsHaveJobs'
    BY DEF BrokerType, StepsHaveJobs
  <2>3. HistoryType'
    <3>1. lost' \in [Videos -> Int]
      <4>1. lost \in [Videos -> Int] /\ Delta(m.act) \in Int
        BY DEF HistoryType
      <4>2. lost' = lost \/ lost' = [lost EXCEPT ![m.video] = @ + Delta(m.act)]
        BY DEF Forfeit
      <4> QED BY <4>1, <4>2
    <3>2. reordered' \subseteq Videos \X Users
      BY DEF PutBack
    <3>3. failures' \in 0..MaxFailures
      BY DEF HistoryType
    <3> QED BY <3>1, <3>2, <3>3 DEF HistoryType, redis, item
  <2> QED BY <2>1, <2>2, <2>3
<1>9. ASSUME Crash(w) PROVE TypeInv'
  <2> USE <1>9, <1>0 DEF Crash
  <2>1. TablesType' /\ RequestType' /\ RequestsHaveCalls'
    OBVIOUS
  <2>2. BrokerType' /\ StepsHaveJobs'
    BY DEF BrokerType, StepsHaveJobs
  <2>3. RedisType'
    BY DEF RedisType, item, Entry
  <2>4. HistoryType'
    <3>1. lost' \in [Videos -> Int]
      <4>1. lost \in [Videos -> Int] /\ Delta(m.act) \in Int
        BY DEF HistoryType
      <4>2. lost' = lost \/ lost' = [lost EXCEPT ![m.video] = @ + Delta(m.act)]
        BY DEF Forfeit
      <4> QED BY <4>1, <4>2
    <3>2. reordered' \subseteq Videos \X Users
      BY DEF PutBack
    <3>3. failures' \in 0..MaxFailures
      BY DEF HistoryType
    <3> QED BY <3>1, <3>2, <3>3 DEF HistoryType, redis, item
  <2> QED BY <2>1, <2>2, <2>3, <2>4
<1> QED
  BY <1>1, <1>2, <1>3, <1>4, <1>5, <1>6, <1>7, <1>8, <1>9 DEF Worker

\* The feed item's other writer and its TTL keep the types.
LEMMA FeedItemTypes ==
    ASSUME TypeInv, NEW v \in Videos, FeedItem(v)
    PROVE  TypeInv'
<1> USE FeedItem(v) DEF FeedItem, FillReads, FillSaves, CopyEnds, Expire, TypeInv, TypeOK
<1>1. TablesType' /\ BrokerType' /\ StepsHaveJobs'
  BY Untouched
<1>2. RequestType' /\ RequestsHaveCalls'
  BY Untouched
<1>3. RedisType'
  BY DEF RedisType, TablesType, Entry, Copy
<1>4. HistoryType'
  <2>1. stale' \in [Videos -> BOOLEAN]
    BY DEF HistoryType
  <2> QED BY <2>1 DEF HistoryType, history, order
<1> QED BY <1>1, <1>2, <1>3, <1>4

LEMMA TypeStep == TypeInv /\ [Next]_vars => TypeInv'
<1> SUFFICES ASSUME TypeInv, [Next]_vars PROVE TypeInv'
  OBVIOUS
<1>1. CASE Next
  BY <1>1, RequestTypes, WorkerTypes, FeedItemTypes DEF Next
<1>2. CASE UNCHANGED vars
  BY <1>2, Untouched DEF vars, TypeInv, TypeOK, HistoryType, history, order, redis, item
<1> QED BY <1>1, <1>2

\* Every variable of the pipeline keeps its type; a request in progress has
\* arguments and a worker in progress has a delivery.
THEOREM TypesHold == Spec => []TypeInv
<1>1. Init => TypeInv
  BY TypeInit
<1>2. TypeInv /\ [Next]_vars => TypeInv'
  BY TypeStep
<1> QED BY <1>1, <1>2, PTL DEF Spec

\* The type invariant the runs check (LikeService, LikeWorker and their tables).
THEOREM TypeCorrect == Spec => []TypeOK
<1>1. TypeInv => TypeOK
  BY DEF TypeInv
<1> QED BY <1>1, TypesHold, PTL

-----------------------------------------------------------------------------
(* The accounting.                                                         *)

LEMMA LikersFinite ==
    ASSUME NEW v
    PROVE  IsFiniteSet(LikersOf(v)) /\ Cardinality(LikersOf(v)) \in Nat
  BY UsersFinite, FS_Subset, FS_CardinalityType DEF LikersOf

LEMMA OwingFinite ==
    ASSUME NEW v, NEW a
    PROVE  IsFiniteSet(Owing(v, a)) /\ Cardinality(Owing(v, a)) \in Nat
  BY WorkersFinite, FS_Subset, FS_CardinalityType DEF Owing

\* Inserting a row that was not there adds one liker to its video.
LEMMA InsertRow ==
    ASSUME NEW v \in Videos, NEW u \in Users, ~ IsLiked(v, u),
           likes' = likes \cup {<<v, u>>},
           NEW x \in Videos
    PROVE  Cardinality(LikersOf(x)') =
               Cardinality(LikersOf(x)) + (IF x = v THEN 1 ELSE 0)
<1>1. CASE x = v
  <2>1. LikersOf(x)' = LikersOf(x) \cup {u} /\ u \notin LikersOf(x)
    BY <1>1 DEF LikersOf, IsLiked
  <2> QED BY <1>1, <2>1, LikersFinite, FS_AddElement
<1>2. CASE x # v
  <2>1. LikersOf(x)' = LikersOf(x)
    BY <1>2 DEF LikersOf
  <2> QED BY <1>2, <2>1, LikersFinite
<1> QED BY <1>1, <1>2

\* Deleting a row that was there takes one liker from its video.
LEMMA DeleteRow ==
    ASSUME NEW v \in Videos, NEW u \in Users, IsLiked(v, u),
           likes' = likes \ {<<v, u>>},
           NEW x \in Videos
    PROVE  Cardinality(LikersOf(x)') =
               Cardinality(LikersOf(x)) - (IF x = v THEN 1 ELSE 0)
<1>1. CASE x = v
  <2>1. LikersOf(x)' = LikersOf(x) \ {u} /\ u \in LikersOf(x)
    BY <1>1 DEF LikersOf, IsLiked
  <2> QED BY <1>1, <2>1, LikersFinite, FS_RemoveElement
<1>2. CASE x # v
  <2>1. LikersOf(x)' = LikersOf(x)
    BY <1>2 DEF LikersOf
  <2> QED BY <1>2, <2>1, LikersFinite
<1> QED BY <1>1, <1>2

\* A step of one worker changes what is owed by that worker at most.
LEMMA OneOwes ==
    ASSUME NEW w \in Workers, NEW v, NEW a,
           \A x \in Workers \ {w} : inbox'[x] = inbox[x] /\ step'[x] = step[x]
    PROVE  Cardinality(Owing(v, a)') =
               Cardinality(Owing(v, a)) + (IF w \in Owing(v, a)' THEN 1 ELSE 0)
                                        - (IF w \in Owing(v, a) THEN 1 ELSE 0)
<1> DEFINE S == Owing(v, a)
           T == Owing(v, a)'
<1>1. IsFiniteSet(S) /\ Cardinality(S) \in Nat
  BY OwingFinite
<1>2. IsFiniteSet(T) /\ Cardinality(T) \in Nat
  <2>1. T \subseteq Workers
    BY DEF Owing
  <2> QED BY <2>1, WorkersFinite, FS_Subset, FS_CardinalityType
<1>3. S \ {w} = T \ {w}
  BY DEF Owing, Busy, Job
<1>4. Cardinality(S \ {w}) = IF w \in S THEN Cardinality(S) - 1 ELSE Cardinality(S)
  BY <1>1, FS_RemoveElement
<1>5. Cardinality(T \ {w}) = IF w \in T THEN Cardinality(T) - 1 ELSE Cardinality(T)
  BY <1>2, FS_RemoveElement
<1> HIDE DEF S, T
<1> QED BY <1>1, <1>2, <1>3, <1>4, <1>5 DEF S, T

\* The accounting of one video; LikesAccounting is this for all of them.
Balance(v) ==
    likesCount[v] = Cardinality(LikersOf(v))
                    - Cardinality(Owing(v, "like"))
                    + Cardinality(Owing(v, "unlike"))
                    - lost[v] + clamped[v]

LEMMA AccountingInit == Init => LikesAccounting
<1> SUFFICES ASSUME Init, NEW v \in Videos PROVE Balance(v)
  BY DEF LikesAccounting, Balance
<1>1. LikersOf(v) = {} /\ Owing(v, "like") = {} /\ Owing(v, "unlike") = {}
  BY DEF Init, LikersOf, Owing, Busy
<1>2. Cardinality({}) = 0
  BY FS_EmptySet
<1>3. likesCount[v] = 0 /\ lost[v] = 0 /\ clamped[v] = 0
  BY DEF Init
<1> QED BY <1>1, <1>2, <1>3 DEF Balance

\* Steps that touch neither rows, counters, deliveries nor history.
LEMMA BalanceUntouched ==
    ASSUME LikesAccounting,
           UNCHANGED <<likes, likesCount, inbox, step, lost, clamped>>
    PROVE  LikesAccounting'
<1> SUFFICES ASSUME NEW v \in Videos PROVE Balance(v)'
  BY DEF LikesAccounting, Balance
<1>1. Balance(v)
  BY DEF LikesAccounting, Balance
<1>2. /\ LikersOf(v)' = LikersOf(v)
      /\ Owing(v, "like")' = Owing(v, "like")
      /\ Owing(v, "unlike")' = Owing(v, "unlike")
  BY DEF LikersOf, Owing, Busy, Job
<1> QED BY <1>1, <1>2 DEF Balance

LEMMA OwingUntouched ==
    ASSUME UNCHANGED <<inbox, step>>, NEW v, NEW a
    PROVE  Owing(v, a)' = Owing(v, a)
  BY DEF Owing, Busy, Job

\* The fallback transactions move the row and the counter together.
LEMMA RequestBalance ==
    ASSUME TypeInv, LikesAccounting, NEW c \in Clients, Request(c)
    PROVE  LikesAccounting'
<1> DEFINE k == call[c]
<1>1. CASE LikeTx(c) /\ ~ IsLiked(k.video, k.user)
  <2> SUFFICES ASSUME NEW v \in Videos PROVE Balance(v)'
    BY DEF LikesAccounting, Balance
  <2> USE <1>1 DEF LikeTx
  <2>1. k.video \in Videos /\ k.user \in Users
    BY CallType
  <2>2. Cardinality(LikersOf(v)') =
            Cardinality(LikersOf(v)) + (IF v = k.video THEN 1 ELSE 0)
    BY <2>1, InsertRow
  <2>3. likesCount'[v] = likesCount[v] + (IF v = k.video THEN 1 ELSE 0)
    BY <2>1 DEF TypeInv, TypeOK, TablesType
  <2>4. /\ Owing(v, "like")' = Owing(v, "like")
        /\ Owing(v, "unlike")' = Owing(v, "unlike")
    BY OwingUntouched DEF broker
  <2>5. lost'[v] = lost[v] /\ clamped'[v] = clamped[v]
    BY DEF history
  <2>6. /\ Cardinality(LikersOf(v)) \in Nat
        /\ Cardinality(Owing(v, "like")) \in Nat
        /\ Cardinality(Owing(v, "unlike")) \in Nat
    BY LikersFinite, OwingFinite
  <2>7. lost[v] \in Int /\ clamped[v] \in Int /\ likesCount[v] \in Int
    BY DEF TypeInv, TypeOK, HistoryType, TablesType
  <2>8. Balance(v)
    BY DEF LikesAccounting, Balance
  <2> QED BY <2>2, <2>3, <2>4, <2>5, <2>6, <2>7, <2>8 DEF Balance
<1>2. CASE UnlikeTx(c) /\ IsLiked(k.video, k.user)
  <2> SUFFICES ASSUME NEW v \in Videos PROVE Balance(v)'
    BY DEF LikesAccounting, Balance
  <2> USE <1>2 DEF UnlikeTx
  <2>1. k.video \in Videos /\ k.user \in Users
    BY CallType
  <2>2. Cardinality(LikersOf(v)') =
            Cardinality(LikersOf(v)) - (IF v = k.video THEN 1 ELSE 0)
    BY <2>1, DeleteRow
  <2>7. lost[v] \in Int /\ clamped[v] \in Int /\ likesCount[v] \in Nat
    BY DEF TypeInv, TypeOK, HistoryType, TablesType
  <2>3. /\ likesCount'[v] = IF v = k.video THEN Clamp(likesCount[v] - 1)
                                           ELSE likesCount[v]
        /\ clamped'[v] = IF v = k.video /\ likesCount[v] = 0
                         THEN clamped[v] + 1 ELSE clamped[v]
    BY <2>1 DEF TypeInv, TypeOK, TablesType, HistoryType
  <2>4. likesCount'[v] - clamped'[v] =
            likesCount[v] - clamped[v] - (IF v = k.video THEN 1 ELSE 0)
    BY <2>3, <2>7 DEF Clamp
  <2>5. lost'[v] = lost[v] /\ clamped'[v] \in Int /\ likesCount'[v] \in Int
    BY <2>3, <2>7 DEF Clamp
  <2>6. /\ Cardinality(LikersOf(v)) \in Nat
        /\ Cardinality(Owing(v, "like")) \in Nat
        /\ Cardinality(Owing(v, "unlike")) \in Nat
    BY LikersFinite, OwingFinite
  <2>8. Balance(v)
    BY DEF LikesAccounting, Balance
  <2>9. /\ Owing(v, "like")' = Owing(v, "like")
        /\ Owing(v, "unlike")' = Owing(v, "unlike")
    BY OwingUntouched DEF broker
  <2> QED BY <2>2, <2>4, <2>5, <2>6, <2>7, <2>8, <2>9 DEF Balance
<1>3. CASE ~ (LikeTx(c) /\ ~ IsLiked(k.video, k.user))
           /\ ~ (UnlikeTx(c) /\ IsLiked(k.video, k.user))
  <2>1. UNCHANGED <<likes, likesCount, inbox, step, lost, clamped>>
    BY <1>3 DEF Request, Begin, PublishLike, PublishHeat, LikeTx, UnlikeTx,
       BumpHot, ClientLoads, ClientSaves, RequestFails, tables, broker, history
  <2> QED BY <2>1, BalanceUntouched
<1> QED BY <1>1, <1>2, <1>3

\* What a worker holds, and whether it owes, decides its part of the balance.
LEMMA OwesIff ==
    ASSUME NEW w \in Workers, NEW v, NEW a
    PROVE  w \in Owing(v, a) <=> /\ Busy(w, "count")
                                 /\ Job(w).video = v
                                 /\ Job(w).act = a
  BY DEF Owing

\* A worker that changes a row owes exactly that change; making it, or giving
\* it up, settles the debt in the counter or in the history.
LEMMA WorkerBalance ==
    ASSUME TypeInv, LikesAccounting, NEW w \in Workers, Worker(w)
    PROVE  LikesAccounting'
<1> SUFFICES ASSUME NEW v \in Videos PROVE Balance(v)'
  BY DEF LikesAccounting, Balance
<1> DEFINE m == Job(w)
           rows == Cardinality(LikersOf(v))
           plus == Cardinality(Owing(v, "like"))
           minus == Cardinality(Owing(v, "unlike"))
<1>a. likesCount[v] = rows - plus + minus - lost[v] + clamped[v]
  BY DEF LikesAccounting
<1>h. SUFFICES likesCount'[v] = rows' - plus' + minus' - lost'[v] + clamped'[v]
  BY DEF Balance
<1>b. rows \in Nat /\ plus \in Nat /\ minus \in Nat
  BY LikersFinite, OwingFinite
<1>c. lost[v] \in Int /\ clamped[v] \in Int /\ likesCount[v] \in Nat
  BY DEF TypeInv, TypeOK, HistoryType, TablesType
<1>d. ASSUME inbox[w] # <<>>
      PROVE  m.video \in Videos /\ m.user \in Users /\ m.act \in Acts
  BY <1>d, JobType DEF Event
<1>e. \A x \in Workers \ {w} : inbox'[x] = inbox[x] /\ step'[x] = step[x]
  BY DEF TypeInv, TypeOK, BrokerType, Worker, Deliver, ApplyRow, ApplyCount,
     WorkerLoads, WorkerSaves, ApplyPopularity, Ack, StepFails, Crash, Goto
<1>f. /\ plus' = plus + (IF w \in Owing(v, "like")' THEN 1 ELSE 0)
                      - (IF w \in Owing(v, "like") THEN 1 ELSE 0)
      /\ minus' = minus + (IF w \in Owing(v, "unlike")' THEN 1 ELSE 0)
                        - (IF w \in Owing(v, "unlike") THEN 1 ELSE 0)
  BY <1>e, OneOwes
<1>g. rows' = rows \/ ApplyRow(w)
  BY DEF Worker, Deliver, ApplyRow, ApplyCount, WorkerLoads, WorkerSaves,
     ApplyPopularity, Ack, StepFails, Crash, tables, LikersOf
<1> HIDE DEF rows, plus, minus
<1>1. CASE ApplyRow(w)
  <2> USE <1>1 DEF ApplyRow, Busy
  <2>1. UNCHANGED <<likesCount[v], lost[v], clamped[v], inbox, Job(w)>>
    BY DEF history, Job
  <2>2. w \notin Owing(v, "like") /\ w \notin Owing(v, "unlike")
    BY OwesIff
  <2>3. CASE IsExist(m.video) /\ (IsLiked(m.video, m.user) <=> m.act = "unlike")
    <3>1. step'[w] = "count"
      BY <2>3 DEF Goto, TypeInv, TypeOK, BrokerType
    <3>2. /\ w \in Owing(v, "like")' <=> m.video = v /\ m.act = "like"
          /\ w \in Owing(v, "unlike")' <=> m.video = v /\ m.act = "unlike"
      BY <2>1, <3>1 DEF Owing
    <3>3. CASE m.act = "like"
      <4>1. rows' = rows + (IF v = m.video THEN 1 ELSE 0)
        BY <1>d, <2>3, <3>3, InsertRow DEF rows
      <4>2. plus' = plus + (IF v = m.video THEN 1 ELSE 0) /\ minus' = minus
        BY <1>b, <1>f, <2>2, <3>2, <3>3
      <4>3. likesCount'[v] = likesCount[v] /\ lost'[v] = lost[v] /\ clamped'[v] = clamped[v]
        BY <2>1
      <4> QED BY <1>a, <1>b, <1>c, <4>1, <4>2, <4>3
    <3>4. CASE m.act = "unlike"
      <4>1. rows' = rows - (IF v = m.video THEN 1 ELSE 0)
        BY <1>d, <2>3, <3>4, DeleteRow DEF rows
      <4> QED BY <1>a, <1>b, <1>c, <1>f, <2>1, <2>2, <3>2, <3>4, <4>1, SMTT(30)
    <3> QED BY <1>d, <3>3, <3>4 DEF Acts
  <2>4. CASE ~ (IsExist(m.video) /\ (IsLiked(m.video, m.user) <=> m.act = "unlike"))
    <3>1. step'[w] = "ack" /\ likes' = likes
      BY <2>4 DEF Goto, TypeInv, TypeOK, BrokerType
    <3>2. w \notin Owing(v, "like")' /\ w \notin Owing(v, "unlike")'
      BY <3>1 DEF Owing
    <3>3. rows' = rows
      BY <3>1 DEF rows, LikersOf
    <3> QED BY <1>a, <1>b, <1>c, <1>f, <2>1, <2>2, <3>2, <3>3
  <2> QED BY <2>3, <2>4
<1>2. CASE ApplyCount(w)
  <2> USE <1>2 DEF ApplyCount, Busy
  <2>1. m.video \in Videos /\ m.act \in Acts
    BY <1>d
  <2>2. /\ w \in Owing(v, "like") <=> m.video = v /\ m.act = "like"
        /\ w \in Owing(v, "unlike") <=> m.video = v /\ m.act = "unlike"
    BY OwesIff
  <2>3. step'[w] # "count"
    BY DEF Goto, TypeInv, TypeOK, BrokerType
  <2>4. w \notin Owing(v, "like")' /\ w \notin Owing(v, "unlike")'
    BY <2>3 DEF Owing
  <2>5. /\ likesCount'[v] = IF v = m.video THEN Clamp(likesCount[v] + Delta(m.act))
                                           ELSE likesCount[v]
        /\ clamped'[v] = IF v = m.video /\ m.act = "unlike" /\ likesCount[v] = 0
                         THEN clamped[v] + 1 ELSE clamped[v]
        /\ lost'[v] = lost[v]
    BY <2>1 DEF TypeInv, TypeOK, TablesType, HistoryType
  <2>6. likesCount'[v] - clamped'[v] =
            likesCount[v] - clamped[v] + (IF v = m.video THEN Delta(m.act) ELSE 0)
    BY <1>c, <2>1, <2>5 DEF Clamp, Delta, Acts
  <2>7. likesCount'[v] \in Int /\ clamped'[v] \in Int
    BY <1>c, <2>1, <2>5 DEF Clamp, Delta, Acts
  <2>8. rows' = rows
    BY DEF rows, LikersOf
  <2>9. CASE m.video = v /\ m.act = "like"
    <3>1. plus' = plus - 1 /\ minus' = minus
      BY <1>b, <1>f, <2>2, <2>4, <2>9
    <3> QED BY <1>a, <1>b, <1>c, <2>5, <2>6, <2>7, <2>8, <2>9, <3>1, SMTT(30) DEF Delta
  <2>10. CASE m.video = v /\ m.act = "unlike"
    <3>1. plus' = plus /\ minus' = minus - 1
      BY <1>b, <1>f, <2>2, <2>4, <2>10
    <3>2. likesCount'[v] - clamped'[v] = likesCount[v] - clamped[v] - 1
      BY <2>6, <2>10 DEF Delta
    <3>3. lost'[v] = lost[v]
      BY <2>5
    <3>4. rows' \in Int /\ plus' \in Int /\ minus' \in Int
      BY <1>b, <2>8, <3>1
    <3>5. likesCount'[v] = likesCount[v] - clamped[v] - 1 + clamped'[v]
      BY <1>c, <2>7, <3>2
    <3>6. likesCount[v] = rows - plus + minus - lost[v] + clamped[v]
      BY <1>a
    <3>7. likesCount'[v] = rows - plus + (minus - 1) - lost[v] + clamped'[v]
      BY <1>b, <1>c, <2>7, <3>5, <3>6, SMTT(30)
    <3> QED BY <2>8, <3>1, <3>3, <3>7
  <2>11. CASE m.video # v
    <3>1. plus' = plus /\ minus' = minus
      BY <1>b, <1>f, <2>2, <2>4, <2>11
    <3> QED BY <1>a, <1>b, <1>c, <2>5, <2>6, <2>7, <2>8, <2>11, <3>1
  <2> QED BY <2>1, <2>9, <2>10, <2>11 DEF Acts
<1>3. CASE StepFails(w) \/ Crash(w)
  <2> USE <1>3 DEF StepFails, Crash
  <2>1. inbox[w] # <<>> /\ m.video \in Videos /\ m.act \in Acts
    BY <1>d
  <2>2. /\ w \in Owing(v, "like") <=> /\ step[w] = "count"
                                      /\ m.video = v /\ m.act = "like"
        /\ w \in Owing(v, "unlike") <=> /\ step[w] = "count"
                                        /\ m.video = v /\ m.act = "unlike"
    BY <2>1, OwesIff DEF Busy
  <2>3. step'[w] = "row"
    BY DEF Goto, TypeInv, TypeOK, BrokerType
  <2>4. w \notin Owing(v, "like")' /\ w \notin Owing(v, "unlike")'
    BY <2>3 DEF Owing, Busy
  <2>5. lost'[v] = IF step[w] = "count" /\ m.video = v
                   THEN lost[v] + Delta(m.act) ELSE lost[v]
    BY <2>1 DEF Forfeit, TypeInv, TypeOK, HistoryType
  <2>6. likesCount'[v] = likesCount[v] /\ clamped'[v] = clamped[v]
    BY DEF tables
  <2>7. rows' = rows
    BY DEF rows, LikersOf, tables
  <2>8. CASE step[w] = "count" /\ m.video = v /\ m.act = "like"
    <3>1. plus' = plus - 1 /\ minus' = minus /\ lost'[v] = lost[v] + 1
      BY <1>b, <1>f, <2>2, <2>4, <2>5, <2>8 DEF Delta
    <3> QED BY <1>a, <1>b, <1>c, <2>6, <2>7, <3>1
  <2>9. CASE step[w] = "count" /\ m.video = v /\ m.act = "unlike"
    <3>1. plus' = plus /\ minus' = minus - 1 /\ lost'[v] = lost[v] - 1
      BY <1>b, <1>c, <1>f, <2>2, <2>4, <2>5, <2>9 DEF Delta
    <3>2. likesCount[v] = rows - plus + (minus - 1) - (lost[v] - 1) + clamped[v]
      BY <1>a, <1>b, <1>c
    <3> QED BY <2>6, <2>7, <3>1, <3>2
  <2>10. CASE ~ (step[w] = "count" /\ m.video = v)
    <3>1. plus' = plus /\ minus' = minus /\ lost'[v] = lost[v]
      BY <1>b, <1>f, <2>2, <2>4, <2>5, <2>10
    <3> QED BY <1>a, <1>b, <1>c, <2>6, <2>7, <3>1
  <2> QED BY <2>1, <2>8, <2>9, <2>10 DEF Acts
<1>4. CASE Deliver(w)
  <2> USE <1>4 DEF Deliver
  <2>1. step'[w] = step[w] /\ (step[w] = "count" => inbox[w] # <<>>)
    BY DEF TypeInv, StepsHaveJobs
  <2>2. inbox[w] # <<>> => inbox'[w] # <<>> /\ Job(w)' = Job(w)
    BY DEF TypeInv, TypeOK, BrokerType, Job
  <2>3. /\ w \in Owing(v, "like")' <=> w \in Owing(v, "like")
        /\ w \in Owing(v, "unlike")' <=> w \in Owing(v, "unlike")
    BY <2>1, <2>2 DEF Owing, Busy
  <2>4. UNCHANGED <<likes, likesCount[v], lost[v], clamped[v]>> /\ rows' = rows
    BY DEF tables, history, rows, LikersOf
  <2> QED BY <1>a, <1>b, <1>c, <1>f, <2>3, <2>4
<1>5. CASE WorkerLoads(w) \/ WorkerSaves(w) \/ ApplyPopularity(w) \/ Ack(w)
  <2> USE <1>5 DEF WorkerLoads, WorkerSaves, ApplyPopularity, Ack, Busy
  <2>1. w \notin Owing(v, "like") /\ w \notin Owing(v, "unlike")
    BY OwesIff
  <2>2. step'[w] # "count"
    BY DEF Goto, TypeInv, TypeOK, BrokerType
  <2>3. w \notin Owing(v, "like")' /\ w \notin Owing(v, "unlike")'
    BY <2>2 DEF Owing
  <2>4. UNCHANGED <<likes, likesCount[v], lost[v], clamped[v]>> /\ rows' = rows
    BY DEF tables, history, rows, LikersOf
  <2> QED BY <1>a, <1>b, <1>c, <1>f, <2>1, <2>3, <2>4
<1> QED BY <1>1, <1>2, <1>3, <1>4, <1>5 DEF Worker

LEMMA AccountingStep ==
    TypeInv /\ LikesAccounting /\ [Next]_vars => LikesAccounting'
<1> SUFFICES ASSUME TypeInv, LikesAccounting, [Next]_vars PROVE LikesAccounting'
  OBVIOUS
<1>1. CASE \E v \in Videos : FeedItem(v)
  BY <1>1, BalanceUntouched DEF FeedItem, FillReads, FillSaves, CopyEnds, Expire, tables,
     broker, history
<1>2. CASE UNCHANGED vars
  BY <1>2, BalanceUntouched DEF vars, tables, broker, history
<1> QED BY <1>1, <1>2, RequestBalance, WorkerBalance DEF Next

\* The published likes_count never parts from the rows in any way but the
\* three the history records: for LikeService, its fallback transactions and
\* LikeWorker under any interleaving, redelivery, failure and crash.
THEOREM AccountingHolds == Spec => []LikesAccounting
<1>1. Init => LikesAccounting
  BY AccountingInit
<1>2. TypeInv /\ LikesAccounting /\ [Next]_vars => LikesAccounting'
  BY AccountingStep
<1> QED BY <1>1, <1>2, TypesHold, PTL DEF Spec

LEMMA LostStep == TypeInv /\ LostByFailure /\ [Next]_vars => LostByFailure'
<1> SUFFICES ASSUME TypeInv, LostByFailure, [Next]_vars, failures' = 0
             PROVE  \A v \in Videos : lost'[v] = 0
  BY DEF LostByFailure
<1>1. failures \in Nat
  BY Bounds DEF TypeInv, TypeOK, HistoryType
<1>2. ~ Fail
  BY <1>1 DEF Fail
<1>3. failures' = failures /\ lost' = lost
  BY <1>2 DEF Next, Request, Worker, FeedItem, Begin, PublishLike, PublishHeat,
     LikeTx, UnlikeTx, BumpHot, ClientLoads, ClientSaves, RequestFails, Deliver,
     ApplyRow, ApplyCount, WorkerLoads, WorkerSaves, ApplyPopularity, Ack,
     StepFails, Crash, FillReads, FillSaves, CopyEnds, Expire, vars, history
<1> QED BY <1>3 DEF LostByFailure

\* Without a failed statement or a crash, likes_count plus what workers are
\* about to add is never below the number of rows.
THEOREM CountNeverLow == Spec => []NeverUndercounts
<1>1. Init => LostByFailure
  BY DEF Init, LostByFailure
<1>2. TypeInv /\ LostByFailure /\ [Next]_vars => LostByFailure'
  BY LostStep
<1>3. TypeInv /\ LikesAccounting /\ LostByFailure => NeverUndercounts
  <2> SUFFICES ASSUME TypeInv, LikesAccounting, LostByFailure, failures = 0,
                      NEW v \in Videos
               PROVE  likesCount[v] + Cardinality(Owing(v, "like"))
                          >= Cardinality(LikersOf(v))
    BY DEF NeverUndercounts
  <2>1. lost[v] = 0 /\ clamped[v] \in Nat /\ likesCount[v] \in Nat
    BY DEF LostByFailure, TypeInv, TypeOK, HistoryType, TablesType
  <2>2. /\ Cardinality(LikersOf(v)) \in Nat
        /\ Cardinality(Owing(v, "like")) \in Nat
        /\ Cardinality(Owing(v, "unlike")) \in Nat
    BY LikersFinite, OwingFinite
  <2>3. Balance(v)
    BY DEF LikesAccounting, Balance
  <2> QED BY <2>1, <2>2, <2>3 DEF Balance
<1> QED BY <1>1, <1>2, <1>3, TypesHold, AccountingHolds, PTL DEF Spec

-----------------------------------------------------------------------------
(* The pipeline with the broker up and one worker, at rest.                *)

\* Where no publication of a like is refused, a request does not get to its
\* fallback, and is about a stored video.
Routed ==
    \A c \in Clients :
        /\ rpc[c] \in {"idle", "like", "heat", "hot"}
        /\ rpc[c] \in {"heat", "hot"} => "mysql" \in sent[c]
        /\ rpc[c] # "idle" => call[c].video \in Stored

\* The event of the request k is queued.
Queues(k) ==
    LET e == [id |-> published, act |-> k.act, user |-> k.user, video |-> k.video]
    IN  /\ likeQueue' = likeQueue \cup {e}
        /\ published' = published + 1
        /\ latest' = [latest EXCEPT ![<<k.video, k.user>>] = e]
        /\ reordered' = reordered \ {<<k.video, k.user>>}

\* Such a request changes nothing of the worker's but the queue.
LEMMA RequestQueues ==
    ASSUME "refused" \notin LikePublish, TypeInv, Routed, NEW c \in Clients, Request(c)
    PROVE  /\ Routed'
           /\ UNCHANGED <<tables, inbox, step, item, history>>
           /\ \A w \in Workers : loaded'[w] = loaded[w]
           /\ \/ UNCHANGED <<likeQueue, order>>
              \/ \E k \in Call : k.video \in Stored /\ Queues(k)
<1> USE DEF TypeInv, TypeOK, RequestType, Return
<1>1. CASE Begin(c)
  <2>1. Routed'
    BY <1>1 DEF Begin, Routed, IsExist
  <2> QED BY <1>1, <2>1 DEF Begin, broker, redis, order
<1>2. CASE PublishLike(c)
  <2>1. PICK outcome \in LikePublish :
          /\ IF outcome = "queued" THEN Queues(call[c]) ELSE UNCHANGED <<likeQueue, order>>
          /\ sent' = [sent EXCEPT ![c] = IF outcome = "refused" THEN @ ELSE @ \cup {"mysql"}]
    BY <1>2 DEF PublishLike, Queues
  <2>2. Routed'
    BY <1>2, <2>1 DEF PublishLike, Routed
  <2>3. call[c] \in Call /\ call[c].video \in Stored
    BY <1>2, CallType DEF PublishLike, Routed
  <2> QED BY <1>2, <2>1, <2>2, <2>3 DEF PublishLike, redis
<1>3. CASE PublishHeat(c)
  <2>1. Routed'
    BY <1>3 DEF PublishHeat, Routed
  <2> QED BY <1>3, <2>1 DEF PublishHeat, broker
<1>4. CASE BumpHot(c)
  <2>1. Routed'
    BY <1>4 DEF BumpHot, Routed
  <2> QED BY <1>4, <2>1 DEF BumpHot, broker
<1>5. CASE RequestFails(c)
  <2>1. Routed'
    BY <1>5 DEF RequestFails, Routed
  <2>2. \A w \in Workers : loaded'[w] = loaded[w]
    BY <1>5, ActorsApart DEF RequestFails, RedisType
  <2> QED BY <1>5, <2>1, <2>2 DEF RequestFails, broker
<1>6. ~(LikeTx(c) \/ UnlikeTx(c) \/ ClientLoads(c) \/ ClientSaves(c))
  BY DEF Routed, LikeTx, UnlikeTx, ClientLoads, ClientSaves
<1> QED BY <1>1, <1>2, <1>3, <1>4, <1>5, <1>6 DEF Request

LEMMA RoutedStep ==
    ASSUME "refused" \notin LikePublish, TypeInv, Routed, [Next]_vars
    PROVE  Routed'
<1>1. CASE UNCHANGED request
  BY <1>1 DEF request, Routed
<1>2. CASE ~UNCHANGED request
  <2>1. \E c \in Clients : Request(c)
    BY <1>2 DEF Next, Worker, FeedItem, Deliver, ApplyRow, ApplyCount, WorkerLoads,
                WorkerSaves, ApplyPopularity, Ack, StepFails, Crash, FillReads,
                FillSaves, CopyEnds, Expire, vars
  <2> QED BY <2>1, RequestQueues
<1> QED BY <1>1, <1>2

LEMMA RoutedInit == Init => Routed
  BY DEF Init, Routed

-----------------------------------------------------------------------------
(* The last event about a pair wins.                                       *)

Members(s) == {s[i] : i \in 1 .. Len(s)}

LEMMA Appended ==
    ASSUME NEW s \in Seq(Event), NEW m \in Event
    PROVE  /\ Members(Append(s, m)) = Members(s) \cup {m}
           /\ Len(Append(s, m)) = Len(s) + 1 /\ Len(s) \in Nat
           /\ \A i \in 1 .. Len(s) : Append(s, m)[i] = s[i]
           /\ Append(s, m)[Len(s) + 1] = m
<1>1. /\ Len(Append(s, m)) = Len(s) + 1 /\ Len(s) \in Nat
      /\ \A i \in 1 .. Len(s) : Append(s, m)[i] = s[i]
      /\ Append(s, m)[Len(s) + 1] = m
  OBVIOUS
<1> QED BY <1>1 DEF Members

LEMMA Taken ==
    ASSUME NEW s \in Seq(Event), s # <<>>
    PROVE  /\ Members(s) = Members(Tail(s)) \cup {Head(s)}
           /\ Len(Tail(s)) = Len(s) - 1 /\ Len(s) \in Nat \ {0} /\ Head(s) = s[1]
           /\ \A i \in 1 .. Len(s) - 1 : Tail(s)[i] = s[i + 1]
<1>1. /\ Len(Tail(s)) = Len(s) - 1 /\ Len(s) \in Nat \ {0} /\ Head(s) = s[1]
      /\ \A i \in 1 .. Len(s) - 1 : Tail(s)[i] = s[i + 1]
  OBVIOUS
<1>2. Members(s) \subseteq Members(Tail(s)) \cup {Head(s)}
  <2> SUFFICES ASSUME NEW i \in 1 .. Len(s) PROVE s[i] \in Members(Tail(s)) \cup {Head(s)}
    BY DEF Members
  <2>1. CASE i = 1
    BY <1>1, <2>1
  <2>2. CASE i # 1
    <3>1. i - 1 \in 1 .. Len(s) - 1 /\ Tail(s)[i - 1] = s[i]
      BY <1>1, <2>2
    <3> QED BY <1>1, <3>1 DEF Members
  <2> QED BY <2>1, <2>2
<1>3. Members(Tail(s)) \cup {Head(s)} \subseteq Members(s)
  BY <1>1 DEF Members
<1> QED BY <1>1, <1>2, <1>3

\* What w or the queue has.
Waiting(w) == likeQueue \cup Members(inbox[w])

About(m, v, u) == m.video = v /\ m.user = u

\* The last event queued about a pair is the newest of those that wait.
Newest(m) ==
    LET l == latest[<<m.video, m.user>>]
    IN  l \in Event /\ m.id <= l.id /\ (m.id = l.id => m = l)

InOrder(w) ==
    /\ Len(inbox[w]) <= Prefetch
    /\ \A m \in Waiting(w) : m.id < published /\ m.video \in Stored /\ Newest(m)
    /\ \A v \in Videos, u \in Users :
          latest[<<v, u>>] = NoEvent \/ About(latest[<<v, u>>], v, u)

Agrees(v, u) == IsLiked(v, u) <=> latest[<<v, u>>].act = "like"

\* The last event about the pair is still to be delivered,
Queued(v, u) == latest[<<v, u>>] \in likeQueue

\* or w has it, behind every other one about the pair, and has applied it if
\* it has come beyond the row of the delivery at hand,
Held(w, v, u) ==
    /\ \A m \in likeQueue : ~ About(m, v, u)
    /\ \E j \in 1 .. Len(inbox[w]) :
          /\ inbox[w][j] = latest[<<v, u>>]
          /\ \A i \in 1 .. Len(inbox[w]) : j < i => ~ About(inbox[w][i], v, u)
          /\ j = 1 /\ step[w] # "row" => Agrees(v, u)

\* or there is none left, and the row is as the last one wanted it.
Settled(w, v, u) == Agrees(v, u) /\ \A m \in Waiting(w) : ~ About(m, v, u)

Stands(w, v, u) == Queued(v, u) \/ Held(w, v, u) \/ Settled(w, v, u)

Wins(w) == \A v \in Videos, u \in Users : <<v, u>> \in reordered \/ Stands(w, v, u)

OrderInv(w) == TypeInv /\ Routed /\ InOrder(w) /\ Wins(w)

\* The types of the inbox.
LEMMA InboxType ==
    ASSUME TypeInv, NEW w \in Workers
    PROVE  /\ inbox[w] \in Seq(Event) /\ Len(inbox[w]) \in Nat
           /\ Members(inbox[w]) \subseteq Event /\ Waiting(w) \subseteq Event
           /\ step[w] # "row" => inbox[w] # <<>>
<1>1. inbox[w] \in Seq(Event) /\ likeQueue \subseteq Event /\ (step[w] # "row" => inbox[w] # <<>>)
  BY DEF TypeInv, TypeOK, BrokerType, StepsHaveJobs
<1>2. Members(inbox[w]) \subseteq Event
  BY <1>1 DEF Members
<1> QED BY <1>1, <1>2 DEF Waiting

\* Steps after which no more waits, in an inbox no longer, keep the order.
LEMMA OrderKept ==
    ASSUME NEW w, InOrder(w), Waiting(w)' \subseteq Waiting(w), Len(inbox'[w]) <= Prefetch,
           UNCHANGED <<published, latest>>
    PROVE  InOrder(w)'
BY DEF InOrder, Newest, About

\* The oldest ready event is delivered behind all that the worker has.
LEMMA DeliverWins ==
    ASSUME NEW w \in Workers, OrderInv(w), Deliver(w)
    PROVE  InOrder(w)' /\ Wins(w)'
<1>1. PICK m \in likeQueue : /\ \A n \in likeQueue : m.id <= n.id
                             /\ likeQueue' = likeQueue \ {m}
                             /\ inbox'[w] = Append(inbox[w], m)
  BY DEF Deliver, OrderInv, TypeInv, TypeOK, BrokerType
<1>2. /\ m \in Event /\ Len(inbox[w]) < Prefetch
      /\ UNCHANGED <<likes, step, published, latest, reordered>>
  BY InboxType DEF OrderInv, Waiting, Deliver, tables, order
<1>3. PICK k \in Nat : k = Len(inbox[w])
  BY InboxType DEF OrderInv
<1>4. /\ Members(inbox'[w]) = Members(inbox[w]) \cup {m} /\ Len(inbox'[w]) = k + 1
      /\ \A i \in 1 .. k : inbox'[w][i] = inbox[w][i]
      /\ inbox'[w][k + 1] = m
  BY <1>1, <1>2, <1>3, InboxType, Appended DEF OrderInv
<1>5. Waiting(w)' = Waiting(w)
  BY <1>1, <1>4 DEF Waiting
<1>6. InOrder(w)'
  BY <1>2, <1>3, <1>4, <1>5, Bounds, OrderKept DEF OrderInv
<1>7. ASSUME NEW v \in Videos, NEW u \in Users, Stands(w, v, u)
      PROVE  Stands(w, v, u)'
  <2>1. CASE Queued(v, u) /\ latest[<<v, u>>] # m
    BY <1>1, <1>2, <2>1 DEF Queued, Stands
  <2>2. CASE Queued(v, u) /\ latest[<<v, u>>] = m
    <3>1. \A n \in likeQueue' : ~ About(n, v, u)
      <4> SUFFICES ASSUME NEW n \in likeQueue, n # m, About(n, v, u) PROVE FALSE
        BY <1>1 DEF About
      <4>1. n \in Event /\ n.id <= m.id /\ (n.id = m.id => n = m)
        BY <2>2, InboxType DEF OrderInv, InOrder, Newest, Waiting, About
      <4>2. m.id <= n.id
        BY <1>1
      <4> QED BY <1>2, <4>1, <4>2 DEF Event
    <3>2. k + 1 = 1 => step'[w] = "row"
      <4>1. k = 0 => inbox[w] = <<>>
        BY <1>3, InboxType, EmptySeq DEF OrderInv
      <4> QED BY <1>2, <1>3, <4>1, InboxType DEF OrderInv
    <3>3. k + 1 \in 1 .. Len(inbox'[w]) /\ inbox'[w][k + 1] = latest'[<<v, u>>]
      BY <1>2, <1>3, <1>4, <2>2
    <3>4. \A i \in 1 .. Len(inbox'[w]) : ~(k + 1 < i)
      BY <1>3, <1>4
    <3>5. Held(w, v, u)'
      BY <3>1, <3>2, <3>3, <3>4 DEF Held, About
    <3> QED BY <3>5 DEF Stands
  <2>3. CASE Held(w, v, u)
    <3>1. ~ About(m, v, u) /\ \A n \in likeQueue' : ~ About(n, v, u)
      BY <1>1, <2>3 DEF Held
    <3>2. PICK j \in 1 .. k : /\ inbox[w][j] = latest[<<v, u>>]
                              /\ \A i \in 1 .. k : j < i => ~ About(inbox[w][i], v, u)
                              /\ j = 1 /\ step[w] # "row" => Agrees(v, u)
      BY <1>3, <2>3 DEF Held
    <3>3. j \in 1 .. Len(inbox'[w]) /\ inbox'[w][j] = latest'[<<v, u>>]
      BY <1>2, <1>3, <1>4, <3>2
    <3>4. ASSUME NEW i \in 1 .. Len(inbox'[w]), j < i PROVE ~ About(inbox'[w][i], v, u)
      <4>1. CASE i = k + 1
        BY <1>4, <3>1, <4>1
      <4>2. CASE i # k + 1
        <5>1. i \in 1 .. k
          BY <1>3, <1>4, <4>2
        <5> QED BY <1>4, <3>2, <3>4, <5>1
      <4> QED BY <4>1, <4>2
    <3>5. j = 1 /\ step'[w] # "row" => Agrees(v, u)'
      BY <1>2, <3>2 DEF Agrees, IsLiked
    <3>6. Held(w, v, u)'
      BY <3>1, <3>3, <3>4, <3>5 DEF Held, About
    <3> QED BY <3>6 DEF Stands
  <2>4. CASE Settled(w, v, u)
    BY <1>2, <1>5, <2>4 DEF Settled, Agrees, IsLiked, About, Stands
  <2> QED BY <1>7, <2>1, <2>2, <2>3, <2>4 DEF Stands
<1> QED BY <1>2, <1>6, <1>7 DEF OrderInv, Wins

\* The event of a row at hand is about a stored video, and when it has been
\* applied the row is as it wanted.
LEMMA ApplyWins ==
    ASSUME NEW w \in Workers, OrderInv(w), ApplyRow(w)
    PROVE  InOrder(w)' /\ Wins(w)'
<1>0. PICK m : m = Job(w)
  OBVIOUS
<1>1. /\ inbox[w] # <<>> /\ step[w] = "row"
      /\ UNCHANGED <<likeQueue, inbox, published, latest, reordered>>
  BY DEF ApplyRow, Busy, order
<1>2. m \in Event /\ m \in Waiting(w) /\ m.video \in Stored /\ m.act \in Acts /\ m = inbox[w][1]
  <2>1. inbox[w] \in Seq(Event) /\ Waiting(w) \subseteq Event
    BY InboxType DEF OrderInv
  <2>2. m = inbox[w][1] /\ m \in Members(inbox[w])
    BY <1>0, <1>1, <2>1, Taken DEF Job
  <2>3. m \in Waiting(w)
    BY <2>2 DEF Waiting
  <2> QED BY <2>1, <2>2, <2>3 DEF OrderInv, InOrder, Event
<1>3. Waiting(w)' = Waiting(w)
  BY <1>1 DEF Waiting
<1>4. /\ IsLiked(m.video, m.user)' <=> m.act = "like"
      /\ \A v, u : ~About(m, v, u) => (IsLiked(v, u)' <=> IsLiked(v, u))
  <2>1. IF IsLiked(m.video, m.user) <=> m.act = "unlike"
        THEN likes' = IF m.act = "like" THEN likes \cup {<<m.video, m.user>>}
                                        ELSE likes \ {<<m.video, m.user>>}
        ELSE likes' = likes
    BY <1>0, <1>2 DEF ApplyRow, IsExist
  <2>2. CASE m.act = "like"
    <3>1. likes' = likes \cup {<<m.video, m.user>>} \/ (IsLiked(m.video, m.user) /\ likes' = likes)
      BY <2>1, <2>2
    <3> QED BY <2>2, <3>1 DEF IsLiked, About
  <2>3. CASE m.act = "unlike"
    <3>1. likes' = likes \ {<<m.video, m.user>>} \/ (~IsLiked(m.video, m.user) /\ likes' = likes)
      BY <2>1, <2>3
    <3> QED BY <2>3, <3>1 DEF IsLiked, About
  <2> QED BY <1>2, <2>2, <2>3 DEF Acts
<1>5. InOrder(w)'
  BY <1>1, <1>3, OrderKept DEF OrderInv, InOrder
<1>6. ASSUME NEW v \in Videos, NEW u \in Users, Stands(w, v, u)
      PROVE  Stands(w, v, u)'
  <2>1. CASE Queued(v, u)
    BY <1>1, <2>1 DEF Queued, Stands
  <2>2. CASE Held(w, v, u)
    <3>1. PICK j \in 1 .. Len(inbox[w]) :
              /\ inbox[w][j] = latest[<<v, u>>]
              /\ \A i \in 1 .. Len(inbox[w]) : j < i => ~ About(inbox[w][i], v, u)
      BY <2>2 DEF Held
    <3>2. j = 1 => Agrees(v, u)'
      <4> SUFFICES ASSUME j = 1 PROVE Agrees(v, u)'
        OBVIOUS
      <4>1. m = latest[<<v, u>>] /\ m # NoEvent
        BY <1>2, <3>1 DEF Event, NoEvent
      <4>2. About(m, v, u)
        BY <4>1 DEF OrderInv, InOrder
      <4> QED BY <1>1, <1>4, <4>1, <4>2 DEF Agrees, About
    <3>3. Held(w, v, u)'
      BY <1>1, <2>2, <3>1, <3>2 DEF Held, About
    <3> QED BY <3>3 DEF Stands
  <2>3. CASE Settled(w, v, u)
    <3>1. ~ About(m, v, u)
      BY <1>2, <2>3 DEF Settled
    <3>2. Settled(w, v, u)'
      BY <1>1, <1>3, <1>4, <2>3, <3>1 DEF Settled, Agrees, About
    <3> QED BY <3>2 DEF Stands
  <2> QED BY <1>6, <2>1, <2>2, <2>3 DEF Stands
<1> QED BY <1>1, <1>5, <1>6 DEF OrderInv, Wins

\* What w holds without the delivery at hand, which it has ended at "row".
LEMMA HeldBehind ==
    ASSUME NEW w \in Workers, OrderInv(w), inbox[w] # <<>>, inbox'[w] = Tail(inbox[w]),
           step'[w] = "row", NEW v, NEW u, latest' = latest,
           \A m \in likeQueue' : ~ About(m, v, u),
           NEW j \in 1 .. Len(inbox[w]), j # 1, inbox[w][j] = latest[<<v, u>>],
           \A i \in 1 .. Len(inbox[w]) : j < i => ~ About(inbox[w][i], v, u)
    PROVE  Held(w, v, u)'
<1>1. PICK k \in Nat : k = Len(inbox[w])
  BY InboxType DEF OrderInv
<1>2. /\ Len(inbox'[w]) = k - 1
      /\ \A i \in 1 .. k - 1 : inbox'[w][i] = inbox[w][i + 1]
  BY <1>1, InboxType, Taken DEF OrderInv
<1>3. j - 1 \in 1 .. Len(inbox'[w]) /\ inbox'[w][j - 1] = latest'[<<v, u>>]
  BY <1>1, <1>2
<1>4. ASSUME NEW i \in 1 .. Len(inbox'[w]), j - 1 < i PROVE ~ About(inbox'[w][i], v, u)
  <2>1. i + 1 \in 1 .. k /\ j < i + 1 /\ inbox'[w][i] = inbox[w][i + 1]
    BY <1>1, <1>2, <1>4
  <2> QED BY <1>1, <2>1
<1> QED BY <1>3, <1>4 DEF Held, About

\* The acknowledged event has been applied.
LEMMA AckWins ==
    ASSUME NEW w \in Workers, OrderInv(w), Ack(w)
    PROVE  InOrder(w)' /\ Wins(w)'
<1>1. /\ inbox[w] # <<>> /\ step[w] = "ack" /\ step'[w] = "row" /\ inbox'[w] = Tail(inbox[w])
      /\ UNCHANGED <<likes, likeQueue, published, latest, reordered>>
  BY DEF Ack, Busy, Goto, tables, order, OrderInv, TypeInv, TypeOK, BrokerType
<1>2. PICK k \in Nat : k = Len(inbox[w]) /\ k <= Prefetch
  BY InboxType DEF OrderInv, InOrder
<1>3. /\ Members(inbox[w]) = Members(inbox'[w]) \cup {Job(w)} /\ Len(inbox'[w]) = k - 1
      /\ \A i \in 1 .. k - 1 : inbox'[w][i] = inbox[w][i + 1]
  BY <1>1, <1>2, InboxType, Taken DEF OrderInv, Job
<1>4. Waiting(w)' \subseteq Waiting(w)
  BY <1>1, <1>3 DEF Waiting
<1>5. InOrder(w)'
  <2>1. k - 1 <= Prefetch
    BY <1>2, Bounds
  <2> QED BY <1>1, <1>3, <1>4, <2>1, OrderKept DEF OrderInv
<1>6. ASSUME NEW v \in Videos, NEW u \in Users, Stands(w, v, u)
      PROVE  Stands(w, v, u)'
  <2>1. CASE Queued(v, u)
    BY <1>1, <2>1 DEF Queued, Stands
  <2>2. CASE Held(w, v, u)
    <3>1. PICK j \in 1 .. k : /\ inbox[w][j] = latest[<<v, u>>]
                              /\ \A i \in 1 .. k : j < i => ~ About(inbox[w][i], v, u)
                              /\ j = 1 => Agrees(v, u)
      BY <1>1, <1>2, <2>2 DEF Held
    <3>2. CASE j = 1
      <4>1. \A i \in 1 .. k - 1 : ~ About(inbox'[w][i], v, u)
        <5> SUFFICES ASSUME NEW i \in 1 .. k - 1 PROVE ~ About(inbox'[w][i], v, u)
          OBVIOUS
        <5>1. i + 1 \in 1 .. k /\ j < i + 1
          BY <1>2, <3>2
        <5> QED BY <1>3, <3>1, <5>1
      <4>2. \A m \in Waiting(w)' : ~ About(m, v, u)
        BY <1>1, <1>3, <2>2, <4>1 DEF Held, Waiting, Members
      <4>3. Settled(w, v, u)'
        BY <1>1, <3>1, <3>2, <4>2 DEF Settled, Agrees, IsLiked, About
      <4> QED BY <4>3 DEF Stands
    <3>3. CASE j # 1
      <4>1. Held(w, v, u)'
        BY <1>1, <1>2, <2>2, <3>1, <3>3, HeldBehind DEF Held
      <4> QED BY <4>1 DEF Stands
    <3> QED BY <3>2, <3>3
  <2>3. CASE Settled(w, v, u)
    BY <1>1, <1>4, <2>3 DEF Settled, Agrees, IsLiked, About, Stands
  <2> QED BY <1>6, <2>1, <2>2, <2>3 DEF Stands
<1> QED BY <1>1, <1>5, <1>6 DEF OrderInv, Wins

\* What is not put in question by events that go back.
LEMMA NotReordered ==
    ASSUME NEW w \in Workers, OrderInv(w), NEW back, PutBack(back),
           NEW v \in Videos, NEW u \in Users, <<v, u>> \notin reordered', latest[<<v, u>>] \notin back
    PROVE  /\ Stands(w, v, u)
           /\ \A m \in back, i \in 1 .. Len(inbox[w]) :
                 About(m, v, u) => inbox[w][i] # latest[<<v, u>>]
<1>1. PICK p \in Videos \X Users : p = <<v, u>> /\ p[1] = v /\ p[2] = u
  OBVIOUS
<1>2. /\ p \notin reordered
      /\ ~ /\ \E m \in back : m.video = p[1] /\ m.user = p[2]
           /\ \E x \in Workers, i \in 1 .. Prefetch :
                 i <= Len(inbox[x]) /\ inbox[x][i] = latest[p]
  BY <1>1 DEF PutBack
<1>3. Stands(w, v, u)
  BY <1>1, <1>2 DEF OrderInv, Wins
<1>4. \A i \in 1 .. Len(inbox[w]) : i \in 1 .. Prefetch /\ i <= Len(inbox[w])
  BY InboxType, Bounds DEF OrderInv, InOrder
<1> QED BY <1>1, <1>2, <1>3, <1>4 DEF About

\* A delivery that failed goes back before everything in the queue, but
\* behind what the worker has: behind the last event about its pair, perhaps.
LEMMA FailWins ==
    ASSUME NEW w \in Workers, OrderInv(w), StepFails(w)
    PROVE  InOrder(w)' /\ Wins(w)'
<1>0. PICK m : m = Job(w)
  OBVIOUS
<1>1. /\ inbox[w] # <<>> /\ step'[w] = "row" /\ inbox'[w] = Tail(inbox[w])
      /\ likeQueue' = likeQueue \cup {m} /\ PutBack({m})
      /\ UNCHANGED <<likes, published, latest>>
  BY <1>0 DEF StepFails, GetRetryCount, MaxRetryCount, Goto, tables, OrderInv, TypeInv, TypeOK,
              BrokerType
<1>2. PICK k \in Nat : k = Len(inbox[w]) /\ k <= Prefetch
  BY InboxType DEF OrderInv, InOrder
<1>3. /\ Members(inbox[w]) = Members(inbox'[w]) \cup {m} /\ Len(inbox'[w]) = k - 1
      /\ m = inbox[w][1]
  BY <1>0, <1>1, <1>2, InboxType, Taken DEF OrderInv, Job
<1>4. Waiting(w)' = Waiting(w) /\ m \in Waiting(w)
  BY <1>1, <1>3 DEF Waiting
<1>5. InOrder(w)'
  <2>1. k - 1 <= Prefetch
    BY <1>2, Bounds
  <2> QED BY <1>1, <1>3, <1>4, <2>1, OrderKept DEF OrderInv
<1>6. ASSUME NEW v \in Videos, NEW u \in Users, <<v, u>> \notin reordered'
      PROVE  Stands(w, v, u)'
  <2>1. CASE latest[<<v, u>>] = m
    BY <1>1, <2>1 DEF Queued, Stands
  <2>2. CASE latest[<<v, u>>] # m
    <3>1. /\ Stands(w, v, u)
          /\ \A i \in 1 .. k : About(m, v, u) => inbox[w][i] # latest[<<v, u>>]
      BY <1>1, <1>2, <1>6, <2>2, NotReordered
    <3>2. CASE Queued(v, u)
      BY <1>1, <3>2 DEF Queued, Stands
    <3>3. CASE Held(w, v, u)
      <4>1. PICK j \in 1 .. k : /\ inbox[w][j] = latest[<<v, u>>]
                                /\ \A i \in 1 .. k : j < i => ~ About(inbox[w][i], v, u)
        BY <1>2, <3>3 DEF Held
      <4>2. j # 1
        BY <1>3, <2>2, <4>1
      <4>3. \A n \in likeQueue' : ~ About(n, v, u)
        BY <1>1, <3>1, <3>3, <4>1 DEF Held
      <4>4. Held(w, v, u)'
        BY <1>1, <1>2, <4>1, <4>2, <4>3, HeldBehind
      <4> QED BY <4>4 DEF Stands
    <3>4. CASE Settled(w, v, u)
      BY <1>1, <1>4, <3>4 DEF Settled, Agrees, IsLiked, About, Stands
    <3> QED BY <3>1, <3>2, <3>3, <3>4 DEF Stands
  <2> QED BY <2>1, <2>2
<1> QED BY <1>5, <1>6 DEF Wins

\* A crash puts all of them back where they were.
LEMMA CrashWins ==
    ASSUME NEW w \in Workers, OrderInv(w), Crash(w)
    PROVE  InOrder(w)' /\ Wins(w)'
<1> DEFINE back == Members(inbox[w])
<1>1. inbox[w] \in Seq(Event) /\ {inbox[w][i] : i \in DOMAIN inbox[w]} = back
  BY InboxType DEF OrderInv, Members
<1>2. /\ inbox'[w] = <<>> /\ likeQueue' = likeQueue \cup back /\ PutBack(back)
      /\ UNCHANGED <<likes, published, latest>>
  BY <1>1 DEF Crash, tables, OrderInv, TypeInv, TypeOK, BrokerType
<1>3. Len(<<>>) = 0 /\ Members(<<>>) = {}
  BY DEF Members
<1>4. Waiting(w)' = Waiting(w)
  BY <1>2, <1>3 DEF Waiting
<1>5. InOrder(w)'
  BY <1>2, <1>3, <1>4, Bounds, OrderKept DEF OrderInv
<1>6. ASSUME NEW v \in Videos, NEW u \in Users, <<v, u>> \notin reordered'
      PROVE  Stands(w, v, u)'
  <2>1. CASE latest[<<v, u>>] \in back
    BY <1>2, <2>1 DEF Queued, Stands
  <2>2. CASE latest[<<v, u>>] \notin back
    <3>1. Stands(w, v, u)
      BY <1>2, <1>6, <2>2, NotReordered
    <3>2. ~ Held(w, v, u)
      BY <2>2 DEF Held, Members
    <3>3. CASE Queued(v, u)
      BY <1>2, <3>3 DEF Queued, Stands
    <3>4. CASE Settled(w, v, u)
      BY <1>2, <1>4, <3>4 DEF Settled, Agrees, IsLiked, About, Stands
    <3> QED BY <3>1, <3>2, <3>3, <3>4 DEF Stands
  <2> QED BY <2>1, <2>2
<1> QED BY <1>5, <1>6 DEF Wins

\* A new event is the last about its pair.
LEMMA QueueWins ==
    ASSUME NEW w \in Workers, OrderInv(w), NEW k \in Call, k.video \in Stored, Queues(k),
           UNCHANGED <<likes, inbox, step>>
    PROVE  InOrder(w)' /\ Wins(w)'
<1>0. PICK e : e = [id |-> published, act |-> k.act, user |-> k.user, video |-> k.video]
  OBVIOUS
<1>1. /\ published \in Nat /\ k.video \in Videos /\ k.user \in Users
      /\ latest \in [Videos \X Users -> Event \cup {NoEvent}]
      /\ e \in Event /\ e.id = published /\ e.video = k.video /\ e.user = k.user
  BY <1>0 DEF OrderInv, TypeInv, TypeOK, HistoryType, Call, Event
<1>2. /\ likeQueue' = likeQueue \cup {e} /\ published' = published + 1
      /\ latest' = [latest EXCEPT ![<<k.video, k.user>>] = e]
      /\ reordered' = reordered \ {<<k.video, k.user>>}
  BY <1>0 DEF Queues
<1>3. Waiting(w)' = Waiting(w) \cup {e}
  BY <1>2 DEF Waiting
<1>4. ASSUME NEW v \in Videos, NEW u \in Users
      PROVE  /\ About(e, v, u) <=> (v = k.video /\ u = k.user)
             /\ About(e, v, u) => latest'[<<v, u>>] = e
             /\ ~ About(e, v, u) => latest'[<<v, u>>] = latest[<<v, u>>]
  BY <1>1, <1>2 DEF About
<1>5. InOrder(w)'
  <2>1. Len(inbox'[w]) <= Prefetch
    BY DEF OrderInv, InOrder
  <2>2. ASSUME NEW m \in Waiting(w)' PROVE m.id < published' /\ m.video \in Stored /\ Newest(m)'
    <3>1. m \in Event /\ m.video \in Videos /\ m.user \in Users
      BY <1>1, <1>3, InboxType DEF OrderInv, Event
    <3>2. CASE m = e
      <4>1. latest'[<<m.video, m.user>>] = e
        BY <1>1, <1>4, <3>1, <3>2 DEF About
      <4> QED BY <1>1, <1>2, <3>2, <4>1 DEF Newest, Event
    <3>3. CASE m \in Waiting(w)
      <4>1. m.id < published /\ m.video \in Stored /\ Newest(m) /\ m.id \in Nat
        BY <3>1, <3>3 DEF OrderInv, InOrder, Event
      <4>2. CASE About(e, m.video, m.user)
        <5>1. latest'[<<m.video, m.user>>] = e
          BY <1>4, <3>1, <4>2
        <5> QED BY <1>1, <1>2, <4>1, <5>1 DEF Newest
      <4>3. CASE ~ About(e, m.video, m.user)
        <5>1. latest'[<<m.video, m.user>>] = latest[<<m.video, m.user>>]
          BY <1>4, <3>1, <4>3
        <5> QED BY <1>1, <1>2, <4>1, <5>1 DEF Newest
      <4> QED BY <4>2, <4>3
    <3> QED BY <1>3, <3>2, <3>3
  <2>3. ASSUME NEW v \in Videos, NEW u \in Users
        PROVE  latest'[<<v, u>>] = NoEvent \/ About(latest'[<<v, u>>], v, u)
    BY <1>4 DEF OrderInv, InOrder
  <2> QED BY <2>1, <2>2, <2>3 DEF InOrder, About
<1>6. ASSUME NEW v \in Videos, NEW u \in Users, <<v, u>> \notin reordered'
      PROVE  Stands(w, v, u)'
  <2>1. CASE About(e, v, u)
    BY <1>2, <1>4, <2>1 DEF Queued, Stands
  <2>2. CASE ~ About(e, v, u)
    <3>1. latest'[<<v, u>>] = latest[<<v, u>>] /\ Stands(w, v, u)
      BY <1>2, <1>4, <1>6, <2>2 DEF OrderInv, Wins
    <3>2. CASE Queued(v, u)
      BY <1>2, <3>1, <3>2 DEF Queued, Stands
    <3>3. CASE Held(w, v, u)
      BY <1>2, <2>2, <3>1, <3>3 DEF Held, Agrees, IsLiked, About, Stands
    <3>4. CASE Settled(w, v, u)
      BY <1>3, <2>2, <3>1, <3>4 DEF Settled, Agrees, IsLiked, About, Stands
    <3> QED BY <3>1, <3>2, <3>3, <3>4 DEF Stands
  <2> QED BY <2>1, <2>2
<1> QED BY <1>5, <1>6 DEF Wins

\* What touches neither queue, inbox, row nor the history of events.
LEMMA OrderUntouched ==
    ASSUME NEW w \in Workers, OrderInv(w),
           UNCHANGED <<likes, likeQueue, inbox, published, latest, reordered>>,
           step'[w] = step[w] \/ step[w] # "row"
    PROVE  InOrder(w)' /\ Wins(w)'
<1>1. Waiting(w)' = Waiting(w)
  BY DEF Waiting
<1>2. InOrder(w)'
  BY <1>1, OrderKept DEF OrderInv, InOrder
<1>3. ASSUME NEW v \in Videos, NEW u \in Users, Stands(w, v, u)
      PROVE  Stands(w, v, u)'
  <2>1. Queued(v, u) => Queued(v, u)'
    BY DEF Queued
  <2>2. Held(w, v, u) => Held(w, v, u)'
    BY DEF Held, Agrees, IsLiked, About
  <2>3. Settled(w, v, u) => Settled(w, v, u)'
    BY <1>1 DEF Settled, Agrees, IsLiked, About
  <2> QED BY <1>3, <2>1, <2>2, <2>3 DEF Stands
<1> QED BY <1>2, <1>3 DEF OrderInv, Wins

LEMMA OrderStep ==
    ASSUME "refused" \notin LikePublish, NEW w, Workers = {w}, OrderInv(w), [Next]_vars
    PROVE  OrderInv(w)'
<1> USE DEF OrderInv
<1>0. w \in Workers /\ \A x \in Workers : x = w
  OBVIOUS
<1>1. TypeInv' /\ Routed'
  BY TypeStep, RoutedStep
<1>2. ASSUME NEW c \in Clients, Request(c) PROVE InOrder(w)' /\ Wins(w)'
  <2>1. /\ UNCHANGED <<likes, inbox, step>>
        /\ UNCHANGED <<likeQueue, order>> \/ \E k \in Call : k.video \in Stored /\ Queues(k)
    BY <1>0, <1>2, RequestQueues DEF tables
  <2> QED BY <1>0, <2>1, QueueWins, OrderUntouched DEF order
<1>3. ASSUME Worker(w) PROVE InOrder(w)' /\ Wins(w)'
  <2>1. CASE ApplyCount(w) \/ WorkerLoads(w) \/ WorkerSaves(w) \/ ApplyPopularity(w)
    <3>1. /\ UNCHANGED <<likes, likeQueue, inbox, published, latest, reordered>>
          /\ step[w] # "row"
      BY <2>1 DEF ApplyCount, WorkerLoads, WorkerSaves, ApplyPopularity, Busy, tables, order
    <3> QED BY <1>0, <3>1, OrderUntouched
  <2> QED BY <1>0, <1>3, <2>1, DeliverWins, ApplyWins, AckWins, FailWins, CrashWins DEF Worker
<1>4. ASSUME (\E v \in Videos : FeedItem(v)) \/ UNCHANGED vars PROVE InOrder(w)' /\ Wins(w)'
  BY <1>0, <1>4, OrderUntouched DEF FeedItem, FillReads, FillSaves, CopyEnds, Expire, tables, broker,
     order, vars
<1>5. InOrder(w)' /\ Wins(w)'
  BY <1>0, <1>2, <1>3, <1>4 DEF Next
<1> QED BY <1>1, <1>5

\* With one worker and like events that are never refused, the row ends up as
\* the last event queued about it wants it: for any prefetch, and through
\* failures, crashes and redeliveries, unless an older event about the pair
\* went back to the queue while the worker held the last one.
THEOREM LastEventHolds ==
    ASSUME "refused" \notin LikePublish, NEW w, Workers = {w}
    PROVE  Spec => []LastEventWins
<1>1. Init => OrderInv(w)
  <2> SUFFICES ASSUME Init PROVE InOrder(w) /\ Wins(w)
    BY TypeInit, RoutedInit DEF OrderInv
  <2>1. inbox[w] = <<>> /\ likeQueue = {} /\ likes = {}
    <3>1. w \in Workers
      OBVIOUS
    <3> QED BY <3>1 DEF Init
  <2>2. Waiting(w) = {} /\ Len(inbox[w]) = 0
    BY <2>1 DEF Waiting, Members
  <2>3. \A v \in Videos, u \in Users : latest[<<v, u>>] = NoEvent
    BY DEF Init
  <2>4. InOrder(w)
    BY <2>2, <2>3, Bounds DEF InOrder
  <2>5. ASSUME NEW v \in Videos, NEW u \in Users PROVE Stands(w, v, u)
    <3>1. latest[<<v, u>>].act = "none" /\ ~ IsLiked(v, u)
      BY <2>1, <2>3 DEF NoEvent, IsLiked
    <3> QED BY <2>2, <3>1 DEF Stands, Settled, Agrees
  <2> QED BY <2>4, <2>5 DEF Wins
<1>2. OrderInv(w) /\ [Next]_vars => OrderInv(w)'
  BY OrderStep
<1>3. OrderInv(w) => LastEventWins
  <2> SUFFICES ASSUME OrderInv(w), AtRest, NEW v \in Videos, NEW u \in Users, <<v, u>> \notin reordered
               PROVE  IsLiked(v, u) <=> latest[<<v, u>>].act = "like"
    BY DEF LastEventWins
  <2>1. likeQueue = {} /\ inbox[w] = <<>> /\ Len(<<>>) = 0
    BY DEF AtRest
  <2>2. ~ Queued(v, u) /\ ~ Held(w, v, u)
    BY <2>1 DEF Queued, Held
  <2> QED BY <2>2 DEF OrderInv, Wins, Stands, Settled, Agrees
<1> QED BY <1>1, <1>2, <1>3, PTL DEF Spec


-----------------------------------------------------------------------------
(* The counters and their copy follow the rows.                            *)

\* The change that w, at one of the points S, has still to make for v.
Due(w, S, v) == IF step[w] \in S /\ Job(w).video = v THEN Delta(Job(w).act) ELSE 0

Changing == {"count", "load", "save", "pop"}

\* With one worker and nothing that fails, both counters lack exactly what the
\* worker has still to do for the row it has changed.
Counted(w, v) ==
    /\ likesCount[v] = Cardinality(LikersOf(v)) - Due(w, {"count"}, v)
    /\ popularity[v] = Cardinality(LikersOf(v)) - Due(w, Changing, v)

CountInv(w) == TypeInv /\ Routed /\ \A v \in Videos : Counted(w, v)

\* What a video has, in numbers.
LEMMA CountTypes ==
    ASSUME TypeInv, NEW w \in Workers, NEW v \in Videos
    PROVE  /\ likesCount[v] \in Nat /\ popularity[v] \in Nat /\ Cardinality(LikersOf(v)) \in Nat
           /\ \A S : "row" \notin S => Due(w, S, v) \in {-1, 0, 1}
<1>1. Cardinality(LikersOf(v)) \in Nat
  BY LikersFinite
<1>2. likesCount[v] \in Nat /\ popularity[v] \in Nat
  BY DEF TypeInv, TypeOK, TablesType
<1>3. ASSUME NEW S PROVE Due(w, S, v) \in {-1, 0, 1}
  BY DEF Due, Delta
<1> QED BY <1>1, <1>2, <1>3

\* The event in hand.
LEMMA InHandType ==
    ASSUME TypeInv, NEW w \in Workers, inbox[w] # <<>>
    PROVE  /\ Job(w).video \in Videos /\ Job(w).user \in Users /\ Job(w).act \in Acts
           /\ Delta(Job(w).act) \in {-1, 1}
BY JobType DEF Event, Delta, Acts

\* A delivery more, and the steps of a request, change nothing that is due.
LEMMA DueStays ==
    ASSUME TypeInv, NEW w \in Workers, step'[w] = step[w], step[w] # "row" => Job(w)' = Job(w),
           NEW S, "row" \notin S, NEW v
    PROVE  Due(w, S, v)' = Due(w, S, v)
BY DEF Due

\* The same rows and counters.
LEMMA CountedStays ==
    ASSUME NEW w \in Workers, NEW v \in Videos, Counted(w, v),
           UNCHANGED <<likes, likesCount, popularity>>,
           Due(w, {"count"}, v)' = Due(w, {"count"}, v), Due(w, Changing, v)' = Due(w, Changing, v)
    PROVE  Counted(w, v)'
<1>1. LikersOf(v)' = LikersOf(v)
  BY DEF LikersOf
<1>2. Cardinality(LikersOf(v)') = Cardinality(LikersOf(v)) /\ Changing' = Changing
  BY <1>1 DEF Changing
<1> QED BY <1>1 DEF Counted

LEMMA ApplyCounts ==
    ASSUME NEW w \in Workers, CountInv(w), ApplyRow(w), NEW v \in Videos
    PROVE  Counted(w, v)'
<1>1. PICK m : m = Job(w)
  OBVIOUS
<1>2. /\ inbox[w] # <<>> /\ step[w] = "row" /\ UNCHANGED <<likesCount, popularity, inbox>> /\ m = Job(w)'
      /\ m.video \in Videos /\ m.user \in Users /\ m.act \in Acts
  BY <1>1, InHandType DEF CountInv, ApplyRow, Busy, Job
<1>3. /\ likesCount[v] \in Nat /\ popularity[v] \in Nat /\ Cardinality(LikersOf(v)) \in Nat
      /\ likesCount[v] = Cardinality(LikersOf(v)) - Due(w, {"count"}, v)
      /\ popularity[v] = Cardinality(LikersOf(v)) - Due(w, Changing, v)
  BY CountTypes DEF CountInv, Counted
<1>4. Due(w, {"count"}, v) = 0 /\ Due(w, Changing, v) = 0
  BY <1>2 DEF Due, Changing
<1>5. CASE IsExist(m.video) /\ (IsLiked(m.video, m.user) <=> m.act = "unlike")
  <2>1. /\ step'[w] = "count"
        /\ likes' = IF m.act = "like" THEN likes \cup {<<m.video, m.user>>}
                                      ELSE likes \ {<<m.video, m.user>>}
    BY <1>1, <1>5 DEF ApplyRow, Goto, CountInv, TypeInv, TypeOK, BrokerType
  <2>2. \A S : Due(w, S, v)' = IF "count" \in S /\ m.video = v THEN Delta(m.act) ELSE 0
    BY <1>1, <1>2, <2>1 DEF Due
  <2>3. Due(w, {"count"}, v)' = (IF m.video = v THEN Delta(m.act) ELSE 0)
    BY <2>2
  <2>4. Due(w, Changing, v)' = (IF m.video = v THEN Delta(m.act) ELSE 0)
    BY <2>2 DEF Changing
  <2>5. Cardinality(LikersOf(v)') = Cardinality(LikersOf(v)) + (IF m.video = v THEN Delta(m.act) ELSE 0)
    <3>1. CASE m.act = "like"
      BY <1>2, <1>3, <1>5, <2>1, <3>1, InsertRow DEF Delta
    <3>2. CASE m.act = "unlike"
      BY <1>2, <1>3, <1>5, <2>1, <3>2, DeleteRow DEF Delta
    <3> QED BY <1>2, <3>1, <3>2 DEF Acts
  <2>6. Delta(m.act) \in Int
    BY <1>2, DeltaType
  <2> QED BY <1>2, <1>3, <1>4, <2>3, <2>4, <2>5, <2>6 DEF Counted
<1>6. CASE ~(IsExist(m.video) /\ (IsLiked(m.video, m.user) <=> m.act = "unlike"))
  <2>1. step'[w] = "ack" /\ likes' = likes
    BY <1>1, <1>6 DEF ApplyRow, Goto, CountInv, TypeInv, TypeOK, BrokerType
  <2>2. Due(w, {"count"}, v)' = 0 /\ Due(w, Changing, v)' = 0
    BY <2>1 DEF Due, Changing
  <2> QED BY <1>2, <1>4, <2>1, <2>2, CountedStays DEF CountInv
<1> QED BY <1>5, <1>6


LEMMA AddCounts ==
    ASSUME NEW w \in Workers, CountInv(w), ApplyCount(w) \/ ApplyPopularity(w), NEW v \in Videos
    PROVE  Counted(w, v)'
<1>1. PICK m : m = Job(w)
  OBVIOUS
<1>2. /\ inbox[w] # <<>> /\ UNCHANGED <<likes, inbox>> /\ m = Job(w)' /\ Delta(m.act) \in {-1, 1}
      /\ m.video \in Videos
  BY <1>1, InHandType DEF CountInv, ApplyCount, ApplyPopularity, Busy, Job
<1>3. /\ likesCount[v] \in Nat /\ popularity[v] \in Nat /\ Cardinality(LikersOf(v)) \in Nat
      /\ likesCount[v] = Cardinality(LikersOf(v)) - Due(w, {"count"}, v)
      /\ popularity[v] = Cardinality(LikersOf(v)) - Due(w, Changing, v)
  BY CountTypes DEF CountInv, Counted
<1>4. LikersOf(v)' = LikersOf(v)
  BY <1>2 DEF LikersOf
<1>5. PICK n \in Nat, d \in {-1, 1} : n = Cardinality(LikersOf(v)) /\ d = Delta(m.act)
  BY <1>2, <1>3
<1>6. Clamp(n) = n /\ (n - d) + d = n
  BY <1>5 DEF Clamp
<1>7. CASE ApplyCount(w)
  <2>1. /\ step[w] = "count" /\ step'[w] \in {"load", "pop"} /\ popularity' = popularity
        /\ likesCount' = [likesCount EXCEPT ![m.video] = Clamp(@ + d)]
    BY <1>1, <1>5, <1>7 DEF ApplyCount, Busy, Goto, CountInv, TypeInv, TypeOK, BrokerType
  <2>2. /\ Due(w, {"count"}, v) = IF m.video = v THEN d ELSE 0
        /\ Due(w, Changing, v) = IF m.video = v THEN d ELSE 0
    BY <1>1, <1>5, <2>1 DEF Due, Changing
  <2>3. Due(w, {"count"}, v)' = 0 /\ Due(w, Changing, v)' = IF m.video = v THEN d ELSE 0
    BY <1>1, <1>2, <1>5, <2>1 DEF Due, Changing
  <2>4. likesCount'[v] = IF m.video = v THEN Clamp(likesCount[v] + d) ELSE likesCount[v]
    BY <1>2, <2>1 DEF CountInv, TypeInv, TypeOK, TablesType
  <2>5. likesCount'[v] = n
    BY <1>3, <1>5, <1>6, <2>2, <2>4
  <2> QED BY <1>3, <1>4, <1>5, <2>1, <2>2, <2>3, <2>5 DEF Counted
<1>8. CASE ApplyPopularity(w)
  <2>1. /\ step[w] = "pop" /\ step'[w] = "ack" /\ likesCount' = likesCount
        /\ popularity' = [popularity EXCEPT ![m.video] = Clamp(@ + d)]
    BY <1>1, <1>5, <1>8 DEF ApplyPopularity, Busy, Goto, CountInv, TypeInv, TypeOK, BrokerType
  <2>2. /\ Due(w, {"count"}, v) = 0
        /\ Due(w, Changing, v) = IF m.video = v THEN d ELSE 0
    BY <1>1, <1>5, <2>1 DEF Due, Changing
  <2>3. Due(w, {"count"}, v)' = 0 /\ Due(w, Changing, v)' = 0
    BY <2>1 DEF Due, Changing
  <2>4. popularity'[v] = IF m.video = v THEN Clamp(popularity[v] + d) ELSE popularity[v]
    BY <1>2, <2>1 DEF CountInv, TypeInv, TypeOK, TablesType
  <2>5. popularity'[v] = n
    BY <1>3, <1>5, <1>6, <2>2, <2>4
  <2> QED BY <1>3, <1>4, <1>5, <2>1, <2>2, <2>3, <2>5 DEF Counted
<1> QED BY <1>7, <1>8

\* The other steps of the worker neither change nor come to owe a count.
LEMMA OtherCounts ==
    ASSUME NEW w \in Workers, CountInv(w),
           Deliver(w) \/ WorkerLoads(w) \/ WorkerSaves(w) \/ Ack(w), NEW v \in Videos
    PROVE  Counted(w, v)'
<1> USE DEF CountInv
<1>1. UNCHANGED <<likes, likesCount, popularity>>
  BY DEF Deliver, WorkerLoads, WorkerSaves, Ack, tables
<1>2. CASE Deliver(w)
  <2>1. step' = step /\ \E m \in Event : inbox'[w] = Append(inbox[w], m)
    BY <1>2 DEF Deliver, TypeInv, TypeOK, BrokerType
  <2>2. step[w] # "row" => Job(w)' = Job(w)
    BY <2>1, InboxType DEF Job
  <2>3. "row" \notin {"count"} /\ "row" \notin Changing
    BY DEF Changing
  <2> QED BY <1>1, <2>1, <2>2, <2>3, DueStays, CountedStays DEF Due, Changing
<1>3. CASE WorkerLoads(w) \/ WorkerSaves(w)
  <2>1. /\ step[w] \in {"load", "save"} /\ step'[w] \in {"save", "pop"} /\ Job(w)' = Job(w)
    BY <1>3 DEF WorkerLoads, WorkerSaves, Busy, Goto, Job, TypeInv, TypeOK, BrokerType
  <2>2. Due(w, {"count"}, v)' = Due(w, {"count"}, v) /\ Due(w, Changing, v)' = Due(w, Changing, v)
    BY <2>1 DEF Due, Changing
  <2> QED BY <1>1, <2>2, CountedStays
<1>4. CASE Ack(w)
  <2>1. step[w] = "ack" /\ step'[w] = "row"
    BY <1>4 DEF Ack, Busy, Goto, TypeInv, TypeOK, BrokerType
  <2>2. Due(w, {"count"}, v)' = Due(w, {"count"}, v) /\ Due(w, Changing, v)' = Due(w, Changing, v)
    BY <2>1 DEF Due, Changing
  <2> QED BY <1>1, <2>2, CountedStays
<1> QED BY <1>2, <1>3, <1>4

LEMMA NothingFails ==
    ASSUME MaxFailures = 0, TypeInv
    PROVE  ~Fail
<1>1. failures \in Nat /\ failures <= 0
  BY DEF TypeInv, TypeOK, HistoryType
<1>2. ~(failures < MaxFailures)
  BY <1>1
<1> QED BY <1>2 DEF Fail

LEMMA CountStep ==
    ASSUME "refused" \notin LikePublish, MaxFailures = 0, NEW w, Workers = {w}, CountInv(w), [Next]_vars
    PROVE  CountInv(w)'
<1>0. w \in Workers /\ \A x \in Workers : x = w
  OBVIOUS
<1>1. TypeInv' /\ Routed' /\ ~Fail
  BY TypeStep, RoutedStep, NothingFails DEF CountInv
<1>2. ASSUME NEW v \in Videos, UNCHANGED <<likes, likesCount, popularity, inbox, step>>
      PROVE  Counted(w, v)'
  <2>1. Due(w, {"count"}, v)' = Due(w, {"count"}, v) /\ Due(w, Changing, v)' = Due(w, Changing, v)
    BY <1>2 DEF Due, Job, Changing
  <2> QED BY <1>0, <1>2, <2>1, CountedStays DEF CountInv
<1>3. CASE ~\E x \in Workers : Worker(x)
  <2>1. UNCHANGED <<likes, likesCount, popularity, inbox, step>>
    <3>1. ASSUME NEW c \in Clients, Request(c) PROVE UNCHANGED <<likes, likesCount, popularity, inbox, step>>
      BY <3>1, RequestQueues DEF CountInv, tables
    <3> QED BY <1>3, <3>1 DEF Next, FeedItem, FillReads, FillSaves, CopyEnds, Expire, vars, tables, broker
  <2> QED BY <1>1, <1>2, <2>1 DEF CountInv
<1>4. CASE Worker(w)
  <2>1. ~StepFails(w) /\ ~Crash(w)
    BY <1>1 DEF StepFails, Crash
  <2>2. \A v \in Videos : Counted(w, v)'
    BY <1>0, <1>4, <2>1, ApplyCounts, AddCounts, OtherCounts DEF Worker
  <2> QED BY <1>1, <2>2 DEF CountInv
<1> QED BY <1>0, <1>3, <1>4

LEMMA CountInit ==
    ASSUME NEW w \in Workers, Init
    PROVE  CountInv(w)
<1>1. \A v \in Videos : LikersOf(v) = {} /\ likesCount[v] = 0 /\ popularity[v] = 0
  BY DEF Init, LikersOf
<1>2. \A v \in Videos : Due(w, {"count"}, v) = 0 /\ Due(w, Changing, v) = 0
  BY DEF Init, Due, Changing
<1> QED BY <1>1, <1>2, FS_EmptySet, TypeInit, RoutedInit DEF CountInv, Counted

\* With one worker, like events that are never refused and nothing that fails,
\* both counters of LikeWorker equal the rows once everything is consumed,
\* however often an event found its row already there.
THEOREM SettledHolds ==
    ASSUME "refused" \notin LikePublish, MaxFailures = 0, NEW w, Workers = {w}
    PROVE  Spec => []SettledCountsExact
<1>1. Init => CountInv(w)
  BY CountInit
<1>2. CountInv(w) /\ [Next]_vars => CountInv(w)'
  BY CountStep
<1>3. CountInv(w) => SettledCountsExact
  <2> SUFFICES ASSUME CountInv(w), AtRest, NEW v \in Videos
               PROVE  /\ likesCount[v] = Cardinality(LikersOf(v))
                      /\ popularity[v] = Cardinality(LikersOf(v))
    BY DEF SettledCountsExact
  <2>1. step[w] = "row"
    BY InboxType DEF CountInv, AtRest
  <2>2. Due(w, {"count"}, v) = 0 /\ Due(w, Changing, v) = 0
    BY <2>1 DEF Due, Changing
  <2> QED BY <2>2, CountTypes DEF CountInv, Counted
<1> QED BY <1>1, <1>2, <1>3, PTL DEF Spec


\* The worker is at s with a change of v.
At(w, s, v) == step[w] = s /\ Job(w).video = v

\* A copy that lacks nothing has the count, and one that lacks the change the
\* worker is about to load the item for lacks just that.  A feed item that is
\* not stale lacks that change too, or will be overwritten with the right
\* count by the worker that has loaded it.
Copied(w, v) ==
    /\ copies[v] # {} \/ view[v] # NoEntry \/ At(w, "save", v) => RedisUp
    /\ \A k \in copies[v] : k.behind = 0 => k.count = likesCount[v]
    /\ \A k \in copies[v] : k.behind = 1 /\ At(w, "load", v) =>
                               k.count = likesCount[v] - Due(w, {"load"}, v)
    /\ ~ stale[v] /\ view[v] # NoEntry /\ ~ At(w, "save", v) =>
          view[v] = likesCount[v] - Due(w, {"load"}, v)
    /\ ~ stale[v] /\ At(w, "save", v) => loaded[w] + Delta(Job(w).act) = likesCount[v]

CopyInv(w) == CountInv(w) /\ \A v \in Videos : Copied(w, v)

\* Steps that touch none of these.
LEMMA CopiedStays ==
    ASSUME NEW w \in Workers, NEW v \in Videos, Copied(w, v),
           UNCHANGED <<likesCount, item>>, loaded'[w] = loaded[w],
           \/ step'[w] = step[w] /\ (step[w] # "row" => Job(w)' = Job(w))
           \/ step[w] \notin {"load", "save"} /\ step'[w] \notin {"load", "save"}
    PROVE  Copied(w, v)'
<1>1. /\ Due(w, {"load"}, v)' = Due(w, {"load"}, v)
      /\ At(w, "load", v)' = At(w, "load", v) /\ At(w, "save", v)' = At(w, "save", v)
      /\ At(w, "save", v) => Job(w)' = Job(w)
  BY DEF Due, At
<1> QED BY <1>1 DEF Copied, item

\* Where the worker is about what it has to do for v.
LEMMA DueThere ==
    ASSUME TypeInv, NEW w \in Workers, NEW v \in Videos
    PROVE  /\ At(w, "load", v) => Due(w, {"load"}, v) = Delta(Job(w).act)
           /\ ~ At(w, "load", v) => Due(w, {"load"}, v) = 0
BY DEF At, Due

\* The counter changes; its copies come to lack the change, and the one that
\* is the feed item is now the worker's to change.
LEMMA CountCopies ==
    ASSUME NEW w \in Workers, CopyInv(w), ApplyCount(w), NEW v \in Videos
    PROVE  Copied(w, v)'
<1>1. PICK m : m = Job(w)
  OBVIOUS
<1>2. /\ step[w] = "count" /\ step'[w] = (IF RedisUp THEN "load" ELSE "pop")
      /\ UNCHANGED <<view, stale, loaded>> /\ m = Job(w)' /\ Delta(m.act) \in {-1, 1}
      /\ likesCount'[v] = IF m.video = v THEN Clamp(likesCount[v] + Delta(m.act)) ELSE likesCount[v]
      /\ m.video \in Videos
  BY <1>1, InHandType DEF ApplyCount, Busy, Goto, Job, CopyInv, CountInv, TypeInv, TypeOK,
     BrokerType, TablesType
<1>3. /\ likesCount[v] \in Nat /\ Cardinality(LikersOf(v)) \in Nat
      /\ likesCount[v] = Cardinality(LikersOf(v)) - Due(w, {"count"}, v)
  BY CountTypes DEF CopyInv, CountInv, Counted
<1>4. PICK c \in Nat, d \in {-1, 1} : c = likesCount[v] /\ d = Delta(m.act)
  BY <1>2, <1>3
<1>5. m.video = v => likesCount'[v] = c + d
  <2>1. PICK n \in Nat : n = Cardinality(LikersOf(v))
    BY <1>3
  <2>2. m.video = v => Due(w, {"count"}, v) = d
    BY <1>1, <1>2, <1>4 DEF Due
  <2>3. m.video = v => c + d = n
    BY <1>3, <1>4, <2>1, <2>2
  <2>4. m.video = v => Clamp(c + d) = c + d
    BY <2>1, <2>3 DEF Clamp
  <2> QED BY <1>2, <1>4, <2>4
<1>6. /\ ~ At(w, "load", v) /\ ~ At(w, "save", v) /\ ~ At(w, "save", v)'
      /\ At(w, "load", v)' <=> (RedisUp /\ m.video = v)
  BY <1>1, <1>2 DEF At
<1>7. Due(w, {"load"}, v) = 0 /\ Due(w, {"load"}, v)' = IF RedisUp /\ m.video = v THEN d ELSE 0
  BY <1>1, <1>2, <1>4 DEF Due
<1>8. /\ \A k \in copies[v] : k \in Copy /\ (k.behind = 0 => k.count = c)
      /\ copies[v] # {} \/ view[v] # NoEntry => RedisUp
      /\ ~ stale[v] /\ view[v] # NoEntry => view[v] = c
  BY <1>4, <1>6, <1>7 DEF CopyInv, CountInv, Copied, TypeInv, TypeOK, RedisType
<1>9. copies'[v] = IF m.video = v THEN {[k EXCEPT !.behind = @ + 1] : k \in copies[v]} ELSE copies[v]
  BY <1>1, <1>2 DEF ApplyCount, Overtake, CopyInv, CountInv, TypeInv, TypeOK, RedisType
<1>10. CASE m.video = v
  <2>1. ASSUME NEW k \in copies'[v] PROVE k.behind # 0 /\ (k.behind = 1 => k.count = c)
    <3>1. PICK j \in copies[v] : k = [j EXCEPT !.behind = @ + 1]
      BY <1>9, <1>10, <2>1
    <3>2. j \in Copy /\ k.behind = j.behind + 1 /\ k.count = j.count
      BY <1>8, <3>1 DEF Copy
    <3> QED BY <1>8, <3>2 DEF Copy
  <2>2. copies'[v] # {} => copies[v] # {}
    BY <1>9, <1>10
  <2>3. RedisUp => likesCount'[v] - Due(w, {"load"}, v)' = c
    BY <1>4, <1>5, <1>7, <1>10
  <2> QED BY <1>2, <1>6, <1>8, <2>1, <2>2, <2>3 DEF Copied
<1>11. CASE m.video # v
  <2>1. likesCount'[v] = c /\ copies'[v] = copies[v] /\ Due(w, {"load"}, v)' = 0
    BY <1>2, <1>4, <1>7, <1>9, <1>11
  <2> QED BY <1>2, <1>4, <1>6, <1>8, <1>11, <2>1 DEF Copied
<1> QED BY <1>10, <1>11

LEMMA LoadCopies ==
    ASSUME NEW w \in Workers, CopyInv(w), WorkerLoads(w), ~Fail, NEW v \in Videos
    PROVE  Copied(w, v)'
<1>1. PICK m : m = Job(w)
  OBVIOUS
<1>2. /\ step[w] = "load" /\ UNCHANGED <<likesCount, item>> /\ m = Job(w)'
      /\ IF view[m.video] = NoEntry THEN step'[w] = "pop"
         ELSE step'[w] = "save" /\ loaded'[w] = view[m.video]
      /\ Delta(m.act) \in {-1, 1} /\ likesCount[v] \in Nat
  BY <1>1, InHandType DEF WorkerLoads, LoadItem, Busy, Goto, Job, tables, CopyInv, CountInv, TypeInv,
     TypeOK, BrokerType, RedisType, TablesType
<1>3. UNCHANGED <<likesCount, view, copies, stale>> /\ Copied(w, v) /\ TypeInv
  BY <1>2 DEF item, CopyInv, CountInv
<1>4. Due(w, {"load"}, v)' = 0 /\ ~ At(w, "load", v)'
  BY <1>2 DEF Due, At
<1>5. CASE m.video = v /\ view[v] # NoEntry
  <2>1. At(w, "load", v) /\ ~ At(w, "save", v) /\ At(w, "save", v)' /\ loaded'[w] = view[v]
    BY <1>1, <1>2, <1>5 DEF At
  <2>2. ~ stale[v] => view[v] = likesCount[v] - Delta(m.act)
    BY <1>1, <1>3, <1>5, <2>1, DueThere DEF Copied
  <2>3. PICK c \in Nat, d \in {-1, 1} : c = likesCount[v] /\ d = Delta(m.act)
    BY <1>2
  <2>4. ~ stale[v] => loaded'[w] + Delta(m.act) = likesCount[v]
    BY <2>1, <2>2, <2>3
  <2> QED BY <1>2, <1>3, <1>4, <1>5, <2>1, <2>4 DEF Copied
<1>6. CASE m.video = v /\ view[v] = NoEntry
  <2>1. ~ At(w, "save", v)'
    BY <1>2, <1>6 DEF At
  <2> QED BY <1>3, <1>4, <1>6, <2>1 DEF Copied
<1>7. CASE m.video # v
  <2>1. ~ At(w, "load", v) /\ ~ At(w, "save", v) /\ ~ At(w, "save", v)'
    BY <1>1, <1>2, <1>7 DEF At
  <2> QED BY <1>3, <1>4, <2>1, DueThere DEF Copied
<1> QED BY <1>5, <1>6, <1>7

LEMMA SaveCopies ==
    ASSUME NEW w \in Workers, CopyInv(w), WorkerSaves(w), ~Fail, NEW v \in Videos
    PROVE  Copied(w, v)'
<1>1. PICK m : m = Job(w)
  OBVIOUS
<1>2. /\ step[w] = "save" /\ step'[w] = "pop" /\ UNCHANGED <<likesCount, copies, stale>> /\ m = Job(w)'
      /\ view' = [view EXCEPT ![m.video] = Clamp(loaded[w] + Delta(m.act))]
      /\ m.video \in Videos /\ view \in [Videos -> Entry] /\ likesCount[v] \in Nat
  BY <1>1, InHandType DEF WorkerSaves, SaveItem, Busy, Goto, Job, tables, CopyInv, CountInv, TypeInv,
     TypeOK, BrokerType, RedisType, TablesType
<1>3. /\ Due(w, {"load"}, v)' = 0 /\ Due(w, {"load"}, v) = 0
      /\ ~ At(w, "load", v) /\ ~ At(w, "load", v)' /\ ~ At(w, "save", v)'
      /\ At(w, "save", v) <=> m.video = v
  BY <1>1, <1>2 DEF Due, At
<1>4. Copied(w, v)
  BY DEF CopyInv
<1>5. CASE m.video = v
  <2>1. RedisUp /\ (~ stale[v] => loaded[w] + Delta(m.act) = likesCount[v])
    BY <1>1, <1>3, <1>4, <1>5 DEF Copied
  <2>2. ~ stale[v] => view'[v] = likesCount[v]
    <3>1. Clamp(likesCount[v]) = likesCount[v]
      BY <1>2 DEF Clamp
    <3> QED BY <1>2, <1>5, <2>1, <3>1
  <2> QED BY <1>2, <1>3, <1>4, <2>1, <2>2 DEF Copied
<1>6. CASE m.video # v
  <2>1. view'[v] = view[v]
    BY <1>2, <1>6
  <2> QED BY <1>2, <1>3, <1>4, <1>6, <2>1 DEF Copied
<1> QED BY <1>5, <1>6

\* A reader's copy overwrites the item, and its staleness with it.
LEMMA ReaderCopies ==
    ASSUME NEW w, Workers = {w}, CopyInv(w), NEW x \in Videos, FeedItem(x), NEW v \in Videos
    PROVE  Copied(w, v)'
<1>0. w \in Workers /\ \A y \in Workers : y = w
  OBVIOUS
<1>1. /\ UNCHANGED <<likesCount, inbox, step, loaded>> /\ Job(w)' = Job(w) /\ Copied(w, v) /\ TypeInv
      /\ likesCount[v] \in Nat
  BY DEF FeedItem, FillReads, FillSaves, CopyEnds, Expire, tables, broker, Job, CopyInv, CountInv,
     TypeInv, TypeOK, TablesType
<1>2. /\ Due(w, {"load"}, v)' = Due(w, {"load"}, v)
      /\ At(w, "load", v)' = At(w, "load", v) /\ At(w, "save", v)' = At(w, "save", v)
  BY <1>1 DEF Due, At
<1>3. /\ Copier(v, "load") <=> At(w, "load", v)
      /\ Copier(v, "save") <=> At(w, "save", v)
  BY <1>0, <1>1, InboxType DEF Copier, At, Busy
<1>4. /\ copies \in [Videos -> SUBSET Copy] /\ view \in [Videos -> Entry]
      /\ stale \in [Videos -> BOOLEAN]
  BY <1>1 DEF TypeInv, TypeOK, RedisType, HistoryType
<1>5. CASE x # v
  <2>1. view'[v] = view[v] /\ copies'[v] = copies[v] /\ stale'[v] = stale[v]
    BY <1>4, <1>5 DEF FeedItem, FillReads, FillSaves, CopyEnds, Expire
  <2> QED BY <1>1, <1>2, <2>1 DEF Copied
<1>6. CASE x = v /\ FillReads(v)
  <2>1. /\ RedisUp /\ view'[v] = view[v] /\ stale'[v] = stale[v]
        /\ copies'[v] = copies[v] \cup {[count |-> likesCount[v], behind |-> 0]}
    BY <1>4, <1>6 DEF FillReads
  <2> QED BY <1>1, <1>2, <2>1 DEF Copied
<1>7. CASE x = v /\ CopyEnds(v)
  <2>1. /\ view'[v] = view[v] /\ stale'[v] = stale[v] /\ copies'[v] \subseteq copies[v]
    BY <1>4, <1>7 DEF CopyEnds
  <2> QED BY <1>1, <1>2, <2>1 DEF Copied
<1>8. CASE x = v /\ Expire(v)
  <2>1. /\ view'[v] = NoEntry /\ stale'[v] = (stale[v] /\ At(w, "save", v))
        /\ copies'[v] = copies[v]
    BY <1>3, <1>4, <1>8 DEF Expire
  <2> QED BY <1>1, <1>2, <2>1 DEF Copied
<1>9. CASE x = v /\ FillSaves(v)
  <2>1. PICK k \in copies[v] :
            /\ view' = [view EXCEPT ![v] = k.count]
            /\ stale' = [stale EXCEPT ![v] = IF Copier(v, "save") THEN @
                                  ELSE k.behind # (IF Copier(v, "load") THEN 1 ELSE 0)]
    BY <1>9 DEF FillSaves
  <2>2. /\ copies' = copies /\ view'[v] = k.count /\ RedisUp
        /\ k.behind = 0 => k.count = likesCount[v]
        /\ k.behind = 1 /\ At(w, "load", v) => k.count = likesCount[v] - Due(w, {"load"}, v)
    BY <1>1, <1>4, <1>9, <2>1 DEF FillSaves, Copied
  <2>3. CASE At(w, "save", v)
    <3>1. stale'[v] = stale[v]
      BY <1>3, <1>4, <2>1, <2>3
    <3> QED BY <1>1, <1>2, <2>2, <2>3, <3>1 DEF Copied
  <2>4. CASE ~ At(w, "save", v)
    <3>1. stale'[v] = (k.behind # (IF At(w, "load", v) THEN 1 ELSE 0))
      BY <1>3, <1>4, <2>1, <2>4
    <3>2. ~ At(w, "load", v) => Due(w, {"load"}, v) = 0
      BY <1>0, <1>1, DueThere
    <3>3. CASE At(w, "load", v)
      <4>1. ~ stale'[v] => view'[v] = likesCount[v] - Due(w, {"load"}, v)
        BY <2>2, <3>1, <3>3
      <4> QED BY <1>1, <1>2, <2>2, <2>4, <4>1 DEF Copied
    <3>4. CASE ~ At(w, "load", v)
      <4>1. likesCount[v] - Due(w, {"load"}, v) = likesCount[v]
        BY <1>1, <3>2, <3>4
      <4>2. ~ stale'[v] => view'[v] = likesCount[v]
        BY <2>2, <3>1, <3>4
      <4> QED BY <1>1, <1>2, <2>2, <2>4, <4>1, <4>2 DEF Copied
    <3> QED BY <3>3, <3>4
  <2> QED BY <2>3, <2>4
<1> QED BY <1>5, <1>6, <1>7, <1>8, <1>9 DEF FeedItem

LEMMA CopyStep ==
    ASSUME "refused" \notin LikePublish, MaxFailures = 0, NEW w, Workers = {w},
           CopyInv(w), [Next]_vars
    PROVE  CopyInv(w)'
<1>0. w \in Workers /\ \A x \in Workers : x = w
  OBVIOUS
<1>1. CountInv(w)' /\ TypeInv /\ Routed /\ ~Fail
  BY CountStep, NothingFails DEF CopyInv, CountInv
<1> SUFFICES ASSUME NEW v \in Videos PROVE Copied(w, v)'
  BY <1>1 DEF CopyInv
<1>2. Copied(w, v)
  BY DEF CopyInv
<1>3. ASSUME NEW c \in Clients, Request(c) PROVE Copied(w, v)'
  <2>1. UNCHANGED <<likesCount, item, inbox, step>> /\ loaded'[w] = loaded[w]
    BY <1>0, <1>1, <1>3, RequestQueues DEF tables
  <2>2. step'[w] = step[w] /\ Job(w)' = Job(w)
    BY <2>1 DEF Job
  <2> QED BY <1>0, <1>2, <2>1, <2>2, CopiedStays
<1>4. ASSUME NEW x \in Videos, FeedItem(x) PROVE Copied(w, v)'
  BY <1>4, ReaderCopies
<1>5. CASE UNCHANGED vars
  <2>1. UNCHANGED <<likesCount, item, inbox, step, loaded>>
    BY <1>5 DEF vars, tables, redis, broker
  <2>2. step'[w] = step[w] /\ Job(w)' = Job(w)
    BY <2>1 DEF Job
  <2> QED BY <1>0, <1>2, <2>1, <2>2, CopiedStays
<1>6. CASE Deliver(w)
  <2>1. step' = step /\ \E m \in Event : inbox'[w] = Append(inbox[w], m)
    BY <1>0, <1>1, <1>6 DEF Deliver, TypeInv, TypeOK, BrokerType
  <2>2. step[w] # "row" => Job(w)' = Job(w)
    BY <1>0, <1>1, <2>1, InboxType DEF Job
  <2>3. UNCHANGED <<likesCount, item, loaded>>
    BY <1>6 DEF Deliver, tables, redis
  <2> QED BY <1>0, <1>2, <2>1, <2>2, <2>3, CopiedStays
<1>7. CASE ApplyRow(w) \/ ApplyPopularity(w) \/ Ack(w)
  <2>1. step[w] \notin {"load", "save"} /\ step'[w] \notin {"load", "save"}
    BY <1>0, <1>1, <1>7 DEF ApplyRow, ApplyPopularity, Ack, Busy, Goto, TypeInv, TypeOK, BrokerType
  <2>2. UNCHANGED <<likesCount, item, loaded>>
    BY <1>7 DEF ApplyRow, ApplyPopularity, Ack, tables, redis
  <2> QED BY <1>0, <1>2, <2>1, <2>2, CopiedStays
<1>8. ~StepFails(w) /\ ~Crash(w)
  BY <1>1 DEF StepFails, Crash
<1>9. ASSUME Worker(w) PROVE Copied(w, v)'
  BY <1>0, <1>1, <1>6, <1>7, <1>8, <1>9, CountCopies, LoadCopies, SaveCopies DEF Worker
<1> QED BY <1>0, <1>3, <1>4, <1>5, <1>9 DEF Next

\* With one worker and nothing that fails, a feed item that LikeWorker loads
\* and saves by two commands, while readers of the row save what they read
\* over it and it expires, has the row's likes_count once everything is
\* consumed: unless the last reader to save it held a count that lacked more,
\* or less, than the change the worker was about to load it for.
THEOREM FeedItemHolds ==
    ASSUME "refused" \notin LikePublish, MaxFailures = 0, NEW w, Workers = {w}
    PROVE  Spec => []FeedItemFollows
<1>1. Init => CopyInv(w)
  <2> SUFFICES ASSUME Init, NEW v \in Videos PROVE Copied(w, v)
    BY CountInit DEF CopyInv
  <2>1. /\ step[w] = "row" /\ copies[v] = {} /\ likesCount[v] = 0
        /\ view[v] \in (IF RedisUp THEN {NoEntry, 0} ELSE {NoEntry})
    <3>1. w \in Workers
      OBVIOUS
    <3> QED BY <3>1 DEF Init
  <2>2. Due(w, {"load"}, v) = 0 /\ ~ At(w, "load", v) /\ ~ At(w, "save", v)
    BY <2>1 DEF Due, At
  <2> QED BY <2>1, <2>2 DEF Copied
<1>2. CopyInv(w) /\ [Next]_vars => CopyInv(w)'
  BY CopyStep
<1>3. CopyInv(w) => FeedItemFollows
  <2> SUFFICES ASSUME CopyInv(w), AtRest, NEW v \in Videos, view[v] # NoEntry, ~ stale[v]
               PROVE  view[v] = likesCount[v]
    BY DEF FeedItemFollows
  <2>0. w \in Workers /\ TypeInv
    BY DEF CopyInv, CountInv
  <2>1. step[w] = "row"
    BY <2>0, InboxType DEF AtRest
  <2>2. Due(w, {"load"}, v) = 0 /\ ~ At(w, "save", v)
    BY <2>1 DEF Due, At
  <2>3. likesCount[v] \in Nat
    BY <2>0, CountTypes
  <2> QED BY <2>2, <2>3 DEF CopyInv, Copied
<1> QED BY <1>1, <1>2, <1>3, PTL DEF Spec


-----------------------------------------------------------------------------
(* The pipeline with the broker down.                                      *)

\* Requests that have changed a row and not yet the ranking.
Ranking(v, act) == {c \in Clients : rpc[c] = "hot" /\ call[c].video = v /\ call[c].act = act}

\* Everything is left to the requests.
Refused == /\ likeQueue = {} /\ \A w \in Workers : inbox[w] = <<>>
           /\ \A c \in Clients : sent[c] = {}

Ranked(v) == heat[v] = Cardinality(LikersOf(v)) - Cardinality(Ranking(v, "like"))
                           + Cardinality(Ranking(v, "unlike"))

OutageInv == TypeInv /\ Refused /\ \A v \in Videos : Ranked(v)

LEMMA RankingFinite ==
    ASSUME NEW v, NEW a
    PROVE  IsFiniteSet(Ranking(v, a)) /\ Cardinality(Ranking(v, a)) \in Nat
BY ClientsFinite, FS_Subset, FS_CardinalityType DEF Ranking

\* A step of one request changes at most what that request owes.
LEMMA OneRanks ==
    ASSUME NEW c \in Clients, NEW v, NEW a,
           \A x \in Clients \ {c} : rpc'[x] = rpc[x] /\ call'[x] = call[x]
    PROVE  Cardinality(Ranking(v, a)') =
               Cardinality(Ranking(v, a)) + (IF c \in Ranking(v, a)' THEN 1 ELSE 0)
                                          - (IF c \in Ranking(v, a) THEN 1 ELSE 0)
<1> DEFINE S == Ranking(v, a)
           T == Ranking(v, a)'
<1>1. IsFiniteSet(S) /\ Cardinality(S) \in Nat
  BY RankingFinite
<1>2. IsFiniteSet(T) /\ Cardinality(T) \in Nat
  <2>1. T \subseteq Clients
    BY DEF Ranking
  <2> QED BY <2>1, ClientsFinite, FS_Subset, FS_CardinalityType
<1>3. S \ {c} = T \ {c}
  BY DEF Ranking
<1>4. Cardinality(S \ {c}) = IF c \in S THEN Cardinality(S) - 1 ELSE Cardinality(S)
  BY <1>1, FS_RemoveElement
<1>5. Cardinality(T \ {c}) = IF c \in T THEN Cardinality(T) - 1 ELSE Cardinality(T)
  BY <1>2, FS_RemoveElement
<1> HIDE DEF S, T
<1> QED BY <1>1, <1>2, <1>3, <1>4, <1>5 DEF S, T

\* The request c has the arguments k; before the step it owes the ranking d
\* for it, and e afterwards, the rows of its video have become x more and its
\* heat y more.
LEMMA RankedMoves ==
    ASSUME TypeInv, NEW c \in Clients, NEW v \in Videos, Ranked(v),
           \A x \in Clients \ {c} : rpc'[x] = rpc[x] /\ call'[x] = call[x],
           NEW k \in Call, NEW d \in {0, 1}, NEW e \in {0, 1}, NEW r \in {-1, 0, 1}, NEW h \in {-1, 0, 1},
           \A a \in Acts : c \in Ranking(v, a) <=> (d = 1 /\ k.video = v /\ k.act = a),
           \A a \in Acts : c \in Ranking(v, a)' <=> (e = 1 /\ k.video = v /\ k.act = a),
           Cardinality(LikersOf(v)') = Cardinality(LikersOf(v)) + (IF k.video = v THEN r ELSE 0),
           heat'[v] = heat[v] + (IF k.video = v THEN h ELSE 0),
           h = r - (e - d) * Delta(k.act)
    PROVE  Ranked(v)'
<1>1. PICK n, p, q, t :
          /\ n \in Nat /\ p \in Nat /\ q \in Nat /\ t \in Int
          /\ n = Cardinality(LikersOf(v)) /\ p = Cardinality(Ranking(v, "like"))
          /\ q = Cardinality(Ranking(v, "unlike")) /\ t = heat[v] /\ t = n - p + q
  BY LikersFinite, RankingFinite DEF Ranked, TypeInv, TypeOK, RedisType
<1>2. k.act \in Acts
  BY DEF Call
<1>3. /\ Cardinality(Ranking(v, "like")') = p + (IF e = 1 /\ k.video = v /\ k.act = "like" THEN 1 ELSE 0)
                                              - (IF d = 1 /\ k.video = v /\ k.act = "like" THEN 1 ELSE 0)
      /\ Cardinality(Ranking(v, "unlike")') = q + (IF e = 1 /\ k.video = v /\ k.act = "unlike" THEN 1 ELSE 0)
                                                - (IF d = 1 /\ k.video = v /\ k.act = "unlike" THEN 1 ELSE 0)
  BY <1>1, OneRanks DEF Acts
<1>4. CASE k.video # v
  BY <1>1, <1>3, <1>4 DEF Ranked
<1>5. CASE k.video = v /\ k.act = "like"
  <2>1. /\ Cardinality(Ranking(v, "like")') = p + e - d /\ Cardinality(Ranking(v, "unlike")') = q
        /\ Cardinality(LikersOf(v)') = n + r /\ heat'[v] = t + h /\ h = r - (e - d)
    BY <1>1, <1>3, <1>5 DEF Delta
  <2> QED BY <1>1, <2>1 DEF Ranked
<1>6. CASE k.video = v /\ k.act = "unlike"
  <2>1. /\ Cardinality(Ranking(v, "like")') = p /\ Cardinality(Ranking(v, "unlike")') = q + e - d
        /\ Cardinality(LikersOf(v)') = n + r /\ heat'[v] = t + h /\ h = r + (e - d)
    BY <1>1, <1>3, <1>6 DEF Delta
  <2> QED BY <1>1, <2>1 DEF Ranked
<1> QED BY <1>2, <1>4, <1>5, <1>6 DEF Acts


LEMMA RankedStays ==
    ASSUME NEW v \in Videos, Ranked(v), UNCHANGED <<likes, heat>>,
           \A c \in Clients : /\ rpc[c] = "hot" <=> rpc'[c] = "hot"
                              /\ rpc[c] = "hot" => call'[c] = call[c]
    PROVE  Ranked(v)'
<1>1. Ranking(v, "like")' = Ranking(v, "like") /\ Ranking(v, "unlike")' = Ranking(v, "unlike")
  BY DEF Ranking
<1>2. LikersOf(v)' = LikersOf(v)
  BY DEF LikersOf
<1> QED BY <1>1, <1>2 DEF Ranked

\* The fallback of a request: it changes the row and owes the ranking, or
\* finds nothing to change and ends.
LEMMA TxRanks ==
    ASSUME OutageInv, NEW c \in Clients, LikeTx(c) \/ UnlikeTx(c), NEW v \in Videos
    PROVE  Ranked(v)'
<1> USE DEF OutageInv
<1>1. PICK k \in Call : k = call[c]
  BY CallType DEF LikeTx, UnlikeTx
<1>2. /\ k.video \in Videos /\ k.user \in Users /\ k.act \in Acts /\ rpc[c] = "tx"
      /\ k.act = (IF LikeTx(c) THEN "like" ELSE "unlike")
      /\ heat' = heat /\ heat[v] \in Int
  BY <1>1 DEF Call, LikeTx, UnlikeTx, redis, TypeInv, TypeOK, RedisType
<1>3. CASE IsLiked(k.video, k.user) <=> k.act = "like"
  <2>1. likes' = likes /\ Return(c)
    BY <1>1, <1>2, <1>3 DEF LikeTx, UnlikeTx, tables
  <2>2. \A x \in Clients : /\ rpc[x] = "hot" <=> rpc'[x] = "hot"
                           /\ rpc[x] = "hot" => call'[x] = call[x]
    BY <1>2, <2>1 DEF Return, TypeInv, TypeOK, RequestType
  <2> QED BY <1>2, <2>1, <2>2, RankedStays
<1>4. CASE ~(IsLiked(k.video, k.user) <=> k.act = "like")
  <2>1. /\ likes' = (IF k.act = "like" THEN likes \cup {<<k.video, k.user>>}
                                       ELSE likes \ {<<k.video, k.user>>})
        /\ rpc' = [rpc EXCEPT ![c] = "hot"] /\ call' = call
    BY <1>1, <1>2, <1>4 DEF LikeTx, UnlikeTx
  <2>2. \A x \in Clients \ {c} : rpc'[x] = rpc[x] /\ call'[x] = call[x]
    BY <2>1 DEF TypeInv, TypeOK, RequestType
  <2>3. \A a \in Acts : /\ c \notin Ranking(v, a)
                        /\ c \in Ranking(v, a)' <=> (k.video = v /\ k.act = a)
    BY <1>1, <1>2, <2>1 DEF Ranking, TypeInv, TypeOK, RequestType
  <2>4. PICK r \in {-1, 1} : r = Delta(k.act)
    BY <1>2 DEF Delta
  <2>5. Cardinality(LikersOf(v)') = Cardinality(LikersOf(v)) + (IF k.video = v THEN r ELSE 0)
    <3>1. CASE k.act = "like"
      BY <1>2, <1>4, <2>1, <2>4, <3>1, InsertRow, LikersFinite DEF Delta
    <3>2. CASE k.act = "unlike"
      BY <1>2, <1>4, <2>1, <2>4, <3>2, DeleteRow, LikersFinite DEF Delta
    <3> QED BY <1>2, <3>1, <3>2 DEF Acts
  <2>6. heat'[v] = heat[v] + (IF k.video = v THEN 0 ELSE 0) /\ 0 = r - (1 - 0) * Delta(k.act)
    BY <1>2, <2>4
  <2>7. \A a \in Acts : /\ c \in Ranking(v, a) <=> (0 = 1 /\ k.video = v /\ k.act = a)
                        /\ c \in Ranking(v, a)' <=> (1 = 1 /\ k.video = v /\ k.act = a)
    BY <2>3
  <2>8. TypeInv /\ Ranked(v) /\ 0 \in {0, 1} /\ 1 \in {0, 1} /\ r \in {-1, 0, 1} /\ 0 \in {-1, 0, 1}
    BY <2>4
  <2> HIDE DEF OutageInv
  <2> QED BY <2>2, <2>5, <2>6, <2>7, <2>8, RankedMoves
<1> QED BY <1>3, <1>4

\* The change reaches the ranking.
LEMMA BumpRanks ==
    ASSUME OutageInv, RedisUp = TRUE, MaxFailures = 0, NEW c \in Clients, BumpHot(c), NEW v \in Videos
    PROVE  Ranked(v)'
<1> USE DEF OutageInv
<1>1. PICK k \in Call : k = call[c]
  BY CallType DEF BumpHot
<1>2. PICK h \in {-1, 1} : h = Delta(k.act)
  BY DEF Delta
<1>3. /\ k.video \in Videos /\ rpc[c] = "hot" /\ likes' = likes /\ sent[c] = {}
      /\ heat' = [heat EXCEPT ![k.video] = @ + h]
      /\ rpc' = [rpc EXCEPT ![c] = "load"] /\ call' = call
  BY <1>1, <1>2, NothingFails DEF BumpHot, Call, tables, Refused
<1>4. \A x \in Clients \ {c} : rpc'[x] = rpc[x] /\ call'[x] = call[x]
  BY <1>3 DEF TypeInv, TypeOK, RequestType
<1>5. \A a \in Acts : /\ c \in Ranking(v, a) <=> (1 = 1 /\ k.video = v /\ k.act = a)
                      /\ c \in Ranking(v, a)' <=> (0 = 1 /\ k.video = v /\ k.act = a)
  BY <1>1, <1>3 DEF Ranking, TypeInv, TypeOK, RequestType
<1>6. Cardinality(LikersOf(v)') = Cardinality(LikersOf(v)) + (IF k.video = v THEN 0 ELSE 0)
  <2>1. LikersOf(v)' = LikersOf(v)
    BY <1>3 DEF LikersOf
  <2> QED BY <2>1, LikersFinite
<1>7. heat'[v] = heat[v] + (IF k.video = v THEN h ELSE 0) /\ h = 0 - (0 - 1) * Delta(k.act)
  BY <1>2, <1>3 DEF TypeInv, TypeOK, RedisType
<1>8. TypeInv /\ Ranked(v) /\ 0 \in {0, 1} /\ 1 \in {0, 1} /\ h \in {-1, 0, 1} /\ 0 \in {-1, 0, 1}
  OBVIOUS
<1> HIDE DEF OutageInv
<1> QED BY <1>4, <1>5, <1>6, <1>7, <1>8, RankedMoves

LEMMA OutageStep ==
    ASSUME LikePublish = {"refused"}, HeatPublish = {"refused"}, RedisUp = TRUE, MaxFailures = 0,
           OutageInv, [Next]_vars
    PROVE  OutageInv'
<1> USE DEF OutageInv
<1>1. TypeInv' /\ ~Fail
  BY TypeStep, NothingFails
<1>2. ASSUME NEW c \in Clients, Request(c), ~LikeTx(c), ~UnlikeTx(c), ~BumpHot(c)
      PROVE  /\ UNCHANGED <<likes, heat>> /\ Refused'
             /\ \A x \in Clients : /\ rpc[x] = "hot" <=> rpc'[x] = "hot"
                                   /\ rpc[x] = "hot" => call'[x] = call[x]
  <2> USE <1>2 DEF TypeInv, TypeOK, RequestType
  <2>1. CASE Begin(c)
    BY <2>1 DEF Begin, Refused, tables, redis, broker
  <2>2. CASE PublishLike(c)
    BY <2>2 DEF PublishLike, Refused, tables, redis
  <2>3. CASE PublishHeat(c)
    BY <2>3 DEF PublishHeat, Refused, tables, broker
  <2>4. CASE ClientLoads(c) \/ ClientSaves(c)
    BY <2>4 DEF ClientLoads, ClientSaves, Refused, Return, tables, broker
  <2>5. ~RequestFails(c)
    BY <1>1 DEF RequestFails
  <2> QED BY <2>1, <2>2, <2>3, <2>4, <2>5 DEF Request
<1>3. ASSUME NEW c \in Clients, LikeTx(c) \/ UnlikeTx(c) \/ BumpHot(c) PROVE Refused'
  BY <1>3 DEF LikeTx, UnlikeTx, BumpHot, Refused, Return, broker, TypeInv, TypeOK, RequestType
<1>4. ~\E w \in Workers : Worker(w)
  BY DEF Worker, Deliver, ApplyRow, ApplyCount, WorkerLoads, WorkerSaves, ApplyPopularity, Ack,
         StepFails, Crash, Busy, Refused
<1>5. CASE (\E v \in Videos : FeedItem(v)) \/ UNCHANGED vars
  <2>1. UNCHANGED <<likes, heat, likeQueue, inbox, sent, rpc, call>>
    BY <1>5 DEF FeedItem, FillReads, FillSaves, CopyEnds, Expire, vars, tables, broker, redis, request
  <2>2. Refused' /\ \A v \in Videos : Ranked(v)'
    BY <2>1, RankedStays DEF Refused
  <2> QED BY <1>1, <2>2
<1>6. ASSUME NEW c \in Clients, Request(c) PROVE OutageInv'
  <2>1. Refused'
    BY <1>2, <1>3, <1>6
  <2>2. ASSUME NEW v \in Videos PROVE Ranked(v)'
    <3>1. CASE LikeTx(c) \/ UnlikeTx(c)
      BY <3>1, TxRanks
    <3>2. CASE BumpHot(c)
      BY <3>2, BumpRanks
    <3>3. CASE ~LikeTx(c) /\ ~UnlikeTx(c) /\ ~BumpHot(c)
      BY <1>2, <1>6, <3>3, RankedStays
    <3> QED BY <3>1, <3>2, <3>3
  <2> QED BY <1>1, <2>1, <2>2
<1> QED BY <1>4, <1>5, <1>6 DEF Next

\* With the broker down and nothing else that fails, the changes handed to the
\* ranking are the rows: of two requests that both passed the check of
\* LikeService, the transaction lets one through, and only that one goes on.
THEOREM HeatHolds ==
    ASSUME LikePublish = {"refused"}, HeatPublish = {"refused"}, RedisUp = TRUE, MaxFailures = 0
    PROVE  Spec => []HeatFollowsLikes
<1>1. Init => OutageInv
  <2> SUFFICES ASSUME Init PROVE Refused /\ \A v \in Videos : Ranked(v)
    BY TypeInit DEF OutageInv
  <2>1. \A v \in Videos : LikersOf(v) = {} /\ Ranking(v, "like") = {} /\ Ranking(v, "unlike") = {} /\ heat[v] = 0
    BY DEF Init, LikersOf, Ranking
  <2>2. Refused
    BY DEF Init, Refused
  <2> QED BY <2>1, <2>2, FS_EmptySet DEF Ranked
<1>2. OutageInv /\ [Next]_vars => OutageInv'
  BY OutageStep
<1>3. OutageInv => HeatFollowsLikes
  <2> SUFFICES ASSUME OutageInv, AtRest, NEW v \in Videos PROVE heat[v] = Cardinality(LikersOf(v))
    BY DEF HeatFollowsLikes
  <2>1. Ranking(v, "like") = {} /\ Ranking(v, "unlike") = {}
    BY DEF Ranking, AtRest
  <2>2. heat[v] = Cardinality(LikersOf(v)) - 0 + 0
    BY <2>1, FS_EmptySet DEF OutageInv, Ranked
  <2> QED BY <2>2, LikersFinite
<1> QED BY <1>1, <1>2, <1>3, PTL DEF Spec
=============================================================================
