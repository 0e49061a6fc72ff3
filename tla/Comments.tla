------------------------------ MODULE Comments ------------------------------
(***************************************************************************)
(* The comments of one video: from the request to the row, the video's      *)
(* popularity and the cached list.                                          *)
(*                                                                         *)
(* CommentService (internal/video/comment_service.go) publishes an event    *)
(* that CommentWorker (internal/worker/commentworker.go) turns into a row   *)
(* and an increment of popularity, as two statements; what the broker       *)
(* refuses the request writes itself.  The list is cached for 5 s and       *)
(* dropped by the requests only, so it is dropped before the row of a       *)
(* queued event exists.                                                     *)
(***************************************************************************)
EXTENDS Integers, Sequences, FiniteSets

CONSTANTS
    Callers,         \* requests the API serves at a time
    CommentPublish,  \* what may become of an event: queued, refused, dropped
    HeatPublish,     \* and of a change for the ranking: queued, refused
    MaxCalls,        \* bound: requests
    MaxFailures      \* bound: failed statements and ended workers

ASSUME Outcomes == /\ CommentPublish \subseteq {"queued", "refused", "dropped"}
                   /\ HeatPublish \subseteq {"queued", "refused"}
                   /\ {MaxCalls, MaxFailures} \subseteq Nat /\ IsFiniteSet(Callers)

VARIABLES
    rows,        \* the table comments: ids
    inserted,    \* history: the call each id was inserted for
    popularity,  \* videos.popularity
    cached,      \* Redis, comment:list:video: whether it is there, and its ids
    queue,       \* ready messages of the comment queue
    job,         \* the worker's delivery and the statement it is at
    act,         \* act[c]: the request c serves and where it is
    heat,        \* changes handed over for the ranking
    mentioned,   \* calls whose mentions were notified
    calls, failures,
    lost,        \* history: calls whose event was dropped
    accepted,    \* history: publications answered with success
    torn,        \* history: deliveries that ended between row and popularity
    repeated,    \* history: and between popularity and acknowledgement
    late         \* history: the copies of the list that nobody will drop for
                 \* a write made since they were read: the cached one, and
                 \* those that requests are about to cache

table   == <<rows, inserted, popularity>>
copies  == <<cached, late>>
broker  == <<queue, job>>
history == <<lost, accepted, torn, repeated>>
vars == <<table, copies, broker, act, heat, mentioned, calls, failures, history>>

Ids    == 1 .. Len(inserted)
NoJob  == [action |-> "none", of |-> 0, pc |-> "idle"]
Quiet  == [kind |-> "none", pc |-> "idle", of |-> 0, queued |-> FALSE, list |-> {}]
Absent == [there |-> FALSE, list |-> {}]
OnTime == [cached |-> FALSE, read |-> {}]

TypeOK ==
    /\ rows \subseteq Ids /\ inserted \in Seq(1 .. MaxCalls) /\ popularity \in Nat
    /\ cached.list \subseteq Ids /\ (~cached.there => cached = Absent)
    /\ \A i \in DOMAIN queue : queue[i].action \in {"publish", "delete"}
    /\ job.pc \in {"idle", "insert", "popularity", "find", "delete", "ack"}
    /\ \A c \in Callers : act[c].list \subseteq Ids /\ act[c].of \in 0 .. MaxCalls + Len(inserted)
    /\ heat \in 0 .. MaxCalls /\ mentioned \subseteq 1 .. MaxCalls
    /\ calls <= MaxCalls /\ failures <= MaxFailures
    /\ lost \cup accepted \subseteq 1 .. MaxCalls /\ {torn, repeated} \subseteq Nat
    /\ late.cached \in BOOLEAN /\ late.read \subseteq Callers

Init ==
    /\ rows = {} /\ inserted = <<>> /\ popularity = 0 /\ cached = Absent
    /\ queue = <<>> /\ job = NoJob /\ act = [c \in Callers |-> Quiet]
    /\ heat = 0 /\ mentioned = {} /\ calls = 0 /\ failures = 0
    /\ lost = {} /\ accepted = {} /\ torn = 0 /\ repeated = 0 /\ late = OnTime

Goto(c, pc) == act' = [act EXCEPT ![c].pc = pc]
Done(c)     == act' = [act EXCEPT ![c] = Quiet]
Fail        == failures < MaxFailures /\ failures' = failures + 1
Begin(c, kind, pc, of) ==
    /\ act[c] = Quiet /\ calls < MaxCalls /\ calls' = calls + 1
    /\ act' = [act EXCEPT ![c] = [Quiet EXCEPT !.kind = kind, !.pc = pc, !.of = of]]
    /\ UNCHANGED <<table, copies, broker, heat, mentioned, failures, history>>

-----------------------------------------------------------------------------
(* Requests.                                                                 *)

\* A publication is named by its number.  Only the author deletes, one of his
\* comments that a list has shown him.
BeginPublish(c) == Begin(c, "publish", "event", calls + 1)
BeginDelete(c)  == \E i \in rows : Begin(c, "delete", "event", i)
BeginList(c)    == ~cached.there /\ Begin(c, "list", "read", 0)

\* Mutant: what became of the event is not remembered.
SendEvent_Mut(c) ==
    /\ act[c].pc = "event"
    /\ \E o \in CommentPublish :
          /\ queue' = IF o = "queued"
                        THEN Append(queue, [action |-> act[c].kind, of |-> act[c].of])
                        ELSE queue
          /\ lost' = IF o = "dropped" /\ act[c].kind = "publish"
                       THEN lost \cup {act[c].of} ELSE lost
          /\ act' = [act EXCEPT
                ![c].queued = FALSE,
                ![c].pc = IF act[c].kind = "publish" THEN "heat"
                          ELSE IF o = "refused" THEN "delete" ELSE "invalidate"]
    /\ UNCHANGED <<table, copies, job, heat, mentioned, calls, failures, accepted, torn, repeated>>

\* commentMQ.Publish or Delete.
SendEvent(c) ==
    /\ act[c].pc = "event"
    /\ \E o \in CommentPublish :
          /\ queue' = IF o = "queued"
                        THEN Append(queue, [action |-> act[c].kind, of |-> act[c].of])
                        ELSE queue
          /\ lost' = IF o = "dropped" /\ act[c].kind = "publish"
                       THEN lost \cup {act[c].of} ELSE lost
          /\ act' = [act EXCEPT
                ![c].queued = (o # "refused"),
                ![c].pc = IF act[c].kind = "publish" THEN "heat"
                          ELSE IF o = "refused" THEN "delete" ELSE "invalidate"]
    /\ UNCHANGED <<table, copies, job, heat, mentioned, calls, failures, accepted, torn, repeated>>

\* Mutant: a change is counted before it is known to be refused.
SendHeat_Mut(c) ==
    /\ act[c].pc = "heat"
    /\ \E o \in HeatPublish :
          /\ heat' = heat + 1
          /\ act' = [act EXCEPT ![c].pc = IF ~act[c].queued THEN "write"
                                          ELSE IF o = "queued" THEN "invalidate" ELSE "bump",
                                ![c].list = {}, ![c].kind = IF o = "queued" THEN "publish" ELSE "cold"]
    /\ UNCHANGED <<table, copies, broker, mentioned, calls, failures, history>>

\* popularityMQ.Update.
SendHeat(c) ==
    /\ act[c].pc = "heat"
    /\ \E o \in HeatPublish :
          /\ heat' = IF o = "queued" THEN heat + 1 ELSE heat
          /\ act' = [act EXCEPT ![c].pc = IF ~act[c].queued THEN "write"
                                          ELSE IF o = "queued" THEN "invalidate" ELSE "bump",
                                ![c].list = {}, ![c].kind = IF o = "queued" THEN "publish" ELSE "cold"]
    /\ UNCHANGED <<table, copies, broker, mentioned, calls, failures, history>>

Insert(call) == /\ inserted' = Append(inserted, call)
                /\ rows' = rows \cup {Len(inserted) + 1}

\* Mutant: the fallback leaves the popularity to the worker.
WriteTx_Mut(c) ==
    /\ act[c].pc = "write"
    /\ \/ /\ Insert(act[c].of) /\ UNCHANGED popularity
          /\ Goto(c, IF act[c].kind = "cold" THEN "bump" ELSE "invalidate")
          /\ UNCHANGED failures
       \/ Fail /\ Done(c) /\ UNCHANGED table
    /\ UNCHANGED <<copies, broker, heat, mentioned, calls, history>>

\* The fallback: row and popularity in one transaction; its error is the
\* answer.
WriteTx(c) ==
    /\ act[c].pc = "write"
    /\ \/ /\ Insert(act[c].of) /\ popularity' = popularity + 1
          /\ Goto(c, IF act[c].kind = "cold" THEN "bump" ELSE "invalidate")
          /\ UNCHANGED failures
       \/ Fail /\ Done(c) /\ UNCHANGED table
    /\ UNCHANGED <<copies, broker, heat, mentioned, calls, history>>

\* UpdatePopularityCache for a refused change.
BumpHeat(c) ==
    /\ act[c].pc = "bump"
    /\ heat' = heat + 1 /\ Goto(c, "invalidate")
    /\ UNCHANGED <<table, copies, broker, mentioned, calls, failures, history>>

\* Mutant: the fallback returns without dropping the list.
DeleteRow_Mut(c) ==
    /\ act[c].pc = "delete"
    /\ \/ rows' = rows \ {act[c].of} /\ Done(c) /\ UNCHANGED failures
       \/ Fail /\ Done(c) /\ UNCHANGED rows
    /\ UNCHANGED <<inserted, popularity, copies, broker, heat, mentioned, calls, history>>

DeleteRow(c) ==
    /\ act[c].pc = "delete"
    /\ \/ rows' = rows \ {act[c].of} /\ Goto(c, "invalidate") /\ UNCHANGED failures
       \/ Fail /\ Done(c) /\ UNCHANGED rows
    /\ UNCHANGED <<inserted, popularity, copies, broker, heat, mentioned, calls, history>>

Held == {c \in Callers : act[c].pc = "fill"}

\* The requests that have written the table and have not dropped the list yet.
Dropping == {c \in Callers : act[c].pc \in {"bump", "invalidate"} /\ ~act[c].queued}

\* invalidateCommentList; its error is ignored, and what others have read and
\* not cached yet it does not reach.
Invalidate(c) ==
    /\ act[c].pc = "invalidate"
    /\ \/ cached' = Absent /\ UNCHANGED failures
       \/ Fail /\ UNCHANGED cached
    /\ late' = [cached |-> cached'.there /\ (late.cached \/ c \in Dropping),
                read   |-> IF c \in Dropping THEN Held ELSE late.read]
    /\ IF act[c].kind = "delete" THEN Done(c) ELSE Goto(c, "mentions")
    /\ UNCHANGED <<table, broker, heat, mentioned, calls, history>>

\* notifyMentions, then success; the rows it writes are modelled by
\* Notifications.
Mention(c) ==
    /\ act[c].pc = "mentions" /\ Done(c)
    /\ mentioned' = mentioned \cup {act[c].of}
    /\ accepted' = accepted \cup {act[c].of}
    /\ UNCHANGED <<table, copies, broker, heat, calls, failures, lost, torn, repeated>>

\* GetAll after a miss: reads the rows, then caches them.
ListReads(c) ==
    /\ act[c].pc = "read"
    /\ act' = [act EXCEPT ![c].pc = "fill", ![c].list = rows]
    /\ late' = [late EXCEPT !.read = @ \ {c}]
    /\ UNCHANGED <<table, cached, broker, heat, mentioned, calls, failures, history>>

ListFills(c) ==
    /\ act[c].pc = "fill" /\ Done(c)
    /\ cached' = [there |-> TRUE, list |-> act[c].list]
    /\ late' = [cached |-> c \in late.read, read |-> late.read \ {c}]
    /\ UNCHANGED <<table, broker, heat, mentioned, calls, failures, history>>

Expire ==
    /\ cached.there /\ cached' = Absent /\ late' = [late EXCEPT !.cached = FALSE]
    /\ UNCHANGED <<table, broker, act, heat, mentioned, calls, failures, history>>

-----------------------------------------------------------------------------
(* The worker.                                                               *)

Deliver ==
    /\ job = NoJob /\ queue # <<>>
    /\ job' = [action |-> Head(queue).action, of |-> Head(queue).of,
               pc |-> IF Head(queue).action = "publish" THEN "insert" ELSE "find"]
    /\ queue' = Tail(queue)
    /\ UNCHANGED <<table, copies, act, heat, mentioned, calls, failures, history>>

Work(pc) == job' = [job EXCEPT !.pc = pc]

\* The worker knows nothing of the list.
Outrun == late' = [cached |-> cached.there, read |-> Held]

\* applyPublish: CreateComment, then ChangePopularity.
InsertRow ==
    /\ job.pc = "insert"
    /\ Insert(job.of) /\ Work("popularity") /\ Outrun
    /\ UNCHANGED <<popularity, cached, queue, act, heat, mentioned, calls, failures, history>>

ChangePopularity ==
    /\ job.pc = "popularity"
    /\ popularity' = popularity + 1 /\ Work("ack")
    /\ UNCHANGED <<rows, inserted, copies, queue, act, heat, mentioned, calls, failures, history>>

\* Mutant: a row that is gone is an error, and the delivery is requeued.
FindRow_Mut ==
    /\ job.pc = "find"
    /\ IF job.of \in rows
         THEN Work("delete") /\ UNCHANGED queue
         ELSE job' = NoJob /\ queue' = <<[action |-> job.action, of |-> job.of]>> \o queue
    /\ UNCHANGED <<table, copies, act, heat, mentioned, calls, failures, history>>

\* applyDelete: GetByID, then DeleteComment; neither is an error if the row
\* is gone.
FindRow ==
    /\ job.pc = "find"
    /\ Work(IF job.of \in rows THEN "delete" ELSE "ack")
    /\ UNCHANGED <<table, copies, queue, act, heat, mentioned, calls, failures, history>>

RemoveRow ==
    /\ job.pc = "delete"
    /\ rows' = rows \ {job.of} /\ Work("ack")
    /\ IF job.of \in rows THEN Outrun ELSE UNCHANGED late
    /\ UNCHANGED <<inserted, popularity, cached, queue, act, heat, mentioned, calls, failures, history>>

Ack ==
    /\ job.pc = "ack" /\ job' = NoJob
    /\ UNCHANGED <<table, copies, queue, act, heat, mentioned, calls, failures, history>>

\* Mutant: a failed delivery is acknowledged.
StepFails_Mut ==
    /\ job # NoJob /\ Fail /\ job' = NoJob
    /\ torn' = IF job.pc = "popularity" THEN torn + 1 ELSE torn
    /\ repeated' = IF job.pc = "ack" /\ job.action = "publish" THEN repeated + 1 ELSE repeated
    /\ UNCHANGED <<table, copies, queue, act, heat, mentioned, calls, lost, accepted>>

\* The next statement fails, or the worker ends: the delivery is requeued at
\* its old place.  No x-death is ever set by that, so it is retried for ever.
StepFails ==
    /\ job # NoJob /\ Fail
    /\ queue' = <<[action |-> job.action, of |-> job.of]>> \o queue
    /\ job' = NoJob
    /\ torn' = IF job.pc = "popularity" THEN torn + 1 ELSE torn
    /\ repeated' = IF job.pc = "ack" /\ job.action = "publish" THEN repeated + 1 ELSE repeated
    /\ UNCHANGED <<table, copies, act, heat, mentioned, calls, lost, accepted>>

Worker == \/ Deliver \/ InsertRow \/ ChangePopularity \/ FindRow \/ RemoveRow \/ Ack
Request(c) == \/ SendEvent(c) \/ SendHeat(c) \/ WriteTx(c) \/ BumpHeat(c) \/ DeleteRow(c)
              \/ Invalidate(c) \/ Mention(c) \/ ListReads(c) \/ ListFills(c)

Next == \/ Worker \/ StepFails \/ Expire
        \/ \E c \in Callers : \/ BeginPublish(c) \/ BeginDelete(c) \/ BeginList(c)
                              \/ Request(c)

Spec == Init /\ [][Next]_vars

\* The worker's loop runs on.
FairSpec == Spec /\ WF_vars(Worker)

-----------------------------------------------------------------------------
Rows(call) == {i \in Ids : inserted[i] = call}
InHand(call) == job.action = "publish" /\ job.of = call

\* A comment is inserted once, unless a delivery ended after that and before
\* its acknowledgement: each such delivery leaves a copy, since the next one
\* does not look for it.
NoUnexplainedCopies ==
    Len(inserted) - Cardinality({inserted[i] : i \in Ids}) <= torn + repeated

\* The popularity is the number of rows ever inserted, less the increment of
\* the delivery in hand and of those that ended early.  (Deleting a comment
\* does not lower it.)
PopularityAccounts ==
    popularity + torn + (IF job.pc = "popularity" THEN 1 ELSE 0) = Len(inserted)

\* A publication answered with success has its row, or had it, or its event
\* is queued or in hand; unless the broker dropped what it had taken.
AcceptedIsKept ==
    \A k \in accepted \ lost :
        \/ Rows(k) # {} \/ InHand(k)
        \/ \E i \in DOMAIN queue : queue[i] = [action |-> "publish", of |-> k]

\* The cached list is the table's, or a request that wrote the table is about
\* to drop it, or it is late: the worker has written since it was read, it was
\* read before a drop and cached after it, or the drop has failed.  A request
\* that writes the table itself leaves no other list behind, whoever reads and
\* caches beside it.
StaleListExplained ==
    cached.there /\ ~late.cached => cached.list = rows \/ Dropping # {}

\* A publication answered with success gets its row, through the steps that
\* fail and the other requests' events, unless the broker dropped its event.
AcceptedAppears ==
    \A k \in 1 .. MaxCalls : (k \in accepted \ lost) ~> (Rows(k) # {})
=============================================================================
