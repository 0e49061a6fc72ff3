----------------------------- MODULE Following -----------------------------
(***************************************************************************)
(* Whom one account follows, and the cached page of its following feed.     *)
(*                                                                         *)
(* SocialService (internal/social/service.go) publishes an event and then   *)
(* writes the edge itself; SocialWorker (internal/worker/socialworker.go)   *)
(* writes the same edge again when the event arrives.  ListByFollowing      *)
(* (internal/feed/service.go) caches what it reads under a lock; nothing    *)
(* the code does drops that page but its TTL.                               *)
(*                                                                         *)
(* A page is abstracted to the authors it was read for.  Time is counted in *)
(* ticks; PageTTL of them are the 24 hours of the page.                     *)
(***************************************************************************)
EXTENDS Integers, Sequences, RedisLock

CONSTANTS
    Vloggers,     \* whom the account may follow
    Publish,      \* what may become of an event: queued, refused, dropped
    MaxCalls,     \* bound: follow and unfollow requests
    MaxFeeds,     \* bound: feed requests
    MaxFailures,  \* bound: failed statements and ended workers
    PageTTL,      \* lifetime of a cached page, in ticks
    MaxTime       \* bound: ticks

ASSUME Bounds == /\ Publish \subseteq {"queued", "refused", "dropped"}
                 /\ {MaxCalls, MaxFeeds, MaxFailures, PageTTL, MaxTime} \subseteq Nat
ASSUME Names  == "none" \notin Vloggers

VARIABLES
    edges,     \* the table socials: whom the account follows
    queue,     \* ready messages of social.events
    job,       \* the worker's delivery, and whether it is applied
    cached,    \* Redis, the page: whether it is there, for which authors and
               \* for how many ticks more; and, as history, how many passed
               \* between reading it and storing it
    act,       \* act[c]: the request c serves and where it is
    calls, feeds, failures, now,
    mixed,     \* history: authors with a request begun before the event of
               \* an earlier one was done with
    want,      \* history: authors the last queued or written request followed
    last       \* history: the edge sets the table has held, each with the
               \* last tick at which it held it

table   == <<edges, last>>
social  == <<table, queue, job, mixed, want>>
bounds  == <<calls, feeds, failures, now>>
vars    == <<social, cached, lockVars, act, bounds>>

NoJob  == [kind |-> "none", v |-> "none", applied |-> FALSE]
Quiet  == [kind |-> "none", pc |-> "idle", v |-> "none", locked |-> FALSE,
           page |-> {}, at |-> 0]
Absent == [there |-> FALSE, page |-> {}, left |-> 0, late |-> 0]

Init ==
    /\ edges = {} /\ queue = <<>> /\ job = NoJob /\ mixed = {} /\ want = {}
    /\ cached = Absent /\ LockInit /\ act = [c \in Callers |-> Quiet]
    /\ calls = 0 /\ feeds = 0 /\ failures = 0
    /\ now = 0 /\ last = [E \in {{}} |-> 0]

Goto(c, pc) == act' = [act EXCEPT ![c].pc = pc]
Done(c)     == act' = [act EXCEPT ![c] = Quiet]
Fail        == failures < MaxFailures /\ failures' = failures + 1

\* The table holds E at t.
Remember(E, t) == last' = [F \in DOMAIN last \cup {E} |-> IF F = E THEN t ELSE last[F]]

\* An event or a request on this edge is not done with.
Pending(v) == \/ job.v = v
              \/ \E i \in DOMAIN queue : queue[i].v = v
              \/ \E c \in Callers : act[c].v = v

Wants(kind, v) == IF kind = "follow" THEN want \cup {v} ELSE want \ {v}

-----------------------------------------------------------------------------
(* Follow and Unfollow.                                                      *)

\* IsFollowed refuses to follow twice and to unfollow whom one does not
\* follow.
BeginEdge(c, kind, v) ==
    /\ act[c] = Quiet /\ calls < MaxCalls /\ calls' = calls + 1
    /\ (v \in edges) = (kind = "unfollow")
    /\ act' = [act EXCEPT ![c] = [Quiet EXCEPT !.kind = kind, !.pc = "event", !.v = v]]
    /\ mixed' = IF Pending(v) THEN mixed \cup {v} ELSE mixed \ {v}
    /\ want' = IF v \notin mixed THEN want
               ELSE IF v \in edges THEN want \cup {v} ELSE want \ {v}
    /\ UNCHANGED <<table, queue, job, cached, lockVars, feeds, failures, now>>

\* The error of socialMQ is ignored.
Announce(c) ==
    /\ act[c].pc = "event" /\ Goto(c, "write")
    /\ \E o \in Publish :
          IF o = "queued"
            THEN /\ queue' = Append(queue, [kind |-> act[c].kind, v |-> act[c].v])
                 /\ want' = Wants(act[c].kind, act[c].v)
            ELSE UNCHANGED <<queue, want>>
    /\ UNCHANGED <<table, job, mixed, cached, lockVars, bounds>>

\* The unique index refuses an edge that is there: an error to the client,
\* and no change.
Written(kind, v) == IF kind = "follow" THEN edges \cup {v} ELSE edges \ {v}

WriteEdge(c) ==
    /\ act[c].pc = "write" /\ Done(c)
    /\ \/ /\ edges' = Written(act[c].kind, act[c].v)
          /\ want' = Wants(act[c].kind, act[c].v) /\ Remember(edges', now)
          /\ UNCHANGED failures
       \/ Fail /\ UNCHANGED <<table, want>>
    /\ UNCHANGED <<queue, job, mixed, cached, lockVars, calls, feeds, now>>

-----------------------------------------------------------------------------
(* The worker.                                                               *)

Deliver ==
    /\ job = NoJob /\ queue # <<>>
    /\ job' = [kind |-> Head(queue).kind, v |-> Head(queue).v, applied |-> FALSE]
    /\ queue' = Tail(queue)
    /\ UNCHANGED <<table, mixed, want, cached, lockVars, act, bounds>>

\* process: an edge that is there already is no error.
Apply ==
    /\ job # NoJob /\ ~job.applied
    /\ edges' = Written(job.kind, job.v) /\ Remember(edges', now)
    /\ job' = [job EXCEPT !.applied = TRUE]
    /\ UNCHANGED <<queue, mixed, want, cached, lockVars, act, bounds>>

Ack ==
    /\ job.applied /\ job' = NoJob
    /\ UNCHANGED <<table, queue, mixed, want, cached, lockVars, act, bounds>>

\* Mutant: a failed delivery is acknowledged.
Requeue_Mut ==
    /\ job # NoJob /\ Fail /\ job' = NoJob
    /\ UNCHANGED <<table, queue, mixed, want, cached, lockVars, act, calls, feeds, now>>

\* The statement fails or the worker ends: back to the head of the queue.
Requeue ==
    /\ job # NoJob /\ Fail
    /\ queue' = <<[kind |-> job.kind, v |-> job.v]>> \o queue /\ job' = NoJob
    /\ UNCHANGED <<table, mixed, want, cached, lockVars, act, calls, feeds, now>>

-----------------------------------------------------------------------------
(* ListByFollowing.                                                          *)

\* After a miss; a page that is there is the answer.  Any other error of GET
\* leads to the table without the lock.
BeginFeed(c) ==
    /\ act[c] = Quiet /\ feeds < MaxFeeds /\ feeds' = feeds + 1
    /\ \E pc \in {"lock", "read"} :
          /\ IF pc = "lock" THEN ~cached.there /\ UNCHANGED failures ELSE Fail
          /\ act' = [act EXCEPT ![c] = [Quiet EXCEPT !.kind = "feed", !.pc = pc]]
    /\ UNCHANGED <<social, cached, lockVars, calls, now>>

\* An error of Lock is a lock not taken.
TryLock(c) ==
    /\ act[c].pc = "lock"
    /\ \/ /\ SetNX(c) /\ act' = [act EXCEPT ![c].pc = "again", ![c].locked = TRUE]
          /\ UNCHANGED failures
       \/ /\ IF lock = NoLock THEN Fail ELSE UNCHANGED failures
          /\ Goto(c, "wait") /\ UNCHANGED lockVars
    /\ UNCHANGED <<social, cached, calls, feeds, now>>

\* Mutant: a page that is found is given its TTL again.
LookAgain_Mut(c) ==
    /\ act[c].pc = "again"
    /\ \/ /\ IF cached.there
               THEN Goto(c, "unlock") /\ cached' = [cached EXCEPT !.left = PageTTL]
               ELSE Goto(c, "read") /\ UNCHANGED cached
          /\ UNCHANGED failures
       \/ cached.there /\ Fail /\ Goto(c, "read") /\ UNCHANGED cached
    /\ UNCHANGED <<social, lockVars, calls, feeds, now>>

\* The second look, with the lock; an error is taken for a miss.
LookAgain(c) ==
    /\ act[c].pc = "again"
    /\ \/ Goto(c, IF cached.there THEN "unlock" ELSE "read") /\ UNCHANGED failures
       \/ cached.there /\ Fail /\ Goto(c, "read")
    /\ UNCHANGED <<social, cached, lockVars, calls, feeds, now>>

\* Five looks, of which those after 50 ms fail; then the table.
WaitForPage(c) ==
    /\ act[c].pc = "wait"
    /\ \/ cached.there /\ Done(c)
       \/ Goto(c, "read")
    /\ UNCHANGED <<social, cached, lockVars, bounds>>

\* An error is the answer.
ReadEdges(c) ==
    /\ act[c].pc = "read"
    /\ \/ /\ act' = [act EXCEPT ![c].pc = "fill", ![c].page = edges, ![c].at = now]
          /\ UNCHANGED failures
       \/ Fail /\ IF act[c].locked THEN Goto(c, "unlock") ELSE Done(c)
    /\ UNCHANGED <<social, cached, lockVars, calls, feeds, now>>

\* SET's error is ignored; with the lock it shares the 50 ms of the look.
FillPage(c) ==
    /\ act[c].pc = "fill"
    /\ \/ /\ cached' = [there |-> TRUE, page |-> act[c].page, left |-> PageTTL,
                        late |-> now - act[c].at]
          /\ UNCHANGED failures
       \/ Fail /\ UNCHANGED cached
    /\ IF act[c].locked THEN Goto(c, "unlock") ELSE Done(c)
    /\ UNCHANGED <<social, lockVars, calls, feeds, now>>

Release(c) ==
    /\ act[c].pc = "unlock" /\ Done(c)
    /\ \/ Unlock(c) /\ UNCHANGED failures
       \/ UnlockFails(c) /\ Fail
    /\ UNCHANGED <<social, cached, calls, feeds, now>>

\* A page is gone after PageTTL ticks; Redis may lose it before.
Tick ==
    /\ now < MaxTime /\ now' = now + 1
    /\ cached' = IF cached.left > 0 THEN [cached EXCEPT !.left = @ - 1] ELSE Absent
    /\ edges' = edges /\ Remember(edges, now')
    /\ UNCHANGED <<queue, job, mixed, want, lockVars, act, calls, feeds, failures>>

ExpirePage == /\ cached.there /\ cached' = Absent
              /\ UNCHANGED <<social, lockVars, act, bounds>>

Expire == \/ Tick \/ ExpirePage
          \/ ExpireLock /\ UNCHANGED <<social, cached, act, bounds>>

Worker == Deliver \/ Apply \/ Ack
Request(c) == \/ Announce(c) \/ WriteEdge(c)
              \/ TryLock(c) \/ LookAgain(c) \/ WaitForPage(c)
              \/ ReadEdges(c) \/ FillPage(c) \/ Release(c)

Next == \/ Worker \/ Requeue \/ Expire
        \/ \E c \in Callers :
              \/ \E v \in Vloggers : BeginEdge(c, "follow", v) \/ BeginEdge(c, "unfollow", v)
              \/ BeginFeed(c) \/ Request(c)

Spec == Init /\ [][Next]_vars

-----------------------------------------------------------------------------
\* If each request on an edge began after the event of the one before was
\* done with, the edge ends as the last request wanted it: through lost and
\* repeated events, failed writes and an ended worker.  (A request that
\* begins earlier may be undone by the event: an unfollowed author is
\* followed again.)
EdgeFollowsLast ==
    \A v \in Vloggers \ mixed : ~Pending(v) => (v \in edges <=> v \in want)

\* Nothing drops the page when an edge changes, slow readers store pages of
\* old edges, several readers fill side by side, and the lock may expire under
\* its holder; yet the page shown is one the table gave no longer ago than the
\* page's TTL and the time its reader took to store it.
PageIsRecent ==
    cached.there => /\ cached.page \in DOMAIN last
                    /\ now <= last[cached.page] + PageTTL + cached.late
=============================================================================
