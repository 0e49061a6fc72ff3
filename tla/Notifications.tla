--------------------------- MODULE Notifications ---------------------------
(***************************************************************************)
(* The notifications of one user: rows in MySQL, the unread counter in      *)
(* Redis and the pushes to the user's streams (PushHub).                    *)
(*                                                                         *)
(* NotificationWorker (internal/worker/notificationworker.go) writes a row  *)
(* for an event, increments the counter and pushes; direct messages, new    *)
(* videos and mentions do the same in their request.  The handlers of       *)
(* ssehub.go mark rows as read, take them off the counter and clamp it, and *)
(* recount it when the key is missing (internal/notification/unread.go).    *)
(* Row and counter are changed one after the other, by anyone, in any       *)
(* order; failed Redis commands are logged or ignored.                      *)
(***************************************************************************)
EXTENDS PushHub

CONSTANTS
    Workers,      \* consumers of the notification queues, in the API process
    Callers,      \* requests the API serves at a time
    Kinds,        \* events that may arrive
    Sends,        \* notifications that requests write themselves
    MaxEvents, MaxCalls, MaxFailures   \* bounds

ASSUME Actors == /\ Pushers = Workers \cup Callers /\ Workers \cap Callers = {}
                 /\ IsFiniteSet(Pushers)
                 /\ Hubs = {"sse", "message"}
                 /\ Kinds \subseteq {"like", "follow", "own"}
                 /\ Sends \subseteq {"message", "publish", "mention"}
                 /\ {MaxEvents, MaxCalls, MaxFailures} \subseteq Nat

VARIABLES
    rows,      \* table notifications: type, event it came from, is_read
    count,     \* Redis, notification:unread:<user>; 0 while it is missing
    hasKey,    \* whether the key exists
    queue,     \* ready messages of the notification queue
    act,       \* act[a]: the delivery or request a handles and where it is
    arrived,   \* the kinds of the events published so far; history: "missed"
               \* for one whose author could not be read
    calls,     \* requests so far
    failures,  \* failed calls, lost keys and ended processes so far
    redone,    \* history: times the process has ended, or an insert that had
               \* written its row has failed
    disturbed  \* history: something that lets counter and rows part happened

counter == <<count, hasKey>>
bounds  == <<arrived, calls, failures, redone>>
vars == <<hubVars, rows, counter, queue, act, bounds, disturbed>>

Event == [id : 1 .. MaxEvents, kind : Kinds]
Idle  == [job |-> "none", pc |-> "idle", n |-> 0, event |-> 0, alone |-> FALSE]

\* SupportsUnreadCount.
Counted(type) == type \in {"like", "message", "publish", "mention"}

Unread == {i \in DOMAIN rows : ~rows[i].read /\ Counted(rows[i].type)}
Doing(pc) == {a \in Pushers : act[a].pc = pc}

\* What is still to be taken off the counter, one by one.
Owed == UNION {{c} \X (1 .. act[c].n) : c \in Doing("decr")}

TypeOK ==
    /\ HubTypeOK
    /\ \A i \in DOMAIN rows : /\ rows[i].type \in (Kinds \ {"own"}) \cup Sends
                              /\ rows[i].event \in 0 .. MaxEvents
                              /\ rows[i].read \in BOOLEAN
    /\ count \in Int /\ hasKey \in BOOLEAN /\ (~hasKey => count = 0)
    /\ queue \in Seq(Event)
    /\ \A a \in Pushers : act[a].n \in 0 .. Len(rows)
    /\ arrived \in Seq(Kinds \cup {"missed"}) /\ Len(arrived) <= MaxEvents /\ calls <= MaxCalls
    /\ failures <= MaxFailures /\ redone \in Nat /\ disturbed \in BOOLEAN

Init ==
    /\ HubInit
    /\ rows = <<>> /\ count = 0 /\ hasKey = FALSE /\ queue = <<>>
    /\ act = [a \in Pushers |-> Idle]
    /\ arrived = <<>> /\ calls = 0 /\ failures = 0 /\ redone = 0
    /\ disturbed = FALSE

Goto(a, pc) == act' = [act EXCEPT ![a].pc = pc]
Done(a)     == act' = [act EXCEPT ![a] = Idle]
\* An activity that begins disturbs the recounts under way.
Start(a, job, pc, n, e) ==
    act' = [x \in Pushers |->
              IF x = a THEN [job |-> job, pc |-> pc, n |-> n, event |-> e,
                             alone |-> \A y \in Pushers \ {a} : act[y] = Idle]
                       ELSE [act[x] EXCEPT !.alone = FALSE]]
Call(c)   == /\ act[c] = Idle /\ calls < MaxCalls /\ calls' = calls + 1
             /\ UNCHANGED <<arrived, failures, redone>>
Failing   == /\ failures < MaxFailures /\ failures' = failures + 1
             /\ UNCHANGED <<arrived, calls, redone>>
Insert(type, e) == rows' = Append(rows, [type |-> type, event |-> e, read |-> FALSE])
AddTo(d)        == count' = count + d /\ hasKey' = TRUE

-----------------------------------------------------------------------------
(* The worker.                                                               *)

Arrive ==
    /\ Len(arrived) < MaxEvents
    /\ \E k \in Kinds : /\ arrived' = Append(arrived, k)
                       /\ queue' = Append(queue, [id |-> Len(arrived) + 1, kind |-> k])
    /\ UNCHANGED <<hubVars, rows, counter, act, calls, failures, redone, disturbed>>

Deliver(w) ==
    /\ act[w] = Idle /\ queue # <<>>
    /\ Start(w, Head(queue).kind, "create", 0, Head(queue).id)
    /\ queue' = Tail(queue)
    /\ UNCHANGED <<hubVars, rows, counter, bounds, disturbed>>

InHand(w) == [id |-> act[w].event, kind |-> act[w].job]

\* Mutant: a failed delivery is requeued and goes on.
Process_Mut(w) ==
    /\ act[w].pc = "create"
    /\ Insert(act[w].job, act[w].event)
    /\ \/ /\ act' = [act EXCEPT ![w].pc = IF Counted(act[w].job) THEN "incr" ELSE "push",
                                ![w].n = Len(rows) + 1]
          /\ UNCHANGED <<queue, bounds>>
       \/ Failing /\ Done(w) /\ queue' = <<InHand(w)>> \o queue
    /\ UNCHANGED <<hubVars, counter, disturbed>>

\* process: what a user does to his own video is acknowledged without a
\* notification; else its row is written.  Only this statement's failure has
\* the delivery requeued, at its old place; the statement may have been
\* committed, and then its row is there and nobody will count it.  The author
\* of a liked video is read first, and an error passes for a video without one.
Process(w) ==
    /\ act[w].pc = "create"
    /\ \/ /\ act[w].job = "own" /\ Goto(w, "ack")
          /\ UNCHANGED <<rows, queue, bounds, disturbed>>
       \/ /\ act[w].job # "own"
          /\ Insert(act[w].job, act[w].event)
          /\ act' = [act EXCEPT ![w].pc = IF Counted(act[w].job) THEN "incr" ELSE "push",
                                ![w].n = Len(rows) + 1]
          /\ UNCHANGED <<queue, bounds, disturbed>>
       \/ /\ act[w].job # "own"
          /\ Failing /\ Done(w) /\ queue' = <<InHand(w)>> \o queue
          /\ UNCHANGED <<rows, disturbed>>
       \/ /\ act[w].job # "own"
          /\ Insert(act[w].job, act[w].event) /\ redone' = redone + 1
          /\ failures < MaxFailures /\ failures' = failures + 1
          /\ Done(w) /\ queue' = <<InHand(w)>> \o queue
          /\ disturbed' = (disturbed \/ Counted(act[w].job))
          /\ UNCHANGED <<arrived, calls>>
       \/ /\ act[w].job = "like" /\ Goto(w, "ack")
          /\ failures < MaxFailures /\ failures' = failures + 1
          /\ arrived' = [arrived EXCEPT ![act[w].event] = "missed"]
          /\ UNCHANGED <<rows, queue, calls, redone, disturbed>>
    /\ UNCHANGED <<hubVars, counter>>

\* IncrementUnread by one: INCRBY makes the key if it is missing.
Increment(a) ==
    /\ act[a].pc = "incr"
    /\ IF act[a].job = "mention" THEN Done(a) ELSE Goto(a, "push")
    /\ \/ AddTo(1) /\ UNCHANGED <<bounds, disturbed>>
       \/ Failing /\ disturbed' = TRUE /\ UNCHANGED counter
    /\ UNCHANGED <<hubVars, rows, queue>>

PushStarts(a) ==
    /\ \/ act[a].pc = "push" /\ PushCopies(a, "sse") /\ Goto(a, "pushing")
       \/ act[a].pc = "push2" /\ PushCopies(a, "message") /\ Goto(a, "pushing2")
    /\ UNCHANGED <<rows, counter, queue, bounds, disturbed>>

PushGoesOn(a) ==
    /\ PushSends(a)
    /\ UNCHANGED <<rows, counter, queue, act, bounds, disturbed>>

\* A direct message is pushed to the message hub as well.
PushEnds(a) ==
    /\ PushReturns(a)
    /\ IF a \in Workers THEN Goto(a, "ack")
       ELSE IF act[a].job = "message" /\ act[a].pc = "pushing" THEN Goto(a, "push2")
       ELSE Done(a)
    /\ UNCHANGED <<rows, counter, queue, bounds, disturbed>>

Ack(w) ==
    /\ act[w].pc = "ack" /\ Done(w)
    /\ UNCHANGED <<hubVars, rows, counter, queue, bounds, disturbed>>

-----------------------------------------------------------------------------
(* Requests.                                                                 *)

\* Service.Send, VideoService.Publish and notifyMentions: the row is written
\* (in the transaction of the message or the video), then counted and pushed;
\* mentions are not pushed.
Send(c) ==
    /\ Call(c)
    /\ \E t \in Sends : Insert(t, 0) /\ Start(c, t, "incr", Len(rows) + 1, 0)
    /\ UNCHANGED <<hubVars, counter, queue, disturbed>>

\* MarkRead: one notification of the user, or all of the supported types.
\* One that was never counted is taken off the counter all the same.
MarkRead(c) ==
    /\ Call(c)
    /\ \E S \in {{i} : i \in {j \in DOMAIN rows : ~rows[j].read}} \cup {Unread} :
          /\ rows' = [i \in DOMAIN rows |-> IF i \in S THEN [rows[i] EXCEPT !.read = TRUE] ELSE rows[i]]
          /\ IF S = {} THEN UNCHANGED act ELSE Start(c, "mark", "decr", Cardinality(S), 0)
          /\ disturbed' = (disturbed \/ ~(S \subseteq Unread))
    /\ UNCHANGED <<hubVars, counter, queue>>

\* Mutant: markRead takes one off, however many rows it marked.
Decrement_Mut(c) ==
    /\ act[c].pc = "decr"
    /\ AddTo(-1) /\ Goto(c, "clamp")
    /\ UNCHANGED <<hubVars, rows, queue, bounds, disturbed>>

\* A command that has failed may have reached Redis: the counter is taken down
\* and not clamped.
Decrement(c) ==
    /\ act[c].pc = "decr"
    /\ \/ AddTo(-act[c].n) /\ Goto(c, "clamp") /\ UNCHANGED <<bounds, disturbed>>
       \/ /\ Failing /\ Done(c)
          /\ \/ AddTo(-act[c].n) /\ UNCHANGED disturbed
             \/ disturbed' = TRUE /\ UNCHANGED counter
    /\ UNCHANGED <<hubVars, rows, queue>>

\* Mutant: the counter is not clamped.
ClampReads_Mut(c) ==
    /\ act[c].pc = "clamp" /\ Done(c)
    /\ UNCHANGED <<hubVars, rows, counter, queue, bounds, disturbed>>

\* ClampUnreadNonNegative: GET, and SET 0 if it was negative.
ClampReads(c) ==
    /\ act[c].pc = "clamp"
    /\ \/ /\ IF hasKey /\ count < 0 THEN Goto(c, "zero") ELSE Done(c)
          /\ UNCHANGED bounds
       \/ Failing /\ Done(c)
    /\ UNCHANGED <<hubVars, rows, counter, queue, disturbed>>

ClampSets(c) ==
    /\ act[c].pc = "zero" /\ Done(c)
    /\ \/ count' = 0 /\ hasKey' = TRUE /\ disturbed' = TRUE /\ UNCHANGED bounds
       \/ Failing /\ UNCHANGED <<counter, disturbed>>
    /\ UNCHANGED <<hubVars, rows, queue>>

\* UnreadCount: with the key it changes nothing; without, or when the GET
\* fails, the rows are counted and the key is set.
Recount(c) ==
    /\ act[c] = Idle /\ calls < MaxCalls /\ calls' = calls + 1
    /\ \/ ~hasKey /\ UNCHANGED failures
       \/ failures < MaxFailures /\ failures' = failures + 1
    /\ Start(c, "count", "count", 0, 0)
    /\ UNCHANGED <<hubVars, rows, counter, queue, arrived, redone, disturbed>>

\* The error of COUNT is ignored: 0 is set, and is no recount of anything.
RecountReads(c) ==
    /\ act[c].pc = "count"
    /\ \/ /\ act' = [act EXCEPT ![c].pc = "setcount", ![c].n = Cardinality(Unread)]
          /\ UNCHANGED bounds
       \/ /\ Failing
          /\ act' = [act EXCEPT ![c].pc = "setcount", ![c].n = 0, ![c].alone = FALSE]
    /\ UNCHANGED <<hubVars, rows, counter, queue, disturbed>>

RecountSets(c) ==
    /\ act[c].pc = "setcount" /\ Done(c)
    /\ \/ /\ count' = act[c].n /\ hasKey' = TRUE
          /\ disturbed' = ~act[c].alone /\ UNCHANGED bounds
       \/ Failing /\ UNCHANGED <<counter, disturbed>>
    /\ UNCHANGED <<hubVars, rows, queue>>

-----------------------------------------------------------------------------
(* Failures.                                                                 *)

\* Mutant: what a worker had in hand is gone.
End_Mut(S) ==
    /\ HubRestart
    /\ act' = [a \in Pushers |-> Idle] /\ UNCHANGED queue
    /\ disturbed' = (disturbed \/ Doing("incr") \cup Doing("decr") # {})
    /\ redone' = redone + 1

\* The process ends: requests are cut off, deliveries S go back in order.
End(S) ==
    /\ HubRestart
    /\ act' = [a \in Pushers |-> Idle]
    /\ \E back \in [1 .. Cardinality(S) -> S] :
          /\ {back[i] : i \in DOMAIN back} = S
          /\ \A i, j \in DOMAIN back : i < j => back[i].id < back[j].id
          /\ queue' = back \o queue
    /\ disturbed' = (disturbed \/ Doing("incr") \cup Doing("decr") # {})
    /\ redone' = redone + 1

\* A panic in a worker's goroutine ends the process; so may anything else.
Crash ==
    /\ \/ (\E w \in Workers : push[w].at = "panic") /\ UNCHANGED failures
       \/ failures < MaxFailures /\ failures' = failures + 1
    /\ End({InHand(w) : w \in {x \in Workers : act[x] # Idle}})
    /\ UNCHANGED <<rows, counter, arrived, calls>>

\* A panic in a request's goroutine is recovered by the router.
Recover(c) ==
    /\ c \in Callers /\ push[c].at = "panic"
    /\ push' = [push EXCEPT ![c] = Quiet] /\ Done(c)
    /\ UNCHANGED <<clients, arrays, stream, buffer, rows, counter, queue, bounds, disturbed>>

LoseKey ==
    /\ hasKey /\ Failing
    /\ count' = 0 /\ hasKey' = FALSE /\ disturbed' = TRUE
    /\ UNCHANGED <<hubVars, rows, queue, act>>

Connect(s) ==
    /\ Connection(s)
    /\ UNCHANGED <<rows, counter, queue, act, bounds, disturbed>>

Worker(w) == Deliver(w) \/ Process(w) \/ Ack(w)
Notify(a) == Increment(a) \/ PushStarts(a) \/ PushGoesOn(a) \/ PushEnds(a)
Reader(c) == \/ MarkRead(c) \/ Decrement(c) \/ ClampReads(c) \/ ClampSets(c)
             \/ Recount(c) \/ RecountReads(c) \/ RecountSets(c)

Next == \/ Arrive \/ Crash \/ LoseKey
        \/ \E w \in Workers : Worker(w)
        \/ \E a \in Pushers : Notify(a)
        \/ \E c \in Callers : Send(c) \/ Reader(c) \/ Recover(c)
        \/ \E s \in Streams : Connect(s)

Spec == Init /\ [][Next]_vars

-----------------------------------------------------------------------------
\* The counter is the number of unread rows that count, less the increments
\* and plus the decrements still to be made: through every interleaving of
\* workers, senders and readers, as long as no command was lost, no insert was
\* committed and taken for failed, no key was lost, no uncounted row was marked,
\* no clamp struck between a row and its increment, and the last recount, if
\* any, ran beside nothing else and could count the rows.
CounterExact ==
    ~disturbed => count = Cardinality(Unread) - Cardinality(Doing("incr"))
                          + Cardinality(Owed)

\* Whatever runs beside it, the counter is negative only between the
\* decrement of a markRead and its clamp, unless that was cut off by a failed
\* command or the end of the process.
NeverLeftNegative ==
    count < 0 => \/ Doing("clamp") \cup Doing("zero") # {}
                 \/ failures > 0 \/ redone > 0

\* An event has more than one notification only if the process ended while a
\* worker had it in hand, or its insert failed and had been committed: a
\* delivery that is requeued after any other failure has written none.
OneRowPerEvent ==
    \A e \in DOMAIN arrived :
        Cardinality({i \in DOMAIN rows : rows[i].event = e}) <= 1 + redone

\* No event is dropped: one that has arrived is queued, in a worker's hands, or
\* has its notification, unless the user did it himself or its author could not
\* be read; although inserts fail and processes end, by panics among others.
NoEventDropped ==
    \A e \in DOMAIN arrived :
        \/ arrived[e] \in {"own", "missed"}
        \/ \E i \in DOMAIN queue : queue[i].id = e
        \/ \E w \in Workers : act[w].event = e
        \/ \E i \in DOMAIN rows : rows[i].event = e
=============================================================================
