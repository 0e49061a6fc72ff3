---------------------------- MODULE DetailCache ----------------------------
(***************************************************************************)
(* The detail of one video: VideoService.GetDetail                          *)
(* (internal/video/video_service.go), its two caches and its lock.          *)
(*                                                                         *)
(* Each API process keeps the video for LocalTTL, Redis for CacheTTL.  A    *)
(* reader who misses both takes the lock, looks again, reads the row and    *)
(* fills both caches; one who does not get the lock waits for the fill and  *)
(* then reads the row itself.  Changes of the row reach Redis as a DEL by   *)
(* UpdatePopularityCache, before or after the row changes, and the local    *)
(* caches not at all.                                                       *)
(*                                                                         *)
(* A video is abstracted to the number of changes made to its row.          *)
(***************************************************************************)
EXTENDS Sequences, RedisLock

CONSTANTS
    Apis,               \* API processes
    CacheTTL, LocalTTL, \* in ticks
    MaxTime, MaxChanges, MaxReads, MaxFailures  \* bounds

ASSUME Positive == {CacheTTL, LocalTTL} \subseteq Nat \ {0} /\ IsFiniteSet(Callers)

VARIABLES
    now,
    row,        \* the video in the table
    changedAt,  \* history: when each change was made
    copy,       \* Redis: the value and the ticks it has left
    local,      \* local[a]: the same for the process a
    act,        \* act[c]: where the request of c is
    dels, requests, failures,
    reads,      \* history: reads of the row under the lock
    gone,       \* history: times the copy disappeared
    lapsed      \* history: times the lock expired

caches  == <<copy, local>>
table   == <<row, changedAt>>
history == <<reads, gone, lapsed>>
vars == <<now, table, caches, lockVars, act, dels, requests, failures, history>>

Error  == -1  \* answered in place of a value
Absent == [val |-> 0, left |-> 0]
There(e) == e.left > 0
Quiet(a) == [pc |-> "idle", at |-> a, val |-> 0, locked |-> FALSE]

Init ==
    /\ now = 0 /\ row = 0 /\ changedAt = <<>>
    /\ copy = Absent /\ local = [a \in Apis |-> Absent] /\ LockInit
    /\ \E a \in Apis : act = [c \in Callers |-> Quiet(a)]
    /\ dels = 0 /\ requests = 0 /\ failures = 0
    /\ reads = 0 /\ gone = 0 /\ lapsed = 0

Fail       == failures < MaxFailures /\ failures' = failures + 1
Goto(c, pc) == act' = [act EXCEPT ![c].pc = pc]
Answer(c, v) == act' = [act EXCEPT ![c].pc = "answer", ![c].val = v]

\* setLocalDetail.
SetLocal(c, v) == local' = [local EXCEPT ![act[c].at] = [val |-> v, left |-> LocalTTL]]

-----------------------------------------------------------------------------
(* GetDetail, by a request to any process.                                   *)

Begin(c) ==
    /\ act[c].pc = "idle" /\ requests < MaxReads /\ requests' = requests + 1
    /\ \E a \in Apis :
          act' = [act EXCEPT ![c] =
                    IF There(local[a])
                      THEN [Quiet(a) EXCEPT !.pc = "answer", !.val = local[a].val]
                      ELSE [Quiet(a) EXCEPT !.pc = "get"]]
    /\ UNCHANGED <<now, table, caches, lockVars, dels, failures, history>>

\* getCached: a hit sets the local copy; a miss and an error are the same.
Hit(c, hitPc) ==
    /\ There(copy) /\ SetLocal(c, copy.val)
    /\ act' = [act EXCEPT ![c].pc = hitPc, ![c].val = copy.val]
    /\ UNCHANGED <<now, table, copy, lockVars, dels, requests, failures, history>>
Unseen(c, missPc) ==
    /\ IF There(copy) THEN Fail ELSE UNCHANGED failures
    /\ Goto(c, missPc)
    /\ UNCHANGED <<now, table, caches, lockVars, dels, requests, history>>

FirstGet(c) == act[c].pc = "get" /\ (Hit(c, "answer") \/ Unseen(c, "get2"))

\* The second GET tells a miss from an error, and does not set the local copy.
SecondGet(c) ==
    /\ act[c].pc = "get2"
    /\ \/ There(copy) /\ Answer(c, copy.val) /\ UNCHANGED failures
       \/ ~There(copy) /\ Goto(c, "lock") /\ UNCHANGED failures
       \/ Fail /\ Goto(c, "read")
    /\ UNCHANGED <<now, table, caches, lockVars, dels, requests, history>>

\* An error of Lock is a lock not taken.
TryLock(c) ==
    /\ act[c].pc = "lock"
    /\ \/ SetNX(c) /\ act' = [act EXCEPT ![c].pc = "again", ![c].locked = TRUE] /\ UNCHANGED failures
       \/ /\ IF lock = NoLock THEN Fail ELSE UNCHANGED failures
          /\ Goto(c, "wait") /\ UNCHANGED lockVars
    /\ UNCHANGED <<now, table, caches, dels, requests, history>>

\* Mutant: the lock's holder does not look again.
LookAgain_Mut(c) == act[c].pc = "again" /\ Goto(c, "read")
                    /\ UNCHANGED <<now, table, caches, lockVars, dels, requests, failures, history>>

LookAgain(c) == act[c].pc = "again" /\ (Hit(c, "unlock") \/ Unseen(c, "read"))

\* Five looks, 20 ms apart; then the row.
Wait(c) ==
    /\ act[c].pc = "wait"
    /\ \/ Hit(c, "answer")
       \/ /\ Goto(c, "read")
          /\ UNCHANGED <<now, table, caches, lockVars, dels, requests, failures, history>>

\* repo.GetByID; its error is the answer.
ReadRow(c) ==
    /\ act[c].pc = "read"
    /\ \/ act' = [act EXCEPT ![c].pc = "fill", ![c].val = row] /\ UNCHANGED failures
       \/ Fail /\ act' = [act EXCEPT ![c].val = Error,
                                    ![c].pc = IF act[c].locked THEN "unlock" ELSE "answer"]
    /\ reads' = IF act[c].locked THEN reads + 1 ELSE reads
    /\ UNCHANGED <<now, table, caches, lockVars, dels, requests, gone, lapsed>>

\* setCached: the local copy, then SET, whose error is ignored.
Fill(c) ==
    /\ act[c].pc = "fill" /\ SetLocal(c, act[c].val)
    /\ \/ copy' = [val |-> act[c].val, left |-> CacheTTL] /\ UNCHANGED failures
       \/ Fail /\ UNCHANGED copy
    /\ Goto(c, IF act[c].locked THEN "unlock" ELSE "answer")
    /\ UNCHANGED <<now, table, lockVars, dels, requests, history>>

\* The deferred Unlock, before the answer leaves.
Release(c) ==
    /\ act[c].pc = "unlock"
    /\ act' = [act EXCEPT ![c].pc = "answer", ![c].locked = FALSE]
    /\ \/ Unlock(c) /\ UNCHANGED failures
       \/ UnlockFails(c) /\ Fail
    /\ UNCHANGED <<now, table, caches, dels, requests, history>>

Reply(c) == /\ act[c].pc = "answer" /\ act' = [act EXCEPT ![c] = Quiet(act[c].at)]
            /\ UNCHANGED <<now, table, caches, lockVars, dels, requests, failures, history>>

-----------------------------------------------------------------------------
(* The row, its invalidation, time and Redis.                                *)

\* LikeWorker, CommentWorker or a fallback changes a count of the row.
Change ==
    /\ row < MaxChanges /\ row' = row + 1 /\ changedAt' = Append(changedAt, now)
    /\ UNCHANGED <<now, caches, lockVars, act, dels, requests, failures, history>>

Vanish == copy' = Absent /\ gone' = IF There(copy) THEN gone + 1 ELSE gone

\* UpdatePopularityCache: one DEL for each change, before or after it.
Invalidate ==
    /\ dels < MaxChanges /\ dels' = dels + 1 /\ Vanish
    /\ UNCHANGED <<now, table, local, lockVars, act, requests, failures, reads, lapsed>>

LockExpires == /\ ExpireLock /\ lapsed' = lapsed + 1
               /\ UNCHANGED <<now, table, caches, act, dels, requests, failures, reads, gone>>

\* Redis restarts empty.
Lose ==
    /\ Fail /\ Vanish
    /\ lock' = NoLock /\ held' = held \ {lock}
    /\ lapsed' = IF lock = NoLock THEN lapsed ELSE lapsed + 1
    /\ UNCHANGED <<now, table, local, act, dels, requests, reads>>

Older(e) == IF e.left > 1 THEN [e EXCEPT !.left = @ - 1] ELSE Absent

\* A request holds what it read for less than a tick: Redis gets 50 ms, and a
\* tick is a second or more.
Prompt == \A c \in Callers : act[c].pc \notin {"fill", "unlock", "answer"}

\* Mutant: the local copies do not expire.
Tick_Mut ==
    /\ now < MaxTime /\ Prompt /\ now' = now + 1
    /\ copy' = Older(copy) /\ UNCHANGED local
    /\ gone' = IF copy.left = 1 THEN gone + 1 ELSE gone
    /\ UNCHANGED <<table, lockVars, act, dels, requests, failures, reads, lapsed>>

Tick ==
    /\ now < MaxTime /\ Prompt /\ now' = now + 1
    /\ copy' = Older(copy) /\ local' = [a \in Apis |-> Older(local[a])]
    /\ gone' = IF copy.left = 1 THEN gone + 1 ELSE gone
    /\ UNCHANGED <<table, lockVars, act, dels, requests, failures, reads, lapsed>>

GetDetail(c) == \/ FirstGet(c) \/ SecondGet(c) \/ TryLock(c) \/ LookAgain(c) \/ Wait(c)
                \/ ReadRow(c) \/ Fill(c) \/ Release(c) \/ Reply(c)

Next == \/ \E c \in Callers : Begin(c) \/ GetDetail(c)
        \/ Change \/ Invalidate \/ LockExpires \/ Lose \/ Tick

Spec == Init /\ [][Next]_vars

-----------------------------------------------------------------------------
\* An answer is the row's value, or was less than CacheTTL + LocalTTL ago:
\* a process may copy from Redis what is about to expire there, and no
\* invalidation need have reached either cache.
StalenessBounded ==
    \A c \in Callers : act[c].pc = "answer" =>
        LET v == act[c].val
        IN  v \in {row, Error} \/ now - changedAt[v + 1] < CacheTTL + LocalTTL

\* The lock and the second look keep a crowd from the table: under the lock
\* the row is read once for each time the copy disappeared, but for failed
\* operations and locks that lapsed.
ReadsAccounted == reads <= 1 + gone + lapsed + failures
=============================================================================
