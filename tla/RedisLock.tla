----------------------------- MODULE RedisLock -----------------------------
(***************************************************************************)
(* The lock a reader takes before it fills a missing cache key:             *)
(* Client.Lock and Client.Unlock of internal/middleware/redis/redis.go.     *)
(*                                                                         *)
(* Lock is SET NX with a random token and a TTL; Unlock is a script that    *)
(* deletes the key if it still holds the caller's token.  A token is named  *)
(* by the caller: a caller unlocks before it locks again.                   *)
(***************************************************************************)
EXTENDS Integers, FiniteSets

CONSTANTS Callers

VARIABLES
    lock,  \* the key: the caller whose token it holds, or NoLock
    held   \* history: callers with a lock they did not release and that
           \* did not expire

NoLock == "free"

ASSUME CallersHaveTokens == NoLock \notin Callers

lockVars == <<lock, held>>

LockType == lock \in Callers \cup {NoLock} /\ held \subseteq Callers
LockInit == lock = NoLock /\ held = {}

SetNX(c) == lock = NoLock /\ lock' = c /\ held' = held \cup {c}

\* Mutant: the key is deleted whatever it holds.
Unlock_Mut(c) == lock' = NoLock /\ held' = held \ {c}

Unlock(c) == /\ lock' = IF lock = c THEN NoLock ELSE lock
             /\ held' = held \ {c}

\* The script's error is ignored by its callers.
UnlockFails(c) == held' = held \ {c} /\ UNCHANGED lock

ExpireLock == lock # NoLock /\ lock' = NoLock /\ held' = held \ {lock}

\* No two callers hold the lock, although a caller that outlives its TTL
\* still unlocks, and by then the key may be another's.
LockExclusive == Cardinality(held) <= 1
=============================================================================
