------------------------- MODULE DetailCacheProofs -------------------------
(***************************************************************************)
(* Proofs about GetDetail, for any callers, processes and lifetimes: of its  *)
(* lock (LockInv), of the age of its answers (Ages), and of the reads that   *)
(* the lock lets through (Credit).                                          *)
(***************************************************************************)
EXTENDS DetailCache, SequenceTheorems, FiniteSetTheorems, TLAPS

\* Who has a lock that is neither released nor expired is who the key names.
LockInv == LockType /\ held \subseteq {lock}

\* The three commands and the expiry of the key keep that.
LEMMA LockStep ==
    ASSUME LockInv,
           \/ \E c \in Callers : SetNX(c) \/ Unlock(c) \/ UnlockFails(c)
           \/ ExpireLock
           \/ UNCHANGED lockVars
    PROVE  LockInv'
<1>1. ASSUME NEW c \in Callers, SetNX(c) PROVE LockInv'
  BY <1>1, CallersHaveTokens DEF LockInv, LockType, SetNX
<1>2. ASSUME NEW c \in Callers, Unlock(c) PROVE LockInv'
  BY <1>2 DEF LockInv, LockType, Unlock
<1>3. ASSUME NEW c \in Callers, UnlockFails(c) PROVE LockInv'
  BY <1>3 DEF LockInv, LockType, UnlockFails
<1>4. ASSUME ExpireLock PROVE LockInv'
  BY <1>4 DEF LockInv, LockType, ExpireLock
<1>5. ASSUME UNCHANGED lockVars PROVE LockInv'
  BY <1>5 DEF LockInv, LockType, lockVars
<1> QED BY <1>1, <1>2, <1>3, <1>4, <1>5

\* What each step of GetDetail does to the lock.
LEMMA DetailStep ==
    ASSUME NEW c \in Callers, GetDetail(c)
    PROVE  SetNX(c) \/ Unlock(c) \/ UnlockFails(c) \/ UNCHANGED lockVars
<1>1. CASE FirstGet(c)  BY <1>1 DEF FirstGet, Hit, Unseen
<1>2. CASE SecondGet(c) BY <1>2 DEF SecondGet
<1>3. CASE TryLock(c)   BY <1>3 DEF TryLock
<1>4. CASE LookAgain(c) BY <1>4 DEF LookAgain, Hit, Unseen
<1>5. CASE Wait(c)      BY <1>5 DEF Wait, Hit
<1>6. CASE ReadRow(c)   BY <1>6 DEF ReadRow
<1>7. CASE Fill(c)      BY <1>7 DEF Fill
<1>8. CASE Release(c)   BY <1>8 DEF Release
<1>9. CASE Reply(c)     BY <1>9 DEF Reply
<1> QED BY <1>1, <1>2, <1>3, <1>4, <1>5, <1>6, <1>7, <1>8, <1>9 DEF GetDetail

\* A restart of Redis takes the key away from whoever holds it.
LEMMA LoseStep == ASSUME LockInv, Lose PROVE LockInv'
BY DEF LockInv, LockType, Lose

\* Every step keeps the invariant.
LEMMA LockKept == ASSUME LockInv, [Next]_vars PROVE LockInv'
<1>1. ASSUME NEW c \in Callers, Begin(c) PROVE LockInv'
  BY <1>1, LockStep DEF Begin
<1>2. ASSUME NEW c \in Callers, GetDetail(c) PROVE LockInv'
  BY <1>2, DetailStep, LockStep
<1>3. CASE Change      BY <1>3, LockStep DEF Change
<1>4. CASE Invalidate  BY <1>4, LockStep DEF Invalidate
<1>5. CASE LockExpires BY <1>5, LockStep DEF LockExpires
<1>6. CASE Lose        BY <1>6, LoseStep
<1>7. CASE Tick        BY <1>7, LockStep DEF Tick
<1>8. CASE UNCHANGED vars BY <1>8, LockStep DEF vars
<1> QED BY <1>1, <1>2, <1>3, <1>4, <1>5, <1>6, <1>7, <1>8 DEF Next

\* At any time at most one caller has a lock it took and that did not expire,
\* although late callers go on to unlock: whatever the number of callers and
\* processes, and however often the lock expires or Redis restarts.
THEOREM LockExclusiveHolds == Spec => []LockExclusive
<1>1. Init => LockInv
  BY DEF Init, LockInit, LockInv, LockType
<1>2. LockInv /\ [Next]_vars => LockInv'
  BY LockKept
<1>3. LockInv => LockExclusive
  <2> SUFFICES ASSUME LockInv PROVE Cardinality(held) <= 1
    BY DEF LockExclusive
  <2>1. IsFiniteSet({lock}) /\ Cardinality({lock}) = 1
    BY FS_Singleton
  <2>2. Cardinality(held) <= Cardinality({lock})
    BY <2>1, FS_Subset DEF LockInv
  <2> QED BY <2>1, <2>2
<1> QED BY <1>1, <1>2, <1>3, PTL DEF Spec
-----------------------------------------------------------------------------
(* The types.                                                                *)

Entry == [val : Nat, left : Nat]
Acts  == [pc : {"idle", "get", "get2", "lock", "again", "wait", "read", "fill", "unlock", "answer"},
          at : Apis, val : Nat \cup {Error}, locked : BOOLEAN]

\* The type of the variables, and where a request has the lock, or had it
\* until it expired.
Shape ==
    /\ now \in Nat /\ row \in Nat
    /\ changedAt \in Seq(Nat) /\ Len(changedAt) = row /\ \A i \in 1 .. row : changedAt[i] <= now
    /\ copy \in Entry /\ copy.left <= CacheTTL
    /\ local \in [Apis -> Entry] /\ \A a \in Apis : local[a].left <= LocalTTL
    /\ act \in [Callers -> Acts]
    /\ \A c \in Callers : /\ act[c].locked => act[c].pc \in {"again", "read", "fill", "unlock"}
                          /\ act[c].pc \in {"again", "unlock"} => act[c].locked
    /\ \A c \in held : act[c].locked
    /\ failures \in Nat /\ reads \in Nat /\ gone \in Nat /\ lapsed \in Nat

-----------------------------------------------------------------------------
(* The age of an answer.                                                     *)

\* Of a row changed w times, at the times h: v is its value at the time t, or
\* was at most n ticks ago.
AgedAt(t, w, h, v, n) == v \in 0 .. w /\ (v = w \/ t - h[v + 1] <= n)
Aged(v, n)            == AgedAt(now, row, changedAt, v, n)

\* A copy in Redis was the row when its lifetime began; a local one was taken
\* from the row or from a living copy when its own began; and no tick passes
\* while a request has a value it read.
Ages ==
    /\ There(copy) => Aged(copy.val, CacheTTL - copy.left)
    /\ \A a \in Apis : There(local[a]) => Aged(local[a].val, CacheTTL - 1 + LocalTTL - local[a].left)
    /\ \A c \in Callers : /\ act[c].pc = "fill" => Aged(act[c].val, 0)
                          /\ act[c].pc \in {"unlock", "answer"} =>
                                act[c].val = Error \/ Aged(act[c].val, CacheTTL + LocalTTL - 1)

-----------------------------------------------------------------------------
(* The reads under the lock.                                                 *)

\* Those about to read, those whose lock expired before they looked, and
\* whether whoever has the lock is about to fill the copy.
Reading == {c \in Callers : act[c].locked /\ act[c].pc = "read"}
Late    == {c \in Callers : act[c].locked /\ act[c].pc = "again" /\ c \notin held}
Filling == \E c \in held : act[c].pc \in {"read", "fill"}
Due     == IF There(copy) \/ Filling THEN 0 ELSE 1

\* Reads made, reads that are certain, and the one that is due while the copy
\* is missing, are all paid for.
Credit == reads + Cardinality(Reading) + Cardinality(Late) + Due <= 1 + gone + lapsed + failures

\* The inductive invariant.
IInv == LockInv /\ Shape /\ Ages /\ Credit

-----------------------------------------------------------------------------
(* Ages.                                                                     *)

LEMMA AgeOfRow ==
    ASSUME NEW t \in Nat, NEW w \in Nat, NEW h \in Seq(Nat), Len(h) = w, NEW n \in Int
    PROVE  AgedAt(t, w, h, w, n)
BY DEF AgedAt

LEMMA AgeMore ==
    ASSUME NEW t \in Nat, NEW w \in Nat, NEW h \in Seq(Nat), Len(h) = w,
           NEW n \in Int, NEW m \in Int, n <= m, NEW v, AgedAt(t, w, h, v, n)
    PROVE  AgedAt(t, w, h, v, m)
<1>1. v \in 0 .. w /\ (v # w => v + 1 \in 1 .. Len(h))
  BY DEF AgedAt
<1>2. v # w => h[v + 1] \in Nat
  BY <1>1, ElementOfSeq
<1> QED BY <1>1, <1>2 DEF AgedAt

LEMMA AgeOfTick ==
    ASSUME NEW t \in Nat, NEW w \in Nat, NEW h \in Seq(Nat), Len(h) = w,
           NEW n \in Int, NEW v, AgedAt(t, w, h, v, n)
    PROVE  AgedAt(t + 1, w, h, v, n + 1)
<1>1. v \in 0 .. w /\ (v # w => v + 1 \in 1 .. Len(h))
  BY DEF AgedAt
<1>2. v # w => h[v + 1] \in Nat
  BY <1>1, ElementOfSeq
<1> QED BY <1>1, <1>2 DEF AgedAt

LEMMA AgeOfChange ==
    ASSUME NEW t \in Nat, NEW w \in Nat, NEW h \in Seq(Nat), Len(h) = w,
           NEW n \in Nat, NEW v, AgedAt(t, w, h, v, n)
    PROVE  AgedAt(t, w + 1, Append(h, t), v, n)
<1>1. PICK g : g = Append(h, t)
  OBVIOUS
<1>2. g[w + 1] = t /\ \A i \in 1 .. w : g[i] = h[i]
  BY <1>1
<1>3. v \in 0 .. w
  BY DEF AgedAt
<1>4. CASE v = w
  BY <1>1, <1>2, <1>3, <1>4 DEF AgedAt
<1>5. CASE v # w
  <2>1. v + 1 \in 1 .. w /\ t - h[v + 1] <= n /\ v \in 0 .. w + 1
    BY <1>3, <1>5 DEF AgedAt
  <2>2. g[v + 1] = h[v + 1]
    BY <1>2, <2>1
  <2> QED BY <1>1, <2>1, <2>2 DEF AgedAt
<1> QED BY <1>4, <1>5

\* The age bounds that occur.
LEMMA Lifetimes ==
    /\ CacheTTL \in Nat /\ CacheTTL >= 1 /\ LocalTTL \in Nat /\ LocalTTL >= 1
    /\ CacheTTL + LocalTTL - 1 \in Nat /\ 0 <= CacheTTL + LocalTTL - 1
BY Positive

-----------------------------------------------------------------------------
(* What a step does to the callers.                                          *)

One(b) == IF b THEN 1 ELSE 0

LEMMA Count ==
    ASSUME NEW S, IsFiniteSet(S), NEW T, NEW c, \A d : d # c => (d \in T <=> d \in S)
    PROVE  /\ IsFiniteSet(T) /\ Cardinality(S) \in Nat /\ Cardinality(T) \in Nat
           /\ Cardinality(T) = Cardinality(S) + One(c \in T) - One(c \in S)
<1>1. Cardinality(S) \in Nat
  BY FS_CardinalityType
<1>2. CASE c \in T
  <2>1. T = S \cup {c}
    BY <1>2
  <2>2. IsFiniteSet(T) /\ (Cardinality(T) = IF c \in S THEN Cardinality(S) ELSE Cardinality(S) + 1)
    BY <2>1, FS_AddElement
  <2> QED BY <1>1, <1>2, <2>2 DEF One
<1>3. CASE c \notin T
  <2>1. T = S \ {c}
    BY <1>3
  <2>2. IsFiniteSet(T) /\ (Cardinality(T) = IF c \in S THEN Cardinality(S) - 1 ELSE Cardinality(S))
    BY <2>1, FS_RemoveElement
  <2>3. Cardinality(T) \in Nat
    BY <2>2, FS_CardinalityType
  <2> QED BY <1>1, <1>3, <2>2, <2>3 DEF One
<1> QED BY <1>2, <1>3

LEMMA Counts ==
    /\ IsFiniteSet(Reading) /\ IsFiniteSet(Late)
    /\ Cardinality(Reading) \in Nat /\ Cardinality(Late) \in Nat /\ Due \in {0, 1}
<1>1. IsFiniteSet(Reading) /\ IsFiniteSet(Late)
  <2>1. Reading \subseteq Callers /\ Late \subseteq Callers
    BY DEF Reading, Late
  <2> QED BY <2>1, Positive, FS_Subset
<1> QED BY <1>1, FS_CardinalityType DEF Due

\* The caller c becomes r: who else reads, looks late or fills is the same.
LEMMA Becomes ==
    ASSUME Shape, NEW c \in Callers, NEW r \in Acts, act' = [act EXCEPT ![c] = r],
           \A d : d # c => (d \in held' <=> d \in held)
    PROVE  /\ act' \in [Callers -> Acts] /\ act'[c] = r
           /\ \A d \in Callers : d # c => act'[d] = act[d]
           /\ Cardinality(Reading') = Cardinality(Reading) + One(r.locked /\ r.pc = "read")
                                                           - One(act[c].locked /\ act[c].pc = "read")
           /\ Cardinality(Late') = Cardinality(Late) + One(r.locked /\ r.pc = "again" /\ c \notin held')
                                         - One(act[c].locked /\ act[c].pc = "again" /\ c \notin held)
<1>1. /\ act' \in [Callers -> Acts] /\ act'[c] = r
      /\ \A d \in Callers : d # c => act'[d] = act[d]
  BY DEF Shape
<1>2. /\ \A d : d # c => (d \in Reading' <=> d \in Reading)
      /\ \A d : d # c => (d \in Late' <=> d \in Late)
  BY <1>1 DEF Reading, Late
<1>3. /\ c \in Reading <=> act[c].locked /\ act[c].pc = "read"
      /\ c \in Reading' <=> r.locked /\ r.pc = "read"
      /\ c \in Late <=> act[c].locked /\ act[c].pc = "again" /\ c \notin held
      /\ c \in Late' <=> r.locked /\ r.pc = "again" /\ c \notin held'
  BY <1>1 DEF Reading, Late
<1>4. Cardinality(Reading') = Cardinality(Reading) + One(c \in Reading') - One(c \in Reading)
  BY <1>2, Counts, Count
<1>5. Cardinality(Late') = Cardinality(Late) + One(c \in Late') - One(c \in Late)
  BY <1>2, Counts, Count
<1> QED BY <1>1, <1>3, <1>4, <1>5 DEF One


-----------------------------------------------------------------------------
(* One step of a request, in general.                                        *)

\* Where r may be, and what its value may be.
Apt(r) == /\ r.locked => r.pc \in {"again", "read", "fill", "unlock"}
          /\ r.pc \in {"again", "unlock"} => r.locked
          /\ r.pc = "fill" => Aged(r.val, 0)
          /\ r.pc \in {"unlock", "answer"} => r.val = Error \/ Aged(r.val, CacheTTL + LocalTTL - 1)

LEMMA AptNow == ASSUME Shape, Ages, NEW c \in Callers PROVE Apt(act[c]) /\ act[c] \in Acts
BY DEF Shape, Ages, Apt

\* The caches stay what they are, or a request fills them.
Filled == /\ copy' \in Entry /\ copy'.left <= CacheTTL
          /\ There(copy') => Aged(copy'.val, CacheTTL - copy'.left)
          /\ local' \in [Apis -> Entry] /\ \A a \in Apis : local'[a].left <= LocalTTL
          /\ \A a \in Apis : There(local'[a]) => Aged(local'[a].val, CacheTTL - 1 + LocalTTL - local'[a].left)

LEMMA FilledSame == ASSUME Shape, Ages, UNCHANGED caches PROVE Filled
BY DEF Shape, Ages, Filled, caches

LEMMA StepShape ==
    ASSUME Shape, Ages, NEW c \in Callers, NEW r \in Acts, act' = [act EXCEPT ![c] = r], Apt(r),
           \A d : d # c => (d \in held' <=> d \in held), c \in held' => r.locked,
           UNCHANGED <<now, table>>, Filled,
           failures' \in Nat, reads' \in Nat, UNCHANGED <<gone, lapsed>>
    PROVE  Shape' /\ Ages'
<1>1. /\ act' \in [Callers -> Acts] /\ act'[c] = r
      /\ \A d \in Callers : d # c => act'[d] = act[d]
  BY Becomes
<1>2. now' = now /\ row' = row /\ changedAt' = changedAt
  BY DEF table
<1>3. \A d \in held' : d \in Callers => act'[d].locked
  BY <1>1 DEF Shape
<1>4. Shape'
  BY <1>1, <1>2, <1>3, SMTT(30) DEF Shape, Filled, Apt
<1>5. Ages'
  BY <1>1, <1>2 DEF Ages, Filled, Apt, Aged
<1> QED BY <1>4, <1>5

LEMMA StepCredit ==
    ASSUME LockInv, LockInv', Shape, Credit, NEW c \in Callers, NEW r \in Acts,
           act' = [act EXCEPT ![c] = r],
           \A d : d # c => (d \in held' <=> d \in held),
           reads' \in Nat, failures' \in Nat, UNCHANGED <<gone, lapsed>>,
           reads' + One(r.locked /\ r.pc = "read") + One(r.locked /\ r.pc = "again" /\ c \notin held') + Due' + failures
              <= reads + One(act[c].locked /\ act[c].pc = "read")
                 + One(act[c].locked /\ act[c].pc = "again" /\ c \notin held) + Due + failures'
    PROVE  Credit'
<1>1. PICK i, j, k, m, x, y, x1, y1 :
          /\ i = Cardinality(Reading) /\ j = Cardinality(Late)
          /\ k = Cardinality(Reading') /\ m = Cardinality(Late')
          /\ x = One(act[c].locked /\ act[c].pc = "read")
          /\ y = One(act[c].locked /\ act[c].pc = "again" /\ c \notin held)
          /\ x1 = One(r.locked /\ r.pc = "read")
          /\ y1 = One(r.locked /\ r.pc = "again" /\ c \notin held')
  OBVIOUS
<1>2. k = i + x1 - x /\ m = j + y1 - y
  BY <1>1, Becomes
<1>3. /\ i \in Nat /\ j \in Nat /\ Due \in {0, 1} /\ Due' \in {0, 1}
      /\ x \in {0, 1} /\ y \in {0, 1} /\ x1 \in {0, 1} /\ y1 \in {0, 1}
  BY <1>1, Counts DEF Due, One
<1>4. reads \in Nat /\ failures \in Nat /\ gone \in Nat /\ lapsed \in Nat
  BY DEF Shape
<1>5. reads + i + j + Due <= 1 + gone + lapsed + failures
  BY <1>1 DEF Credit
<1>6. reads' + x1 + y1 + Due' + failures <= reads + x + y + Due + failures'
  BY <1>1
<1>7. PICK a, a1, f, f1, d, d1, g :
          /\ a \in Int /\ a1 \in Int /\ f \in Int /\ f1 \in Int /\ d \in Int /\ d1 \in Int /\ g \in Int
          /\ a = reads /\ a1 = reads' /\ f = failures /\ f1 = failures'
          /\ d = Due /\ d1 = Due' /\ g = 1 + gone + lapsed
  <2>1. Due \in Int /\ Due' \in Int /\ 1 + gone + lapsed \in Int
    BY <1>3, <1>4
  <2> QED BY <1>4, <2>1
<1>8. a + i + j + d <= g + f
  BY <1>4, <1>5, <1>7
<1>9. a1 + x1 + y1 + d1 + f <= a + x + y + d + f1
  BY <1>6, <1>7
<1>10. i \in Int /\ j \in Int /\ x \in Int /\ y \in Int /\ x1 \in Int /\ y1 \in Int
  BY <1>3
<1>11. a1 + k + m + d1 <= g + f1
  <2>1. /\ a \in Int /\ a1 \in Int /\ f \in Int /\ f1 \in Int /\ d \in Int /\ d1 \in Int /\ g \in Int
        /\ k = i + x1 - x /\ m = j + y1 - y
    BY <1>2, <1>7
  <2> QED BY ONLY <2>1, <1>8, <1>9, <1>10
<1>12. reads' + Cardinality(Reading') + Cardinality(Late') + Due' <= 1 + gone' + lapsed' + failures'
  BY <1>1, <1>4, <1>7, <1>11
<1> QED BY <1>12 DEF Credit

\* A request without the lock, before and after, costs nothing.
LEMMA StepOutside ==
    ASSUME IInv, LockInv', NEW c \in Callers, NEW r \in Acts, act' = [act EXCEPT ![c] = r],
           ~act[c].locked, ~r.locked, UNCHANGED <<held, reads, gone, lapsed>>,
           failures' = failures \/ Fail, There(copy) => There(copy')
    PROVE  Credit'
<1>1. Shape /\ LockInv /\ Credit /\ failures \in Nat /\ reads \in Nat
  BY DEF IInv, Shape
<1>2. failures' \in Nat /\ failures <= failures'
  BY <1>1 DEF Fail
<1>3. c \notin held /\ c \notin held' /\ held \subseteq Callers
  BY <1>1 DEF Shape, LockInv, LockType
<1>4. Filling' <=> Filling
  <2>1. \A d \in held : act'[d] = act[d]
    BY <1>1, <1>3, Becomes
  <2> QED BY <2>1 DEF Filling
<1>5. Due \in {0, 1} /\ Due' \in {0, 1} /\ Due' <= Due
  BY <1>4 DEF Due
<1>6. /\ One(r.locked /\ r.pc = "read") = 0 /\ One(r.locked /\ r.pc = "again" /\ c \notin held') = 0
      /\ One(act[c].locked /\ act[c].pc = "read") = 0
      /\ One(act[c].locked /\ act[c].pc = "again" /\ c \notin held) = 0
  BY DEF One
<1>7. reads' = reads
  OBVIOUS
<1>8. reads' + 0 + 0 + Due' + failures <= reads + 0 + 0 + Due + failures'
  <2>1. PICK a, f, f1, d, d1 :
            /\ a \in Nat /\ f \in Nat /\ f1 \in Nat /\ d \in Nat /\ d1 \in Nat /\ f <= f1 /\ d1 <= d
            /\ a = reads /\ f = failures /\ f1 = failures' /\ d = Due /\ d1 = Due'
    BY <1>1, <1>2, <1>5
  <2>2. a + 0 + 0 + d1 + f <= a + 0 + 0 + d + f1
    <3>1. a \in Nat /\ f \in Nat /\ f1 \in Nat /\ d \in Nat /\ d1 \in Nat /\ f <= f1 /\ d1 <= d
      BY <2>1
    <3> QED BY ONLY <3>1
  <2> QED BY <1>7, <2>1, <2>2
<1> QED BY <1>1, <1>2, <1>6, <1>7, <1>8, StepCredit

-----------------------------------------------------------------------------
(* The steps of GetDetail.                                                   *)

\* A local copy of a value that a living copy in Redis, or the row, had.
LEMMA LocalFills ==
    ASSUME Shape, Ages, NEW c \in Callers, NEW v \in Nat, SetLocal(c, v), Aged(v, CacheTTL - 1),
           UNCHANGED <<now, table>>
    PROVE  /\ local' \in [Apis -> Entry] /\ \A a \in Apis : local'[a].left <= LocalTTL
           /\ \A a \in Apis : There(local'[a]) => Aged(local'[a].val, CacheTTL - 1 + LocalTTL - local'[a].left)
<1>1. CacheTTL - 1 + LocalTTL - LocalTTL = CacheTTL - 1
  BY Lifetimes
<1>2. PICK e : e = [val |-> v, left |-> LocalTTL]
  OBVIOUS
<1>3. /\ e \in Entry /\ e.left <= LocalTTL /\ e.val = v /\ e.left = LocalTTL
      /\ Aged(e.val, CacheTTL - 1 + LocalTTL - e.left)
  BY <1>1, <1>2, Lifetimes DEF Entry
<1>4. act[c].at \in Apis /\ local' = [local EXCEPT ![act[c].at] = e]
  BY <1>2 DEF Shape, Acts, SetLocal
<1>5. /\ local' \in [Apis -> Entry] /\ \A a \in Apis : local'[a].left <= LocalTTL
      /\ \A a \in Apis : local'[a] = e \/ local'[a] = local[a]
  BY <1>3, <1>4 DEF Shape
<1>6. \A a \in Apis : There(local'[a]) => Aged(local'[a].val, CacheTTL - 1 + LocalTTL - local'[a].left)
  BY <1>3, <1>5 DEF Ages
<1> QED BY <1>5, <1>6

\* What a request takes from Redis it also puts in its local copy.
LEMMA HitFills ==
    ASSUME Shape, Ages, NEW c \in Callers, There(copy), SetLocal(c, copy.val), UNCHANGED <<now, table, copy>>
    PROVE  /\ Filled /\ copy.val \in Nat /\ Aged(copy.val, CacheTTL + LocalTTL - 1)
<1>1. /\ copy \in Entry /\ copy.val \in Nat /\ copy.left \in Nat /\ copy.left >= 1
      /\ Aged(copy.val, CacheTTL - copy.left)
  BY DEF Shape, Ages, There, Entry
<1>2. now \in Nat /\ row \in Nat /\ changedAt \in Seq(Nat) /\ Len(changedAt) = row
  BY DEF Shape
<1>3. /\ CacheTTL - copy.left \in Int /\ CacheTTL - copy.left <= CacheTTL - 1
      /\ CacheTTL - 1 \in Int /\ CacheTTL + LocalTTL - 1 \in Int
      /\ CacheTTL - copy.left <= CacheTTL + LocalTTL - 1
  BY <1>1, Lifetimes
<1>4. Aged(copy.val, CacheTTL - 1) /\ Aged(copy.val, CacheTTL + LocalTTL - 1)
  BY <1>1, <1>2, <1>3, AgeMore DEF Aged
<1> QED BY <1>1, <1>4, LocalFills DEF Filled, Shape, Ages

\* The ways a request goes on.
LEMMA ActGoto ==
    ASSUME Shape, NEW c \in Callers, NEW pc \in {"get2", "lock", "again", "wait", "read", "unlock", "answer"},
           Goto(c, pc)
    PROVE  \E r \in Acts : /\ act' = [act EXCEPT ![c] = r] /\ r.pc = pc
                           /\ r.val = act[c].val /\ r.locked = act[c].locked
<1>1. PICK r : r = [act[c] EXCEPT !.pc = pc]
  OBVIOUS
<1>2. r \in Acts /\ r.pc = pc /\ r.val = act[c].val /\ r.locked = act[c].locked
  BY <1>1 DEF Shape, Acts
<1>3. act' = [act EXCEPT ![c] = r]
  BY <1>1 DEF Goto
<1> QED BY <1>2, <1>3

Takes(c, pc, v) == act' = [act EXCEPT ![c].pc = pc, ![c].val = v]

LEMMA ActTakes ==
    ASSUME Shape, NEW c \in Callers, NEW pc, pc \in {"fill", "unlock", "answer"},
           NEW v, v \in Nat \cup {Error}, Takes(c, pc, v)
    PROVE  \E r \in Acts : /\ act' = [act EXCEPT ![c] = r] /\ r.pc = pc
                           /\ r.val = v /\ r.locked = act[c].locked
<1>0. PICK o \in Acts : o = act[c]
  BY DEF Shape
<1>1. PICK r : r = [o EXCEPT !.pc = pc, !.val = v]
  OBVIOUS
<1>2. r \in Acts /\ r.pc = pc /\ r.val = v /\ r.locked = o.locked
  BY <1>1 DEF Acts
<1>3. act' = [act EXCEPT ![c] = r]
  BY <1>0, <1>1 DEF Shape, Takes
<1> QED BY <1>0, <1>2, <1>3


\* A request that looks in Redis: what it finds is the answer (or what it will
\* answer once it has unlocked), and a miss or an error sends it on.
LEMMA HitKeeps ==
    ASSUME IInv, LockInv', NEW c \in Callers, NEW pc \in {"answer", "unlock"}, Hit(c, pc),
           act[c].pc \in {"get", "wait", "again"}, act[c].locked <=> pc = "unlock"
    PROVE  IInv'
<1>1. Shape /\ Ages /\ LockInv /\ Credit /\ act[c] \in Acts
  BY DEF IInv, Shape
<1>2. /\ There(copy) /\ SetLocal(c, copy.val)
      /\ act' = [act EXCEPT ![c].pc = pc, ![c].val = copy.val]
      /\ UNCHANGED <<now, table, copy, lock, held, failures, reads, gone, lapsed>>
  BY DEF Hit, lockVars, history
<1>3. Filled /\ copy.val \in Nat /\ Aged(copy.val, CacheTTL + LocalTTL - 1)
  BY <1>1, <1>2, HitFills
<1>4. PICK r \in Acts : /\ act' = [act EXCEPT ![c] = r] /\ r.pc = pc
                        /\ r.val = copy.val /\ r.locked = act[c].locked
  <2>1. Takes(c, pc, copy.val) /\ pc \in {"fill", "unlock", "answer"} /\ copy.val \in Nat \cup {Error}
    BY <1>2, <1>3 DEF Takes
  <2> QED BY <1>1, <2>1, ActTakes
<1>5. Apt(r)
  BY <1>3, <1>4 DEF Apt
<1>6. failures \in Nat /\ reads \in Nat /\ (c \in held => act[c].locked)
  BY <1>1 DEF Shape
<1>7. Shape' /\ Ages'
  BY <1>1, <1>2, <1>3, <1>4, <1>5, <1>6, StepShape
<1>8. Credit'
  <2>1. Due' = 0
    BY <1>2 DEF Due
  <2>2. One(r.locked /\ r.pc = "read") = 0 /\ One(r.locked /\ r.pc = "again" /\ c \notin held') = 0
    BY <1>4 DEF One
  <2>3. PICK x, y, d : /\ x = One(act[c].locked /\ act[c].pc = "read")
                       /\ y = One(act[c].locked /\ act[c].pc = "again" /\ c \notin held)
                       /\ d = Due
    OBVIOUS
  <2>4. x \in 0 .. 1 /\ y \in 0 .. 1 /\ d \in 0 .. 1
    BY <2>3 DEF One, Due
  <2>5. reads + 0 + 0 + 0 + failures <= reads + x + y + d + failures
    <3>1. ASSUME NEW i \in Nat, NEW j \in Nat  PROVE i + 0 + 0 + 0 + j <= i + x + y + d + j
      BY ONLY <2>4, <3>1
    <3> QED BY <1>6, <3>1
  <2> QED BY <1>1, <1>2, <1>4, <1>6, <2>1, <2>2, <2>3, <2>5, StepCredit
<1> QED BY <1>7, <1>8 DEF IInv

LEMMA UnseenKeeps ==
    ASSUME IInv, LockInv', NEW c \in Callers, NEW pc \in {"get2", "read"}, Unseen(c, pc),
           act[c].pc = IF pc = "get2" THEN "get" ELSE "again"
    PROVE  IInv'
<1>1. Shape /\ Ages /\ LockInv /\ Credit /\ act[c] \in Acts
  BY DEF IInv, Shape
<1>2. /\ Goto(c, pc) /\ IF There(copy) THEN Fail ELSE UNCHANGED failures
      /\ UNCHANGED <<now, table, caches, copy, lock, held, reads, gone, lapsed>>
  BY DEF Unseen, lockVars, history, caches
<1>3. PICK r \in Acts : /\ act' = [act EXCEPT ![c] = r] /\ r.pc = pc
                        /\ r.val = act[c].val /\ r.locked = act[c].locked
  BY <1>1, <1>2, ActGoto
<1>4. failures \in Nat /\ reads \in Nat /\ (c \in held => act[c].locked)
      /\ (act[c].locked <=> pc = "read") /\ act[c].locked \in BOOLEAN
  BY <1>1 DEF Shape, Acts
<1>5. Apt(r) /\ Filled /\ failures' \in Nat
  BY <1>1, <1>2, <1>3, <1>4, FilledSame DEF Apt, Fail
<1>6. Shape' /\ Ages'
  BY <1>1, <1>2, <1>3, <1>4, <1>5, StepShape
<1>7. CASE pc = "get2"
  <2>1. ~act[c].locked /\ ~r.locked /\ (failures' = failures \/ Fail)
    BY <1>2, <1>3, <1>4, <1>7
  <2>2. Credit'
    BY <1>2, <1>3, <2>1, StepOutside
  <2> QED BY <1>6, <2>2 DEF IInv
<1>8. CASE pc = "read"
  <2>1. One(r.locked /\ r.pc = "read") = 1 /\ One(r.locked /\ r.pc = "again" /\ c \notin held') = 0
        /\ One(act[c].locked /\ act[c].pc = "read") = 0
        /\ One(act[c].locked /\ act[c].pc = "again" /\ c \notin held) = (IF c \in held THEN 0 ELSE 1)
    BY <1>3, <1>4, <1>8 DEF One
  <2>2. c \in held => Due' = 0
    <3>1. SUFFICES ASSUME c \in held PROVE Due' = 0
      OBVIOUS
    <3>2. c \in held' /\ act'[c].pc = "read"
      BY <1>1, <1>2, <1>3, <1>8, <3>1, Becomes
    <3> QED BY <3>2 DEF Due, Filling
  <2>3. c \in held /\ ~There(copy) => Due = 1
    <3>1. SUFFICES ASSUME c \in held, ~There(copy) PROVE ~Filling
      BY DEF Due
    <3>2. \A d \in held : d = c
      BY <1>1, <3>1 DEF LockInv
    <3> QED BY <1>8, <3>2 DEF Filling
  <2>4. c \notin held => Due' = Due
    <3>1. SUFFICES ASSUME c \notin held PROVE Filling' <=> Filling
      BY <1>2 DEF Due, There
    <3>2. \A d \in held : d \in Callers /\ act'[d] = act[d]
      BY <1>1, <1>2, <1>3, <3>1, Becomes DEF LockInv, LockType
    <3> QED BY <1>2, <3>2 DEF Filling
  <2>5. /\ There(copy) => failures' = failures + 1
        /\ ~There(copy) => failures' = failures
    BY <1>2 DEF Fail
  <2>6. Due \in 0 .. 1 /\ Due' \in 0 .. 1
    BY DEF Due
  <2>7. ASSUME NEW i \in Nat, NEW f \in Nat, NEW f1 \in Nat, NEW d \in 0 .. 1, NEW d1 \in 0 .. 1, NEW y \in 0 .. 1,
               \/ y = 0 /\ d1 = 0 /\ (f1 = f + 1 \/ (f1 = f /\ d = 1))
               \/ y = 1 /\ d1 = d /\ (f1 = f + 1 \/ f1 = f)
        PROVE  i + 1 + 0 + d1 + f <= i + 0 + y + d + f1
    BY ONLY <2>7
  <2>8. reads' + 1 + 0 + Due' + failures <= reads + 0 + (IF c \in held THEN 0 ELSE 1) + Due + failures'
    <3>1. CASE c \in held
      <4>1. reads + 1 + 0 + Due' + failures <= reads + 0 + 0 + Due + failures'
        BY <1>4, <1>5, <2>2, <2>3, <2>5, <2>6, <2>7, <3>1
      <4> QED BY <1>2, <3>1, <4>1
    <3>2. CASE c \notin held
      <4>1. reads + 1 + 0 + Due' + failures <= reads + 0 + 1 + Due + failures'
        <5>1. PICK d \in 0 .. 1, d1 \in 0 .. 1, y \in 0 .. 1 : d = Due /\ d1 = Due' /\ y = 1
          BY <2>6
        <5>2. d1 = d /\ (failures' = failures + 1 \/ failures' = failures)
          BY <2>4, <2>5, <3>2, <5>1
        <5>3. reads + 1 + 0 + d1 + failures <= reads + 0 + y + d + failures'
          BY <1>4, <1>5, <2>7, <5>1, <5>2
        <5> QED BY <5>1, <5>3
      <4> QED BY <1>2, <3>2, <4>1
    <3> QED BY <3>1, <3>2
  <2>9. Credit'
    BY <1>1, <1>2, <1>3, <1>4, <1>5, <2>1, <2>8, StepCredit
  <2> QED BY <1>6, <2>9 DEF IInv
<1> QED BY <1>7, <1>8

\* A step of a request that has no lock, before or after it.
LEMMA OutsideKeeps ==
    ASSUME IInv, LockInv', NEW c \in Callers, NEW r \in Acts, act' = [act EXCEPT ![c] = r],
           ~act[c].locked, ~r.locked, Apt(r), Filled, There(copy) => There(copy'),
           UNCHANGED <<now, table, held, reads, gone, lapsed>>, failures' = failures \/ Fail
    PROVE  IInv'
<1>1. Shape /\ Ages
  BY DEF IInv
<1>2. failures' \in Nat /\ reads' \in Nat /\ c \notin held'
  BY <1>1 DEF Shape, Fail
<1>3. Shape' /\ Ages'
  BY <1>1, <1>2, StepShape
<1>4. Credit'
  BY StepOutside
<1> QED BY <1>3, <1>4 DEF IInv

\* Where the requests without the lock are.
LEMMA Unlocked ==
    ASSUME Shape, NEW c \in Callers, act[c].pc \notin {"again", "read", "fill", "unlock"}
    PROVE  ~act[c].locked /\ c \notin held
BY DEF Shape

LEMMA BeginKeeps == ASSUME IInv, LockInv', NEW c \in Callers, Begin(c) PROVE IInv'
<1>1. Shape /\ Ages /\ ~act[c].locked
  BY Unlocked DEF IInv, Begin
<1>2. /\ UNCHANGED <<now, table, caches, copy, held, failures, reads, gone, lapsed>>
      /\ failures' = failures \/ Fail
  BY DEF Begin, caches, lockVars, history
<1>3. PICK a \in Apis :
          act' = [act EXCEPT ![c] = IF There(local[a])
                                      THEN [Quiet(a) EXCEPT !.pc = "answer", !.val = local[a].val]
                                      ELSE [Quiet(a) EXCEPT !.pc = "get"]]
  BY DEF Begin
<1>4. PICK r : r = IF There(local[a])
                     THEN [Quiet(a) EXCEPT !.pc = "answer", !.val = local[a].val]
                     ELSE [Quiet(a) EXCEPT !.pc = "get"]
  OBVIOUS
<1>5. act' = [act EXCEPT ![c] = r]
  BY <1>3, <1>4
<1>6. local[a].val \in Nat /\ local[a].left \in Nat
  BY <1>1 DEF Shape, Entry
<1>7. /\ r \in Acts /\ ~r.locked /\ r.pc \in {"answer", "get"}
      /\ r.pc = "answer" => There(local[a]) /\ r.val = local[a].val
  BY <1>4, <1>6 DEF Quiet, Acts
<1>8. There(local[a]) => Aged(local[a].val, CacheTTL + LocalTTL - 1)
  <2>1. SUFFICES ASSUME There(local[a]) PROVE Aged(local[a].val, CacheTTL + LocalTTL - 1)
    OBVIOUS
  <2>2. Aged(local[a].val, CacheTTL - 1 + LocalTTL - local[a].left)
    BY <1>1, <2>1 DEF Ages
  <2>3. /\ CacheTTL - 1 + LocalTTL - local[a].left \in Int /\ CacheTTL + LocalTTL - 1 \in Int
        /\ CacheTTL - 1 + LocalTTL - local[a].left <= CacheTTL + LocalTTL - 1
    BY <1>6, Lifetimes
  <2>4. now \in Nat /\ row \in Nat /\ changedAt \in Seq(Nat) /\ Len(changedAt) = row
    BY <1>1 DEF Shape
  <2> QED BY <2>2, <2>3, <2>4, AgeMore DEF Aged
<1>9. Apt(r)
  BY <1>7, <1>8 DEF Apt
<1>10. Filled
  BY <1>1, <1>2, FilledSame
<1> QED BY <1>1, <1>2, <1>5, <1>7, <1>9, <1>10, OutsideKeeps

LEMMA FirstGetKeeps == ASSUME IInv, LockInv', NEW c \in Callers, FirstGet(c) PROVE IInv'
<1>1. ~act[c].locked /\ act[c].pc = "get" /\ Shape
  BY Unlocked DEF IInv, FirstGet
<1>2. CASE Hit(c, "answer")
  BY <1>1, <1>2, HitKeeps
<1>3. CASE Unseen(c, "get2")
  BY <1>1, <1>3, UnseenKeeps
<1> QED BY <1>2, <1>3 DEF FirstGet

LEMMA LookAgainKeeps == ASSUME IInv, LockInv', NEW c \in Callers, LookAgain(c) PROVE IInv'
<1>1. act[c].locked /\ act[c].pc = "again"
  BY DEF IInv, Shape, LookAgain
<1>2. CASE Hit(c, "unlock")
  BY <1>1, <1>2, HitKeeps
<1>3. CASE Unseen(c, "read")
  BY <1>1, <1>3, UnseenKeeps
<1> QED BY <1>2, <1>3 DEF LookAgain

\* A request without the lock goes on without it.
LEMMA GotoKeeps ==
    ASSUME IInv, LockInv', NEW c \in Callers, NEW pc \in {"get2", "lock", "wait", "read"}, Goto(c, pc),
           ~act[c].locked, UNCHANGED <<now, table, caches, held, reads, gone, lapsed>>,
           failures' = failures \/ Fail
    PROVE  IInv'
<1>1. Shape /\ Ages
  BY DEF IInv
<1>2. PICK r \in Acts : /\ act' = [act EXCEPT ![c] = r] /\ r.pc = pc
                        /\ r.val = act[c].val /\ r.locked = act[c].locked
  BY <1>1, ActGoto
<1>3. Apt(r) /\ Filled /\ (There(copy) => There(copy'))
  BY <1>1, <1>2, FilledSame DEF Apt, caches
<1> QED BY <1>2, <1>3, OutsideKeeps

LEMMA SecondGetKeeps == ASSUME IInv, LockInv', NEW c \in Callers, SecondGet(c) PROVE IInv'
<1>1. Shape /\ Ages /\ ~act[c].locked
  BY Unlocked DEF IInv, SecondGet
<1>2. UNCHANGED <<now, table, caches, copy, held, reads, gone, lapsed>>
  BY DEF SecondGet, caches, lockVars, history
<1>3. ASSUME NEW pc \in {"lock", "read"}, Goto(c, pc), failures' = failures \/ Fail PROVE IInv'
  BY <1>1, <1>2, <1>3, GotoKeeps
<1>4. CASE There(copy) /\ Answer(c, copy.val) /\ UNCHANGED failures
  <2>1. /\ copy.val \in Nat /\ copy.left \in Nat /\ copy.left >= 1
        /\ Aged(copy.val, CacheTTL - copy.left)
    BY <1>1, <1>4 DEF Shape, Ages, Entry, There
  <2>2. /\ CacheTTL - copy.left \in Int /\ CacheTTL + LocalTTL - 1 \in Int
        /\ CacheTTL - copy.left <= CacheTTL + LocalTTL - 1
    BY <2>1, Lifetimes
  <2>3. now \in Nat /\ row \in Nat /\ changedAt \in Seq(Nat) /\ Len(changedAt) = row
    BY <1>1 DEF Shape
  <2>4. Aged(copy.val, CacheTTL + LocalTTL - 1)
    BY <2>1, <2>2, <2>3, AgeMore DEF Aged
  <2>5. Takes(c, "answer", copy.val) /\ copy.val \in Nat \cup {Error}
    BY <1>4, <2>1 DEF Takes, Answer
  <2>6. PICK r \in Acts : /\ act' = [act EXCEPT ![c] = r] /\ r.pc = "answer"
                          /\ r.val = copy.val /\ r.locked = act[c].locked
    BY <1>1, <2>5, ActTakes
  <2>7. Apt(r) /\ Filled
    BY <1>1, <1>2, <2>4, <2>6, FilledSame DEF Apt
  <2> QED BY <1>1, <1>2, <1>4, <2>6, <2>7, OutsideKeeps
<1>5. CASE ~There(copy) /\ Goto(c, "lock") /\ UNCHANGED failures
  BY <1>3, <1>5
<1>6. CASE Fail /\ Goto(c, "read")
  BY <1>3, <1>6
<1> QED BY <1>4, <1>5, <1>6 DEF SecondGet

LEMMA WaitKeeps == ASSUME IInv, LockInv', NEW c \in Callers, Wait(c) PROVE IInv'
<1>1. ~act[c].locked /\ act[c].pc = "wait"
  BY Unlocked DEF IInv, Wait
<1>2. CASE Hit(c, "answer")
  BY <1>1, <1>2, HitKeeps
<1>3. CASE Goto(c, "read") /\ UNCHANGED <<now, table, caches, lockVars, dels, requests, failures, history>>
  BY <1>1, <1>3, GotoKeeps DEF lockVars, history
<1> QED BY <1>2, <1>3 DEF Wait

LEMMA TryLockKeeps == ASSUME IInv, LockInv', NEW c \in Callers, TryLock(c) PROVE IInv'
<1>1. /\ Shape /\ Ages /\ LockInv /\ Credit /\ ~act[c].locked /\ act[c].pc = "lock" /\ act[c] \in Acts
      /\ failures \in Nat /\ reads \in Nat
  BY Unlocked DEF IInv, TryLock, Shape
<1>2. UNCHANGED <<now, table, caches, copy, reads, gone, lapsed>>
  BY DEF TryLock, caches, history
<1>3. CASE Goto(c, "wait") /\ UNCHANGED lockVars /\ (failures' = failures \/ Fail)
  BY <1>1, <1>2, <1>3, GotoKeeps DEF lockVars
<1>4. CASE SetNX(c) /\ act' = [act EXCEPT ![c].pc = "again", ![c].locked = TRUE] /\ UNCHANGED failures
  <2>1. held = {} /\ held' = {c}
    <3>1. lock = NoLock /\ held \subseteq {NoLock} /\ held \subseteq Callers /\ held' = held \cup {c}
      BY <1>1, <1>4 DEF LockInv, LockType, SetNX
    <3> QED BY <3>1, CallersHaveTokens
  <2>2. PICK o \in Acts : o = act[c]
    BY <1>1
  <2>3. PICK r : r = [o EXCEPT !.pc = "again", !.locked = TRUE]
    OBVIOUS
  <2>4. r \in Acts /\ r.pc = "again" /\ r.locked
    BY <2>3 DEF Acts
  <2>5. act' = [act EXCEPT ![c] = r]
    BY <1>1, <1>4, <2>2, <2>3 DEF Shape
  <2>6. Apt(r) /\ Filled
    BY <1>1, <1>2, <2>4, FilledSame DEF Apt
  <2>7. Shape' /\ Ages'
    BY <1>1, <1>2, <1>4, <2>1, <2>4, <2>5, <2>6, StepShape
  <2>8. act'[c].pc = "again"
    BY <1>1, <2>1, <2>4, <2>5, Becomes
  <2>9. Due' = Due /\ Due \in 0 .. 1
    BY <1>2, <2>1, <2>8 DEF Due, Filling
  <2>10. /\ One(r.locked /\ r.pc = "read") = 0 /\ One(r.locked /\ r.pc = "again" /\ c \notin held') = 0
         /\ One(act[c].locked /\ act[c].pc = "read") = 0
         /\ One(act[c].locked /\ act[c].pc = "again" /\ c \notin held) = 0
    BY <1>1, <2>1, <2>4 DEF One
  <2>11. reads' + 0 + 0 + Due' + failures <= reads + 0 + 0 + Due + failures'
    BY <1>1, <1>2, <1>4, <2>9
  <2>12. Credit'
    BY <1>1, <1>2, <1>4, <2>1, <2>4, <2>5, <2>10, <2>11, StepCredit
  <2> QED BY <2>7, <2>12 DEF IInv
<1> QED BY <1>1, <1>3, <1>4 DEF TryLock

\* Whether whoever has the lock fills depends on the holder alone.
LEMMA FillingElse ==
    ASSUME Shape, LockInv, NEW c \in Callers, NEW r \in Acts, act' = [act EXCEPT ![c] = r],
           c \notin held, held' = held
    PROVE  Filling' <=> Filling
<1>1. \A d \in held : d \in Callers /\ d # c /\ act'[d] = act[d]
  BY Becomes DEF LockInv, LockType
<1> QED BY <1>1 DEF Filling

\* A request that has the lock, or had it, and keeps it.
LEMMA InsideKeeps ==
    ASSUME IInv, LockInv', NEW c \in Callers, NEW r \in Acts, act' = [act EXCEPT ![c] = r],
           act[c].locked, r.locked, act[c].pc \in {"read", "fill"}, r.pc \in {"fill", "unlock"},
           Apt(r), Filled, UNCHANGED <<now, table, held, gone, lapsed>>, There(copy) => There(copy'),
           act[c].pc = "read" => reads' = reads + 1,
           act[c].pc = "fill" => reads' = reads,
           (failures' = failures /\ (r.pc = "fill" \/ There(copy'))) \/ Fail
    PROVE  IInv'
<1>1. /\ Shape /\ Ages /\ LockInv /\ Credit /\ act[c] \in Acts
      /\ failures \in Nat /\ reads \in Nat /\ failures' \in Nat /\ reads' \in Nat
  BY DEF IInv, Shape, Fail
<1>2. Shape' /\ Ages'
  BY <1>1, StepShape
<1>3. act'[c] = r
  BY <1>1, Becomes
<1>4. Due \in 0 .. 1 /\ Due' \in 0 .. 1
  BY DEF Due
<1>5. failures' = failures => Due' <= Due
  <2>1. SUFFICES ASSUME failures' = failures PROVE Due' <= Due
    OBVIOUS
  <2>2. r.pc = "fill" \/ There(copy')
    BY <1>1, <2>1 DEF Fail
  <2>3. CASE There(copy')
    BY <1>4, <2>3 DEF Due
  <2>4. CASE r.pc = "fill" /\ c \in held
    BY <1>3, <1>4, <2>4 DEF Due, Filling
  <2>5. CASE c \notin held /\ ~There(copy')
    <3>1. (Filling' <=> Filling) /\ ~There(copy)
      BY <1>1, <2>5, FillingElse
    <3> QED BY <1>4, <2>5, <3>1 DEF Due
  <2> QED BY <2>2, <2>3, <2>4, <2>5
<1>6. PICK x \in 0 .. 1 : /\ x = One(act[c].locked /\ act[c].pc = "read")
                          /\ reads' = reads + x
  <2>1. CASE act[c].pc = "read"
    BY <2>1 DEF One
  <2>2. CASE act[c].pc = "fill"
    BY <1>1, <2>2 DEF One
  <2> QED BY <2>1, <2>2
<1>7. /\ One(r.locked /\ r.pc = "read") = 0 /\ One(r.locked /\ r.pc = "again" /\ c \notin held') = 0
      /\ One(act[c].locked /\ act[c].pc = "again" /\ c \notin held) = 0
  BY DEF One
<1>8. reads' + 0 + 0 + Due' + failures <= reads + x + 0 + Due + failures'
  <2>1. (failures' = failures /\ Due' <= Due) \/ failures' = failures + 1
    BY <1>5 DEF Fail
  <2>2. PICK a, f, f1, d, d1 :
            /\ a \in Nat /\ f \in Nat /\ f1 \in Nat /\ d \in 0 .. 1 /\ d1 \in 0 .. 1
            /\ (f1 = f /\ d1 <= d) \/ f1 = f + 1
            /\ a = reads /\ f = failures /\ f1 = failures' /\ d = Due /\ d1 = Due'
    BY <1>1, <1>4, <2>1
  <2>3. a + x + 0 + 0 + d1 + f <= a + x + 0 + d + f1
    <3>1. /\ a \in Nat /\ f \in Nat /\ f1 \in Nat /\ d \in 0 .. 1 /\ d1 \in 0 .. 1 /\ x \in 0 .. 1
          /\ (f1 = f /\ d1 <= d) \/ f1 = f + 1
      BY <1>6, <2>2
    <3> QED BY ONLY <3>1
  <2> QED BY <1>6, <2>2, <2>3
<1>9. Credit'
  BY <1>1, <1>6, <1>7, <1>8, StepCredit
<1> QED BY <1>2, <1>9 DEF IInv

\* The row read, or the error of reading it.
LEMMA AgeOfRead ==
    ASSUME Shape
    PROVE  row \in Nat /\ Aged(row, 0) /\ Aged(row, CacheTTL + LocalTTL - 1) /\ Aged(row, CacheTTL - CacheTTL)
<1>1. 0 \in Int /\ CacheTTL + LocalTTL - 1 \in Int /\ CacheTTL - CacheTTL \in Int
  BY Lifetimes
<1> QED BY <1>1, AgeOfRow DEF Shape, Aged

LEMMA ReadRowKeeps == ASSUME IInv, LockInv', NEW c \in Callers, ReadRow(c) PROVE IInv'
<1>1. /\ Shape /\ Ages /\ act[c].pc = "read" /\ act[c] \in Acts
      /\ failures \in Nat /\ reads \in Nat /\ act[c].locked \in BOOLEAN
  BY DEF IInv, ReadRow, Shape, Acts
<1>2. UNCHANGED <<now, table, caches, copy, held, gone, lapsed>>
  BY DEF ReadRow, caches, lockVars
<1>3. PICK pc, v : /\ Takes(c, pc, v) /\ pc \in {"fill", "unlock", "answer"} /\ v \in Nat \cup {Error}
                   /\ \/ pc = "fill" /\ v = row /\ UNCHANGED failures
                      \/ Fail /\ v = Error /\ pc = IF act[c].locked THEN "unlock" ELSE "answer"
  <2>1. CASE act' = [act EXCEPT ![c].pc = "fill", ![c].val = row] /\ UNCHANGED failures
    BY <1>1, <2>1, AgeOfRead DEF Takes
  <2>2. CASE Fail /\ act' = [act EXCEPT ![c].val = Error,
                                        ![c].pc = IF act[c].locked THEN "unlock" ELSE "answer"]
    <3>1. PICK pc : pc = IF act[c].locked THEN "unlock" ELSE "answer"
      OBVIOUS
    <3>2. PICK o \in Acts : o = act[c]
      BY <1>1
    <3>3. act' = [act EXCEPT ![c] = [o EXCEPT !.val = Error, !.pc = pc]]
      BY <1>1, <2>2, <3>1, <3>2 DEF Shape
    <3>4. [o EXCEPT !.val = Error, !.pc = pc] = [o EXCEPT !.pc = pc, !.val = Error]
      BY DEF Acts
    <3>5. act' = [act EXCEPT ![c] = [o EXCEPT !.pc = pc, !.val = Error]]
      BY <3>3, <3>4
    <3>6. Takes(c, pc, Error)
      BY <1>1, <3>2, <3>5 DEF Takes, Shape
    <3> QED BY <2>2, <3>1, <3>6
  <2> QED BY <2>1, <2>2 DEF ReadRow
<1>4. PICK r \in Acts : /\ act' = [act EXCEPT ![c] = r] /\ r.pc = pc
                        /\ r.val = v /\ r.locked = act[c].locked
  BY <1>1, <1>3, ActTakes
<1>5. Filled
  BY <1>1, <1>2, FilledSame
<1>6. CASE act[c].locked
  <2>1. Apt(r)
    BY <1>1, <1>3, <1>4, <1>6, AgeOfRead DEF Apt
  <2>2. r.locked /\ r.pc \in {"fill", "unlock"} /\ reads' = reads + 1
        /\ ((failures' = failures /\ r.pc = "fill") \/ Fail)
    BY <1>3, <1>4, <1>6 DEF ReadRow
  <2> QED BY <1>1, <1>2, <1>4, <1>5, <1>6, <2>1, <2>2, InsideKeeps
<1>7. CASE ~act[c].locked
  <2>1. Apt(r)
    BY <1>1, <1>3, <1>4, <1>7, AgeOfRead DEF Apt
  <2>2. ~r.locked /\ reads' = reads /\ (failures' = failures \/ Fail)
    BY <1>3, <1>4, <1>7 DEF ReadRow
  <2> QED BY <1>1, <1>2, <1>4, <1>5, <1>7, <2>1, <2>2, OutsideKeeps
<1> QED BY <1>6, <1>7

LEMMA FillKeeps == ASSUME IInv, LockInv', NEW c \in Callers, Fill(c) PROVE IInv'
<1>1. /\ Shape /\ Ages /\ act[c].pc = "fill" /\ act[c] \in Acts /\ act[c].locked \in BOOLEAN
      /\ reads \in Nat /\ now \in Nat /\ row \in Nat /\ changedAt \in Seq(Nat) /\ Len(changedAt) = row
  BY DEF IInv, Fill, Shape, Acts
<1>2. UNCHANGED <<now, table, held, reads, gone, lapsed>>
  BY DEF Fill, lockVars, history
<1>3. PICK v : v = act[c].val
  OBVIOUS
<1>4. v \in Nat /\ Aged(v, 0)
  BY <1>1, <1>3 DEF Ages, Aged, AgedAt
<1>5. Aged(v, CacheTTL - 1) /\ Aged(v, CacheTTL - CacheTTL) /\ Aged(v, CacheTTL + LocalTTL - 1)
  <2>1. /\ 0 \in Int /\ CacheTTL - 1 \in Int /\ CacheTTL - CacheTTL \in Int /\ CacheTTL + LocalTTL - 1 \in Int
        /\ 0 <= CacheTTL - 1 /\ 0 <= CacheTTL - CacheTTL /\ 0 <= CacheTTL + LocalTTL - 1
    BY Lifetimes
  <2> QED BY <1>1, <1>4, <2>1, AgeMore DEF Aged
<1>6. \/ copy' = [val |-> v, left |-> CacheTTL] /\ failures' = failures
      \/ copy' = copy /\ Fail
  BY <1>3 DEF Fill
<1>7. /\ copy' \in Entry /\ copy'.left <= CacheTTL
      /\ There(copy') => Aged(copy'.val, CacheTTL - copy'.left)
      /\ There(copy) => There(copy')
      /\ failures' = failures => There(copy')
  <2>1. CASE copy' = [val |-> v, left |-> CacheTTL] /\ failures' = failures
    <3>1. copy' \in Entry /\ copy'.left = CacheTTL /\ copy'.val = v
      BY <1>4, <2>1, Lifetimes DEF Entry
    <3> QED BY <1>5, <3>1, Lifetimes DEF There
  <2>2. CASE copy' = copy /\ Fail
    BY <1>1, <2>2 DEF Shape, Ages, Fail
  <2> QED BY <1>6, <2>1, <2>2
<1>8. Filled
  <2>1. SetLocal(c, v)
    BY <1>3 DEF Fill
  <2> QED BY <1>1, <1>2, <1>4, <1>5, <1>7, <2>1, LocalFills DEF Filled
<1>9. PICK r \in Acts : /\ act' = [act EXCEPT ![c] = r] /\ r.val = v /\ r.locked = act[c].locked
                        /\ r.pc = IF act[c].locked THEN "unlock" ELSE "answer"
  <2>1. PICK pc \in {"get2", "lock", "again", "wait", "read", "unlock", "answer"} :
            Goto(c, pc) /\ pc = IF act[c].locked THEN "unlock" ELSE "answer"
    BY DEF Fill
  <2> QED BY <1>1, <1>3, <2>1, ActGoto
<1>10. Apt(r)
  BY <1>1, <1>5, <1>9 DEF Apt
<1>11. failures' = failures \/ Fail
  BY <1>6
<1>12. CASE act[c].locked
  BY <1>1, <1>2, <1>6, <1>7, <1>8, <1>9, <1>10, <1>12, InsideKeeps
<1>13. CASE ~act[c].locked
  BY <1>1, <1>2, <1>7, <1>8, <1>9, <1>10, <1>11, <1>13, OutsideKeeps
<1> QED BY <1>1, <1>12, <1>13

LEMMA ReleaseKeeps == ASSUME IInv, LockInv', NEW c \in Callers, Release(c) PROVE IInv'
<1>1. /\ Shape /\ Ages /\ LockInv /\ Credit /\ act[c].pc = "unlock" /\ act[c] \in Acts
      /\ failures \in Nat /\ reads \in Nat
  BY DEF IInv, Release, Shape
<1>2. UNCHANGED <<now, table, caches, copy, reads, gone, lapsed>> /\ held' = held \ {c}
  BY DEF Release, caches, history, Unlock, UnlockFails
<1>3. failures' \in Nat /\ failures <= failures'
  BY <1>1 DEF Release, Fail
<1>4. PICK o \in Acts : o = act[c]
  BY <1>1
<1>5. PICK r : r = [o EXCEPT !.pc = "answer", !.locked = FALSE]
  OBVIOUS
<1>6. r \in Acts /\ r.pc = "answer" /\ ~r.locked /\ r.val = act[c].val
  BY <1>4, <1>5 DEF Acts
<1>7. act' = [act EXCEPT ![c] = r]
  BY <1>1, <1>4, <1>5 DEF Shape, Release
<1>8. Apt(r) /\ Filled
  BY <1>1, <1>2, <1>6, FilledSame DEF Apt, Ages
<1>9. Shape' /\ Ages'
  BY <1>1, <1>2, <1>3, <1>6, <1>7, <1>8, StepShape
<1>10. Filling' <=> Filling
  <2>1. \A d \in held' : d \in held /\ act'[d] = act[d]
    BY <1>1, <1>2, <1>6, <1>7, Becomes DEF LockInv, LockType
  <2>2. \A d \in held : act[d].pc \in {"read", "fill"} => d \in held'
    BY <1>1, <1>2
  <2> QED BY <2>1, <2>2 DEF Filling
<1>11. Due' = Due /\ Due \in 0 .. 1
  BY <1>2, <1>10 DEF Due
<1>12. /\ One(r.locked /\ r.pc = "read") = 0 /\ One(r.locked /\ r.pc = "again" /\ c \notin held') = 0
       /\ One(act[c].locked /\ act[c].pc = "read") = 0
       /\ One(act[c].locked /\ act[c].pc = "again" /\ c \notin held) = 0
  BY <1>1, <1>6 DEF One
<1>13. reads' + 0 + 0 + Due' + failures <= reads + 0 + 0 + Due + failures'
  BY <1>1, <1>2, <1>3, <1>11
<1>14. Credit'
  BY <1>1, <1>2, <1>3, <1>6, <1>7, <1>12, <1>13, StepCredit
<1> QED BY <1>9, <1>14 DEF IInv

LEMMA ReplyKeeps == ASSUME IInv, LockInv', NEW c \in Callers, Reply(c) PROVE IInv'
<1>1. Shape /\ Ages /\ ~act[c].locked /\ act[c] \in Acts
  BY Unlocked DEF IInv, Reply, Shape
<1>2. UNCHANGED <<now, table, caches, copy, held, failures, reads, gone, lapsed>>
  BY DEF Reply, caches, lockVars, history
<1>3. PICK r \in Acts : r = Quiet(act[c].at)
  BY <1>1 DEF Quiet, Acts
<1>4. act' = [act EXCEPT ![c] = r] /\ Apt(r) /\ ~r.locked
  BY <1>3 DEF Reply, Quiet, Apt
<1>5. Filled
  BY <1>1, <1>2, FilledSame
<1> QED BY <1>1, <1>2, <1>4, <1>5, OutsideKeeps

LEMMA DetailKeeps == ASSUME IInv, LockInv', NEW c \in Callers, GetDetail(c) PROVE IInv'
<1>1. CASE FirstGet(c)  BY <1>1, FirstGetKeeps
<1>2. CASE SecondGet(c) BY <1>2, SecondGetKeeps
<1>3. CASE TryLock(c)   BY <1>3, TryLockKeeps
<1>4. CASE LookAgain(c) BY <1>4, LookAgainKeeps
<1>5. CASE Wait(c)      BY <1>5, WaitKeeps
<1>6. CASE ReadRow(c)   BY <1>6, ReadRowKeeps
<1>7. CASE Fill(c)      BY <1>7, FillKeeps
<1>8. CASE Release(c)   BY <1>8, ReleaseKeeps
<1>9. CASE Reply(c)     BY <1>9, ReplyKeeps
<1> QED BY <1>1, <1>2, <1>3, <1>4, <1>5, <1>6, <1>7, <1>8, <1>9 DEF GetDetail

-----------------------------------------------------------------------------
(* The steps of others.                                                      *)

LEMMA OthersShape ==
    ASSUME IInv, UNCHANGED act, held' \subseteq held,
           now' \in Nat, row' \in Nat, changedAt' \in Seq(Nat), Len(changedAt') = row',
           \A i \in 1 .. row' : changedAt'[i] <= now',
           copy' \in Entry, copy'.left <= CacheTTL,
           local' \in [Apis -> Entry], \A a \in Apis : local'[a].left <= LocalTTL,
           failures' \in Nat, gone' \in Nat, lapsed' \in Nat, UNCHANGED reads
    PROVE  Shape'
BY DEF IInv, Shape

\* What is paid covers what becomes due.
LEMMA OthersCredit ==
    ASSUME IInv, UNCHANGED <<act, reads>>, gone' \in Nat, lapsed' \in Nat, failures' \in Nat,
           NEW p \in Nat, gone' + lapsed' + failures' = gone + lapsed + failures + p,
           Cardinality(Late') + Due' <= Cardinality(Late) + Due + p
    PROVE  Credit'
<1>1. Cardinality(Reading') = Cardinality(Reading)
  BY DEF Reading
<1>2. PICK i, j, j1, d, d1 :
          i = Cardinality(Reading) /\ j = Cardinality(Late) /\ j1 = Cardinality(Late') /\ d = Due /\ d1 = Due'
  OBVIOUS
<1>3. i \in Nat /\ j \in Nat /\ d \in 0 .. 1 /\ d1 \in 0 .. 1
  BY <1>2, Counts DEF Due
<1>4. j1 \in Nat
  <2>1. Late' \subseteq Callers
    BY DEF Late
  <2> QED BY <1>2, <2>1, Positive, FS_Subset, FS_CardinalityType
<1>5. reads \in Nat /\ gone \in Nat /\ lapsed \in Nat /\ failures \in Nat
  BY DEF IInv, Shape
<1>6. reads + i + j + d <= 1 + gone + lapsed + failures
  BY <1>2 DEF IInv, Credit
<1>7. j1 + d1 <= j + d + p
  BY <1>2
<1>8. reads + i + j1 + d1 <= 1 + gone' + lapsed' + failures'
  <2>1. PICK a, g, l, f, g1, l1, f1 :
            /\ a \in Nat /\ g \in Nat /\ l \in Nat /\ f \in Nat /\ g1 \in Nat /\ l1 \in Nat /\ f1 \in Nat
            /\ a = reads /\ g = gone /\ l = lapsed /\ f = failures /\ g1 = gone' /\ l1 = lapsed' /\ f1 = failures'
    BY <1>5
  <2>2. g1 + l1 + f1 = g + l + f + p
    BY <2>1
  <2>3. a + i + j + d <= 1 + g + l + f
    BY <1>6, <2>1
  <2>4. a + i + j1 + d1 <= 1 + g1 + l1 + f1
    <3>1. /\ a \in Nat /\ g \in Nat /\ l \in Nat /\ f \in Nat /\ g1 \in Nat /\ l1 \in Nat /\ f1 \in Nat
          /\ i \in Nat /\ j \in Nat /\ j1 \in Nat /\ d \in 0 .. 1 /\ d1 \in 0 .. 1 /\ p \in Nat
      BY <1>3, <1>4, <2>1
    <3> QED BY ONLY <1>7, <2>2, <2>3, <3>1
  <2> QED BY <2>1, <2>4
<1> QED BY <1>1, <1>2, <1>8 DEF Credit

LEMMA ChangeKeeps == ASSUME IInv, LockInv', Change PROVE IInv'
<1>1. /\ Shape /\ Ages /\ now \in Nat /\ row \in Nat
      /\ changedAt \in Seq(Nat) /\ Len(changedAt) = row /\ \A i \in 1 .. row : changedAt[i] <= now
      /\ copy \in Entry /\ copy.left \in Nat /\ copy.left <= CacheTTL
      /\ \A a \in Apis : local[a] \in Entry /\ local[a].left \in Nat /\ local[a].left <= LocalTTL
      /\ gone \in Nat /\ lapsed \in Nat /\ failures \in Nat
  BY DEF IInv, Shape, Entry
<1>2. UNCHANGED <<now, copy, local, act, held, failures, reads, gone, lapsed>>
  BY DEF Change, caches, lockVars, history
<1>3. row' = row + 1 /\ changedAt' = Append(changedAt, now)
  BY DEF Change
<1>4. changedAt' \in Seq(Nat) /\ Len(changedAt') = row' /\ \A i \in 1 .. row' : changedAt'[i] <= now
  <2>1. changedAt' \in Seq(Nat) /\ Len(changedAt') = row'
    BY <1>1, <1>3, AppendProperties
  <2>2. \A i \in 1 .. row : changedAt'[i] = changedAt[i]
    BY <1>1, <1>3, AppendProperties
  <2>3. changedAt'[row + 1] = now
    BY <1>1, <1>3, AppendProperties
  <2>4. \A i \in 1 .. row + 1 : i \in 1 .. row \/ i = row + 1
    BY <1>1
  <2> QED BY <1>1, <1>3, <2>1, <2>2, <2>3, <2>4
<1>5. Shape'
  BY <1>1, <1>2, <1>3, <1>4, OthersShape DEF Shape
<1>6. ASSUME NEW v, NEW n \in Nat, Aged(v, n) PROVE AgedAt(now', row', changedAt', v, n)
  BY <1>1, <1>2, <1>3, <1>6, AgeOfChange DEF Aged
<1>7. Ages'
  <2>1. /\ CacheTTL - copy.left \in Nat /\ CacheTTL + LocalTTL - 1 \in Nat /\ 0 \in Nat
        /\ \A a \in Apis : CacheTTL - 1 + LocalTTL - local[a].left \in Nat
    BY <1>1, Lifetimes, SMTT(30)
  <2> QED BY <1>1, <1>2, <1>6, <2>1 DEF Ages, Aged
<1>8. Late' = Late /\ Due' = Due
  BY <1>2 DEF Late, Due, Filling
<1>9. Credit'
  <2>1. gone' + lapsed' + failures' = gone + lapsed + failures + 0
    BY <1>1, <1>2
  <2>2. Cardinality(Late') + Due' <= Cardinality(Late) + Due + 0
    BY <1>8, Counts
  <2> QED BY <1>1, <1>2, <2>1, <2>2, OthersCredit
<1> QED BY <1>5, <1>7, <1>9 DEF IInv

\* The copy disappears.
LEMMA VanishAges ==
    ASSUME Shape, Ages, UNCHANGED <<now, table, local, act>>, copy' = Absent
    PROVE  copy' \in Entry /\ copy'.left <= CacheTTL /\ ~There(copy') /\ Ages'
<1>1. copy' \in Entry /\ copy'.left <= CacheTTL /\ ~There(copy')
  BY Lifetimes DEF Absent, Entry, There
<1> QED BY <1>1 DEF Ages, Aged, table

LEMMA InvalidateKeeps == ASSUME IInv, LockInv', Invalidate PROVE IInv'
<1>1. /\ Shape /\ Ages /\ gone \in Nat /\ lapsed \in Nat /\ failures \in Nat
  BY DEF IInv, Shape
<1>2. UNCHANGED <<now, table, local, act, held, failures, reads, lapsed>>
  BY DEF Invalidate, lockVars
<1>3. copy' = Absent /\ gone' = IF There(copy) THEN gone + 1 ELSE gone
  BY DEF Invalidate, Vanish
<1>4. copy' \in Entry /\ copy'.left <= CacheTTL /\ ~There(copy') /\ Ages'
  BY <1>1, <1>2, <1>3, VanishAges
<1>5. Shape'
  BY <1>1, <1>2, <1>3, <1>4, OthersShape DEF Shape, table
<1>6. Late' = Late /\ (Filling' <=> Filling)
  BY <1>2 DEF Late, Filling
<1>7. PICK p \in 0 .. 1 : gone' = gone + p /\ (p = 1 <=> There(copy))
  <2>1. CASE There(copy)
    BY <1>3, <2>1
  <2>2. CASE ~There(copy)
    BY <1>1, <1>3, <2>2
  <2> QED BY <2>1, <2>2
<1>8. Due \in 0 .. 1 /\ Due' \in 0 .. 1 /\ Due' <= Due + p
  BY <1>4, <1>6, <1>7 DEF Due
<1>9. Cardinality(Late') + Due' <= Cardinality(Late) + Due + p
  BY <1>6, <1>7, <1>8, Counts
<1>10. p \in Nat /\ gone' + lapsed' + failures' = gone + lapsed + failures + p
  BY <1>1, <1>2, <1>7
<1>11. Credit'
  BY <1>1, <1>2, <1>7, <1>9, <1>10, OthersCredit
<1> QED BY <1>4, <1>5, <1>11 DEF IInv

\* The lock is taken away: the one who had it, if at the second look, is late;
\* if about to fill, the read is due again.
LEMMA LateAfter ==
    ASSUME Shape, LockInv, UNCHANGED act, held' = {}
    PROVE  /\ Cardinality(Late') \in Nat
           /\ Cardinality(Late') <= Cardinality(Late) + 1
           /\ lock = NoLock => Cardinality(Late') = Cardinality(Late)
           /\ Filling => Cardinality(Late') = Cardinality(Late)
<1>1. \A d : d # lock => (d \in Late' <=> d \in Late)
  BY DEF Late, LockInv
<1>2. /\ Cardinality(Late') \in Nat /\ Cardinality(Late) \in Nat
      /\ Cardinality(Late') = Cardinality(Late) + One(lock \in Late') - One(lock \in Late)
  BY <1>1, Counts, Count
<1>3. lock \in Late => lock \in Late'
  BY DEF Late
<1>4. lock = NoLock => lock \notin Late' /\ lock \notin Late
  BY CallersHaveTokens DEF Late
<1>5. Filling => lock \notin Late' /\ lock \notin Late
  BY DEF Filling, Late, LockInv
<1> QED BY <1>2, <1>3, <1>4, <1>5 DEF One

LEMMA LockExpiresKeeps == ASSUME IInv, LockInv', LockExpires PROVE IInv'
<1>1. /\ Shape /\ Ages /\ LockInv /\ gone \in Nat /\ lapsed \in Nat /\ failures \in Nat
  BY DEF IInv, Shape
<1>2. UNCHANGED <<now, table, caches, copy, local, act, failures, reads, gone>>
  BY DEF LockExpires, caches
<1>3. held' = {} /\ lapsed' = lapsed + 1
  BY <1>1 DEF LockExpires, ExpireLock, LockInv
<1>4. Shape'
  BY <1>1, <1>2, <1>3, OthersShape DEF Shape, table
<1>5. Ages'
  BY <1>1, <1>2 DEF Ages, Aged, table
<1>6. ~Filling'
  BY <1>3 DEF Filling
<1>7. Cardinality(Late') + Due' <= Cardinality(Late) + Due + 1
  <2>1. /\ Cardinality(Late') \in Nat /\ Cardinality(Late) \in Nat
        /\ Cardinality(Late') <= Cardinality(Late) + 1
        /\ Filling => Cardinality(Late') = Cardinality(Late)
    BY <1>1, <1>2, <1>3, LateAfter, Counts
  <2>2. Due \in 0 .. 1 /\ Due' \in 0 .. 1
    BY DEF Due
  <2>3. ~Filling => Due' = Due
    BY <1>2, <1>6 DEF Due, There
  <2> QED BY <2>1, <2>2, <2>3
<1>8. 1 \in Nat /\ lapsed' \in Nat /\ gone' + lapsed' + failures' = gone + lapsed + failures + 1
  BY <1>1, <1>2, <1>3
<1>9. Credit'
  BY <1>1, <1>2, <1>7, <1>8, OthersCredit
<1> QED BY <1>4, <1>5, <1>9 DEF IInv

LEMMA LoseKeeps == ASSUME IInv, LockInv', Lose PROVE IInv'
<1>1. /\ Shape /\ Ages /\ LockInv /\ gone \in Nat /\ lapsed \in Nat /\ failures \in Nat
  BY DEF IInv, Shape
<1>2. /\ UNCHANGED <<now, table, local, act, reads>> /\ held' = {} /\ copy' = Absent
      /\ failures' = failures + 1
      /\ gone' = IF There(copy) THEN gone + 1 ELSE gone
      /\ lapsed' = IF lock = NoLock THEN lapsed ELSE lapsed + 1
  BY <1>1 DEF Lose, Vanish, LockInv, Fail
<1>3. copy' \in Entry /\ copy'.left <= CacheTTL /\ ~There(copy') /\ Ages'
  BY <1>1, <1>2, VanishAges
<1>4. PICK x \in 0 .. 1, y \in 0 .. 1 : gone' = gone + x /\ lapsed' = lapsed + y /\ (lock # NoLock => y = 1)
  <2>1. PICK x \in 0 .. 1 : gone' = gone + x
    <3>1. gone' = gone + 1 \/ gone' = gone + 0
      BY <1>1, <1>2
    <3> QED BY <3>1
  <2>2. PICK y \in 0 .. 1 : lapsed' = lapsed + y /\ (lock # NoLock => y = 1)
    <3>1. CASE lock = NoLock
      BY <1>1, <1>2, <3>1
    <3>2. CASE lock # NoLock
      BY <1>2, <3>2
    <3> QED BY <3>1, <3>2
  <2> QED BY <2>1, <2>2
<1>5. /\ gone' \in Nat /\ lapsed' \in Nat /\ failures' \in Nat /\ 1 + x + y \in Nat
      /\ gone' + lapsed' + failures' = gone + lapsed + failures + (1 + x + y)
  BY <1>1, <1>2, <1>4
<1>6. Shape'
  BY <1>1, <1>2, <1>3, <1>5, OthersShape DEF Shape, table
<1>7. Cardinality(Late') + Due' <= Cardinality(Late) + Due + (1 + x + y)
  <2>1. /\ Cardinality(Late') \in Nat /\ Cardinality(Late) \in Nat
        /\ Cardinality(Late') <= Cardinality(Late) + 1
        /\ lock = NoLock => Cardinality(Late') = Cardinality(Late)
    BY <1>1, <1>2, LateAfter, Counts
  <2>2. Due \in 0 .. 1 /\ Due' \in 0 .. 1
    BY DEF Due
  <2>3. Cardinality(Late') <= Cardinality(Late) + y
    BY <1>4, <2>1
  <2> QED BY <1>4, <2>1, <2>2, <2>3
<1>8. Credit'
  BY <1>2, <1>5, <1>7, OthersCredit
<1> QED BY <1>3, <1>6, <1>8 DEF IInv

\* A tick ages every copy.
LEMMA OlderEntry ==
    ASSUME NEW e \in Entry, NEW n \in Nat, e.left <= n
    PROVE  /\ Older(e) \in Entry /\ Older(e).left \in Nat /\ Older(e).left <= n
           /\ There(Older(e)) => There(e) /\ Older(e).val = e.val /\ Older(e).left = e.left - 1
           /\ There(e) /\ e.left # 1 => There(Older(e))
<1>1. CASE e.left > 1
  <2>1. PICK o : o = [e EXCEPT !.left = @ - 1]
    OBVIOUS
  <2>2. Older(e) = o /\ o.val = e.val /\ o.left = e.left - 1 /\ o.val \in Nat /\ o.left \in Nat /\ o \in Entry
    BY <1>1, <2>1 DEF Older, Entry
  <2>3. e.left \in Nat
    BY DEF Entry
  <2> QED BY <1>1, <2>2, <2>3 DEF There
<1>2. CASE ~(e.left > 1)
  <2>1. Older(e) = Absent /\ Absent \in Entry /\ Absent.left = 0 /\ e.left \in Nat
    BY <1>2 DEF Older, Absent, Entry
  <2> QED BY <1>2, <2>1 DEF There
<1> QED BY <1>1, <1>2

LEMMA TickKeeps == ASSUME IInv, LockInv', Tick PROVE IInv'
<1>1. /\ Shape /\ Ages /\ now \in Nat /\ row \in Nat
      /\ changedAt \in Seq(Nat) /\ Len(changedAt) = row /\ \A i \in 1 .. row : changedAt[i] \in Nat /\ changedAt[i] <= now
      /\ copy \in Entry /\ copy.left \in Nat /\ copy.left <= CacheTTL
      /\ \A a \in Apis : local[a] \in Entry /\ local[a].left \in Nat /\ local[a].left <= LocalTTL
      /\ gone \in Nat /\ lapsed \in Nat /\ failures \in Nat
  BY DEF IInv, Shape, Entry
<1>2. /\ UNCHANGED <<row, changedAt, act, held, failures, reads, lapsed>> /\ now' = now + 1
      /\ copy' = Older(copy) /\ local' = [a \in Apis |-> Older(local[a])]
      /\ gone' = IF copy.left = 1 THEN gone + 1 ELSE gone
  BY DEF Tick, table, lockVars
<1>3. /\ copy' \in Entry /\ copy'.left \in Nat /\ copy'.left <= CacheTTL
      /\ There(copy') => There(copy) /\ copy'.val = copy.val /\ copy'.left = copy.left - 1
      /\ There(copy) /\ copy.left # 1 => There(copy')
  BY <1>1, <1>2, Lifetimes, OlderEntry
<1>4. \A a \in Apis : /\ local'[a] \in Entry /\ local'[a].left \in Nat /\ local'[a].left <= LocalTTL
                      /\ There(local'[a]) => /\ There(local[a]) /\ local'[a].val = local[a].val
                                             /\ local'[a].left = local[a].left - 1
  BY <1>1, <1>2, Lifetimes, OlderEntry
<1>5. /\ local' \in [Apis -> Entry] /\ gone' \in Nat /\ now' \in Nat
      /\ \A i \in 1 .. row' : changedAt'[i] <= now'
  BY <1>1, <1>2, <1>4
<1>6. Shape'
  BY <1>1, <1>2, <1>3, <1>4, <1>5, OthersShape DEF Shape
<1>7. ASSUME NEW v, NEW n \in Int, Aged(v, n) PROVE AgedAt(now', row', changedAt', v, n + 1)
  BY <1>1, <1>2, <1>7, AgeOfTick DEF Aged
<1>8. There(copy') => AgedAt(now', row', changedAt', copy'.val, CacheTTL - copy'.left)
  <2>1. SUFFICES ASSUME There(copy') PROVE AgedAt(now', row', changedAt', copy'.val, CacheTTL - copy'.left)
    OBVIOUS
  <2>2. CacheTTL - copy.left \in Int /\ CacheTTL - copy'.left = CacheTTL - copy.left + 1
    BY <1>1, <1>3, <2>1, Lifetimes
  <2>3. Aged(copy.val, CacheTTL - copy.left) /\ copy'.val = copy.val
    BY <1>1, <1>3, <2>1 DEF Ages
  <2> QED BY <1>7, <2>2, <2>3
<1>9. ASSUME NEW a \in Apis, There(local'[a])
      PROVE  AgedAt(now', row', changedAt', local'[a].val, CacheTTL - 1 + LocalTTL - local'[a].left)
  <2>1. /\ CacheTTL - 1 + LocalTTL - local[a].left \in Int
        /\ CacheTTL - 1 + LocalTTL - local'[a].left = CacheTTL - 1 + LocalTTL - local[a].left + 1
    <3>1. PICK n, m : n = local[a].left /\ m = local'[a].left /\ n \in Nat /\ m = n - 1
      BY <1>1, <1>4, <1>9
    <3> QED BY <3>1, Lifetimes
  <2>2. Aged(local[a].val, CacheTTL - 1 + LocalTTL - local[a].left) /\ local'[a].val = local[a].val
    BY <1>1, <1>4, <1>9 DEF Ages
  <2> QED BY <1>7, <2>1, <2>2
<1>10. \A c \in Callers : act'[c].pc \notin {"fill", "unlock", "answer"}
  BY <1>2 DEF Tick, Prompt
<1>11. Ages'
  BY <1>8, <1>9, <1>10 DEF Ages, Aged
<1>12. Late' = Late /\ (Filling' <=> Filling)
  BY <1>2 DEF Late, Filling
<1>13. PICK p \in 0 .. 1 : gone' = gone + p /\ (There(copy) /\ ~There(copy') => p = 1)
  <2>1. CASE copy.left = 1
    BY <1>2, <2>1
  <2>2. CASE copy.left # 1
    BY <1>1, <1>2, <1>3, <2>2
  <2> QED BY <2>1, <2>2
<1>14. Due \in 0 .. 1 /\ Due' \in 0 .. 1 /\ Due' <= Due + p
  <2>1. Due \in 0 .. 1 /\ Due' \in 0 .. 1
    BY DEF Due
  <2>2. CASE There(copy')
    BY <2>1, <2>2, <1>13 DEF Due
  <2>3. CASE ~There(copy') /\ There(copy)
    BY <2>1, <2>3, <1>13
  <2>4. CASE ~There(copy') /\ ~There(copy)
    BY <2>1, <2>4, <1>12, <1>13 DEF Due
  <2> QED BY <2>2, <2>3, <2>4
<1>15. Cardinality(Late') + Due' <= Cardinality(Late) + Due + p
  BY <1>12, <1>13, <1>14, Counts
<1>16. p \in Nat /\ gone' + lapsed' + failures' = gone + lapsed + failures + p
  BY <1>1, <1>2, <1>13
<1>17. Credit'
  BY <1>1, <1>2, <1>5, <1>15, <1>16, OthersCredit
<1> QED BY <1>6, <1>11, <1>17 DEF IInv

-----------------------------------------------------------------------------
LEMMA InitHolds == ASSUME Init PROVE IInv
<1>1. LockInv
  BY DEF Init, LockInit, LockInv, LockType
<1>2. /\ now = 0 /\ row = 0 /\ changedAt = <<>> /\ copy = Absent /\ local = [a \in Apis |-> Absent]
      /\ held = {} /\ reads = 0 /\ gone = 0 /\ lapsed = 0 /\ failures = 0
  BY DEF Init, LockInit
<1>3. PICK a \in Apis : act = [c \in Callers |-> Quiet(a)]
  BY DEF Init
<1>4. Absent \in Entry /\ Absent.left = 0 /\ ~There(Absent)
  BY DEF Absent, Entry, There
<1>5. Quiet(a) \in Acts /\ Quiet(a).pc = "idle" /\ ~Quiet(a).locked
  BY DEF Quiet, Acts
<1>6. /\ act \in [Callers -> Acts]
      /\ \A c \in Callers : act[c].pc = "idle" /\ ~act[c].locked
  BY <1>3, <1>5
<1>7. Shape
  <2>1. changedAt \in Seq(Nat) /\ Len(changedAt) = 0 /\ \A i \in 1 .. row : changedAt[i] <= now
    BY <1>2
  <2>2. copy \in Entry /\ copy.left <= CacheTTL
    BY <1>2, <1>4, Lifetimes
  <2>3. local \in [Apis -> Entry] /\ \A b \in Apis : local[b].left <= LocalTTL
    BY <1>2, <1>4, Lifetimes
  <2> QED BY <1>2, <1>6, <2>1, <2>2, <2>3 DEF Shape
<1>8. Ages
  BY <1>2, <1>4, <1>6 DEF Ages
<1>9. Credit
  <2>1. Reading = {} /\ Late = {}
    BY <1>6 DEF Reading, Late
  <2>2. Cardinality(Reading) = 0 /\ Cardinality(Late) = 0
    BY <2>1, FS_EmptySet
  <2>3. Due \in 0 .. 1
    BY DEF Due
  <2> QED BY <1>2, <2>2, <2>3 DEF Credit
<1> QED BY <1>1, <1>7, <1>8, <1>9 DEF IInv

LEMMA Steps == ASSUME IInv, [Next]_vars PROVE IInv'
<1>1. LockInv'
  BY LockKept DEF IInv
<1>2. ASSUME NEW c \in Callers, Begin(c) PROVE IInv'
  BY <1>1, <1>2, BeginKeeps
<1>3. ASSUME NEW c \in Callers, GetDetail(c) PROVE IInv'
  BY <1>1, <1>3, DetailKeeps
<1>4. CASE Change      BY <1>1, <1>4, ChangeKeeps
<1>5. CASE Invalidate  BY <1>1, <1>5, InvalidateKeeps
<1>6. CASE LockExpires BY <1>1, <1>6, LockExpiresKeeps
<1>7. CASE Lose        BY <1>1, <1>7, LoseKeeps
<1>8. CASE Tick        BY <1>1, <1>8, TickKeeps
<1>9. CASE UNCHANGED vars
  BY <1>9 DEF vars, table, caches, lockVars, history, IInv, LockInv, LockType, Shape, Ages, Aged,
              Credit, Reading, Late, Due, Filling
<1> QED BY <1>2, <1>3, <1>4, <1>5, <1>6, <1>7, <1>8, <1>9 DEF Next

\* The invariant of GetDetail: where the lock and the caches are, how old what
\* they hold may be, and what every read under the lock was paid with.
THEOREM DetailInvariant == Spec => []IInv
<1>1. Init => IInv
  BY InitHolds
<1>2. IInv /\ [Next]_vars => IInv'
  BY Steps
<1> QED BY <1>1, <1>2, PTL DEF Spec

\* An answer is the row's value or was less than CacheTTL + LocalTTL ago,
\* whatever the lifetimes, and in whatever order rows change, keys are deleted
\* and processes copy from each other through Redis.
THEOREM StalenessHolds == Spec => []StalenessBounded
<1>1. IInv => StalenessBounded
  <2> SUFFICES ASSUME IInv, NEW c \in Callers, act[c].pc = "answer"
               PROVE  \/ act[c].val \in {row, Error}
                      \/ now - changedAt[act[c].val + 1] < CacheTTL + LocalTTL
    BY DEF StalenessBounded
  <2>1. /\ Ages /\ now \in Nat /\ row \in Nat /\ changedAt \in Seq(Nat) /\ Len(changedAt) = row
    BY DEF IInv, Shape
  <2>2. act[c].val = Error \/ Aged(act[c].val, CacheTTL + LocalTTL - 1)
    BY <2>1 DEF Ages
  <2>3. CASE act[c].val # Error /\ act[c].val # row
    <3>1. PICK v : v = act[c].val
      OBVIOUS
    <3>2. v \in 0 .. row /\ v # row /\ now - changedAt[v + 1] <= CacheTTL + LocalTTL - 1
      BY <2>2, <2>3, <3>1 DEF Aged, AgedAt
    <3>3. v + 1 \in 1 .. Len(changedAt)
      BY <2>1, <3>2
    <3>4. PICK h \in Nat : h = changedAt[v + 1]
      BY <2>1, <3>3, ElementOfSeq
    <3>5. now - h < CacheTTL + LocalTTL
      BY <2>1, <3>2, <3>4, Lifetimes
    <3> QED BY <3>1, <3>4, <3>5
  <2> QED BY <2>3
<1> QED BY <1>1, DetailInvariant, PTL

\* The row is read under the lock once for each time the copy disappeared, but
\* for failed operations and locks that lapsed, however many callers miss it
\* at once.
THEOREM ReadsHold == Spec => []ReadsAccounted
<1>1. IInv => ReadsAccounted
  <2> SUFFICES ASSUME IInv PROVE reads <= 1 + gone + lapsed + failures
    BY DEF ReadsAccounted
  <2>1. reads + Cardinality(Reading) + Cardinality(Late) + Due <= 1 + gone + lapsed + failures
    BY DEF IInv, Credit
  <2>2. /\ Cardinality(Reading) \in Nat /\ Cardinality(Late) \in Nat /\ Due \in {0, 1}
        /\ reads \in Nat /\ gone \in Nat /\ lapsed \in Nat /\ failures \in Nat
    BY Counts DEF IInv, Shape
  <2> QED BY <2>1, <2>2
<1> QED BY <1>1, DetailInvariant, PTL

=============================================================================
