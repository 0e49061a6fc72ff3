------------------------ MODULE NotificationsProofs ------------------------
(***************************************************************************)
(* Theorems about Notifications and its hubs for any streams, workers,      *)
(* callers, capacities and bounds.                                          *)
(***************************************************************************)
EXTENDS Notifications, SequenceTheorems, FiniteSetTheorems, TLAPS

-----------------------------------------------------------------------------
(* The hubs: arrays and slices.                                              *)

Slots  == Streams \cup {Free}
Arrays == Seq(Seq(Slots))
Ends   == [state : {"new", "open", "closed"}, hub : Hubs \cup {NoHub}]
Calling == [at : {"idle", "send", "done", "panic"}, hub : Hubs \cup {NoHub}, slice : Slice,
            next : Nat \ {0}, due : SUBSET Streams, twice : BOOLEAN, alone : BOOLEAN]

\* The slice c is within an array of a, and its slots hold channels.
Backed(a, c) ==
    /\ c.array \in 0 .. Len(a)
    /\ c.array = 0 => c.len = 0
    /\ c.array # 0 => /\ c.len <= Len(a[c.array])
                      /\ \A i \in 1 .. c.len : a[c.array][i] \in Streams

\* No array of a became shorter in b or lost a channel.
Grown(a, b) ==
    /\ Len(a) <= Len(b)
    /\ \A k \in 1 .. Len(a) : /\ Len(b[k]) = Len(a[k])
                              /\ \A i \in 1 .. Len(a[k]) : a[k][i] \in Streams => b[k][i] \in Streams

\* The slice c of a lists S without repetition.
Lists(a, c, S) ==
    /\ \A i \in 1 .. c.len : a[c.array][i] \in S
    /\ \A i, j \in 1 .. c.len : a[c.array][i] = a[c.array][j] => i = j
    /\ \A s \in S : \E i \in 1 .. c.len : a[c.array][i] = s
    /\ Cardinality(S) = c.len

\* What the call m has still to visit is what it has still to offer.
Covers(m, a) ==
    /\ \A i \in m.next .. m.slice.len : a[m.slice.array][i] \in m.due
    /\ \A i, j \in m.next .. m.slice.len : a[m.slice.array][i] = a[m.slice.array][j] => i = j
    /\ \A s \in m.due : \E i \in m.next .. m.slice.len : a[m.slice.array][i] = s

HubShape ==
    /\ clients \in [Hubs -> Slice] /\ arrays \in [Hubs -> Arrays]
    /\ stream \in [Streams -> Ends] /\ buffer \in [Streams -> 0 .. Cap]
    /\ push \in [Pushers -> Calling]
    /\ \A s \in Streams : stream[s].state = "open" => stream[s].hub \in Hubs
    /\ \A h \in Hubs : Backed(arrays[h], clients[h])
    /\ \A p \in Pushers : push[p].at = "send" => /\ push[p].hub \in Hubs /\ push[p].slice.array # 0
                                                 /\ Backed(arrays[push[p].hub], push[p].slice)

Registered == \A h \in Hubs : Lists(arrays[h], clients[h], Open(h))

Visiting ==
    \A p \in Pushers : push[p].alone =>
        /\ push[p].at # "panic" /\ ~push[p].twice
        /\ push[p].at = "done" => push[p].due = {}
        /\ push[p].at = "send" =>
              /\ Covers(push[p], arrays[push[p].hub])
              /\ push[p].due \subseteq Open(push[p].hub)
              /\ clients[push[p].hub].array = push[p].slice.array
                    => push[p].slice.len <= clients[push[p].hub].len

HubInv == HubShape /\ Registered /\ Visiting

\* What Notifications does to its hubs.
Forget(p) == push' = [push EXCEPT ![p] = Quiet] /\ UNCHANGED <<clients, arrays, stream, buffer>>

HubStep == \/ \E s \in Streams : Connection(s)
           \/ \E p \in Pushers : \/ \E h \in Hubs : PushCopies(p, h)
                                 \/ PushSends(p) \/ Forget(p)
           \/ HubRestart \/ UNCHANGED hubVars

LEMMA HubStepOf == ASSUME [Next]_vars PROVE HubStep
<1>1. CASE Arrive \/ LoseKey \/ UNCHANGED vars
  BY <1>1 DEF Arrive, LoseKey, vars, HubStep
<1>2. CASE Crash
  BY <1>2 DEF Crash, End, HubStep
<1>3. ASSUME NEW w \in Workers, Worker(w) PROVE HubStep
  BY <1>3 DEF Worker, Deliver, Process, Ack, HubStep
<1>4. ASSUME NEW a \in Pushers, Notify(a) PROVE HubStep
  BY <1>4, Actors DEF Notify, Increment, PushStarts, PushGoesOn, PushEnds, PushReturns, Forget, HubStep
<1>5. ASSUME NEW c \in Callers, Send(c) \/ Reader(c) \/ Recover(c) PROVE HubStep
  BY <1>5, Actors DEF Send, Reader, MarkRead, Decrement, ClampReads, ClampSets, Recount, RecountReads, RecountSets,
                      Recover, Forget, HubStep
<1>6. ASSUME NEW s \in Streams, Connect(s) PROVE HubStep
  BY <1>6 DEF Connect, HubStep
<1> QED BY <1>1, <1>2, <1>3, <1>4, <1>5, <1>6 DEF Next

LEMMA BackedGrown ==
    ASSUME NEW a \in Arrays, NEW b \in Arrays, NEW c \in Slice, Backed(a, c), Grown(a, b)
    PROVE  Backed(b, c)
<1>1. Len(a) \in Nat /\ Len(b) \in Nat /\ \A k \in 1 .. Len(a) : Len(a[k]) \in Nat
  BY LenProperties, ElementOfSeq DEF Arrays
<1>2. c.array \in 0 .. Len(b) /\ (c.array = 0 => c.len = 0)
  BY <1>1 DEF Backed, Grown, Slice
<1>3. ASSUME c.array # 0
      PROVE  c.len <= Len(b[c.array]) /\ \A i \in 1 .. c.len : b[c.array][i] \in Streams
  <2>1. c.array \in 1 .. Len(a) /\ c.len \in Nat
    BY <1>1, <1>3 DEF Backed, Slice
  <2>2. Len(b[c.array]) = Len(a[c.array]) /\ c.len <= Len(a[c.array])
    BY <1>3, <2>1 DEF Backed, Grown
  <2>3. ASSUME NEW i \in 1 .. c.len PROVE b[c.array][i] \in Streams
    <3>1. i \in 1 .. Len(a[c.array])
      BY <1>1, <2>1, <2>2
    <3>2. a[c.array][i] \in Streams
      BY <1>3 DEF Backed
    <3> QED BY <2>1, <3>1, <3>2 DEF Grown
  <2> QED BY <2>2, <2>3
<1> QED BY <1>2, <1>3 DEF Backed

LEMMA GrownSame == ASSUME NEW a \in Arrays PROVE Grown(a, a)
  BY DEF Grown, Arrays

\* An append in place.
Put(a, k, n, s) == [a EXCEPT ![k][n] = s]

LEMMA InPlace ==
    ASSUME NEW a \in Arrays, NEW k \in 1 .. Len(a), NEW n \in 1 .. Len(a[k]), NEW s \in Streams,
           NEW b, b = Put(a, k, n, s)
    PROVE  /\ b \in Arrays /\ Len(b) = Len(a)
           /\ \A j \in 1 .. Len(a) : Len(b[j]) = Len(a[j]) /\ (j # k => b[j] = a[j])
           /\ \A i \in 1 .. Len(a[k]) : b[k][i] = IF i = n THEN s ELSE a[k][i]
<1>1. a[k] \in Seq(Slots) /\ s \in Slots
  BY ElementOfSeq DEF Arrays, Slots
<1>2. PICK t : t = [a[k] EXCEPT ![n] = s]  OBVIOUS
<1>3. /\ t \in Seq(Slots) /\ Len(t) = Len(a[k])
      /\ \A i \in 1 .. Len(a[k]) : t[i] = IF i = n THEN s ELSE a[k][i]
  BY <1>1, <1>2, ExceptSeq
<1>4. b = [a EXCEPT ![k] = t]
  BY <1>2 DEF Put
<1>5. b \in Arrays /\ Len(b) = Len(a) /\ \A j \in 1 .. Len(a) : b[j] = IF j = k THEN t ELSE a[j]
  <2>1. PICK T : T = Seq(Slots)  OBVIOUS
  <2>2. a \in Seq(T) /\ t \in T
    BY <2>1, <1>3 DEF Arrays
  <2>3. /\ [a EXCEPT ![k] = t] \in Seq(T) /\ Len([a EXCEPT ![k] = t]) = Len(a)
        /\ \A j \in 1 .. Len(a) : [a EXCEPT ![k] = t][j] = IF j = k THEN t ELSE a[j]
    BY <2>2, ExceptSeq
  <2> QED BY <2>1, <2>3, <1>4 DEF Arrays
<1> QED BY <1>3, <1>5

\* A new array.
LEMMA NewArray ==
    ASSUME NEW a \in Arrays, NEW t \in Seq(Slots)
    PROVE  /\ Append(a, t) \in Arrays /\ Len(Append(a, t)) = Len(a) + 1 /\ Len(a) \in Nat
           /\ \A j \in 1 .. Len(a) : Append(a, t)[j] = a[j]
           /\ Append(a, t)[Len(a) + 1] = t
  BY DEF Arrays

\* The members behind slot i move down.
Moved(a, k, n, i) ==
    [a EXCEPT ![k] = [j \in DOMAIN a[k] |-> IF j \in i .. n - 1 THEN a[k][j + 1] ELSE a[k][j]]]

LEMMA MovedDown ==
    ASSUME NEW a \in Arrays, NEW k \in 1 .. Len(a), NEW n \in Nat, n <= Len(a[k]),
           NEW i \in 1 .. n, NEW b, b = Moved(a, k, n, i)
    PROVE  /\ b \in Arrays /\ Len(b) = Len(a)
           /\ \A j \in 1 .. Len(a) : Len(b[j]) = Len(a[j]) /\ (j # k => b[j] = a[j])
           /\ \A j \in 1 .. Len(a[k]) : b[k][j] = IF j \in i .. n - 1 THEN a[k][j + 1] ELSE a[k][j]
<1>1. a[k] \in Seq(Slots) /\ Len(a[k]) \in Nat /\ DOMAIN a[k] = 1 .. Len(a[k])
  BY ElementOfSeq, LenProperties DEF Arrays
<1>2. PICK t : t = [j \in DOMAIN a[k] |-> IF j \in i .. n - 1 THEN a[k][j + 1] ELSE a[k][j]]
  OBVIOUS
<1>3. /\ t \in [1 .. Len(a[k]) -> Slots]
      /\ \A j \in 1 .. Len(a[k]) : t[j] = IF j \in i .. n - 1 THEN a[k][j + 1] ELSE a[k][j]
  <2>1. \A j \in 1 .. Len(a[k]) : a[k][j] \in Slots
    BY <1>1, ElementOfSeq
  <2>2. \A j \in i .. n - 1 : j + 1 \in 1 .. Len(a[k])
    BY <1>1
  <2> QED BY <1>1, <1>2, <2>1, <2>2
<1>4. t \in Seq(Slots) /\ Len(t) = Len(a[k])
  <2>1. t \in Seq(Slots)
    BY <1>1, <1>3, SeqDef
  <2>2. DOMAIN t = 1 .. Len(t) /\ Len(t) \in Nat /\ DOMAIN t = 1 .. Len(a[k])
    BY <1>3, <2>1, LenProperties
  <2> QED BY <1>1, <2>1, <2>2
<1>5. b = [a EXCEPT ![k] = t]
  BY <1>2 DEF Moved
<1>6. b \in Arrays /\ Len(b) = Len(a) /\ \A j \in 1 .. Len(a) : b[j] = IF j = k THEN t ELSE a[j]
  <2>1. PICK T : T = Seq(Slots)  OBVIOUS
  <2>2. a \in Seq(T) /\ t \in T
    BY <2>1, <1>4 DEF Arrays
  <2>3. /\ [a EXCEPT ![k] = t] \in Seq(T) /\ Len([a EXCEPT ![k] = t]) = Len(a)
        /\ \A j \in 1 .. Len(a) : [a EXCEPT ![k] = t][j] = IF j = k THEN t ELSE a[j]
    BY <2>2, ExceptSeq
  <2> QED BY <2>1, <2>3, <1>5 DEF Arrays
<1> QED BY <1>3, <1>4, <1>6

LEMMA Added ==
    ASSUME NEW a, NEW b, NEW c \in Slice, NEW d \in Slice, NEW S, IsFiniteSet(S), NEW s, s \notin S,
           Lists(a, c, S), d.len = c.len + 1,
           \A i \in 1 .. c.len : b[d.array][i] = a[c.array][i], b[d.array][d.len] = s
    PROVE  Lists(b, d, S \cup {s})
<1>1. c.len \in Nat /\ \A i \in 1 .. d.len : i \in 1 .. c.len \/ i = d.len
  BY DEF Slice
<1>2. \A i \in 1 .. c.len : i \in 1 .. d.len /\ b[d.array][i] \in S /\ i # d.len
  BY <1>1 DEF Lists
<1>3. \A i \in 1 .. d.len : b[d.array][i] \in S \cup {s}
  BY <1>1, <1>2
<1>4. \A i, j \in 1 .. d.len : b[d.array][i] = b[d.array][j] => i = j
  BY <1>1, <1>2 DEF Lists
<1>5. \A t \in S \cup {s} : \E i \in 1 .. d.len : b[d.array][i] = t
  <2>1. d.len \in 1 .. d.len  BY <1>1
  <2> QED BY <1>2, <2>1 DEF Lists
<1>6. Cardinality(S \cup {s}) = d.len
  <2>1. Cardinality(S) = c.len  BY DEF Lists
  <2>2. Cardinality(S \cup {s}) = Cardinality(S) + 1  BY FS_AddElement
  <2> QED BY <2>1, <2>2
<1> QED BY <1>3, <1>4, <1>5, <1>6 DEF Lists

LEMMA Dropped ==
    ASSUME NEW a, NEW b, NEW c \in Slice, NEW d \in Slice, NEW S, IsFiniteSet(S), NEW s \in S,
           Lists(a, c, S), d.len = c.len - 1, NEW i \in 1 .. c.len, a[c.array][i] = s,
           d.len > 0 => d.array = c.array,
           \A j \in 1 .. d.len : b[c.array][j] = IF j >= i THEN a[c.array][j + 1] ELSE a[c.array][j]
    PROVE  Lists(b, d, S \ {s})
<1>1. c.len \in Nat /\ d.len \in Nat
  BY DEF Slice
<1> DEFINE from(j) == IF j >= i THEN j + 1 ELSE j
<1>2. /\ \A j \in 1 .. d.len : from(j) \in 1 .. c.len /\ from(j) # i /\ d.array = c.array
      /\ \A j, k \in 1 .. d.len : from(j) = from(k) => j = k
      /\ \A k \in 1 .. c.len : k # i => \E j \in 1 .. d.len : from(j) = k
  <2>1. /\ \A j \in 1 .. d.len : from(j) \in 1 .. c.len /\ from(j) # i /\ d.array = c.array
        /\ \A j, k \in 1 .. d.len : from(j) = from(k) => j = k
    BY <1>1
  <2>2. ASSUME NEW k \in 1 .. c.len, k # i PROVE \E j \in 1 .. d.len : from(j) = k
    <3>1. CASE k < i
      <4>1. k \in 1 .. d.len /\ from(k) = k  BY <1>1, <3>1
      <4> QED BY <4>1
    <3>2. CASE k > i
      <4>1. k - 1 \in 1 .. d.len /\ from(k - 1) = k  BY <1>1, <3>2
      <4> QED BY <4>1
    <3> QED BY <1>1, <2>2, <3>1, <3>2
  <2> QED BY <2>1, <2>2
<1>3. \A j \in 1 .. d.len : b[d.array][j] = a[c.array][from(j)]
  <2> SUFFICES ASSUME NEW j \in 1 .. d.len PROVE b[d.array][j] = a[c.array][from(j)]
    OBVIOUS
  <2>1. b[c.array][j] = a[c.array][from(j)]
    <3>1. CASE j >= i  BY <3>1
    <3>2. CASE ~(j >= i)  BY <3>2
    <3> QED BY <3>1, <3>2
  <2> QED BY <1>2, <2>1
<1> HIDE DEF from
<1>4. \A j \in 1 .. d.len : b[d.array][j] \in S \ {s}
  BY <1>2, <1>3 DEF Lists
<1>5. \A j, k \in 1 .. d.len : b[d.array][j] = b[d.array][k] => j = k
  BY <1>2, <1>3 DEF Lists
<1>6. \A t \in S \ {s} : \E j \in 1 .. d.len : b[d.array][j] = t
  <2> SUFFICES ASSUME NEW t \in S, t # s PROVE \E j \in 1 .. d.len : b[d.array][j] = t
    OBVIOUS
  <2>1. PICK k \in 1 .. c.len : a[c.array][k] = t
    BY DEF Lists
  <2>2. k # i  BY <2>1
  <2>3. PICK j \in 1 .. d.len : from(j) = k
    BY <1>2, <2>2
  <2> QED BY <1>3, <2>1, <2>3
<1>7. Cardinality(S \ {s}) = d.len
  <2>1. Cardinality(S) = c.len  BY DEF Lists
  <2>2. Cardinality(S \ {s}) = Cardinality(S) - 1  BY FS_RemoveElement
  <2> QED BY <2>1, <2>2
<1> QED BY <1>4, <1>5, <1>6, <1>7 DEF Lists

LEMMA SubscribeEffect ==
    ASSUME HubShape, NEW s \in Streams, NEW h \in Hubs, Subscribe(s, h)
    PROVE  \E b \in Arrays, c \in Slice :
             /\ arrays' = [arrays EXCEPT ![h] = b] /\ clients' = [clients EXCEPT ![h] = c]
             /\ c.len = clients[h].len + 1 /\ c.array \in 1 .. Len(b) /\ c.len <= Len(b[c.array])
             /\ Grown(arrays[h], b)
             /\ \A i \in 1 .. clients[h].len : b[c.array][i] = arrays[h][clients[h].array][i]
             /\ b[c.array][c.len] = s
             /\ \A k \in 1 .. Len(arrays[h]) : \A i \in 1 .. Len(arrays[h][k]) :
                   b[k][i] = arrays[h][k][i] \/ (k = clients[h].array /\ i > clients[h].len)
             /\ c.array = clients[h].array \/ c.array > Len(arrays[h])
<1>1. PICK a, o : a = arrays[h] /\ o = clients[h]
  OBVIOUS
<1>2. a \in Arrays /\ o \in Slice /\ Backed(a, o)
  BY <1>1 DEF HubShape
<1>3. Len(a) \in Nat /\ o.array \in Nat /\ o.len \in Nat /\ o.array \in 0 .. Len(a)
      /\ \A k \in 1 .. Len(a) : a[k] \in Seq(Slots) /\ Len(a[k]) \in Nat
  BY <1>2, LenProperties, ElementOfSeq DEF Arrays, Backed, Slice
<1> DEFINE size == IF o.array = 0 THEN 0 ELSE Len(a[o.array])
           new == [i \in 1 .. (IF size = 0 THEN 1 ELSE 2 * size) |->
                      IF i <= o.len THEN Live(h)[i] ELSE IF i = o.len + 1 THEN s ELSE Free]
<1>4. size \in Nat /\ o.len <= size
  BY <1>2, <1>3 DEF Backed
<1>5. CASE o.len < size
  <2>1. o.array \in 1 .. Len(a) /\ o.len + 1 \in 1 .. Len(a[o.array])
    BY <1>3, <1>4, <1>5
  <2>2. arrays' = [arrays EXCEPT ![h][o.array][o.len + 1] = s]
        /\ clients' = [clients EXCEPT ![h].len = o.len + 1]
    BY <1>1, <1>5 DEF Subscribe
  <2>3. PICK b : b = [a EXCEPT ![o.array][o.len + 1] = s]
    OBVIOUS
  <2>4. PICK c : c = [o EXCEPT !.len = o.len + 1]
    OBVIOUS
  <2>5. arrays' = [arrays EXCEPT ![h] = b] /\ clients' = [clients EXCEPT ![h] = c]
    BY <1>1, <2>2, <2>3, <2>4
  <2>6. c \in Slice /\ c.len = o.len + 1 /\ c.array = o.array
    BY <1>2, <1>3, <2>4 DEF Slice
  <2>7. /\ b \in Arrays /\ Len(b) = Len(a)
        /\ \A j \in 1 .. Len(a) : Len(b[j]) = Len(a[j]) /\ (j # o.array => b[j] = a[j])
        /\ \A i \in 1 .. Len(a[o.array]) : b[o.array][i] = IF i = o.len + 1 THEN s ELSE a[o.array][i]
    <3>1. PICK k \in 1 .. Len(a) : k = o.array
      BY <2>1
    <3>2. PICK m \in 1 .. Len(a[k]) : m = o.len + 1
      BY <2>1, <3>1
    <3>3. b = Put(a, k, m, s)
      BY <2>3, <3>1, <3>2 DEF Put
    <3>4. /\ b \in Arrays /\ Len(b) = Len(a)
          /\ \A j \in 1 .. Len(a) : Len(b[j]) = Len(a[j]) /\ (j # k => b[j] = a[j])
          /\ \A i \in 1 .. Len(a[k]) : b[k][i] = IF i = m THEN s ELSE a[k][i]
      <4>1. a \in Arrays /\ k \in 1 .. Len(a) /\ m \in 1 .. Len(a[k]) /\ s \in Streams
        BY <1>2
      <4> QED BY ONLY <4>1, <3>3, InPlace, SMTT(60)
    <3> QED BY <3>1, <3>2, <3>4
  <2>8. Grown(a, b)
    <3>1. Len(a) <= Len(b)  BY <1>3, <2>7
    <3> QED BY <2>1, <2>7, <3>1 DEF Grown
  <2>9. \A i \in 1 .. o.len : b[c.array][i] = a[o.array][i]
    <3>1. \A i \in 1 .. o.len : i \in 1 .. Len(a[o.array]) /\ i # o.len + 1
      BY <1>3, <2>1
    <3> QED BY <2>6, <2>7, <3>1
  <2>10. /\ b[c.array][c.len] = s /\ c.array \in 1 .. Len(b) /\ c.len <= Len(b[c.array])
    BY <1>3, <2>1, <2>6, <2>7
  <2>11. \A k \in 1 .. Len(a) : \A i \in 1 .. Len(a[k]) : b[k][i] = a[k][i] \/ (k = o.array /\ i > o.len)
    BY <1>3, <2>1, <2>7
  <2> HIDE DEF size, new
  <2>12. /\ b[c.array][c.len] = s /\ c.len = clients[h].len + 1 /\ c.array = clients[h].array
         /\ \A i \in 1 .. clients[h].len : b[c.array][i] = arrays[h][clients[h].array][i]
         /\ \A k \in 1 .. Len(arrays[h]) : \A i \in 1 .. Len(arrays[h][k]) :
               b[k][i] = arrays[h][k][i] \/ (k = clients[h].array /\ i > clients[h].len)
    BY <1>1, <2>6, <2>9, <2>10, <2>11
  <2>13. b \in Arrays /\ c \in Slice /\ Grown(arrays[h], b)
    BY <1>1, <2>6, <2>7, <2>8
  <2> QED BY <2>5, <2>10, <2>12, <2>13
<1>6. CASE ~(o.len < size)
  <2>1. o.len = size
    BY <1>3, <1>4, <1>6
  <2>2. arrays' = [arrays EXCEPT ![h] = Append(a, new)]
        /\ clients' = [clients EXCEPT ![h] = [array |-> Len(a) + 1, len |-> o.len + 1]]
    BY <1>1, <1>6 DEF Subscribe, HubShape
  <2>3. \A i \in 1 .. o.len : Live(h)[i] = a[o.array][i]
    BY <1>1 DEF Live
  <2> DEFINE n == IF size = 0 THEN 1 ELSE 2 * size
  <2>4. n \in Nat /\ o.len + 1 <= n
    BY <1>4, <2>1
  <2>5. /\ new \in [1 .. n -> Slots]
        /\ \A i \in 1 .. o.len : new[i] = a[o.array][i]
        /\ new[o.len + 1] = s
    <3>1. \A i \in 1 .. o.len : a[o.array][i] \in Slots
      <4>1. o.len > 0 => o.array # 0
        BY <1>2, <1>3 DEF Backed
      <4> QED BY <1>2, <1>3, <4>1 DEF Backed, Slots
    <3>2. \A i \in 1 .. n : i <= o.len => i \in 1 .. o.len
      BY <1>3
    <3>3. s \in Slots /\ Free \in Slots  BY DEF Slots
    <3>4. \A i \in 1 .. n : (IF i <= o.len THEN Live(h)[i] ELSE IF i = o.len + 1 THEN s ELSE Free) \in Slots
      BY <2>3, <3>1, <3>2, <3>3
    <3>5. \A i \in 1 .. o.len : i \in 1 .. n /\ i <= o.len
      BY <1>3, <2>4
    <3>6. o.len + 1 \in 1 .. n /\ ~(o.len + 1 <= o.len)
      BY <1>3, <2>4
    <3> QED BY <2>3, <3>4, <3>5, <3>6
  <2> HIDE DEF new, size
  <2>6. new \in Seq(Slots) /\ Len(new) = n
    <3>1. new \in Seq(Slots)
      BY <2>4, <2>5, SeqDef
    <3>2. DOMAIN new = 1 .. Len(new) /\ Len(new) \in Nat /\ DOMAIN new = 1 .. n
      BY <2>5, <3>1, LenProperties
    <3> QED BY <2>4, <3>1, <3>2
  <2>7. PICK b : b = Append(a, new)
    OBVIOUS
  <2>8. PICK c : c = [array |-> Len(a) + 1, len |-> o.len + 1]
    OBVIOUS
  <2>9. /\ b \in Arrays /\ Len(b) = Len(a) + 1
        /\ \A j \in 1 .. Len(a) : b[j] = a[j]
        /\ b[Len(a) + 1] = new
    BY <1>2, <2>6, <2>7, NewArray
  <2>10. c \in Slice /\ c.len = o.len + 1 /\ c.array = Len(a) + 1
    BY <1>3, <2>8 DEF Slice
  <2>11. Grown(a, b)
    BY <1>3, <2>9 DEF Grown
  <2>12. \A i \in 1 .. o.len : b[c.array][i] = a[o.array][i]
    BY <2>5, <2>9, <2>10
  <2>13. b[c.array][c.len] = s /\ c.array \in 1 .. Len(b) /\ c.len <= Len(b[c.array])
    BY <1>3, <2>4, <2>5, <2>6, <2>9, <2>10
  <2>14. \A k \in 1 .. Len(a) : \A i \in 1 .. Len(a[k]) : b[k][i] = a[k][i] \/ (k = o.array /\ i > o.len)
    BY <2>9
  <2>15. c.array > Len(a)
    BY <1>3, <2>10
  <2>16. arrays' = [arrays EXCEPT ![h] = b] /\ clients' = [clients EXCEPT ![h] = c]
    BY <2>2, <2>7, <2>8
  <2> QED BY <1>1, <2>9, <2>10, <2>11, <2>12, <2>13, <2>14, <2>15, <2>16
<1> QED BY <1>5, <1>6

\* The member s of slot i of the slice o of a is gone from the slice c of b.
Removal(a, o, b, c, i, s) ==
    /\ a[o.array][i] = s /\ c.len = o.len - 1
    /\ Grown(a, b) /\ Backed(b, c)
    /\ c.len > 0 => c.array = o.array
    /\ \A j \in 1 .. c.len : b[o.array][j] = IF j >= i THEN a[o.array][j + 1] ELSE a[o.array][j]

LEMMA UnsubscribeEffect ==
    ASSUME HubShape, Registered, NEW s \in Streams, Unsubscribe(s), NEW h, h = stream[s].hub
    PROVE  h \in Hubs /\ s \in Open(h) /\
           \E b \in Arrays, c \in Slice, i \in 1 .. clients[h].len :
             /\ arrays' = [arrays EXCEPT ![h] = b] /\ clients' = [clients EXCEPT ![h] = c]
             /\ Removal(arrays[h], clients[h], b, c, i, s)
<1>0. h \in Hubs /\ s \in Open(h)
  BY DEF HubShape, Unsubscribe, Open, Ends
<1>1. PICK a, o : a = arrays[h] /\ o = clients[h]
  OBVIOUS
<1>2. a \in Arrays /\ o \in Slice /\ Backed(a, o) /\ Lists(a, o, Open(h))
  BY <1>0, <1>1 DEF HubShape, Registered
<1>3. Len(a) \in Nat /\ o.array \in Nat /\ o.len \in Nat /\ o.array \in 0 .. Len(a)
      /\ \A k \in 1 .. Len(a) : a[k] \in Seq(Slots) /\ Len(a[k]) \in Nat
  BY <1>2, LenProperties, ElementOfSeq DEF Arrays, Backed, Slice
<1>4. PICK i : i = CHOOSE j \in 1 .. o.len : Live(h)[j] = s
  OBVIOUS
<1>5. i \in 1 .. o.len /\ a[o.array][i] = s
  <2>1. \A j \in 1 .. o.len : Live(h)[j] = a[o.array][j]
    BY <1>1 DEF Live
  <2>2. \E j \in 1 .. o.len : Live(h)[j] = s
    BY <1>0, <1>2, <2>1 DEF Lists
  <2>3. i \in 1 .. o.len /\ Live(h)[i] = s
    BY <1>4, <2>2
  <2> QED BY <2>1, <2>3
<1>6. o.array \in 1 .. Len(a) /\ o.len >= 1 /\ o.len <= Len(a[o.array])
  BY <1>2, <1>3, <1>5 DEF Backed
<1>7. PICK b : b = Moved(a, o.array, o.len, i)
  OBVIOUS
<1>8. PICK c : c = IF o.len = 1 /\ h \in DropsEmpty THEN [array |-> 0, len |-> 0]
                                                    ELSE [array |-> o.array, len |-> o.len - 1]
  OBVIOUS
<1>9. arrays' = [arrays EXCEPT ![h] = b] /\ clients' = [clients EXCEPT ![h] = c]
  <2>1. arrays' = [arrays EXCEPT ![h][o.array] =
             [j \in DOMAIN a[o.array] |-> IF j \in i .. o.len - 1 THEN a[o.array][j + 1] ELSE a[o.array][j]]]
    BY <1>1, <1>4 DEF Unsubscribe
  <2>2. clients' = [clients EXCEPT ![h] = c]
    BY <1>1, <1>8 DEF Unsubscribe
  <2> QED BY <1>1, <1>7, <2>1, <2>2 DEF Moved
<1>10. c \in Slice /\ c.len = o.len - 1 /\ (c.len > 0 => c.array = o.array)
       /\ (c.array = o.array \/ (c.array = 0 /\ c.len = 0))
  <2>1. CASE o.len = 1 /\ h \in DropsEmpty
    BY <1>3, <1>8, <2>1 DEF Slice
  <2>2. CASE ~(o.len = 1 /\ h \in DropsEmpty)
    <3>1. c = [array |-> o.array, len |-> o.len - 1]
      BY <1>8, <2>2
    <3>2. o.len - 1 \in Nat
      BY <1>3, <1>6
    <3> QED BY <1>3, <3>1, <3>2 DEF Slice
  <2> QED BY <2>1, <2>2
<1>11. /\ b \in Arrays /\ Len(b) = Len(a)
       /\ \A j \in 1 .. Len(a) : Len(b[j]) = Len(a[j]) /\ (j # o.array => b[j] = a[j])
       /\ \A j \in 1 .. Len(a[o.array]) :
             b[o.array][j] = IF j \in i .. o.len - 1 THEN a[o.array][j + 1] ELSE a[o.array][j]
  <2>1. PICK k \in 1 .. Len(a) : k = o.array
    BY <1>6
  <2>2. /\ b \in Arrays /\ Len(b) = Len(a)
        /\ \A j \in 1 .. Len(a) : Len(b[j]) = Len(a[j]) /\ (j # k => b[j] = a[j])
        /\ \A j \in 1 .. Len(a[k]) : b[k][j] = IF j \in i .. o.len - 1 THEN a[k][j + 1] ELSE a[k][j]
    <3>1. PICK n \in Nat : n = o.len
      BY <1>3
    <3>2. b = Moved(a, k, n, i) /\ n <= Len(a[k]) /\ i \in 1 .. n
      BY <1>5, <1>6, <1>7, <2>1, <3>1
    <3>3. /\ b \in Arrays /\ Len(b) = Len(a)
          /\ \A j \in 1 .. Len(a) : Len(b[j]) = Len(a[j]) /\ (j # k => b[j] = a[j])
          /\ \A j \in 1 .. Len(a[k]) : b[k][j] = IF j \in i .. n - 1 THEN a[k][j + 1] ELSE a[k][j]
      BY <1>2, <3>2, MovedDown
    <3> QED BY <3>1, <3>3
  <2> QED BY <2>1, <2>2
<1>12. \A j \in 1 .. o.len : a[o.array][j] \in Streams /\ j \in 1 .. Len(a[o.array])
  BY <1>2, <1>3, <1>6 DEF Backed
<1>13. Grown(a, b)
  <2>1. ASSUME NEW j \in 1 .. Len(a[o.array]), a[o.array][j] \in Streams PROVE b[o.array][j] \in Streams
    <3>1. CASE j \in i .. o.len - 1
      <4>1. j + 1 \in 1 .. o.len  BY <1>3, <1>5, <3>1
      <4> QED BY <1>11, <1>12, <3>1, <4>1
    <3>2. CASE j \notin i .. o.len - 1
      BY <1>11, <2>1, <3>2
    <3> QED BY <3>1, <3>2
  <2>2. Len(a) <= Len(b)  BY <1>3, <1>11
  <2> QED BY <1>11, <2>1, <2>2 DEF Grown
<1>14. Backed(b, c)
  <2>1. Backed(b, o)
    BY <1>2, <1>11, <1>13, BackedGrown
  <2>2. CASE c.array = 0 /\ c.len = 0
    BY <1>3, <1>11, <2>2 DEF Backed
  <2>3. CASE c.array = o.array
    <3>1. /\ o.array # 0 /\ o.len <= Len(b[o.array]) /\ o.array \in 0 .. Len(b)
          /\ \A j \in 1 .. o.len : b[o.array][j] \in Streams
      BY <1>6, <2>1 DEF Backed
    <3>2. \A j \in 1 .. c.len : j \in 1 .. o.len
      BY <1>3, <1>10
    <3>3. c.len <= Len(b[c.array])
      <4>1. Len(b[o.array]) \in Nat
        BY <1>3, <1>6, <1>11
      <4> QED BY <1>3, <1>10, <2>3, <3>1, <4>1
    <3> QED BY <2>3, <3>1, <3>2, <3>3 DEF Backed
  <2> QED BY <1>10, <2>2, <2>3
<1>15. \A j \in 1 .. c.len : b[o.array][j] = IF j >= i THEN a[o.array][j + 1] ELSE a[o.array][j]
  <2> SUFFICES ASSUME NEW j \in 1 .. c.len
               PROVE  b[o.array][j] = IF j >= i THEN a[o.array][j + 1] ELSE a[o.array][j]
    OBVIOUS
  <2>1. j \in 1 .. o.len /\ (j \in i .. o.len - 1 <=> j >= i)
    BY <1>3, <1>5, <1>10
  <2> QED BY <1>11, <1>12, <2>1
<1>16. b \in Arrays /\ c \in Slice /\ i \in 1 .. clients[h].len
  BY <1>1, <1>5, <1>10, <1>11
<1>17. Removal(a, o, b, c, i, s)
  BY <1>5, <1>10, <1>13, <1>14, <1>15 DEF Removal
<1>18. Removal(arrays[h], clients[h], b, c, i, s)
  BY <1>1, <1>17
<1> QED BY <1>0, <1>9, <1>16, <1>18

\* One hub's array changes, and no call begins.
LEMMA ShapeStep ==
    ASSUME HubShape, NEW h \in Hubs, NEW b \in Arrays, NEW c \in Slice,
           arrays' = [arrays EXCEPT ![h] = b], clients' = [clients EXCEPT ![h] = c],
           Grown(arrays[h], b), Backed(b, c),
           stream' \in [Streams -> Ends], buffer' \in [Streams -> 0 .. Cap],
           \A s \in Streams : stream'[s].state = "open" => stream'[s].hub \in Hubs,
           push' \in [Pushers -> Calling],
           \A p \in Pushers : push'[p].at = "send" =>
              push[p].at = "send" /\ push'[p].hub = push[p].hub /\ push'[p].slice = push[p].slice
    PROVE  HubShape'
<1>1. clients' \in [Hubs -> Slice] /\ arrays' \in [Hubs -> Arrays]
  BY DEF HubShape
<1>2. \A g \in Hubs : arrays'[g] = (IF g = h THEN b ELSE arrays[g])
                      /\ clients'[g] = IF g = h THEN c ELSE clients[g]
  BY DEF HubShape
<1>3. \A g \in Hubs : Backed(arrays'[g], clients'[g])
  BY <1>2 DEF HubShape
<1>4. ASSUME NEW p \in Pushers, push'[p].at = "send"
      PROVE  /\ push'[p].hub \in Hubs /\ push'[p].slice.array # 0
             /\ Backed(arrays'[push'[p].hub], push'[p].slice)
  <2>1. PICK g, m : g = push[p].hub /\ m = push[p].slice
    OBVIOUS
  <2>2. g \in Hubs /\ m.array # 0 /\ Backed(arrays[g], m) /\ m \in Slice
    BY <1>4, <2>1 DEF HubShape, Calling
  <2>3. Backed(arrays'[g], m)
    <3>1. CASE g = h
      <4>1. arrays[h] \in Arrays  BY DEF HubShape
      <4> QED BY <1>2, <2>2, <3>1, <4>1, BackedGrown
    <3>2. CASE g # h
      BY <1>2, <2>2, <3>2
    <3> QED BY <3>1, <3>2
  <2> QED BY <1>4, <2>1, <2>2, <2>3
<1> QED BY <1>1, <1>3, <1>4 DEF HubShape

LEMMA SubscribeKeeps ==
    ASSUME HubInv, NEW s \in Streams, NEW h \in Hubs, Subscribe(s, h)
    PROVE  HubInv'
<1> USE DEF HubInv
<1>1. PICK b \in Arrays, c \in Slice :
             /\ arrays' = [arrays EXCEPT ![h] = b] /\ clients' = [clients EXCEPT ![h] = c]
             /\ c.len = clients[h].len + 1 /\ c.array \in 1 .. Len(b) /\ c.len <= Len(b[c.array])
             /\ Grown(arrays[h], b)
             /\ \A i \in 1 .. clients[h].len : b[c.array][i] = arrays[h][clients[h].array][i]
             /\ b[c.array][c.len] = s
             /\ \A k \in 1 .. Len(arrays[h]) : \A i \in 1 .. Len(arrays[h][k]) :
                   b[k][i] = arrays[h][k][i] \/ (k = clients[h].array /\ i > clients[h].len)
             /\ c.array = clients[h].array \/ c.array > Len(arrays[h])
  BY SubscribeEffect
<1>2. /\ stream' = [stream EXCEPT ![s] = [state |-> "open", hub |-> h]]
      /\ UNCHANGED <<buffer, push>> /\ stream[s].state = "new"
  BY DEF Subscribe
<1>3. PICK a, o : a = arrays[h] /\ o = clients[h]
  OBVIOUS
<1>4. a \in Arrays /\ o \in Slice /\ Backed(a, o) /\ Lists(a, o, Open(h)) /\ o.len \in Nat
  BY <1>3 DEF HubShape, Registered, Slice
<1>5. /\ \A g \in Hubs : g # h => arrays'[g] = arrays[g] /\ clients'[g] = clients[g]
      /\ arrays'[h] = b /\ clients'[h] = c
  BY <1>1 DEF HubShape
<1>6. /\ \A g \in Hubs : g # h => Open(g)' = Open(g)
      /\ Open(h)' = Open(h) \cup {s} /\ s \notin Open(h)
  BY <1>2 DEF Open, HubShape
<1>7. Backed(b, c)
  <2>1. \A i \in 1 .. c.len : i \in 1 .. o.len \/ i = c.len
    BY <1>1, <1>3, <1>4
  <2>2. \A i \in 1 .. o.len : a[o.array][i] \in Streams
    BY <1>4 DEF Lists, Open
  <2>3. Len(b) \in Nat
    BY LenProperties DEF Arrays
  <2>4. \A i \in 1 .. c.len : b[c.array][i] \in Streams
    BY <1>1, <1>3, <2>1, <2>2
  <2>5. c.array # 0 /\ c.array \in 0 .. Len(b)
    BY <1>1, <2>3
  <2> QED BY <1>1, <2>4, <2>5 DEF Backed
<1>8. HubShape'
  <2>1. stream' \in [Streams -> Ends] /\ buffer' \in [Streams -> 0 .. Cap] /\ push' \in [Pushers -> Calling]
    BY <1>2 DEF HubShape, Ends
  <2>2. \A t \in Streams : stream'[t].state = "open" => stream'[t].hub \in Hubs
    BY <1>2 DEF HubShape
  <2> QED BY <1>1, <1>2, <1>7, <2>1, <2>2, ShapeStep
<1>9. Registered'
  <2>1. IsFiniteSet(Open(h))
    BY Shape, FS_Subset DEF Open
  <2>2. Lists(b, c, Open(h) \cup {s})
    BY <1>1, <1>3, <1>4, <1>6, <2>1, Added
  <2>3. \A g \in Hubs : g # h => Lists(arrays'[g], clients'[g], Open(g)')
    BY <1>5, <1>6 DEF Registered
  <2>4. Lists(arrays'[h], clients'[h], Open(h)')
    BY <1>5, <1>6, <2>2
  <2> QED BY <2>3, <2>4 DEF Registered
<1>10. Visiting'
  <2> SUFFICES ASSUME NEW p \in Pushers, push[p].alone, push[p].at = "send"
               PROVE  /\ Covers(push[p], arrays'[push[p].hub])
                      /\ push[p].due \subseteq Open(push[p].hub)'
                      /\ clients'[push[p].hub].array = push[p].slice.array
                            => push[p].slice.len <= clients'[push[p].hub].len
    BY <1>2 DEF Visiting, Open
  <2>1. PICK g, m : g = push[p].hub /\ m = push[p]
    OBVIOUS
  <2>2. /\ g \in Hubs /\ m \in Calling /\ m.slice.array # 0 /\ Backed(arrays[g], m.slice)
        /\ Covers(m, arrays[g]) /\ m.due \subseteq Open(g)
        /\ clients[g].array = m.slice.array => m.slice.len <= clients[g].len
    BY <2>1 DEF HubShape, Visiting
  <2>3. Covers(m, arrays'[g]) /\ (clients'[g].array = m.slice.array => m.slice.len <= clients'[g].len)
    <3>1. CASE g # h
      BY <1>5, <2>2, <3>1
    <3>2. CASE g = h
      <4>1. m.slice.array \in 1 .. Len(a) /\ m.slice.len \in Nat /\ m.next \in Nat \ {0}
            /\ m.slice.len <= Len(a[m.slice.array]) /\ Len(a[m.slice.array]) \in Nat /\ Len(a) \in Nat
        BY <1>3, <1>4, <2>2, <3>2, LenProperties, ElementOfSeq DEF Backed, Calling, Slice, Arrays
      <4>2. \A i \in m.next .. m.slice.len : i \in 1 .. Len(a[m.slice.array])
        BY <4>1
      <4>3. \A i \in m.next .. m.slice.len : ~(m.slice.array = o.array /\ i > o.len)
        BY <1>3, <1>4, <2>2, <3>2, <4>1
      <4>4. \A i \in m.next .. m.slice.len : b[m.slice.array][i] = a[m.slice.array][i]
        BY <1>1, <1>3, <4>1, <4>2, <4>3
      <4>5. Covers(m, b)
        BY <1>3, <2>2, <3>2, <4>4 DEF Covers
      <4>6. c.array = m.slice.array => m.slice.len <= c.len
        BY <1>1, <1>3, <1>4, <2>2, <3>2, <4>1
      <4> QED BY <1>5, <3>2, <4>5, <4>6
    <3> QED BY <3>1, <3>2
  <2>4. m.due \subseteq Open(g)'
    BY <1>6, <2>2
  <2>5. Open(g)' = Open(push[p].hub)'
    BY <1>2, <2>1 DEF Open
  <2> QED BY <2>1, <2>3, <2>4, <2>5
<1> QED BY <1>8, <1>9, <1>10

LEMMA UnsubscribeKeeps ==
    ASSUME HubInv, NEW s \in Streams, Unsubscribe(s)
    PROVE  HubInv'
<1> USE DEF HubInv
<1>1. PICK h : h = stream[s].hub
  OBVIOUS
<1>2. h \in Hubs /\ s \in Open(h)
  BY <1>1, UnsubscribeEffect
<1>3. PICK b \in Arrays, c \in Slice, i \in 1 .. clients[h].len :
        /\ arrays' = [arrays EXCEPT ![h] = b] /\ clients' = [clients EXCEPT ![h] = c]
        /\ Removal(arrays[h], clients[h], b, c, i, s)
  BY <1>1, UnsubscribeEffect
<1>4. /\ stream' = [stream EXCEPT ![s] = Closed] /\ buffer' = [buffer EXCEPT ![s] = 0]
      /\ push' = [p \in Pushers |->
             IF push[p].hub = h THEN [push[p] EXCEPT !.alone = FALSE] ELSE push[p]]
  BY <1>1 DEF Unsubscribe
<1>5. /\ \A g \in Hubs : g # h => arrays'[g] = arrays[g] /\ clients'[g] = clients[g]
      /\ arrays'[h] = b /\ clients'[h] = c
  BY <1>2, <1>3 DEF HubShape
<1>6. /\ \A g \in Hubs : g # h => Open(g)' = Open(g)
      /\ Open(h)' = Open(h) \ {s}
  BY <1>2, <1>4 DEF Open, HubShape, Closed
<1>7. /\ push' \in [Pushers -> Calling]
      /\ \A p \in Pushers : IF push[p].hub = h THEN ~push'[p].alone ELSE push'[p] = push[p]
      /\ \A p \in Pushers : push'[p].at = push[p].at /\ push'[p].hub = push[p].hub
                            /\ push'[p].slice = push[p].slice
  <2>1. push \in [Pushers -> Calling]
    BY DEF HubShape
  <2>2. \A m \in Calling : /\ [m EXCEPT !.alone = FALSE] \in Calling
                           /\ ~[m EXCEPT !.alone = FALSE].alone
                           /\ [m EXCEPT !.alone = FALSE].at = m.at
                           /\ [m EXCEPT !.alone = FALSE].hub = m.hub
                           /\ [m EXCEPT !.alone = FALSE].slice = m.slice
    BY DEF Calling
  <2>3. \A p \in Pushers : push[p] \in Calling /\ push'[p] =
             IF push[p].hub = h THEN [push[p] EXCEPT !.alone = FALSE] ELSE push[p]
    BY <1>4, <2>1
  <2> QED BY <1>4, <2>1, <2>2, <2>3
<1>8. HubShape'
  <2>1. stream' \in [Streams -> Ends] /\ buffer' \in [Streams -> 0 .. Cap]
        /\ \A t \in Streams : stream'[t].state = "open" => stream'[t].hub \in Hubs
    <3>1. 0 \in 0 .. Cap  BY Shape
    <3> QED BY <1>4, <3>1 DEF HubShape, Ends, Closed
  <2> QED BY <1>2, <1>3, <1>7, <2>1, ShapeStep DEF Removal
<1>9. Registered'
  <2>1. IsFiniteSet(Open(h))
    BY Shape, FS_Subset DEF Open
  <2>2. PICK a, o : a = arrays[h] /\ o = clients[h]
    OBVIOUS
  <2>3. o \in Slice /\ Lists(a, o, Open(h)) /\ Removal(a, o, b, c, i, s) /\ i \in 1 .. o.len
    BY <1>2, <1>3, <2>2 DEF HubShape, Registered
  <2>4. Lists(b, c, Open(h) \ {s})
    <3>1. /\ a[o.array][i] = s /\ c.len = o.len - 1 /\ (c.len > 0 => c.array = o.array)
          /\ \A j \in 1 .. c.len : b[o.array][j] = IF j >= i THEN a[o.array][j + 1] ELSE a[o.array][j]
      BY <2>3 DEF Removal
    <3>2. PICK S : S = Open(h)
      OBVIOUS
    <3>3. IsFiniteSet(S) /\ s \in S /\ Lists(a, o, S)
      BY <1>2, <2>1, <2>3, <3>2
    <3>4. Lists(b, c, S \ {s})
      BY <2>3, <3>1, <3>3, Dropped
    <3> QED BY <3>2, <3>4
  <2>5. \A g \in Hubs : g # h => Lists(arrays'[g], clients'[g], Open(g)')
    BY <1>5, <1>6 DEF Registered
  <2>6. Lists(arrays'[h], clients'[h], Open(h)')
    BY <1>5, <1>6, <2>4
  <2> QED BY <2>5, <2>6 DEF Registered
<1>10. Visiting'
  <2> SUFFICES ASSUME NEW p \in Pushers, push'[p].alone
               PROVE  /\ push'[p].at # "panic" /\ ~push'[p].twice
                      /\ push'[p].at = "done" => push'[p].due = {}
                      /\ push'[p].at = "send" =>
                            /\ Covers(push'[p], arrays'[push'[p].hub])
                            /\ push'[p].due \subseteq Open(push[p].hub)'
                            /\ clients'[push'[p].hub].array = push'[p].slice.array
                                  => push'[p].slice.len <= clients'[push'[p].hub].len
    BY DEF Visiting, Open
  <2>1. PICK g, m : g = push[p].hub /\ m = push[p]
    OBVIOUS
  <2>2. g # h /\ push'[p] = m /\ g = push'[p].hub
    BY <1>7, <2>1
  <2>3. /\ m.alone /\ m.at # "panic" /\ ~m.twice
        /\ m.at = "done" => m.due = {}
        /\ m.at = "send" => /\ g \in Hubs /\ Covers(m, arrays[g]) /\ m.due \subseteq Open(g)
                            /\ clients[g].array = m.slice.array => m.slice.len <= clients[g].len
    BY <2>1, <2>2 DEF HubShape, Visiting
  <2>4. m.at = "send" => m.due \subseteq Open(g)' /\ arrays'[g] = arrays[g] /\ clients'[g] = clients[g]
    BY <1>5, <1>6, <2>2, <2>3
  <2>5. Open(g)' = Open(push[p].hub)'
    BY <2>2 DEF Open
  <2> QED BY <2>2, <2>3, <2>4, <2>5
<1> QED BY <1>8, <1>9, <1>10

\* The call of one pusher changes, and nothing else but the buffers.
LEMMA CallStep ==
    ASSUME HubInv, NEW p \in Pushers, NEW m \in Calling,
           UNCHANGED <<clients, arrays, stream>>, buffer' \in [Streams -> 0 .. Cap],
           push' = [push EXCEPT ![p] = m],
           m.at = "send" => /\ m.hub \in Hubs /\ m.slice.array # 0
                            /\ Backed(arrays[m.hub], m.slice),
           m.alone => /\ m.at # "panic" /\ ~m.twice
                      /\ m.at = "done" => m.due = {}
                      /\ m.at = "send" => /\ Covers(m, arrays[m.hub])
                                          /\ m.due \subseteq Open(m.hub)
                                          /\ clients[m.hub].array = m.slice.array
                                                => m.slice.len <= clients[m.hub].len
    PROVE  HubInv'
<1> USE DEF HubInv
<1>1. push' \in [Pushers -> Calling] /\ \A q \in Pushers : push'[q] = IF q = p THEN m ELSE push[q]
  BY DEF HubShape
<1>2. HubShape'
  BY <1>1 DEF HubShape
<1>3. \A h \in Hubs : Open(h)' = Open(h)
  BY DEF Open
<1>4. Registered'
  BY <1>3 DEF Registered
<1>5. Visiting'
  <2>1. \A q \in Pushers : Open(push[q].hub)' = Open(push'[q].hub)
    BY DEF Open
  <2> QED BY <1>1, <2>1 DEF Visiting
<1> QED BY <1>2, <1>4, <1>5

LEMMA PushCopiesKeeps ==
    ASSUME HubInv, NEW p \in Pushers, NEW h \in Hubs, PushCopies(p, h)
    PROVE  HubInv'
<1>1. PICK o, a, S : o = clients[h] /\ a = arrays[h] /\ S = Open(h)
  OBVIOUS
<1>2. o \in Slice /\ Backed(a, o) /\ Lists(a, o, S) /\ S \subseteq Streams
  BY <1>1 DEF HubInv, HubShape, Registered, Open
<1>3. PICK m : m = [at |-> IF o.array = 0 THEN "done" ELSE "send", hub |-> h, slice |-> o,
                    next |-> 1, due |-> S, twice |-> FALSE, alone |-> TRUE]
  OBVIOUS
<1>4. m \in Calling /\ push' = [push EXCEPT ![p] = m]
  BY <1>1, <1>2, <1>3 DEF Calling, PushCopies
<1>5. m.at = "done" => m.due = {}
  <2> SUFFICES ASSUME o.array = 0 PROVE S = {}
    BY <1>3
  <2>1. o.len = 0
    BY <1>2 DEF Backed
  <2> QED BY <1>2, <2>1 DEF Lists
<1>6. Covers(m, a)
  BY <1>2, <1>3 DEF Covers, Lists
<1>7. /\ m.at = "send" => m.slice.array # 0 /\ Backed(a, m.slice)
      /\ m.at # "panic" /\ ~m.twice /\ m.hub = h /\ m.due = S /\ m.slice = o /\ o.len \in Nat
  BY <1>2, <1>3 DEF Slice
<1>8. buffer' \in [Streams -> 0 .. Cap] /\ UNCHANGED <<clients, arrays, stream>>
  BY DEF HubInv, HubShape, PushCopies
<1>9. /\ m.at = "send" => /\ m.hub \in Hubs /\ m.slice.array # 0 /\ Backed(arrays[m.hub], m.slice)
      /\ Covers(m, arrays[m.hub]) /\ m.due \subseteq Open(m.hub)
      /\ clients[m.hub].array = m.slice.array => m.slice.len <= clients[m.hub].len
  <2>1. o.len <= o.len /\ arrays[m.hub] = a /\ clients[m.hub] = o /\ Open(m.hub) = S
    BY <1>1, <1>7
  <2> QED BY <1>6, <1>7, <2>1
<1> QED BY <1>4, <1>5, <1>7, <1>8, <1>9, CallStep

\* One turn of the loop of a call.
Turn(m, s) == [m EXCEPT !.next = m.next + 1, !.due = @ \ {s}, !.twice = @ \/ s \notin m.due]

LEMMA PushSendsKeeps ==
    ASSUME HubInv, NEW p \in Pushers, PushSends(p)
    PROVE  HubInv'
<1>1. PICK m, h : m = push[p] /\ h = m.hub
  OBVIOUS
<1>2. PICK a, n, s : a = arrays[h] /\ n = m.next /\ s = a[m.slice.array][n]
  OBVIOUS
<1>3. /\ m \in Calling /\ m.at = "send" /\ h \in Hubs /\ m.slice.array # 0 /\ Backed(a, m.slice)
      /\ m.slice \in Slice /\ m.slice.len \in Nat /\ n \in Nat \ {0} /\ m.due \subseteq Streams
  BY <1>1, <1>2 DEF HubInv, HubShape, PushSends, Calling, Slice
<1>4. m.alone => /\ ~m.twice /\ Covers(m, a) /\ m.due \subseteq Open(h)
                 /\ clients[h].array = m.slice.array => m.slice.len <= clients[h].len
  BY <1>1, <1>2, <1>3 DEF HubInv, Visiting
<1>5. UNCHANGED <<clients, arrays, stream>>
  BY DEF PushSends
<1>6. CASE n > m.slice.len
  <2>1. PICK q : q = [m EXCEPT !.at = "done"]
    OBVIOUS
  <2>2. push' = [push EXCEPT ![p] = q] /\ UNCHANGED buffer
    BY <1>1, <1>2, <1>6, <2>1 DEF PushSends
  <2>3. q \in Calling /\ q.at = "done" /\ q.due = m.due /\ q.twice = m.twice /\ q.alone = m.alone
    BY <1>3, <2>1 DEF Calling
  <2>4. m.alone => m.due = {}
    <3>1. m.next .. m.slice.len = {}
      BY <1>2, <1>3, <1>6
    <3> QED BY <1>4, <3>1 DEF Covers
  <2>5. buffer' \in [Streams -> 0 .. Cap]
    BY <2>2 DEF HubInv, HubShape
  <2> QED BY <1>4, <1>5, <2>2, <2>3, <2>4, <2>5, CallStep
<1>7. CASE ~(n > m.slice.len)
  <2>1. n \in 1 .. m.slice.len /\ n \in m.next .. m.slice.len
    BY <1>2, <1>3, <1>7
  <2>2. s \in Streams
    BY <1>2, <1>3, <2>1 DEF Backed
  <2>3. m.alone => s \in m.due /\ stream[s].state = "open"
    BY <1>2, <1>4, <2>1 DEF Covers, Open
  <2>4. CASE stream[s].state = "closed"
    <3>1. PICK q : q = [m EXCEPT !.at = "panic"]
      OBVIOUS
    <3>2. push' = [push EXCEPT ![p] = q] /\ UNCHANGED buffer
      BY <1>1, <1>2, <1>7, <2>4, <3>1 DEF PushSends
    <3>3. q \in Calling /\ q.at = "panic" /\ ~q.alone
      BY <1>3, <2>3, <2>4, <3>1 DEF Calling
    <3>4. buffer' \in [Streams -> 0 .. Cap]
      BY <3>2 DEF HubInv, HubShape
    <3> QED BY <1>5, <3>2, <3>3, <3>4, CallStep
  <2>5. CASE stream[s].state # "closed"
    <3>1. PICK q : q = Turn(m, s)
      OBVIOUS
    <3>2. /\ push' = [push EXCEPT ![p] = q]
          /\ buffer' = IF buffer[s] < Cap THEN [buffer EXCEPT ![s] = @ + 1] ELSE buffer
      <4>1. push' = [push EXCEPT ![p].next = m.next + 1, ![p].due = @ \ {s}, ![p].twice = @ \/ s \notin m.due]
        BY <1>1, <1>2, <1>7, <2>5 DEF PushSends
      <4>2. push' = [push EXCEPT ![p] = q]
        BY <1>1, <3>1, <4>1 DEF Turn, HubInv, HubShape
      <4> QED BY <1>1, <1>2, <1>7, <2>5, <4>2 DEF PushSends
    <3>3. /\ q \in Calling /\ q.at = "send" /\ q.hub = h /\ q.slice = m.slice /\ q.alone = m.alone
          /\ q.next = n + 1 /\ q.due = m.due \ {s} /\ (q.twice <=> m.twice \/ s \notin m.due)
      <4>1. m.twice \in BOOLEAN /\ m.alone \in BOOLEAN
        BY <1>3 DEF Calling
      <4>2. PICK w \in BOOLEAN : w = (m.twice \/ s \notin m.due)
        BY <4>1
      <4>3. q = [m EXCEPT !.next = n + 1, !.due = m.due \ {s}, !.twice = w]
        BY <1>2, <1>3, <3>1, <4>2 DEF Turn, Calling
      <4>4. /\ q \in Calling /\ q.at = "send" /\ q.hub = h /\ q.slice = m.slice /\ q.alone = m.alone
            /\ q.next = n + 1 /\ q.due = m.due \ {s} /\ q.twice = w
        <5>1. n + 1 \in Nat \ {0} /\ m.due \ {s} \in SUBSET Streams
          BY <1>3
        <5>2. q \in Calling
          BY <1>3, <4>3, <5>1 DEF Calling
        <5>3. /\ q.at = m.at /\ q.hub = m.hub /\ q.slice = m.slice /\ q.alone = m.alone
              /\ q.next = n + 1 /\ q.due = m.due \ {s} /\ q.twice = w
          BY <1>3, <4>3 DEF Calling
        <5> QED BY <1>1, <1>3, <5>2, <5>3
      <4> QED BY <4>2, <4>4
    <3>4. buffer' \in [Streams -> 0 .. Cap]
      <4>1. buffer \in [Streams -> 0 .. Cap] /\ Cap \in Nat
        BY Shape DEF HubInv, HubShape
      <4> QED BY <2>2, <3>2, <4>1
    <3>5. m.alone => Covers(q, a)
      <4> SUFFICES ASSUME m.alone PROVE Covers(q, a)
        OBVIOUS
      <4>1. \A i \in q.next .. m.slice.len : i \in m.next .. m.slice.len /\ i # n
        BY <1>2, <1>3, <3>3
      <4>2. \A i \in m.next .. m.slice.len : i = n \/ i \in q.next .. m.slice.len
        BY <1>2, <1>3, <3>3
      <4>3. PICK v : v = a[m.slice.array]
        OBVIOUS
      <4>4. /\ \A i \in m.next .. m.slice.len : v[i] \in m.due
            /\ \A i, j \in m.next .. m.slice.len : v[i] = v[j] => i = j
            /\ \A t \in m.due : \E i \in m.next .. m.slice.len : v[i] = t
            /\ v[n] = s
        BY <1>2, <1>4, <4>3 DEF Covers
      <4>5. /\ \A i \in q.next .. m.slice.len : v[i] \in q.due
            /\ \A i, j \in q.next .. m.slice.len : v[i] = v[j] => i = j
            /\ \A t \in q.due : \E i \in q.next .. m.slice.len : v[i] = t
        BY <2>1, <3>3, <4>1, <4>2, <4>4
      <4> QED BY <3>3, <4>3, <4>5 DEF Covers
    <3>6. m.alone => ~q.twice /\ q.due \subseteq Open(h)
      BY <1>4, <2>3, <3>3
    <3> QED BY <1>2, <1>3, <1>4, <1>5, <3>2, <3>3, <3>4, <3>5, <3>6, CallStep
  <2> QED BY <2>4, <2>5
<1> QED BY <1>6, <1>7

LEMMA HubInvInit == ASSUME HubInit PROVE HubInv
<1> USE DEF HubInit
<1>1. \A h \in Hubs : Open(h) = {}
  BY DEF Open
<1>2. \A h \in Hubs : Backed(arrays[h], clients[h]) /\ Lists(arrays[h], clients[h], {})
  <2>1. /\ Len(<<>>) = 0 /\ Cardinality({}) = 0
        /\ \A h \in Hubs : arrays[h] = <<>> /\ clients[h].array = 0 /\ clients[h].len = 0
    BY FS_EmptySet
  <2> QED BY <2>1 DEF Backed, Lists
<1>3. HubShape
  <2>1. clients \in [Hubs -> Slice] /\ arrays \in [Hubs -> Arrays]
    BY DEF Slice, Arrays
  <2>2. stream \in [Streams -> Ends] /\ buffer \in [Streams -> 0 .. Cap]
    BY Shape DEF Ends
  <2>3. push \in [Pushers -> Calling] /\ \A p \in Pushers : push[p].at = "idle"
    BY DEF Calling, Quiet, Slice
  <2> QED BY <1>2, <2>1, <2>2, <2>3 DEF HubShape
<1>4. Registered
  BY <1>1, <1>2 DEF Registered
<1>5. Visiting
  BY DEF Visiting, Quiet
<1> QED BY <1>3, <1>4, <1>5 DEF HubInv

LEMMA RestartKeeps == ASSUME HubInv, HubRestart PROVE HubInv'
<1> USE DEF HubRestart
<1>1. \A h \in Hubs : Open(h)' = {}
  BY DEF Open, Closed, HubInv, HubShape
<1>2. \A h \in Hubs : Backed(arrays'[h], clients'[h]) /\ Lists(arrays'[h], clients'[h], {})
  <2>1. /\ Len(<<>>) = 0 /\ Cardinality({}) = 0
        /\ \A h \in Hubs : arrays'[h] = <<>> /\ clients'[h].array = 0 /\ clients'[h].len = 0
    BY FS_EmptySet
  <2> QED BY <2>1 DEF Backed, Lists
<1>3. HubShape'
  <2>1. clients' \in [Hubs -> Slice] /\ arrays' \in [Hubs -> Arrays]
    BY DEF Slice, Arrays
  <2>2. /\ stream' \in [Streams -> Ends] /\ buffer' \in [Streams -> 0 .. Cap]
        /\ \A s \in Streams : stream'[s].state = "open" => stream'[s].hub \in Hubs
    BY Shape DEF Ends, Closed, HubInv, HubShape
  <2>3. push' \in [Pushers -> Calling] /\ \A p \in Pushers : push'[p].at = "idle"
    BY DEF Calling, Quiet, Slice
  <2> QED BY <1>2, <2>1, <2>2, <2>3 DEF HubShape
<1>4. Registered'
  BY <1>1, <1>2 DEF Registered
<1>5. Visiting'
  BY DEF Visiting, Quiet
<1> QED BY <1>3, <1>4, <1>5 DEF HubInv

LEMMA HubInvStep == ASSUME HubInv, HubStep PROVE HubInv'
<1>1. ASSUME NEW s \in Streams, Connection(s) PROVE HubInv'
  <2>1. ASSUME NEW h \in Hubs, Subscribe(s, h) PROVE HubInv'
    BY <2>1, SubscribeKeeps
  <2>2. CASE Unsubscribe(s)
    BY <2>2, UnsubscribeKeeps
  <2>3. CASE Serve(s)
    <3>1. buffer' \in [Streams -> 0 .. Cap] /\ UNCHANGED <<clients, arrays, stream, push>>
      <4>1. buffer \in [Streams -> 0 .. Cap] /\ Cap \in Nat
        BY Shape DEF HubInv, HubShape
      <4> QED BY <2>3, <4>1 DEF Serve
    <3>2. HubShape' /\ Registered' /\ Visiting'
      BY <3>1 DEF HubInv, HubShape, Registered, Visiting, Open
    <3> QED BY <3>2 DEF HubInv
  <2> QED BY <1>1, <2>1, <2>2, <2>3 DEF Connection
<1>2. ASSUME NEW p \in Pushers, NEW h \in Hubs, PushCopies(p, h) PROVE HubInv'
  BY <1>2, PushCopiesKeeps
<1>3. ASSUME NEW p \in Pushers, PushSends(p) PROVE HubInv'
  BY <1>3, PushSendsKeeps
<1>4. ASSUME NEW p \in Pushers, Forget(p) PROVE HubInv'
  <2>1. /\ Quiet \in Calling /\ Quiet.at = "idle" /\ ~Quiet.twice
        /\ buffer' \in [Streams -> 0 .. Cap] /\ UNCHANGED <<clients, arrays, stream>>
        /\ push' = [push EXCEPT ![p] = Quiet]
    BY <1>4 DEF Quiet, Calling, Slice, Forget, HubInv, HubShape
  <2> QED BY <2>1, CallStep
<1>5. CASE HubRestart
  BY <1>5, RestartKeeps
<1>6. CASE UNCHANGED hubVars
  BY <1>6 DEF hubVars, HubInv, HubShape, Registered, Visiting, Open
<1> QED BY <1>1, <1>2, <1>3, <1>4, <1>5, <1>6 DEF HubStep

\* The inductive invariant of the hubs.
THEOREM HubInvariant == Spec => []HubInv
<1>1. Init => HubInv
  BY HubInvInit DEF Init
<1>2. HubInv /\ [Next]_vars => HubInv'
  BY HubStepOf, HubInvStep
<1> QED BY <1>1, <1>2, PTL DEF Spec

\* Every hub's slice lists each open channel of the user once and no closed
\* one (SSEHub and StreamHub, Subscribe and Unsubscribe).
THEOREM RegistryHolds == Spec => []RegistryExact
<1>1. HubInv => RegistryExact
  <2> SUFFICES ASSUME HubInv, NEW h \in Hubs
               PROVE  /\ {Live(h)[i] : i \in DOMAIN Live(h)} = Open(h)
                      /\ Cardinality(Open(h)) = clients[h].len
    BY DEF RegistryExact
  <2>1. PICK a, o, S : a = arrays[h] /\ o = clients[h] /\ S = Open(h)
    OBVIOUS
  <2>2. Lists(a, o, S)
    BY <2>1 DEF HubInv, Registered
  <2>3. Live(h) = [i \in 1 .. o.len |-> a[o.array][i]]
    BY <2>1 DEF Live
  <2>4. {Live(h)[i] : i \in DOMAIN Live(h)} = S
    BY <2>2, <2>3 DEF Lists
  <2> QED BY <2>1, <2>2, <2>4 DEF Lists
<1> QED BY <1>1, HubInvariant, PTL

\* A push beside which no stream unsubscribed offers its item exactly once to
\* every stream that was open, and meets no closed channel (Push of both hubs).
THEOREM PushVisits == Spec => []PushVisitsEach
<1>1. HubInv => PushVisitsEach
  BY DEF HubInv, Visiting, PushVisitsEach
<1> QED BY <1>1, HubInvariant, PTL

-----------------------------------------------------------------------------
(* The activities, the rows and the queue.                                   *)

Jobs == {"none", "mark", "count"} \cup Kinds \cup Sends
Pcs  == {"idle", "create", "incr", "push", "pushing", "push2", "pushing2", "ack",
         "decr", "clamp", "zero", "count", "setcount"}
Acts == [job : Jobs, pc : Pcs, n : Nat, event : Nat, alone : BOOLEAN]
Row  == [type : (Kinds \ {"own"}) \cup Sends, event : 0 .. MaxEvents, read : BOOLEAN]

\* What a worker, and what a request, can be at.
Worked(a, last) ==
    /\ a.job \in Kinds /\ a.event \in 1 .. last
    /\ a.pc \in {"create", "incr", "push", "pushing", "ack"}
    /\ a.job = "own" => a.pc \in {"create", "ack"}
Called(a) ==
    /\ a.event = 0
    /\ \/ a.job \in Sends /\ a.pc \in {"incr", "push", "pushing", "push2", "pushing2"}
       \/ a.job = "mark" /\ a.pc \in {"decr", "clamp", "zero"}
       \/ a.job = "count" /\ a.pc \in {"count", "setcount"}

Acting(A) ==
    /\ A \in [Pushers -> Acts]
    /\ \A p \in Pushers : A[p].pc = "idle" => A[p] = Idle

Working(A, last) ==
    /\ \A w \in Workers : A[w].pc = "idle" \/ Worked(A[w], last)
    /\ \A c \in Callers : A[c].pc = "idle" \/ Called(A[c])

Counters == count \in Int /\ hasKey \in BOOLEAN /\ (~hasKey => count = 0) /\ disturbed \in BOOLEAN
Limits   == /\ arrived \in Seq(Kinds \cup {"missed"}) /\ Len(arrived) <= MaxEvents
            /\ calls \in Nat /\ calls <= MaxCalls
            /\ failures \in Nat /\ failures <= MaxFailures /\ redone \in Nat

RowShape ==
    /\ Acting(act) /\ Working(act, Len(arrived))
    /\ rows \in Seq(Row) /\ queue \in Seq(Event) /\ Counters /\ Limits
    /\ \A a \in Pushers : act[a].n <= Len(rows)
    /\ \A i \in DOMAIN rows : rows[i].event <= Len(arrived)
    /\ \A i \in DOMAIN queue : queue[i].id <= Len(arrived)
    /\ \A p \in Pushers : push[p].at # "idle" => act[p].pc \in {"pushing", "pushing2"}

Same(a, b) == a.job = b.job /\ a.pc = b.pc /\ a.n = b.n /\ a.event = b.event

\* Only the activity of a changes; others may lose their being alone.
Becomes(a, job, pc, n, e) ==
    /\ Acting(act')
    /\ act'[a].job = job /\ act'[a].pc = pc /\ act'[a].n = n /\ act'[a].event = e
    /\ \A x \in Pushers \ {a} : Same(act'[x], act[x]) /\ (act'[x].alone => act[x].alone)
    /\ act[a].pc = "idle" => \A x \in Pushers \ {a} : ~act'[x].alone
Keeps(a, pc) == Becomes(a, act[a].job, pc, act[a].n, act[a].event)
Leaves(a)    == Becomes(a, "none", "idle", 0, 0)

LEMMA StartEffect ==
    ASSUME Acting(act), NEW a \in Pushers, NEW job \in Jobs, NEW pc \in Pcs \ {"idle"},
           NEW n \in Nat, NEW e \in Nat, Start(a, job, pc, n, e)
    PROVE  /\ Becomes(a, job, pc, n, e)
           /\ act'[a].alone => \A y \in Pushers \ {a} : act[y] = Idle
           /\ \A x \in Pushers \ {a} : ~act'[x].alone
<1> USE DEF Acting
<1>1. PICK g \in BOOLEAN : g = \A y \in Pushers \ {a} : act[y] = Idle
  OBVIOUS
<1>2. PICK r : r = [job |-> job, pc |-> pc, n |-> n, event |-> e, alone |-> g]
  OBVIOUS
<1>3. act' = [x \in Pushers |-> IF x = a THEN r ELSE [act[x] EXCEPT !.alone = FALSE]]
  BY <1>1, <1>2 DEF Start
<1>4. r \in Acts
  BY <1>2 DEF Acts
<1>5. \A b \in Acts : /\ [b EXCEPT !.alone = FALSE] \in Acts /\ Same([b EXCEPT !.alone = FALSE], b)
                      /\ ~[b EXCEPT !.alone = FALSE].alone
                      /\ b = Idle => [b EXCEPT !.alone = FALSE] = Idle
  <2>1. \A b \in Acts : /\ [b EXCEPT !.alone = FALSE] \in Acts /\ Same([b EXCEPT !.alone = FALSE], b)
                        /\ ~[b EXCEPT !.alone = FALSE].alone
    BY DEF Acts, Same
  <2>2. [Idle EXCEPT !.alone = FALSE] = Idle
    <3>1. Idle.alone = FALSE /\ Idle = [x \in DOMAIN Idle |-> Idle[x]]
      BY DEF Idle
    <3>2. [Idle EXCEPT !.alone = FALSE] = [x \in DOMAIN Idle |-> IF x = "alone" THEN FALSE ELSE Idle[x]]
      BY Zenon
    <3> QED BY <3>1, <3>2
  <2> QED BY <2>1, <2>2
<1>6. act' \in [Pushers -> Acts] /\ act'[a] = r
      /\ \A x \in Pushers \ {a} : act'[x] = [act[x] EXCEPT !.alone = FALSE]
  <2>1. \A x \in Pushers : [act[x] EXCEPT !.alone = FALSE] \in Acts
    BY <1>5
  <2>2. act' \in [Pushers -> Acts]
    BY <1>3, <1>4, <2>1
  <2> QED BY <1>3, <2>2
<1>7. \A x \in Pushers \ {a} : Same(act'[x], act[x]) /\ ~act'[x].alone /\ (act[x] = Idle => act'[x] = Idle)
  <2> SUFFICES ASSUME NEW x \in Pushers \ {a}
               PROVE  Same(act'[x], act[x]) /\ ~act'[x].alone /\ (act[x] = Idle => act'[x] = Idle)
    OBVIOUS
  <2>1. PICK b \in Acts : b = act[x]
    OBVIOUS
  <2>2. act'[x] = [b EXCEPT !.alone = FALSE]
    BY <1>6, <2>1
  <2> QED BY <1>5, <2>1, <2>2
<1>8. \A p \in Pushers : act'[p].pc = "idle" => act'[p] = Idle
  BY <1>2, <1>6, <1>7 DEF Same
<1>9. act'[a].job = job /\ act'[a].pc = pc /\ act'[a].n = n /\ act'[a].event = e /\ act'[a].alone = g
  BY <1>2, <1>6
<1> QED BY <1>1, <1>6, <1>7, <1>8, <1>9 DEF Becomes

LEMMA GotoEffect ==
    ASSUME Acting(act), NEW a \in Pushers, act[a].pc # "idle", NEW pc \in Pcs \ {"idle"}, Goto(a, pc)
    PROVE  Keeps(a, pc)
<1> USE DEF Acting
<1>1. PICK r : r = [act[a] EXCEPT !.pc = pc]
  OBVIOUS
<1>2. r \in Acts /\ r.pc = pc /\ r.job = act[a].job /\ r.n = act[a].n /\ r.event = act[a].event
  BY <1>1 DEF Acts
<1>3. act' = [act EXCEPT ![a] = r]
  BY <1>1 DEF Goto
<1>4. act' \in [Pushers -> Acts] /\ act'[a] = r /\ \A x \in Pushers \ {a} : act'[x] = act[x]
  BY <1>2, <1>3
<1> QED BY <1>2, <1>4 DEF Keeps, Becomes, Same

LEMMA DoneEffect ==
    ASSUME Acting(act), NEW a \in Pushers, act[a].pc # "idle", Done(a)
    PROVE  Leaves(a)
<1> USE DEF Acting
<1>1. Idle \in Acts /\ Idle.job = "none" /\ Idle.pc = "idle" /\ Idle.n = 0 /\ Idle.event = 0
  BY DEF Idle, Acts, Jobs, Pcs
<1>2. act' \in [Pushers -> Acts] /\ act'[a] = Idle /\ \A x \in Pushers \ {a} : act'[x] = act[x]
  BY <1>1 DEF Done
<1> QED BY <1>1, <1>2 DEF Leaves, Becomes, Same

\* The shape of what a is at, at its next place.
LEMMA WorkingStep ==
    ASSUME Acting(act), NEW last \in Nat, Working(act, last), NEW new \in Nat, last <= new,
           NEW a \in Pushers, NEW job, NEW pc, NEW n, NEW e, Becomes(a, job, pc, n, e),
           pc # "idle" => /\ a \in Workers => Worked([job |-> job, pc |-> pc, event |-> e], new)
                          /\ a \in Callers => Called([job |-> job, pc |-> pc, event |-> e])
    PROVE  Working(act', new)
<1>1. ASSUME NEW w \in Workers, act'[w].pc # "idle" PROVE Worked(act'[w], new)
  <2>1. CASE w = a
    BY <1>1, <2>1 DEF Becomes, Worked
  <2>2. CASE w # a
    <3>1. w \in Pushers \ {a}
      BY <2>2, Actors
    <3>2. Same(act'[w], act[w]) /\ Worked(act[w], last)
      BY <1>1, <3>1 DEF Becomes, Same, Working
    <3>3. \A i \in 1 .. last : i \in 1 .. new
      OBVIOUS
    <3> QED BY <3>2, <3>3 DEF Same, Worked
  <2> QED BY <2>1, <2>2
<1>2. ASSUME NEW c \in Callers, act'[c].pc # "idle" PROVE Called(act'[c])
  <2>1. CASE c = a
    BY <1>2, <2>1 DEF Becomes, Called
  <2>2. CASE c # a
    <3>1. c \in Pushers \ {a}
      BY <2>2, Actors
    <3>2. Same(act'[c], act[c]) /\ Called(act[c])
      BY <1>2, <3>1 DEF Becomes, Same, Working
    <3> QED BY <3>2 DEF Same, Called
  <2> QED BY <2>1, <2>2
<1> QED BY <1>1, <1>2 DEF Working

LEMMA CountersSame == ASSUME Counters, UNCHANGED <<counter, disturbed>> PROVE Counters'
  BY DEF Counters, counter

LEMMA LimitsSame ==
    ASSUME Limits, UNCHANGED bounds \/ Failing \/ (\E c \in Pushers : Call(c))
    PROVE  Limits' /\ Len(arrived') = Len(arrived)
<1>1. UNCHANGED arrived /\ Len(arrived') = Len(arrived) /\ UNCHANGED redone
  BY DEF bounds, Failing, Call
<1>2. calls' \in Nat /\ calls' <= MaxCalls /\ failures' \in Nat /\ failures' <= MaxFailures
  BY Actors DEF Limits, bounds, Failing, Call
<1> QED BY <1>1, <1>2 DEF Limits

LEMMA RowShapeStep ==
    ASSUME RowShape, NEW a \in Pushers, NEW job, NEW pc, NEW n, NEW e, Becomes(a, job, pc, n, e),
           pc # "idle" => /\ a \in Workers => Worked([job |-> job, pc |-> pc, event |-> e], Len(arrived))
                          /\ a \in Callers => Called([job |-> job, pc |-> pc, event |-> e]),
           n <= Len(rows'), Len(rows) <= Len(rows'), rows' \in Seq(Row), queue' \in Seq(Event),
           \A i \in DOMAIN rows' : rows'[i].event <= Len(arrived),
           \A i \in DOMAIN queue' : queue'[i].id <= Len(arrived),
           Counters', Limits', Len(arrived') = Len(arrived),
           \A p \in Pushers : push'[p].at # "idle" =>
              IF p = a THEN pc \in {"pushing", "pushing2"} ELSE push[p].at # "idle"
    PROVE  RowShape'
<1>1. Len(arrived) \in Nat /\ Len(rows) \in Nat /\ Len(rows') \in Nat
  BY LenProperties DEF RowShape, Limits
<1>2. Working(act', Len(arrived'))
  BY <1>1, WorkingStep DEF RowShape
<1>3. ASSUME NEW x \in Pushers PROVE act'[x].n <= Len(rows')
  <2>1. CASE x = a
    BY <2>1 DEF Becomes
  <2>2. CASE x # a
    <3>1. act'[x].n = act[x].n /\ act[x].n <= Len(rows) /\ act[x].n \in Nat
      BY <2>2 DEF Becomes, Same, RowShape, Acting, Acts
    <3> QED BY <1>1, <3>1
  <2> QED BY <2>1, <2>2
<1>4. ASSUME NEW p \in Pushers, push'[p].at # "idle" PROVE act'[p].pc \in {"pushing", "pushing2"}
  <2>1. CASE p = a
    BY <1>4, <2>1 DEF Becomes
  <2>2. CASE p # a
    BY <1>4, <2>2 DEF Becomes, Same, RowShape
  <2> QED BY <2>1, <2>2
<1>5. Acting(act')
  BY DEF Becomes
<1>6. /\ \A i \in DOMAIN rows' : rows'[i].event <= Len(arrived')
      /\ \A i \in DOMAIN queue' : queue'[i].id <= Len(arrived')
  OBVIOUS
<1> QED BY <1>2, <1>3, <1>4, <1>5, <1>6 DEF RowShape

\* The hub's calls stay in their place while the activities do.
LEMMA PushSame ==
    ASSUME RowShape, HubShape, UNCHANGED <<rows, queue, act, counter, disturbed, bounds>>,
           \A p \in Pushers : push'[p].at # "idle" => push[p].at # "idle"
    PROVE  RowShape'
<1>1. Counters' /\ Limits' /\ UNCHANGED arrived
  BY CountersSame, LimitsSame DEF RowShape, bounds
<1> QED BY <1>1 DEF RowShape

\* The row that is written for e.
LEMMA Inserted ==
    ASSUME RowShape, NEW type \in (Kinds \ {"own"}) \cup Sends, NEW e \in 0 .. Len(arrived),
           Insert(type, e)
    PROVE  /\ rows' \in Seq(Row) /\ Len(rows') = Len(rows) + 1 /\ Len(rows) \in Nat
           /\ DOMAIN rows' = DOMAIN rows \cup {Len(rows) + 1} /\ Len(rows) + 1 \notin DOMAIN rows
           /\ \A i \in DOMAIN rows : rows'[i] = rows[i]
           /\ rows'[Len(rows) + 1] = [type |-> type, event |-> e, read |-> FALSE]
           /\ \A i \in DOMAIN rows' : rows'[i].event <= Len(arrived)
<1>1. PICK r : r = [type |-> type, event |-> e, read |-> FALSE]
  OBVIOUS
<1>2. Len(arrived) \in Nat /\ Len(arrived) <= MaxEvents /\ MaxEvents \in Nat
  BY Actors, LenProperties DEF RowShape, Limits
<1>3. r \in Row /\ r.event <= Len(arrived)
  BY <1>1, <1>2 DEF Row
<1>4. rows \in Seq(Row) /\ rows' = Append(rows, r)
  BY <1>1 DEF RowShape, Insert
<1>5. /\ rows' \in Seq(Row) /\ Len(rows') = Len(rows) + 1 /\ Len(rows) \in Nat
      /\ \A i \in 1 .. Len(rows) : rows'[i] = rows[i]
      /\ rows'[Len(rows) + 1] = r
      /\ DOMAIN rows = 1 .. Len(rows) /\ DOMAIN rows' = 1 .. Len(rows')
  BY <1>3, <1>4, AppendProperties, LenProperties
<1>6. /\ DOMAIN rows' = DOMAIN rows \cup {Len(rows) + 1} /\ Len(rows) + 1 \notin DOMAIN rows
  BY <1>5
<1>7. \A i \in DOMAIN rows' : rows'[i].event <= Len(arrived)
  BY <1>3, <1>5, <1>6 DEF RowShape
<1> QED BY <1>1, <1>5, <1>6, <1>7

\* A step of a at which neither rows, queue nor events change.
LEMMA ShapeOfMove ==
    ASSUME RowShape, NEW a \in Pushers, NEW job, NEW pc, NEW n, NEW e, Becomes(a, job, pc, n, e),
           pc # "idle" => /\ a \in Workers => Worked([job |-> job, pc |-> pc, event |-> e], Len(arrived))
                          /\ a \in Callers => Called([job |-> job, pc |-> pc, event |-> e]),
           n <= Len(rows), UNCHANGED <<rows, queue>>,
           Counters', UNCHANGED bounds \/ Failing \/ (\E c \in Pushers : Call(c)),
           \A p \in Pushers : push'[p].at # "idle" =>
              IF p = a THEN pc \in {"pushing", "pushing2"} ELSE push[p].at # "idle"
    PROVE  RowShape'
<1>1. Limits' /\ Len(arrived') = Len(arrived)
  BY LimitsSame DEF RowShape
<1>2. rows' \in Seq(Row) /\ queue' \in Seq(Event) /\ Len(rows) <= Len(rows') /\ n <= Len(rows')
  BY LenProperties DEF RowShape
<1>3. /\ \A i \in DOMAIN rows' : rows'[i].event <= Len(arrived)
      /\ \A i \in DOMAIN queue' : queue'[i].id <= Len(arrived)
  BY DEF RowShape
<1> QED BY <1>1, <1>2, <1>3, RowShapeStep

\* What a worker and a request are at, read off their pc.
LEMMA WorkerAt ==
    ASSUME RowShape, NEW w \in Workers, act[w].pc # "idle"
    PROVE  /\ w \in Pushers /\ w \notin Callers /\ act[w] \in Acts /\ Worked(act[w], Len(arrived))
           /\ act[w].n <= Len(rows) /\ act[w].event \in 1 .. Len(arrived)
  BY Actors DEF RowShape, Acting, Working, Worked

LEMMA CallerAt ==
    ASSUME RowShape, NEW c \in Callers, act[c].pc # "idle"
    PROVE  /\ c \in Pushers /\ c \notin Workers /\ act[c] \in Acts /\ Called(act[c])
           /\ act[c].n <= Len(rows)
  BY Actors DEF RowShape, Acting, Working, Called

\* While an activity is not pushing, its hub call is not under way.
LEMMA PushIdle ==
    ASSUME RowShape, HubShape, NEW a \in Pushers, act[a].pc \notin {"pushing", "pushing2"}, UNCHANGED hubVars
    PROVE  \A p \in Pushers : push'[p].at # "idle" => p # a /\ push[p].at # "idle"
  BY DEF RowShape, hubVars

LEMMA DeliverShape ==
    ASSUME RowShape, HubShape, NEW w \in Workers, Deliver(w)
    PROVE  /\ RowShape' /\ Becomes(w, Head(queue).kind, "create", 0, Head(queue).id)
           /\ Head(queue) \in Event /\ Head(queue).id \in 1 .. Len(arrived)
<1>1. w \in Pushers /\ w \notin Callers /\ act[w] = Idle /\ queue # <<>> /\ act[w].pc = "idle"
  BY Actors DEF Deliver, Idle
<1>2. /\ queue \in Seq(Event) /\ Head(queue) \in Event /\ Tail(queue) \in Seq(Event)
      /\ DOMAIN queue = 1 .. Len(queue) /\ Head(queue) = queue[1] /\ 1 \in DOMAIN queue
      /\ \A i \in DOMAIN Tail(queue) : i + 1 \in DOMAIN queue /\ Tail(queue)[i] = queue[i + 1]
  <2>1. queue \in Seq(Event) /\ queue # <<>>
    BY <1>1 DEF RowShape
  <2>2. Head(queue) \in Event /\ Tail(queue) \in Seq(Event) /\ Len(Tail(queue)) = Len(queue) - 1
        /\ \A i \in 1 .. Len(Tail(queue)) : Tail(queue)[i] = queue[i + 1]
    BY <2>1, HeadTailProperties
  <2>3. Len(queue) \in Nat /\ DOMAIN queue = 1 .. Len(queue) /\ DOMAIN Tail(queue) = 1 .. Len(Tail(queue))
    BY <2>1, <2>2, LenProperties
  <2>4. Len(queue) >= 1 /\ Head(queue) = queue[1]
    BY <2>1, <2>3, EmptySeq
  <2> QED BY <2>1, <2>2, <2>3, <2>4
<1>3. PICK k, e : k = Head(queue).kind /\ e = Head(queue).id
  OBVIOUS
<1>4. k \in Kinds /\ e \in 1 .. Len(arrived) /\ Len(arrived) \in Nat
  <2>1. e <= Len(arrived) /\ Len(arrived) \in Nat
    BY <1>2, <1>3, LenProperties DEF RowShape, Limits
  <2>2. k \in Kinds /\ e \in 1 .. MaxEvents /\ MaxEvents \in Nat
    BY <1>2, <1>3, Actors DEF Event
  <2> QED BY <2>1, <2>2
<1>5. Becomes(w, k, "create", 0, e)
  <2>1. k \in Jobs /\ "create" \in Pcs \ {"idle"} /\ 0 \in Nat /\ e \in Nat
    BY <1>4 DEF Jobs, Pcs
  <2>2. Start(w, k, "create", 0, e) /\ Acting(act)
    BY <1>3 DEF Deliver, RowShape
  <2> QED BY <1>1, <2>1, <2>2, StartEffect
<1>6. Worked([job |-> k, pc |-> "create", event |-> e], Len(arrived))
  BY <1>4 DEF Worked
<1>7. /\ queue' = Tail(queue) /\ UNCHANGED <<hubVars, rows, counter, bounds, disturbed>>
  BY DEF Deliver
<1>8. Counters' /\ Limits' /\ Len(arrived') = Len(arrived)
  BY <1>7, CountersSame, LimitsSame DEF RowShape
<1>9. /\ rows' \in Seq(Row) /\ queue' \in Seq(Event) /\ Len(rows) <= Len(rows') /\ 0 <= Len(rows')
      /\ \A i \in DOMAIN rows' : rows'[i].event <= Len(arrived)
  BY <1>2, <1>7, LenProperties DEF RowShape
<1>10. \A i \in DOMAIN queue' : queue'[i].id <= Len(arrived)
  BY <1>2, <1>7 DEF RowShape
<1>11. \A p \in Pushers : push'[p].at # "idle" => p # w /\ push[p].at # "idle"
  <2>1. act[w].pc \notin {"pushing", "pushing2"}
    BY <1>1
  <2> QED BY <1>1, <1>7, <2>1, PushIdle
<1>12. RowShape'
  BY <1>1, <1>5, <1>6, <1>8, <1>9, <1>10, <1>11, RowShapeStep
<1> QED BY <1>2, <1>3, <1>4, <1>5, <1>12

\* Deliveries put back in front of the queue.
LEMMA InFront ==
    ASSUME NEW T, NEW b \in Seq(T), NEW q \in Seq(T)
    PROVE  /\ b \o q \in Seq(T) /\ Len(b) \in Nat /\ Len(q) \in Nat
           /\ DOMAIN (b \o q) = 1 .. Len(b) + Len(q) /\ DOMAIN b = 1 .. Len(b) /\ DOMAIN q = 1 .. Len(q)
           /\ \A i \in DOMAIN b : (b \o q)[i] = b[i] /\ i \in DOMAIN (b \o q)
           /\ \A i \in DOMAIN q : (b \o q)[Len(b) + i] = q[i] /\ Len(b) + i \in DOMAIN (b \o q)
           /\ \A i \in DOMAIN (b \o q) : i \in DOMAIN b \/ (i - Len(b) \in DOMAIN q /\ (b \o q)[i] = q[i - Len(b)])
<1>1. Len(b) \in Nat /\ Len(q) \in Nat /\ DOMAIN b = 1 .. Len(b) /\ DOMAIN q = 1 .. Len(q)
  BY LenProperties
<1>2. /\ b \o q \in Seq(T) /\ Len(b \o q) = Len(b) + Len(q)
      /\ \A i \in 1 .. Len(b) + Len(q) : (b \o q)[i] = IF i <= Len(b) THEN b[i] ELSE q[i - Len(b)]
  BY ConcatProperties
<1>3. DOMAIN (b \o q) = 1 .. Len(b) + Len(q)
  BY <1>2, LenProperties
<1>4. \A i \in DOMAIN b : i \in 1 .. Len(b) + Len(q) /\ i <= Len(b)
  BY <1>1
<1>5. \A i \in DOMAIN q : Len(b) + i \in 1 .. Len(b) + Len(q) /\ ~(Len(b) + i <= Len(b)) /\ (Len(b) + i) - Len(b) = i
  BY <1>1
<1>6. \A i \in 1 .. Len(b) + Len(q) : i \in DOMAIN b \/ (i - Len(b) \in DOMAIN q /\ ~(i <= Len(b)))
  BY <1>1
<1> QED BY <1>1, <1>2, <1>3, <1>4, <1>5, <1>6

\* What process does with a delivery (NotificationWorker.process).
Ignores(w) == act[w].job = "own" /\ Keeps(w, "ack") /\ UNCHANGED <<rows, queue, bounds, disturbed>>
Writes(w)  == /\ act[w].job # "own" /\ Insert(act[w].job, act[w].event)
              /\ Becomes(w, act[w].job, IF Counted(act[w].job) THEN "incr" ELSE "push",
                         Len(rows) + 1, act[w].event)
              /\ UNCHANGED <<queue, bounds, disturbed>>
Requeues(w) == /\ Failing /\ Leaves(w) /\ queue' = <<InHand(w)>> \o queue
               /\ UNCHANGED <<rows, disturbed>>
Repeats(w) == /\ act[w].job # "own" /\ Insert(act[w].job, act[w].event) /\ redone' = redone + 1
              /\ failures < MaxFailures /\ failures' = failures + 1
              /\ Leaves(w) /\ queue' = <<InHand(w)>> \o queue
              /\ disturbed' = (disturbed \/ Counted(act[w].job))
              /\ UNCHANGED <<arrived, calls>>
Misses(w)  == /\ Keeps(w, "ack")
              /\ failures < MaxFailures /\ failures' = failures + 1
              /\ arrived' = [arrived EXCEPT ![act[w].event] = "missed"]
              /\ UNCHANGED <<rows, queue, calls, redone, disturbed>>

LEMMA ProcessMoves ==
    ASSUME RowShape, NEW w \in Workers, Process(w)
    PROVE  Ignores(w) \/ Writes(w) \/ Requeues(w) \/ Repeats(w) \/ Misses(w)
<1>1. /\ w \in Pushers /\ act[w] \in Acts /\ Worked(act[w], Len(arrived)) /\ Acting(act)
      /\ Len(rows) \in Nat /\ act[w].pc = "create"
  BY WorkerAt, LenProperties DEF Process, RowShape
<1>2. Goto(w, "ack") => Keeps(w, "ack")
  BY <1>1, GotoEffect DEF Pcs
<1>3. Done(w) => Leaves(w)
  BY <1>1, DoneEffect
<1>4. ASSUME Insert(act[w].job, act[w].event), act[w].job # "own", UNCHANGED <<queue, bounds, disturbed>>,
             act' = [act EXCEPT ![w].pc = IF Counted(act[w].job) THEN "incr" ELSE "push",
                                ![w].n = Len(rows) + 1]
      PROVE  Writes(w)
  <2>1. PICK pc \in Pcs : pc = IF Counted(act[w].job) THEN "incr" ELSE "push"
    BY DEF Pcs
  <2>2. PICK r : r = [act[w] EXCEPT !.pc = pc, !.n = Len(rows) + 1]
    OBVIOUS
  <2>3. r \in Acts /\ r.pc = pc /\ r.n = Len(rows) + 1 /\ r.job = act[w].job /\ r.event = act[w].event
    <3>1. PICK m \in Nat : m = Len(rows) + 1
      BY <1>1
    <3>2. r = [act[w] EXCEPT !.pc = pc, !.n = m]
      BY <2>2, <3>1
    <3>3. r \in Acts
      BY <1>1, <3>2 DEF Acts
    <3>4. r.pc = pc /\ r.n = m /\ r.job = act[w].job /\ r.event = act[w].event
      BY <1>1, <3>2 DEF Acts
    <3> QED BY <3>1, <3>3, <3>4
  <2>4. act' = [act EXCEPT ![w] = r]
    BY <1>4, <2>1, <2>2
  <2>5. /\ act' \in [Pushers -> Acts] /\ act'[w] = r /\ \A x \in Pushers \ {w} : act'[x] = act[x]
    BY <1>1, <2>3, <2>4 DEF Acting
  <2>6. pc # "idle" BY <2>1
  <2>7. Becomes(w, act[w].job, pc, Len(rows) + 1, act[w].event)
    BY <1>1, <2>3, <2>5, <2>6 DEF Becomes, Same, Acting
  <2> QED BY <1>4, <2>1, <2>7 DEF Writes
<1> QED BY <1>2, <1>3, <1>4 DEF Process, Ignores, Requeues, Repeats, Misses

LEMMA ProcessShape ==
    ASSUME RowShape, HubShape, NEW w \in Workers, Process(w)
    PROVE  RowShape'
<1>1. /\ w \in Pushers /\ w \notin Callers /\ act[w] \in Acts /\ Worked(act[w], Len(arrived))
      /\ act[w].pc = "create" /\ act[w].n <= Len(rows) /\ act[w].event \in 1 .. Len(arrived)
      /\ act[w].job \in Kinds /\ act[w].n \in Nat
  BY WorkerAt DEF Process, Worked, Acts
<1>2. UNCHANGED <<hubVars, counter>>
  BY DEF Process
<1>3. Counters'
  <2>1. disturbed \in BOOLEAN /\ Counted(act[w].job) \in BOOLEAN
    BY DEF RowShape, Counters, Counted
  <2>2. disturbed' = disturbed \/ disturbed' = (disturbed \/ Counted(act[w].job))
    BY ProcessMoves DEF Ignores, Writes, Requeues, Repeats, Misses
  <2>3. disturbed' \in BOOLEAN
    BY <2>1, <2>2
  <2> QED BY <1>2, <2>3 DEF RowShape, Counters, counter
<1>4. \A p \in Pushers : push'[p].at # "idle" => p # w /\ push[p].at # "idle"
  BY <1>1, <1>2, PushIdle
<1>5. /\ Len(rows) \in Nat /\ Len(arrived) \in Nat /\ Len(arrived) <= MaxEvents /\ MaxEvents \in Nat
      /\ rows \in Seq(Row) /\ queue \in Seq(Event)
  BY LenProperties, Actors DEF RowShape, Limits
<1>6. Worked([job |-> act[w].job, pc |-> "ack", event |-> act[w].event], Len(arrived))
  BY <1>1 DEF Worked
<1>7. CASE Ignores(w)
  BY <1>1, <1>3, <1>4, <1>6, <1>7, ShapeOfMove DEF Ignores, Keeps
<1>8. CASE Writes(w)
  <2>1. PICK pc \in {"incr", "push"} : Becomes(w, act[w].job, pc, Len(rows) + 1, act[w].event)
    BY <1>8 DEF Writes
  <2>2. act[w].job # "own" /\ Insert(act[w].job, act[w].event) /\ UNCHANGED <<queue, bounds>>
    BY <1>8 DEF Writes
  <2>3. Worked([job |-> act[w].job, pc |-> pc, event |-> act[w].event], Len(arrived))
    BY <1>1, <2>1, <2>2 DEF Worked
  <2>4. PICK t \in (Kinds \ {"own"}) \cup Sends, e \in 0 .. Len(arrived) : t = act[w].job /\ e = act[w].event
    BY <1>1, <1>5, <2>2
  <2>5. /\ rows' \in Seq(Row) /\ Len(rows') = Len(rows) + 1
        /\ \A i \in DOMAIN rows' : rows'[i].event <= Len(arrived)
    BY <2>2, <2>4, Inserted
  <2>6. Limits' /\ Len(arrived') = Len(arrived)
    BY <2>2, LimitsSame DEF RowShape
  <2>7. queue' \in Seq(Event) /\ \A i \in DOMAIN queue' : queue'[i].id <= Len(arrived)
    BY <2>2 DEF RowShape
  <2>8. Len(rows) <= Len(rows') /\ Len(rows) + 1 <= Len(rows')
    BY <1>5, <2>5
  <2> QED BY <1>1, <1>3, <1>4, <2>1, <2>3, <2>5, <2>6, <2>7, <2>8, RowShapeStep
<1>9. ASSUME queue' = <<InHand(w)>> \o queue
      PROVE  queue' \in Seq(Event) /\ \A i \in DOMAIN queue' : queue'[i].id <= Len(arrived)
  <2>1. InHand(w) \in Event /\ InHand(w).id <= Len(arrived)
    BY <1>1, <1>5 DEF InHand, Event
  <2>2. PICK b : b = <<InHand(w)>>
    OBVIOUS
  <2>3. b \in Seq(Event) /\ Len(b) = 1 /\ b[1] = InHand(w)
    BY <2>1, <2>2
  <2>4. queue' = b \o queue
    BY <1>9, <2>2
  <2>5. /\ b \o queue \in Seq(Event) /\ DOMAIN b = 1 .. 1
        /\ \A i \in DOMAIN b : (b \o queue)[i] = b[i]
        /\ \A i \in DOMAIN (b \o queue) : i \in DOMAIN b
              \/ (i - Len(b) \in DOMAIN queue /\ (b \o queue)[i] = queue[i - Len(b)])
    BY <1>5, <2>3, InFront
  <2> QED BY <2>1, <2>3, <2>4, <2>5 DEF RowShape
<1>11. CASE Requeues(w)
  <2>5. queue' \in Seq(Event) /\ \A i \in DOMAIN queue' : queue'[i].id <= Len(arrived)
    BY <1>9, <1>11 DEF Requeues
  <2>6. /\ UNCHANGED rows /\ Failing /\ Becomes(w, "none", "idle", 0, 0)
    BY <1>11 DEF Requeues, Leaves
  <2>7. Limits' /\ Len(arrived') = Len(arrived)
    BY <2>6, LimitsSame DEF RowShape
  <2>8. rows' \in Seq(Row) /\ Len(rows) <= Len(rows') /\ 0 <= Len(rows')
        /\ \A i \in DOMAIN rows' : rows'[i].event <= Len(arrived)
    BY <1>5, <2>6 DEF RowShape
  <2> QED BY <1>1, <1>3, <1>4, <2>5, <2>6, <2>7, <2>8, RowShapeStep
<1>12. CASE Repeats(w)
  <2>1. /\ act[w].job # "own" /\ Insert(act[w].job, act[w].event) /\ redone' = redone + 1
        /\ failures < MaxFailures /\ failures' = failures + 1 /\ UNCHANGED <<arrived, calls>>
        /\ Becomes(w, "none", "idle", 0, 0)
    BY <1>12 DEF Repeats, Leaves
  <2>2. queue' \in Seq(Event) /\ \A i \in DOMAIN queue' : queue'[i].id <= Len(arrived)
    BY <1>9, <1>12 DEF Repeats
  <2>3. PICK t \in (Kinds \ {"own"}) \cup Sends, e \in 0 .. Len(arrived) : t = act[w].job /\ e = act[w].event
    BY <1>1, <1>5, <2>1
  <2>4. /\ rows' \in Seq(Row) /\ Len(rows') = Len(rows) + 1
        /\ \A i \in DOMAIN rows' : rows'[i].event <= Len(arrived)
    BY <2>1, <2>3, Inserted
  <2>5. Limits' /\ Len(arrived') = Len(arrived)
    <3>1. failures' \in Nat /\ failures' <= MaxFailures /\ redone' \in Nat
      BY <2>1, Actors DEF RowShape, Limits
    <3> QED BY <2>1, <3>1 DEF RowShape, Limits
  <2>6. Len(rows) <= Len(rows') /\ 0 <= Len(rows')
    BY <1>5, <2>4
  <2> QED BY <1>1, <1>3, <1>4, <2>1, <2>2, <2>4, <2>5, <2>6, RowShapeStep
<1>10. CASE Misses(w)
  <2>1. arrived' = [arrived EXCEPT ![act[w].event] = "missed"] /\ UNCHANGED <<rows, queue, calls, redone>>
        /\ failures < MaxFailures /\ failures' = failures + 1
    BY <1>10 DEF Misses
  <2>2. arrived' \in Seq(Kinds \cup {"missed"}) /\ Len(arrived') = Len(arrived)
    <3>1. PICK T : T = Kinds \cup {"missed"}
      OBVIOUS
    <3>2. arrived \in Seq(T) /\ "missed" \in T
      BY <3>1 DEF RowShape, Limits
    <3> QED BY <1>1, <2>1, <3>1, <3>2, ExceptSeq
  <2>3. Limits'
    <3>1. failures \in Nat /\ failures' \in Nat /\ failures' <= MaxFailures
      BY <2>1, Actors DEF RowShape, Limits
    <3> QED BY <1>5, <2>1, <2>2, <3>1 DEF RowShape, Limits
  <2>4. /\ rows' \in Seq(Row) /\ queue' \in Seq(Event) /\ Len(rows) <= Len(rows') /\ act[w].n <= Len(rows')
        /\ \A i \in DOMAIN rows' : rows'[i].event <= Len(arrived)
        /\ \A i \in DOMAIN queue' : queue'[i].id <= Len(arrived)
    BY <1>1, <1>5, <2>1 DEF RowShape
  <2>5. Becomes(w, act[w].job, "ack", act[w].n, act[w].event)
    BY <1>10 DEF Misses, Keeps
  <2> QED BY <1>1, <1>3, <1>4, <1>6, <2>2, <2>3, <2>4, <2>5, RowShapeStep
<1> QED BY <1>7, <1>8, <1>10, <1>11, <1>12, ProcessMoves

\* The other steps of the workers and of the pushes.
LEMMA AckShape ==
    ASSUME RowShape, HubShape, NEW w \in Workers, Ack(w)
    PROVE  RowShape' /\ Leaves(w) /\ act[w].pc = "ack" /\ w \in Pushers
<1>1. w \in Pushers /\ act[w].pc = "ack" /\ Acting(act) /\ 0 <= Len(rows)
  BY WorkerAt, LenProperties DEF Ack, RowShape
<1>2. UNCHANGED <<hubVars, rows, counter, queue, bounds, disturbed>>
  BY DEF Ack
<1>3. Leaves(w)
  BY <1>1, DoneEffect DEF Ack
<1>4. Counters'
  BY <1>2, CountersSame DEF RowShape
<1>5. \A p \in Pushers : push'[p].at # "idle" => p # w /\ push[p].at # "idle"
  BY <1>1, <1>2, PushIdle
<1> QED BY <1>1, <1>2, <1>3, <1>4, <1>5, ShapeOfMove DEF Leaves

\* IncrementUnread is followed by the push, but for mentions.
LEMMA IncrementShape ==
    ASSUME RowShape, HubShape, NEW a \in Pushers, Increment(a)
    PROVE  /\ RowShape' /\ act[a].pc = "incr"
           /\ Keeps(a, "push") \/ (a \in Callers /\ Leaves(a))
<1>1. act[a].pc = "incr" /\ Acting(act) /\ 0 <= Len(rows) /\ act[a].n <= Len(rows) /\ Len(rows) \in Nat
  BY LenProperties DEF Increment, RowShape
<1>2. UNCHANGED <<hubVars, rows, queue>> /\ (UNCHANGED bounds \/ Failing)
  BY DEF Increment
<1>3. Counters'
  <2>1. CASE AddTo(1) /\ UNCHANGED disturbed
    BY <2>1 DEF RowShape, Counters, AddTo
  <2>2. CASE disturbed' = TRUE /\ UNCHANGED counter
    BY <2>2 DEF RowShape, Counters, counter
  <2> QED BY <2>1, <2>2 DEF Increment
<1>4. \A p \in Pushers : push'[p].at # "idle" => p # a /\ push[p].at # "idle"
  BY <1>1, <1>2, PushIdle
<1>5. a \in Workers => Worked(act[a], Len(arrived)) /\ act[a].job # "mention" /\ a \notin Callers
  BY <1>1, WorkerAt, Actors DEF Worked
<1>6. a \in Callers => Called(act[a]) /\ act[a].job \in Sends
  BY <1>1, CallerAt DEF Called
<1>7. CASE act[a].job = "mention"
  <2>1. Leaves(a) /\ a \in Callers
    BY <1>1, <1>5, <1>7, DoneEffect, Actors DEF Increment
  <2> QED BY <1>1, <1>2, <1>3, <1>4, <2>1, ShapeOfMove DEF Leaves
<1>8. CASE act[a].job # "mention"
  <2>1. Keeps(a, "push")
    BY <1>1, <1>8, GotoEffect DEF Increment, Pcs
  <2>2. /\ a \in Workers => Worked([job |-> act[a].job, pc |-> "push", event |-> act[a].event], Len(arrived))
        /\ a \in Callers => Called([job |-> act[a].job, pc |-> "push", event |-> act[a].event])
    BY <1>1, <1>5, <1>6 DEF Worked, Called
  <2> QED BY <1>1, <1>2, <1>3, <1>4, <2>1, <2>2, ShapeOfMove DEF Keeps
<1> QED BY <1>7, <1>8

LEMMA PushStartsShape ==
    ASSUME RowShape, HubShape, NEW a \in Pushers, PushStarts(a)
    PROVE  /\ RowShape' /\ act[a].pc \in {"push", "push2"}
           /\ \E pc \in {"pushing", "pushing2"} : Keeps(a, pc)
<1>1. PICK pc \in {"pushing", "pushing2"}, h \in {"sse", "message"} :
        /\ PushCopies(a, h) /\ Goto(a, pc)
        /\ act[a].pc = IF pc = "pushing" THEN "push" ELSE "push2"
  BY DEF PushStarts
<1>2. UNCHANGED <<rows, counter, queue, bounds, disturbed>>
  BY DEF PushStarts
<1>3. Keeps(a, pc)
  BY <1>1, GotoEffect DEF RowShape, Pcs
<1>4. Counters' /\ act[a].n <= Len(rows)
  BY <1>2, CountersSame DEF RowShape
<1>5. \A p \in Pushers : p # a => push'[p] = push[p]
  BY <1>1 DEF PushCopies, HubShape
<1>6. /\ a \in Workers => Worked([job |-> act[a].job, pc |-> pc, event |-> act[a].event], Len(arrived))
      /\ a \in Callers => Called([job |-> act[a].job, pc |-> pc, event |-> act[a].event])
  <2>1. a \in Workers => Worked(act[a], Len(arrived)) /\ pc = "pushing"
    BY <1>1, WorkerAt DEF Worked
  <2>2. a \in Callers => Called(act[a])
    BY <1>1, CallerAt DEF Called
  <2> QED BY <1>1, <2>1, <2>2 DEF Worked, Called
<1>7. RowShape'
  BY <1>2, <1>3, <1>4, <1>5, <1>6, ShapeOfMove DEF Keeps
<1> QED BY <1>1, <1>3, <1>7

LEMMA PushEndsShape ==
    ASSUME RowShape, HubShape, NEW a \in Pushers, PushEnds(a)
    PROVE  /\ RowShape' /\ act[a].pc \in {"pushing", "pushing2"}
           /\ \/ \E pc \in {"ack", "push2"} : Keeps(a, pc)
              \/ a \in Callers /\ Leaves(a)
<1>1. /\ act[a].pc \in {"pushing", "pushing2"} /\ Acting(act) /\ act[a].n <= Len(rows)
      /\ 0 <= Len(rows)
  BY LenProperties DEF PushEnds, PushReturns, RowShape
<1>2. UNCHANGED <<rows, counter, queue, bounds, disturbed>> /\ Counters'
  BY CountersSame DEF PushEnds, RowShape
<1>3. \A p \in Pushers : push'[p].at # "idle" => p # a /\ push[p].at # "idle"
  BY DEF PushEnds, PushReturns, HubShape, Quiet
<1>4. a \in Workers => Worked(act[a], Len(arrived)) /\ a \notin Callers
  BY <1>1, WorkerAt
<1>5. a \in Callers => Called(act[a]) /\ a \notin Workers
  BY <1>1, CallerAt
<1>6. CASE a \in Workers
  <2>1. Keeps(a, "ack")
    BY <1>1, <1>6, GotoEffect DEF PushEnds, Pcs
  <2>2. Worked([job |-> act[a].job, pc |-> "ack", event |-> act[a].event], Len(arrived))
    BY <1>4, <1>6 DEF Worked
  <2> QED BY <1>1, <1>2, <1>3, <1>4, <1>6, <2>1, <2>2, ShapeOfMove DEF Keeps
<1>7. CASE a \notin Workers /\ act[a].job = "message" /\ act[a].pc = "pushing"
  <2>1. Keeps(a, "push2")
    BY <1>1, <1>7, GotoEffect DEF PushEnds, Pcs
  <2>2. Called([job |-> act[a].job, pc |-> "push2", event |-> act[a].event])
    BY <1>5, <1>7, Actors DEF Called
  <2> QED BY <1>1, <1>2, <1>3, <1>7, <2>1, <2>2, ShapeOfMove DEF Keeps
<1>8. CASE a \notin Workers /\ ~(act[a].job = "message" /\ act[a].pc = "pushing")
  <2>1. Leaves(a) /\ a \in Callers
    BY <1>1, <1>8, DoneEffect, Actors DEF PushEnds
  <2> QED BY <1>1, <1>2, <1>3, <2>1, ShapeOfMove DEF Leaves
<1> QED BY <1>6, <1>7, <1>8

LEMMA RecoverShape ==
    ASSUME RowShape, HubShape, NEW c \in Callers, Recover(c)
    PROVE  /\ RowShape' /\ act[c].pc \in {"pushing", "pushing2"} /\ Leaves(c) /\ c \in Pushers
<1>1. c \in Pushers /\ act[c].pc \in {"pushing", "pushing2"} /\ Acting(act) /\ 0 <= Len(rows)
  BY Actors, LenProperties DEF Recover, RowShape
<1>2. UNCHANGED <<rows, counter, queue, bounds, disturbed>> /\ Counters'
  BY CountersSame DEF Recover, RowShape
<1>3. \A p \in Pushers : push'[p].at # "idle" => p # c /\ push[p].at # "idle"
  BY DEF Recover, HubShape, Quiet
<1>4. Leaves(c)
  BY <1>1, DoneEffect DEF Recover
<1> QED BY <1>1, <1>2, <1>3, <1>4, ShapeOfMove DEF Leaves

\* The requests.
LEMMA SendShape ==
    ASSUME RowShape, HubShape, NEW c \in Callers, Send(c)
    PROVE  /\ RowShape' /\ act[c].pc = "idle" /\ c \in Pushers
           /\ \E t \in Sends : Insert(t, 0) /\ Becomes(c, t, "incr", Len(rows) + 1, 0)
<1>1. c \in Pushers /\ c \notin Workers /\ act[c].pc = "idle" /\ Acting(act) /\ Len(rows) \in Nat
      /\ Len(arrived) \in Nat
  BY Actors, LenProperties DEF Send, Call, RowShape, Limits, Idle
<1>2. PICK t \in Sends : Insert(t, 0) /\ Start(c, t, "incr", Len(rows) + 1, 0)
  BY DEF Send
<1>3. Becomes(c, t, "incr", Len(rows) + 1, 0)
  <2>1. t \in Jobs /\ "incr" \in Pcs \ {"idle"} /\ Len(rows) + 1 \in Nat /\ 0 \in Nat
    BY <1>1 DEF Jobs, Pcs
  <2> QED BY <1>1, <1>2, <2>1, StartEffect
<1>4. UNCHANGED <<hubVars, counter, queue, disturbed>> /\ Call(c) /\ Counters'
  BY CountersSame DEF Send, RowShape
<1>5. Limits' /\ Len(arrived') = Len(arrived)
  BY <1>1, <1>4, LimitsSame DEF RowShape
<1>6. /\ rows' \in Seq(Row) /\ Len(rows') = Len(rows) + 1
      /\ \A i \in DOMAIN rows' : rows'[i].event <= Len(arrived)
  <2>1. t \in (Kinds \ {"own"}) \cup Sends /\ 0 \in 0 .. Len(arrived)
    BY <1>1
  <2> QED BY <1>2, <2>1, Inserted
<1>7. queue' \in Seq(Event) /\ \A i \in DOMAIN queue' : queue'[i].id <= Len(arrived)
  BY <1>4 DEF RowShape
<1>8. Called([job |-> t, pc |-> "incr", event |-> 0])
  BY <1>2 DEF Called
<1>9. \A p \in Pushers : push'[p].at # "idle" => p # c /\ push[p].at # "idle"
  BY <1>1, <1>4, PushIdle
<1>10. Len(rows) <= Len(rows') /\ Len(rows) + 1 <= Len(rows')
  BY <1>1, <1>6
<1>11. RowShape'
  BY <1>1, <1>3, <1>4, <1>5, <1>6, <1>7, <1>8, <1>9, <1>10, RowShapeStep
<1> QED BY <1>1, <1>2, <1>3, <1>11

\* Sets of rows are finite.
LEMMA RowsFinite ==
    ASSUME RowShape, NEW S \in SUBSET DOMAIN rows
    PROVE  IsFiniteSet(S) /\ Cardinality(S) \in Nat /\ Cardinality(S) <= Len(rows)
<1>1. DOMAIN rows = 1 .. Len(rows) /\ Len(rows) \in Nat
  BY LenProperties DEF RowShape
<1>2. IsFiniteSet(DOMAIN rows) /\ Cardinality(DOMAIN rows) = Len(rows)
  BY <1>1, FS_Interval
<1> QED BY <1>1, <1>2, FS_Subset, FS_CardinalityType

Marked(S) == [i \in DOMAIN rows |-> IF i \in S THEN [rows[i] EXCEPT !.read = TRUE] ELSE rows[i]]

LEMMA MarkReadShape ==
    ASSUME RowShape, HubShape, NEW c \in Callers, MarkRead(c)
    PROVE  /\ RowShape' /\ act[c].pc = "idle" /\ c \in Pushers
           /\ DOMAIN rows' = DOMAIN rows /\ \A i \in DOMAIN rows : rows'[i].event = rows[i].event
           /\ \E S \in SUBSET {j \in DOMAIN rows : ~rows[j].read} :
                 /\ rows' = Marked(S) /\ disturbed' = (disturbed \/ ~(S \subseteq Unread))
                 /\ IF S = {} THEN UNCHANGED act ELSE Becomes(c, "mark", "decr", Cardinality(S), 0)
<1>1. c \in Pushers /\ c \notin Workers /\ act[c].pc = "idle" /\ Acting(act) /\ Len(rows) \in Nat
  <2>1. c \in Pushers /\ c \notin Workers
    BY Actors
  <2>2. act[c].pc = "idle"
    BY DEF MarkRead, Call, Idle
  <2> QED BY <2>1, <2>2, LenProperties DEF RowShape
<1>2. PICK S \in SUBSET {j \in DOMAIN rows : ~rows[j].read} :
        /\ rows' = Marked(S)
        /\ IF S = {} THEN UNCHANGED act ELSE Start(c, "mark", "decr", Cardinality(S), 0)
        /\ disturbed' = (disturbed \/ ~(S \subseteq Unread))
  <2>1. PICK S \in {{i} : i \in {j \in DOMAIN rows : ~rows[j].read}} \cup {Unread} :
          /\ rows' = Marked(S)
          /\ IF S = {} THEN UNCHANGED act ELSE Start(c, "mark", "decr", Cardinality(S), 0)
          /\ disturbed' = (disturbed \/ ~(S \subseteq Unread))
    BY Zenon DEF MarkRead, Marked
  <2>2. S \in SUBSET {j \in DOMAIN rows : ~rows[j].read}
    BY DEF Unread
  <2> QED BY <2>1, <2>2, Zenon
<1>3. S \in SUBSET DOMAIN rows /\ Cardinality(S) \in Nat /\ Cardinality(S) <= Len(rows)
  BY <1>2, RowsFinite
<1>4. S # {} => Becomes(c, "mark", "decr", Cardinality(S), 0)
  <2>1. "mark" \in Jobs /\ "decr" \in Pcs \ {"idle"} /\ 0 \in Nat
    BY DEF Jobs, Pcs
  <2> QED BY <1>1, <1>2, <1>3, <2>1, StartEffect
<1>5. /\ rows' \in Seq(Row) /\ Len(rows') = Len(rows) /\ DOMAIN rows' = DOMAIN rows
      /\ \A i \in DOMAIN rows : rows'[i].event = rows[i].event
  <2>1. rows \in [1 .. Len(rows) -> Row] /\ DOMAIN rows = 1 .. Len(rows)
    BY LenProperties DEF RowShape
  <2>2. \A r \in Row : [r EXCEPT !.read = TRUE] \in Row /\ [r EXCEPT !.read = TRUE].event = r.event
    BY DEF Row
  <2>3. rows' \in [1 .. Len(rows) -> Row] /\ \A i \in DOMAIN rows : rows'[i].event = rows[i].event
    BY <1>2, <2>1, <2>2 DEF Marked
  <2>4. rows' \in Seq(Row)
    BY <1>1, <2>3, SeqDef
  <2>5. DOMAIN rows' = 1 .. Len(rows') /\ Len(rows') \in Nat
    BY <2>4, LenProperties
  <2>6. DOMAIN rows' = 1 .. Len(rows)
    BY <2>3
  <2>7. Len(rows') = Len(rows)
    BY <1>1, <2>5, <2>6
  <2> QED BY <2>1, <2>3, <2>4, <2>6, <2>7
<1>6. UNCHANGED <<hubVars, counter, queue>> /\ Call(c)
  BY DEF MarkRead
<1>7. Counters'
  <2>1. disturbed' \in BOOLEAN
    BY <1>2 DEF RowShape, Counters
  <2> QED BY <1>6, <2>1 DEF counter, RowShape, Counters
<1>8. Limits' /\ Len(arrived') = Len(arrived) /\ UNCHANGED <<arrived>>
  BY <1>1, <1>6, LimitsSame DEF RowShape, Call
<1>9. \A i \in DOMAIN rows' : rows'[i].event <= Len(arrived)
  BY <1>5 DEF RowShape
<1>10. queue' \in Seq(Event) /\ \A i \in DOMAIN queue' : queue'[i].id <= Len(arrived)
  BY <1>6 DEF RowShape
<1>11. Called([job |-> "mark", pc |-> "decr", event |-> 0])
  BY DEF Called
<1>12. \A p \in Pushers : push'[p].at # "idle" => p # c /\ push[p].at # "idle"
  BY <1>1, <1>6, PushIdle
<1>13. RowShape'
  <2>1. CASE S # {}
    <3>1. Cardinality(S) <= Len(rows') /\ Len(rows) <= Len(rows')
      BY <1>1, <1>3, <1>5
    <3> QED BY <1>1, <1>4, <1>5, <1>7, <1>8, <1>9, <1>10, <1>11, <1>12, <2>1, <3>1, RowShapeStep
  <2>2. CASE S = {}
    <3>1. UNCHANGED act  BY <1>2, <2>2
    <3>2. UNCHANGED push  BY <1>6 DEF hubVars
    <3> QED BY <1>5, <1>7, <1>8, <1>9, <1>10, <3>1, <3>2 DEF RowShape
  <2> QED BY <2>1, <2>2
<1> QED BY <1>1, <1>2, <1>4, <1>5, <1>13

\* What a decrement leaves in the key.
LEMMA AddedCounters ==
    ASSUME RowShape, NEW n \in Nat, AddTo(-n), UNCHANGED disturbed PROVE Counters'
<1>1. count' = count + (-n) /\ hasKey' = TRUE
  BY DEF AddTo
<1>2. count \in Int /\ disturbed \in BOOLEAN
  BY DEF RowShape, Counters
<1>3. count' \in Int
  BY <1>1, <1>2
<1>4. hasKey' \in BOOLEAN /\ disturbed' \in BOOLEAN /\ (~hasKey' => count' = 0)
  BY <1>1, <1>2
<1> QED BY <1>3, <1>4 DEF Counters

\* The steps of a markRead after its rows, and of a recount.
LEMMA DecrementShape ==
    ASSUME RowShape, HubShape, NEW c \in Callers, Decrement(c)
    PROVE  /\ RowShape' /\ act[c].pc = "decr" /\ c \in Pushers
           /\ \/ AddTo(-act[c].n) /\ Keeps(c, "clamp") /\ UNCHANGED <<bounds, disturbed>>
              \/ /\ Failing /\ Leaves(c)
                 /\ \/ AddTo(-act[c].n) /\ UNCHANGED disturbed
                    \/ disturbed' = TRUE /\ UNCHANGED counter
<1>1. /\ c \in Pushers /\ c \notin Workers /\ act[c].pc = "decr" /\ Acting(act) /\ act[c] \in Acts
      /\ act[c].n <= Len(rows) /\ Called(act[c]) /\ 0 <= Len(rows)
  BY CallerAt, LenProperties DEF Decrement, RowShape
<1>2. UNCHANGED <<hubVars, rows, queue>>
  BY DEF Decrement
<1>3. \A p \in Pushers : push'[p].at # "idle" => p # c /\ push[p].at # "idle"
  BY <1>1, <1>2, PushIdle
<1>4. CASE AddTo(-act[c].n) /\ Goto(c, "clamp") /\ UNCHANGED <<bounds, disturbed>>
  <2>1. Keeps(c, "clamp")
    BY <1>1, <1>4, GotoEffect DEF Pcs
  <2>2. Counters'
    <3>1. act[c].n \in Nat  BY <1>1 DEF Acts
    <3> QED BY <1>4, <3>1, AddedCounters
  <2>3. Called([job |-> act[c].job, pc |-> "clamp", event |-> act[c].event])
    BY <1>1, Actors DEF Called
  <2> QED BY <1>1, <1>2, <1>3, <1>4, <2>1, <2>2, <2>3, ShapeOfMove DEF Keeps
<1>5. CASE /\ Failing /\ Done(c)
           /\ \/ AddTo(-act[c].n) /\ UNCHANGED disturbed
              \/ disturbed' = TRUE /\ UNCHANGED counter
  <2>1. Leaves(c)
    BY <1>1, <1>5, DoneEffect
  <2>2. CASE AddTo(-act[c].n) /\ UNCHANGED disturbed
    <3>1. act[c].n \in Nat  BY <1>1 DEF Acts
    <3>2. Counters'  BY <2>2, <3>1, AddedCounters
    <3> QED BY <1>1, <1>2, <1>3, <1>5, <2>1, <2>2, <3>2, ShapeOfMove DEF Leaves
  <2>3. CASE disturbed' = TRUE /\ UNCHANGED counter
    <3>1. Counters'
      BY <2>3 DEF RowShape, Counters, counter
    <3> QED BY <1>1, <1>2, <1>3, <1>5, <2>1, <2>3, <3>1, ShapeOfMove DEF Leaves
  <2> QED BY <1>5, <2>2, <2>3
<1> QED BY <1>4, <1>5 DEF Decrement

LEMMA ClampReadsShape ==
    ASSUME RowShape, HubShape, NEW c \in Callers, ClampReads(c)
    PROVE  /\ RowShape' /\ act[c].pc = "clamp" /\ c \in Pushers
           /\ \/ hasKey /\ count < 0 /\ Keeps(c, "zero")
              \/ Leaves(c) /\ (~(hasKey /\ count < 0) \/ Failing)
<1>1. /\ c \in Pushers /\ c \notin Workers /\ act[c].pc = "clamp" /\ Acting(act) /\ act[c] \in Acts
      /\ act[c].n <= Len(rows) /\ Called(act[c]) /\ 0 <= Len(rows)
  BY CallerAt, LenProperties DEF ClampReads, RowShape
<1>2. UNCHANGED <<hubVars, rows, counter, queue, disturbed>> /\ (UNCHANGED bounds \/ Failing) /\ Counters'
  BY CountersSame DEF ClampReads, RowShape
<1>3. \A p \in Pushers : push'[p].at # "idle" => p # c /\ push[p].at # "idle"
  BY <1>1, <1>2, PushIdle
<1>4. CASE hasKey /\ count < 0 /\ Goto(c, "zero")
  <2>1. Keeps(c, "zero")
    BY <1>1, <1>4, GotoEffect DEF Pcs
  <2>2. Called([job |-> act[c].job, pc |-> "zero", event |-> act[c].event])
    BY <1>1, Actors DEF Called
  <2> QED BY <1>1, <1>2, <1>3, <1>4, <2>1, <2>2, ShapeOfMove DEF Keeps
<1>5. CASE Done(c) /\ (~(hasKey /\ count < 0) \/ Failing)
  <2>1. Leaves(c)
    BY <1>1, <1>5, DoneEffect
  <2> QED BY <1>1, <1>2, <1>3, <1>5, <2>1, ShapeOfMove DEF Leaves
<1> QED BY <1>4, <1>5 DEF ClampReads

LEMMA ClampSetsShape ==
    ASSUME RowShape, HubShape, NEW c \in Callers, ClampSets(c)
    PROVE  RowShape' /\ act[c].pc = "zero" /\ c \in Pushers /\ Leaves(c)
<1>1. c \in Pushers /\ act[c].pc = "zero" /\ Acting(act) /\ 0 <= Len(rows)
  BY CallerAt, LenProperties DEF ClampSets, RowShape
<1>2. UNCHANGED <<hubVars, rows, queue>> /\ (UNCHANGED bounds \/ Failing)
  BY DEF ClampSets
<1>3. \A p \in Pushers : push'[p].at # "idle" => p # c /\ push[p].at # "idle"
  BY <1>1, <1>2, PushIdle
<1>4. Leaves(c)
  BY <1>1, DoneEffect DEF ClampSets
<1>5. Counters'
  <2>1. CASE count' = 0 /\ hasKey' = TRUE /\ disturbed' = TRUE
    BY <2>1 DEF Counters
  <2>2. CASE UNCHANGED <<counter, disturbed>>
    BY <2>2, CountersSame DEF RowShape
  <2> QED BY <2>1, <2>2 DEF ClampSets
<1> QED BY <1>1, <1>2, <1>3, <1>4, <1>5, ShapeOfMove DEF Leaves

LEMMA RecountShape ==
    ASSUME RowShape, HubShape, NEW c \in Callers, Recount(c)
    PROVE  /\ RowShape' /\ act[c].pc = "idle" /\ c \in Pushers
           /\ Becomes(c, "count", "count", 0, 0)
           /\ act'[c].alone => \A y \in Pushers \ {c} : act[y] = Idle
           /\ \A x \in Pushers \ {c} : ~act'[x].alone
<1>1. c \in Pushers /\ c \notin Workers /\ act[c].pc = "idle" /\ Acting(act) /\ Len(rows) \in Nat
  BY Actors, LenProperties DEF Recount, RowShape, Idle
<1>2. /\ UNCHANGED <<hubVars, rows, counter, queue, arrived, redone, disturbed>> /\ Counters'
      /\ Start(c, "count", "count", 0, 0)
  BY CountersSame DEF Recount, RowShape
<1>4. /\ Becomes(c, "count", "count", 0, 0)
      /\ act'[c].alone => \A y \in Pushers \ {c} : act[y] = Idle
      /\ \A x \in Pushers \ {c} : ~act'[x].alone
  <2>1. "count" \in Jobs /\ "count" \in Pcs \ {"idle"} /\ 0 \in Nat
    BY DEF Jobs, Pcs
  <2> QED BY <1>1, <1>2, <2>1, StartEffect
<1>5. Limits' /\ Len(arrived') = Len(arrived)
  <2>1. failures' \in Nat /\ failures' <= MaxFailures /\ calls' \in Nat /\ calls' <= MaxCalls
    BY Actors DEF Recount, RowShape, Limits
  <2> QED BY <1>2, <2>1 DEF RowShape, Limits
<1>6. Called([job |-> "count", pc |-> "count", event |-> 0])
  BY DEF Called
<1>7. \A p \in Pushers : push'[p].at # "idle" => p # c /\ push[p].at # "idle"
  BY <1>1, <1>2, PushIdle
<1>8. /\ rows' \in Seq(Row) /\ queue' \in Seq(Event) /\ Len(rows) <= Len(rows')
      /\ 0 <= Len(rows')
      /\ \A i \in DOMAIN rows' : rows'[i].event <= Len(arrived)
      /\ \A i \in DOMAIN queue' : queue'[i].id <= Len(arrived)
  BY <1>1, <1>2 DEF RowShape
<1>9. RowShape'
  BY <1>1, <1>2, <1>4, <1>5, <1>6, <1>7, <1>8, RowShapeStep
<1> QED BY <1>1, <1>4, <1>9

LEMMA RecountReadsShape ==
    ASSUME RowShape, HubShape, NEW c \in Callers, RecountReads(c)
    PROVE  /\ RowShape' /\ act[c].pc = "count" /\ c \in Pushers
           /\ \/ /\ Becomes(c, "count", "setcount", Cardinality(Unread), 0)
                 /\ UNCHANGED bounds /\ (act'[c].alone => act[c].alone)
              \/ /\ Becomes(c, "count", "setcount", 0, 0) /\ ~act'[c].alone /\ Failing
<1>1. /\ c \in Pushers /\ c \notin Workers /\ act[c].pc = "count" /\ Acting(act) /\ act[c] \in Acts
      /\ act[c].job = "count" /\ act[c].event = 0 /\ 0 <= Len(rows)
  <2>1. c \in Pushers /\ c \notin Workers /\ act[c].pc = "count" /\ Called(act[c]) /\ act[c] \in Acts
    BY CallerAt DEF RecountReads
  <2> QED BY <2>1, Actors, LenProperties DEF Called, RowShape
<1>2. UNCHANGED <<hubVars, rows, counter, queue, disturbed>> /\ Counters'
  BY CountersSame DEF RecountReads, RowShape
<1>3. Cardinality(Unread) \in Nat /\ Cardinality(Unread) <= Len(rows)
  BY RowsFinite DEF Unread
<1>4. \A p \in Pushers : push'[p].at # "idle" => p # c /\ push[p].at # "idle"
  BY <1>1, <1>2, PushIdle
<1>5. Called([job |-> "count", pc |-> "setcount", event |-> 0])
  BY DEF Called
<1>6. ASSUME NEW r \in Acts, act' = [act EXCEPT ![c] = r], r.job = "count", r.pc = "setcount", r.event = 0
      PROVE  Becomes(c, "count", "setcount", r.n, 0) /\ act'[c] = r
  <2>1. act' \in [Pushers -> Acts] /\ act'[c] = r /\ \A x \in Pushers \ {c} : act'[x] = act[x]
    BY <1>1, <1>6 DEF Acting
  <2> QED BY <1>1, <1>6, <2>1 DEF Becomes, Same, Acting
<1>7. CASE /\ act' = [act EXCEPT ![c].pc = "setcount", ![c].n = Cardinality(Unread)]
           /\ UNCHANGED bounds
  <2>1. PICK m \in Nat : m = Cardinality(Unread)
    BY <1>3
  <2>2. PICK r : r = [act[c] EXCEPT !.pc = "setcount", !.n = m]
    OBVIOUS
  <2>3. r \in Acts /\ r.job = "count" /\ r.pc = "setcount" /\ r.event = 0 /\ r.n = m /\ r.alone = act[c].alone
    BY <1>1, <2>2 DEF Acts, Pcs
  <2>4. act' = [act EXCEPT ![c] = r]
    BY <1>7, <2>1, <2>2
  <2>5. Becomes(c, "count", "setcount", m, 0) /\ act'[c] = r
    BY <1>6, <2>3, <2>4
  <2> QED BY <1>1, <1>2, <1>3, <1>4, <1>5, <1>7, <2>1, <2>3, <2>5, ShapeOfMove
<1>8. CASE /\ act' = [act EXCEPT ![c].pc = "setcount", ![c].n = 0, ![c].alone = FALSE]
           /\ Failing
  <2>2. PICK r : r = [act[c] EXCEPT !.pc = "setcount", !.n = 0, !.alone = FALSE]
    OBVIOUS
  <2>3. r \in Acts /\ r.job = "count" /\ r.pc = "setcount" /\ r.event = 0 /\ r.n = 0 /\ ~r.alone
    BY <1>1, <2>2 DEF Acts, Pcs
  <2>4. act' = [act EXCEPT ![c] = r]
    BY <1>8, <2>2
  <2>5. Becomes(c, "count", "setcount", 0, 0) /\ act'[c] = r
    BY <1>6, <2>3, <2>4
  <2> QED BY <1>1, <1>2, <1>3, <1>4, <1>5, <1>8, <2>3, <2>5, ShapeOfMove
<1> QED BY <1>7, <1>8 DEF RecountReads

LEMMA RecountSetsShape ==
    ASSUME RowShape, HubShape, NEW c \in Callers, RecountSets(c)
    PROVE  RowShape' /\ act[c].pc = "setcount" /\ c \in Pushers /\ Leaves(c)
<1>1. /\ c \in Pushers /\ act[c].pc = "setcount" /\ Acting(act) /\ 0 <= Len(rows) /\ act[c] \in Acts
  BY CallerAt, LenProperties DEF RecountSets, RowShape
<1>2. UNCHANGED <<hubVars, rows, queue>> /\ (UNCHANGED bounds \/ Failing)
  BY DEF RecountSets
<1>3. \A p \in Pushers : push'[p].at # "idle" => p # c /\ push[p].at # "idle"
  BY <1>1, <1>2, PushIdle
<1>4. Leaves(c)
  BY <1>1, DoneEffect DEF RecountSets
<1>5. Counters'
  <2>1. CASE count' = act[c].n /\ hasKey' = TRUE /\ disturbed' = ~act[c].alone
    <3>1. act[c].n \in Nat /\ act[c].alone \in BOOLEAN
      BY <1>1 DEF Acts
    <3> QED BY <2>1, <3>1 DEF Counters
  <2>2. CASE UNCHANGED <<counter, disturbed>>
    BY <2>2, CountersSame DEF RowShape
  <2> QED BY <2>1, <2>2 DEF RecountSets
<1> QED BY <1>1, <1>2, <1>3, <1>4, <1>5, ShapeOfMove DEF Leaves

\* Events, lost keys, streams and the end of the process.
LEMMA ArriveShape ==
    ASSUME RowShape, HubShape, Arrive
    PROVE  /\ RowShape' /\ UNCHANGED <<rows, act, redone>>
           /\ \E m \in Event : /\ m.id = Len(arrived) + 1 /\ queue' = Append(queue, m)
                               /\ arrived' = Append(arrived, m.kind)
<1>1. PICK k \in Kinds : /\ arrived' = Append(arrived, k)
                         /\ queue' = Append(queue, [id |-> Len(arrived) + 1, kind |-> k])
  BY DEF Arrive
<1>2. /\ UNCHANGED <<hubVars, rows, counter, act, calls, failures, redone, disturbed>>
      /\ Len(arrived) < MaxEvents /\ Len(arrived) \in Nat /\ MaxEvents \in Nat
  BY LenProperties, Actors DEF Arrive, RowShape, Limits
<1>3. PICK m : m = [id |-> Len(arrived) + 1, kind |-> k]
  OBVIOUS
<1>4. m \in Event /\ m.id = Len(arrived) + 1 /\ m.kind = k
  BY <1>2, <1>3 DEF Event
<1>5. /\ queue' \in Seq(Event) /\ \A i \in DOMAIN queue' : queue'[i].id <= Len(arrived) + 1
  <2>1. queue \in Seq(Event) /\ queue' = Append(queue, m)
    BY <1>1, <1>3 DEF RowShape
  <2>2. /\ queue' \in Seq(Event) /\ DOMAIN queue' = 1 .. Len(queue) + 1 /\ queue'[Len(queue) + 1] = m
        /\ \A i \in 1 .. Len(queue) : queue'[i] = queue[i] /\ i \in DOMAIN queue
        /\ Len(queue) \in Nat
    BY <1>4, <2>1, AppendProperties, LenProperties
  <2>3. ASSUME NEW i \in DOMAIN queue' PROVE queue'[i].id <= Len(arrived) + 1
    <3>1. CASE i = Len(queue) + 1
      BY <1>2, <1>4, <2>2, <3>1
    <3>2. CASE i \in 1 .. Len(queue)
      <4>1. queue[i].id <= Len(arrived) /\ queue[i] \in Event
        BY <2>1, <2>2, <3>2, ElementOfSeq DEF RowShape
      <4>2. queue[i].id \in Nat
        BY <4>1, <1>2 DEF Event
      <4> QED BY <1>2, <2>2, <3>2, <4>1, <4>2
    <3> QED BY <2>2, <3>1, <3>2
  <2> QED BY <2>2, <2>3
<1>6. arrived' \in Seq(Kinds \cup {"missed"}) /\ Len(arrived') = Len(arrived) + 1
  <2>1. PICK T : T = Kinds \cup {"missed"}
    OBVIOUS
  <2>2. arrived \in Seq(T) /\ k \in T
    BY <2>1 DEF RowShape, Limits
  <2> QED BY <1>1, <2>1, <2>2, AppendProperties
<1>7. Limits' /\ Counters'
  BY <1>2, <1>6, CountersSame DEF RowShape, Limits
<1>8. Working(act', Len(arrived'))
  <2>1. \A i \in 1 .. Len(arrived) : i \in 1 .. Len(arrived')
    BY <1>2, <1>6
  <2>2. ASSUME NEW w \in Workers, Worked(act[w], Len(arrived)) PROVE Worked(act[w], Len(arrived'))
    BY <2>1, <2>2 DEF Worked
  <2> QED BY <1>2, <2>2 DEF RowShape, Working
<1>9. \A i \in DOMAIN rows : rows[i].event <= Len(arrived) + 1
  <2>1. ASSUME NEW i \in DOMAIN rows PROVE rows[i].event \in Nat /\ rows[i].event <= Len(arrived)
    <3>1. rows[i] \in Row
      BY ElementOfSeq, LenProperties DEF RowShape
    <3> QED BY <1>2, <3>1 DEF Row, RowShape
  <2> QED BY <1>2, <2>1
<1>10. UNCHANGED push
  BY <1>2 DEF hubVars
<1>11. RowShape'
  BY <1>2, <1>5, <1>6, <1>7, <1>8, <1>9, <1>10 DEF RowShape
<1> QED BY <1>1, <1>2, <1>3, <1>4, <1>11

Hands == {InHand(w) : w \in {x \in Workers : act[x] # Idle}}

LEMMA CrashShape ==
    ASSUME RowShape, HubShape, Crash
    PROVE  /\ RowShape' /\ UNCHANGED <<rows, counter, arrived>> /\ redone' = redone + 1
           /\ act' = [a \in Pushers |-> Idle]
           /\ disturbed' = (disturbed \/ Doing("incr") \cup Doing("decr") # {})
           /\ \E back \in Seq(Event) :
                 /\ {back[i] : i \in DOMAIN back} = Hands
                 /\ \A i, j \in DOMAIN back : i < j => back[i].id < back[j].id
                 /\ queue' = back \o queue
<1>1. End(Hands) /\ UNCHANGED <<rows, counter, arrived, calls>>
      /\ (UNCHANGED failures \/ (failures < MaxFailures /\ failures' = failures + 1))
  BY DEF Crash, Hands
<1>2. /\ HubRestart /\ redone' = redone + 1 /\ act' = [a \in Pushers |-> Idle]
      /\ disturbed' = (disturbed \/ Doing("incr") \cup Doing("decr") # {})
  BY <1>1 DEF End
<1>3. PICK back \in [1 .. Cardinality(Hands) -> Hands] :
        /\ {back[i] : i \in DOMAIN back} = Hands
        /\ \A i, j \in DOMAIN back : i < j => back[i].id < back[j].id
        /\ queue' = back \o queue
  BY <1>1 DEF End
<1>4. Hands \subseteq {m \in Event : m.id <= Len(arrived)} /\ Cardinality(Hands) \in Nat
  <2>1. ASSUME NEW w \in Workers, act[w] # Idle PROVE InHand(w) \in Event /\ InHand(w).id <= Len(arrived)
    <3>1. act[w].pc # "idle" /\ w \in Pushers
      BY <2>1, Actors DEF RowShape, Acting
    <3>2. act[w].job \in Kinds /\ act[w].event \in 1 .. Len(arrived)
      BY <3>1, WorkerAt DEF Worked
    <3>3. Len(arrived) \in Nat /\ Len(arrived) <= MaxEvents /\ MaxEvents \in Nat
      BY LenProperties, Actors DEF RowShape, Limits
    <3> QED BY <3>2, <3>3 DEF InHand, Event
  <2>2. IsFiniteSet({x \in Workers : act[x] # Idle})
    BY Actors, FS_Subset
  <2>3. PICK W : W = {x \in Workers : act[x] # Idle}
    OBVIOUS
  <2>4. IsFiniteSet({InHand(w) : w \in W})
    <3>1. PICK f, T : f = [w \in W |-> InHand(w)] /\ T = {InHand(w) : w \in W}
      OBVIOUS
    <3>2. f \in Surjection(W, T)
      BY <3>1 DEF Surjection
    <3>3. IsFiniteSet(T)
      BY <2>2, <2>3, <3>2, FS_Surjection
    <3> QED BY <3>1, <3>3
  <2> QED BY <2>1, <2>3, <2>4, FS_CardinalityType DEF Hands
<1>5. back \in Seq(Event) /\ \A i \in DOMAIN back : back[i] \in Hands
  <2>1. back \in [1 .. Cardinality(Hands) -> Event]
    BY <1>4
  <2> QED BY <1>4, <2>1, SeqDef
<1>6. queue' \in Seq(Event) /\ \A i \in DOMAIN queue' : queue'[i].id <= Len(arrived)
  <2>1. PICK b \in Seq(Event), q \in Seq(Event) : b = back /\ q = queue
    BY <1>5 DEF RowShape
  <2>2. /\ b \o q \in Seq(Event)
        /\ \A i \in DOMAIN b : (b \o q)[i] = b[i]
        /\ \A i \in DOMAIN (b \o q) : i \in DOMAIN b
              \/ (i - Len(b) \in DOMAIN q /\ (b \o q)[i] = q[i - Len(b)])
    BY InFront
  <2>3. queue' = b \o q
    BY <1>3, <2>1
  <2>4. \A i \in DOMAIN b : b[i].id <= Len(arrived)
    BY <1>4, <1>5, <2>1
  <2>5. \A i \in DOMAIN q : q[i].id <= Len(arrived)
    BY <2>1 DEF RowShape
  <2> QED BY <2>2, <2>3, <2>4, <2>5
<1>7. /\ Acting(act') /\ Working(act', Len(arrived')) /\ \A a \in Pushers : act'[a].n <= Len(rows')
  <2>1. Idle \in Acts /\ Idle.n = 0 /\ Idle.pc = "idle" /\ 0 <= Len(rows)
    BY LenProperties DEF Idle, Acts, Jobs, Pcs, RowShape
  <2>2. \A a \in Pushers : act'[a] = Idle
    BY <1>2
  <2>3. act' \in [Pushers -> Acts]
    BY <1>2, <2>1
  <2> QED BY <1>1, <2>1, <2>2, <2>3, Actors DEF Acting, Working
<1>8. \A p \in Pushers : push'[p].at = "idle"
  BY <1>2 DEF HubRestart, Quiet
<1>9. Limits'
  <2>1. failures' \in Nat /\ failures' <= MaxFailures /\ redone' \in Nat
    BY <1>1, <1>2, Actors DEF RowShape, Limits
  <2> QED BY <1>1, <2>1 DEF RowShape, Limits
<1>10. Counters'
  <2>1. disturbed' \in BOOLEAN
    BY <1>2 DEF RowShape, Counters
  <2> QED BY <1>1, <2>1 DEF RowShape, Counters, counter
<1>11. RowShape'
  BY <1>1, <1>6, <1>7, <1>8, <1>9, <1>10 DEF RowShape
<1> QED BY <1>1, <1>2, <1>3, <1>5, <1>11

LEMMA LoseKeyShape == ASSUME RowShape, HubShape, LoseKey PROVE RowShape'
<1>1. UNCHANGED <<hubVars, rows, queue, act>> /\ Failing /\ UNCHANGED arrived
  BY DEF LoseKey, Failing
<1>2. Counters'
  <2>1. count' = 0 /\ hasKey' = FALSE /\ disturbed' = TRUE
    BY DEF LoseKey
  <2>2. hasKey' \in BOOLEAN /\ disturbed' \in BOOLEAN
    BY <2>1
  <2>3. count' \in Int /\ (~hasKey' => count' = 0)
    BY <2>1
  <2> QED BY <2>2, <2>3 DEF Counters
<1>3. Limits'
  BY <1>1, LimitsSame DEF RowShape
<1> QED BY <1>1, <1>2, <1>3 DEF RowShape, hubVars

LEMMA ConnectShape == ASSUME RowShape, HubShape, NEW s \in Streams, Connect(s) PROVE RowShape'
<1>1. \A p \in Pushers : push'[p].at # "idle" => push[p].at # "idle"
  <2>1. CASE UNCHANGED push
    BY <2>1
  <2>2. CASE Unsubscribe(s)
    <3>1. \A m \in Calling : [m EXCEPT !.alone = FALSE].at = m.at
      BY DEF Calling
    <3> QED BY <2>2, <3>1 DEF Unsubscribe, HubShape
  <2> QED BY <2>1, <2>2 DEF Connect, Connection, Subscribe, Serve
<1> QED BY <1>1, PushSame DEF Connect

LEMMA PushGoesOnShape == ASSUME RowShape, HubShape, NEW a \in Pushers, PushGoesOn(a) PROVE RowShape'
<1>1. \A p \in Pushers : push'[p].at # "idle" => push[p].at # "idle"
  <2>1. push[a].at = "send" /\ \A p \in Pushers : p # a => push'[p] = push[p]
    BY DEF PushGoesOn, PushSends, HubShape
  <2> QED BY <2>1
<1> QED BY <1>1, PushSame DEF PushGoesOn

-----------------------------------------------------------------------------
(* Where an event is: queued, in hand, or settled.                           *)

RowsOf(e)  == {i \in DOMAIN rows : rows[i].event = e}
Settled(e) == arrived[e] \in {"own", "missed"} \/ RowsOf(e) # {}
Queued(e)  == \E i \in DOMAIN queue : queue[i].id = e
Held(e)    == \E w \in Workers : act[w].pc = "create" /\ act[w].event = e

Kept ==
    /\ \A e \in DOMAIN arrived : Settled(e) \/ Queued(e) \/ Held(e)
    /\ \A i \in DOMAIN queue : queue[i].kind = "own" => arrived[queue[i].id] \in {"own", "missed"}
    /\ \A w \in Workers : act[w].job = "own" => arrived[act[w].event] \in {"own", "missed"}

\* An event is in one place, and has written its row there at most once.
Once ==
    /\ \A i, j \in DOMAIN queue : queue[i].id = queue[j].id => i = j
    /\ \A w, x \in Workers : act[w].event # 0 /\ act[w].event = act[x].event => w = x
    /\ \A w \in Workers : \A i \in DOMAIN queue : queue[i].id # act[w].event
    /\ \A e \in DOMAIN arrived : /\ Cardinality(RowsOf(e)) <= 1 + redone
                                 /\ Queued(e) \/ Held(e) => Cardinality(RowsOf(e)) <= redone

Placed == Kept /\ Once

LEMMA QueueIds ==
    ASSUME RowShape
    PROVE  /\ DOMAIN arrived = 1 .. Len(arrived) /\ Len(arrived) \in Nat
           /\ \A i \in DOMAIN queue : /\ queue[i] \in Event /\ queue[i].id \in 1 .. Len(arrived)
                                      /\ queue[i].id \in DOMAIN arrived /\ queue[i].id # 0
<1>1. DOMAIN arrived = 1 .. Len(arrived) /\ Len(arrived) \in Nat
  BY LenProperties DEF RowShape, Limits
<1>2. ASSUME NEW i \in DOMAIN queue
      PROVE  queue[i] \in Event /\ queue[i].id \in 1 .. Len(arrived) /\ queue[i].id # 0
  <2>1. queue[i] \in Event /\ queue[i].id <= Len(arrived)
    BY ElementOfSeq, LenProperties DEF RowShape
  <2>2. queue[i].id \in 1 .. MaxEvents /\ MaxEvents \in Nat
    BY <2>1, Actors DEF Event
  <2> QED BY <1>1, <2>1, <2>2
<1> QED BY <1>1, <1>2

\* The worker w has no delivery at "create" that it had not, and the other way round.
Calm(w) ==
    \/ /\ act'[w].job = act[w].job /\ act'[w].event = act[w].event
       /\ act'[w].pc = "create" <=> act[w].pc = "create"
    \/ act[w].pc # "create" /\ act'[w].job = "none" /\ act'[w].event = 0 /\ act'[w].pc # "create"

LEMMA CalmOf ==
    ASSUME NEW a \in Pushers, NEW job, NEW pc, NEW n, NEW e, Becomes(a, job, pc, n, e),
           a \notin Workers \/ (/\ act[a].pc # "create" /\ pc # "create"
                               /\ \/ job = act[a].job /\ e = act[a].event
                                  \/ job = "none" /\ e = 0)
    PROVE  \A w \in Workers : Calm(w)
<1> SUFFICES ASSUME NEW w \in Workers PROVE Calm(w)
  OBVIOUS
<1>1. CASE w = a
  BY <1>1 DEF Becomes, Calm
<1>2. CASE w # a
  <2>1. w \in Pushers \ {a}
    BY <1>2, Actors
  <2> QED BY <2>1 DEF Becomes, Same, Calm
<1> QED BY <1>1, <1>2

LEMMA PlacedSame ==
    ASSUME RowShape, Placed, UNCHANGED <<queue, arrived, redone>>,
           \A e \in DOMAIN arrived : RowsOf(e)' = RowsOf(e),
           \A w \in Workers : Calm(w)
    PROVE  Placed'
<1>1. \A e \in DOMAIN arrived : /\ Settled(e) => Settled(e)'
                                /\ Queued(e)' <=> Queued(e)
                                /\ Held(e)' <=> Held(e)
  <2> SUFFICES ASSUME NEW e \in DOMAIN arrived
               PROVE  (Settled(e) => Settled(e)') /\ (Queued(e)' <=> Queued(e)) /\ (Held(e)' <=> Held(e))
    OBVIOUS
  <2>1. \A w \in Workers : (act'[w].pc = "create" /\ act'[w].event = e) <=> (act[w].pc = "create" /\ act[w].event = e)
    BY DEF Calm
  <2> QED BY <2>1 DEF Settled, Queued, Held
<1>2. Kept'
  <2>1. \A w \in Workers : act'[w].job = "own" => act[w].job = "own" /\ act'[w].event = act[w].event
    BY DEF Calm
  <2> QED BY <1>1, <2>1 DEF Placed, Kept
<1>3. Once'
  <2>1. \A w \in Workers : act'[w].event = act[w].event \/ act'[w].event = 0
    BY DEF Calm
  <2>2. \A i \in DOMAIN queue : queue[i].id # 0
    BY QueueIds
  <2>3. \A w, x \in Workers : act'[w].event # 0 /\ act'[w].event = act'[x].event => w = x
    BY <2>1 DEF Placed, Once
  <2>4. \A w \in Workers : \A i \in DOMAIN queue' : queue'[i].id # act'[w].event
    BY <2>1, <2>2 DEF Placed, Once
  <2>5. \A e \in DOMAIN arrived' : /\ Cardinality(RowsOf(e)') <= 1 + redone'
                                   /\ Queued(e)' \/ Held(e)' => Cardinality(RowsOf(e)') <= redone'
    BY <1>1 DEF Placed, Once
  <2> QED BY <2>3, <2>4, <2>5 DEF Placed, Once
<1> QED BY <1>2, <1>3 DEF Placed

\* Sets of rows with an event, when a row is written for f.
LEMMA RowsOfInsert ==
    ASSUME RowShape, NEW type \in (Kinds \ {"own"}) \cup Sends, NEW f \in 0 .. Len(arrived), Insert(type, f)
    PROVE  \A e : RowsOf(e)' = IF e = f THEN RowsOf(e) \cup {Len(rows) + 1} ELSE RowsOf(e)
<1>1. /\ DOMAIN rows' = DOMAIN rows \cup {Len(rows) + 1} /\ Len(rows) + 1 \notin DOMAIN rows
      /\ \A i \in DOMAIN rows : rows'[i] = rows[i]
      /\ rows'[Len(rows) + 1] = [type |-> type, event |-> f, read |-> FALSE]
  BY Inserted
<1>2. rows'[Len(rows) + 1].event = f
  BY <1>1
<1> QED BY <1>1, <1>2 DEF RowsOf

\* A worker settles the event at "create".
LEMMA PlacedSettles ==
    ASSUME RowShape, Placed, NEW w \in Workers, act[w].pc = "create",
           NEW f, f = act[w].event, NEW pc, pc # "create", NEW n,
           Becomes(w, act[w].job, pc, n, f),
           UNCHANGED <<queue, redone>>, DOMAIN arrived' = DOMAIN arrived,
           \A e \in DOMAIN arrived : arrived'[e] = arrived[e] \/ arrived'[e] = "missed",
           \A e \in DOMAIN arrived : e # f => RowsOf(e)' = RowsOf(e) /\ arrived'[e] = arrived[e],
           Settled(f)', Cardinality(RowsOf(f)') \in Nat, Cardinality(RowsOf(f)') <= Cardinality(RowsOf(f)) + 1
    PROVE  Placed'
<1>1. /\ w \in Pushers /\ f \in 1 .. Len(arrived) /\ DOMAIN arrived = 1 .. Len(arrived)
      /\ \A x \in Workers \ {w} : x \in Pushers \ {w} /\ Same(act'[x], act[x])
      /\ act'[w].pc # "create" /\ act'[w].event = f /\ act'[w].job = act[w].job
  BY WorkerAt, Actors, LenProperties DEF Becomes, RowShape, Limits
<1>2. \A e \in DOMAIN arrived : /\ Queued(e)' <=> Queued(e)
                                /\ e # f => (Held(e)' <=> Held(e)) /\ (Settled(e) => Settled(e)')
                                /\ ~Held(f)' /\ ~Queued(f)'
  <2>1. \A x \in Workers \ {w} : act[x].event # f
    BY <1>1 DEF Placed, Once
  <2>2. \A e \in DOMAIN arrived : Queued(e)' <=> Queued(e)
    BY DEF Queued
  <2>3. ~Held(f)'
    BY <1>1, <2>1 DEF Held, Same
  <2>4. ~Queued(f)'
    BY DEF Queued, Placed, Once
  <2>5. ASSUME NEW e \in DOMAIN arrived, e # f PROVE (Held(e)' <=> Held(e)) /\ (Settled(e) => Settled(e)')
    <3>1. \A x \in Workers : (act'[x].pc = "create" /\ act'[x].event = e) <=> (act[x].pc = "create" /\ act[x].event = e)
      BY <1>1, <2>5 DEF Same
    <3> QED BY <2>5, <3>1 DEF Held, Settled
  <2> QED BY <2>2, <2>3, <2>4, <2>5
<1>3. Kept'
  <2>1. \A e \in DOMAIN arrived' : Settled(e)' \/ Queued(e)' \/ Held(e)'
    BY <1>2 DEF Placed, Kept
  <2>2. \A e \in DOMAIN arrived : arrived[e] \in {"own", "missed"} => arrived'[e] \in {"own", "missed"}
    OBVIOUS
  <2>3. \A i \in DOMAIN queue : queue[i].id \in DOMAIN arrived
    BY QueueIds
  <2>4. \A x \in Workers : act'[x].job = "own" => arrived'[act'[x].event] \in {"own", "missed"}
    <3> SUFFICES ASSUME NEW x \in Workers, act'[x].job = "own"
                 PROVE  arrived'[act'[x].event] \in {"own", "missed"}
      OBVIOUS
    <3>1. act[x].job = "own" /\ act'[x].event = act[x].event
      BY <1>1 DEF Same
    <3>2. act[x].pc # "idle"
      BY <3>1, Actors DEF RowShape, Acting, Idle
    <3>3. act[x].event \in DOMAIN arrived
      BY <1>1, <3>2, WorkerAt
    <3> QED BY <2>2, <3>1, <3>3 DEF Placed, Kept
  <2> QED BY <2>1, <2>2, <2>3, <2>4 DEF Placed, Kept
<1>4. Once'
  <2>1. \A x \in Workers : act'[x].event = act[x].event
    BY <1>1 DEF Same
  <2>2. ASSUME NEW e \in DOMAIN arrived
        PROVE  /\ Cardinality(RowsOf(e)') <= 1 + redone
               /\ Queued(e)' \/ Held(e)' => Cardinality(RowsOf(e)') <= redone
    <3>1. CASE e # f
      BY <1>2, <3>1 DEF Placed, Once
    <3>2. CASE e = f
      <4>1. Held(f)
        BY <1>1 DEF Held
      <4>2. Cardinality(RowsOf(f)) <= redone /\ Cardinality(RowsOf(f)) \in Nat /\ redone \in Nat
        <5>1. RowsOf(f) \in SUBSET DOMAIN rows
          BY DEF RowsOf
        <5> QED BY <3>2, <4>1, <5>1, RowsFinite DEF Placed, Once, RowShape, Limits
      <4> QED BY <1>2, <3>2, <4>2
    <3> QED BY <3>1, <3>2
  <2> QED BY <2>1, <2>2 DEF Placed, Once
<1> QED BY <1>3, <1>4 DEF Placed

LEMMA DeliverPlaced ==
    ASSUME RowShape, HubShape, Placed, NEW w \in Workers, Deliver(w)
    PROVE  Placed'
<1>1. PICK h : h = Head(queue)
  OBVIOUS
<1>2. /\ w \in Pushers /\ Becomes(w, h.kind, "create", 0, h.id) /\ h \in Event /\ h.id \in 1 .. Len(arrived)
      /\ UNCHANGED <<rows, bounds>> /\ queue' = Tail(queue) /\ act[w] = Idle
  BY <1>1, DeliverShape, Actors DEF Deliver
<1>3. UNCHANGED <<arrived, redone>> /\ \A e : RowsOf(e)' = RowsOf(e)
  BY <1>2 DEF bounds, RowsOf
<1>4. /\ 1 \in DOMAIN queue /\ h = queue[1]
      /\ \A i \in DOMAIN queue' : i + 1 \in DOMAIN queue /\ queue'[i] = queue[i + 1] /\ i \in Nat \ {0}
      /\ \A i \in DOMAIN queue : i = 1 \/ (i - 1 \in DOMAIN queue' /\ queue'[i - 1] = queue[i])
  <2>1. queue \in Seq(Event) /\ queue # <<>>
    BY DEF RowShape, Deliver
  <2>2. /\ Tail(queue) \in Seq(Event) /\ Len(Tail(queue)) = Len(queue) - 1
        /\ \A i \in 1 .. Len(Tail(queue)) : Tail(queue)[i] = queue[i + 1]
    BY <2>1, HeadTailProperties
  <2>3. Len(queue) \in Nat /\ DOMAIN queue = 1 .. Len(queue) /\ DOMAIN Tail(queue) = 1 .. Len(Tail(queue))
    BY <2>1, <2>2, LenProperties
  <2>4. Len(queue) >= 1 /\ h = queue[1]
    BY <1>1, <2>1, <2>3, EmptySeq
  <2>5. \A i \in DOMAIN queue : i = 1 \/ (i - 1 \in 1 .. Len(Tail(queue)) /\ (i - 1) + 1 = i)
    BY <2>2, <2>3
  <2> QED BY <1>2, <2>2, <2>3, <2>4, <2>5
<1>5. /\ act'[w].pc = "create" /\ act'[w].event = h.id /\ act'[w].job = h.kind
      /\ \A x \in Workers \ {w} : Same(act'[x], act[x])
  BY <1>2, Actors DEF Becomes
<1>6. /\ act[w].pc = "idle" /\ h.id # 0
      /\ \A x \in Workers \ {w} : act[x].event # h.id
      /\ \A i \in DOMAIN queue' : queue'[i].id # h.id
  <2>1. \A i \in DOMAIN queue' : i + 1 # 1
    BY <1>4
  <2> QED BY <1>2, <1>4, <2>1 DEF Idle, Placed, Once
<1>7. \A e \in DOMAIN arrived : /\ Settled(e)' <=> Settled(e)
                                /\ (Queued(e)' \/ Held(e)') <=> (Queued(e) \/ Held(e))
  <2> SUFFICES ASSUME NEW e \in DOMAIN arrived
               PROVE  (Settled(e)' <=> Settled(e)) /\ ((Queued(e)' \/ Held(e)') <=> (Queued(e) \/ Held(e)))
    OBVIOUS
  <2>1. Settled(e)' <=> Settled(e)
    BY <1>3 DEF Settled
  <2>2. Held(e)' <=> (e = h.id \/ Held(e))
    BY <1>5, <1>6 DEF Held, Same
  <2>3. Queued(e) <=> (e = h.id \/ Queued(e)')
    BY <1>4 DEF Queued
  <2> QED BY <2>1, <2>2, <2>3
<1>8. Kept'
  <2>1. \A i \in DOMAIN queue' : queue'[i].kind = "own" => arrived[queue'[i].id] \in {"own", "missed"}
    BY <1>4 DEF Placed, Kept
  <2>2. \A x \in Workers : act'[x].job = "own" => arrived[act'[x].event] \in {"own", "missed"}
    BY <1>4, <1>5 DEF Placed, Kept, Same
  <2> QED BY <1>3, <1>7, <2>1, <2>2 DEF Placed, Kept
<1>9. Once'
  <2>1. \A i, j \in DOMAIN queue' : queue'[i].id = queue'[j].id => i = j
    <3>1. \A i, j \in DOMAIN queue' : queue'[i].id = queue'[j].id => i + 1 = j + 1
      BY <1>4 DEF Placed, Once
    <3> QED BY <1>4, <3>1
  <2>2. \A x, y \in Workers : act'[x].event # 0 /\ act'[x].event = act'[y].event => x = y
    BY <1>5, <1>6 DEF Placed, Once, Same
  <2>3. \A x \in Workers : \A i \in DOMAIN queue' : queue'[i].id # act'[x].event
    BY <1>4, <1>5, <1>6 DEF Placed, Once, Same
  <2> QED BY <1>3, <1>7, <2>1, <2>2, <2>3 DEF Placed, Once
<1> QED BY <1>8, <1>9 DEF Placed

LEMMA RowsOfFinite ==
    ASSUME RowShape
    PROVE  \A e : IsFiniteSet(RowsOf(e)) /\ Cardinality(RowsOf(e)) \in Nat
<1>1. \A e : RowsOf(e) \in SUBSET DOMAIN rows
  BY DEF RowsOf
<1> QED BY <1>1, RowsFinite

LEMMA ProcessPlaced ==
    ASSUME RowShape, HubShape, Placed, NEW w \in Workers, Process(w)
    PROVE  Placed'
<1>1. PICK f : f = act[w].event
  OBVIOUS
<1>2. /\ w \in Pushers /\ Worked(act[w], Len(arrived)) /\ act[w].pc = "create" /\ f \in 1 .. Len(arrived)
      /\ f \in DOMAIN arrived /\ act[w].job \in Kinds /\ DOMAIN arrived = 1 .. Len(arrived)
  BY <1>1, WorkerAt, QueueIds DEF Process, Worked
<1>3. /\ IsFiniteSet(RowsOf(f)) /\ Cardinality(RowsOf(f)) \in Nat
      /\ Cardinality(RowsOf(f)) <= Cardinality(RowsOf(f)) + 1
  BY RowsOfFinite
<1>4. CASE Ignores(w)
  <2>1. /\ act[w].job = "own" /\ Becomes(w, act[w].job, "ack", act[w].n, f)
        /\ UNCHANGED <<queue, redone, arrived>> /\ \A e : RowsOf(e)' = RowsOf(e)
    BY <1>1, <1>4 DEF Ignores, Keeps, bounds, RowsOf
  <2>2. Settled(f)'
    BY <1>1, <2>1 DEF Settled, Placed, Kept
  <2> QED BY <1>1, <1>2, <1>3, <2>1, <2>2, PlacedSettles
<1>5. CASE Writes(w)
  <2>1. PICK pc \in {"incr", "push"} : Becomes(w, act[w].job, pc, Len(rows) + 1, f)
    BY <1>1, <1>5 DEF Writes
  <2>2. act[w].job # "own" /\ Insert(act[w].job, f) /\ UNCHANGED <<queue, redone, arrived>>
    BY <1>1, <1>5 DEF Writes, bounds
  <2>3. PICK t \in (Kinds \ {"own"}) \cup Sends, g \in 0 .. Len(arrived) : t = act[w].job /\ g = f
    <3>1. Len(arrived) \in Nat  BY QueueIds
    <3> QED BY <1>2, <2>2, <3>1
  <2>4. \A e : RowsOf(e)' = IF e = f THEN RowsOf(e) \cup {Len(rows) + 1} ELSE RowsOf(e)
    BY <2>2, <2>3, RowsOfInsert
  <2>5. Len(rows) + 1 \notin RowsOf(f)
    BY <2>2, <2>3, Inserted DEF RowsOf
  <2>6. PICK R, R2 : R = RowsOf(f) /\ R2 = R \cup {Len(rows) + 1}
    OBVIOUS
  <2>7. Cardinality(R2) = Cardinality(R) + 1
    BY <1>3, <2>5, <2>6, FS_AddElement
  <2>8. RowsOf(f)' = R2 /\ Cardinality(RowsOf(f)') \in Nat /\ Cardinality(RowsOf(f)') <= Cardinality(RowsOf(f)) + 1
    <3>1. RowsOf(f)' = R2
      BY <2>4, <2>6
    <3>2. PICK k \in Nat : k = Cardinality(R)
      BY <1>3, <2>6
    <3>3. Cardinality(R2) \in Nat /\ Cardinality(R2) <= Cardinality(R) + 1
      BY <2>7, <3>2
    <3> QED BY <2>6, <3>1, <3>3
  <2>9. Settled(f)'
    BY <2>6, <2>8 DEF Settled
  <2> QED BY <1>1, <1>2, <2>1, <2>2, <2>4, <2>8, <2>9, PlacedSettles
<1>6. CASE Misses(w)
  <2>1. /\ Becomes(w, act[w].job, "ack", act[w].n, f) /\ UNCHANGED <<queue, redone>>
        /\ arrived' = [arrived EXCEPT ![f] = "missed"] /\ \A e : RowsOf(e)' = RowsOf(e)
    BY <1>1, <1>6 DEF Misses, Keeps, RowsOf
  <2>2. /\ DOMAIN arrived' = DOMAIN arrived /\ arrived'[f] = "missed"
        /\ \A e \in DOMAIN arrived : e # f => arrived'[e] = arrived[e]
    BY <1>2, <2>1
  <2>3. Settled(f)'
    BY <2>2 DEF Settled
  <2> QED BY <1>1, <1>2, <1>3, <2>1, <2>2, <2>3, PlacedSettles
<1>7. ASSUME UNCHANGED arrived, Leaves(w), queue' = <<InHand(w)>> \o queue,
             \A e : RowsOf(e) # {} => RowsOf(e)' # {},
             redone \in Nat, redone' \in Nat, redone <= redone',
             \A e : /\ Cardinality(RowsOf(e)') \in Nat
                   /\ Cardinality(RowsOf(e)') + redone <= Cardinality(RowsOf(e)) + redone'
      PROVE  Placed'
  <2>1. PICK m, q : m = InHand(w) /\ q = queue /\ q \in Seq(Event)
    BY DEF RowShape
  <2>2. m.id = f /\ m.kind = act[w].job
    BY <1>1, <2>1 DEF InHand
  <2>3. /\ UNCHANGED arrived /\ Leaves(w) /\ queue' = <<m>> \o q
    BY <1>7, <2>1
  <2>4. /\ \A i \in DOMAIN q : i + 1 \in DOMAIN queue' /\ queue'[i + 1] = q[i] /\ i \in Nat \ {0}
        /\ 1 \in DOMAIN queue' /\ queue'[1] = m
        /\ \A i \in DOMAIN queue' : i = 1 \/ (i - 1 \in DOMAIN q /\ queue'[i] = q[i - 1])
    <3>1. Len(q) \in Nat /\ DOMAIN q = 1 .. Len(q)
      BY LenProperties
    <3>2. m \in Event
      <4>1. Len(arrived) \in Nat /\ Len(arrived) <= MaxEvents /\ MaxEvents \in Nat
        BY QueueIds, Actors DEF RowShape, Limits
      <4> QED BY <1>1, <1>2, <2>1, <4>1 DEF InHand, Event
    <3>3. PICK b : b = <<m>>
      OBVIOUS
    <3>4. b \in Seq(Event) /\ Len(b) = 1 /\ b[1] = m /\ DOMAIN b = {1}
      BY <3>2, <3>3
    <3>5. /\ DOMAIN (b \o q) = 1 .. 1 + Len(q)
          /\ \A i \in DOMAIN b : (b \o q)[i] = b[i] /\ i \in DOMAIN (b \o q)
          /\ \A i \in DOMAIN q : (b \o q)[1 + i] = q[i] /\ 1 + i \in DOMAIN (b \o q)
          /\ \A i \in DOMAIN (b \o q) : i \in DOMAIN b \/ (i - 1 \in DOMAIN q /\ (b \o q)[i] = q[i - 1])
      BY <3>4, InFront
    <3>6. \A i \in DOMAIN q : 1 + i = i + 1 /\ i \in Nat \ {0}
      BY <3>1
    <3> QED BY <2>3, <3>3, <3>4, <3>5, <3>6
  <2>5. /\ act'[w].event = 0 /\ act'[w].job = "none" /\ act'[w].pc = "idle"
        /\ \A x \in Workers \ {w} : Same(act'[x], act[x])
    BY <2>3, Actors DEF Leaves, Becomes
  <2>7. \A e \in DOMAIN arrived : (Queued(e)' \/ Held(e)') <=> (Queued(e) \/ Held(e))
    <3> SUFFICES ASSUME NEW e \in DOMAIN arrived
                 PROVE  (Queued(e)' \/ Held(e)') <=> (Queued(e) \/ Held(e))
      OBVIOUS
    <3>1. Queued(e)' <=> (e = f \/ Queued(e))
      BY <2>1, <2>2, <2>4 DEF Queued
    <3>2. Held(e) <=> (e = f \/ Held(e)')
      BY <1>1, <1>2, <2>5 DEF Held, Same
    <3> QED BY <3>1, <3>2
  <2>8. Kept'
    <3>1. \A i \in DOMAIN queue' : queue'[i].kind = "own" => arrived[queue'[i].id] \in {"own", "missed"}
      BY <1>1, <2>1, <2>2, <2>4 DEF Placed, Kept
    <3>2. \A x \in Workers : act'[x].job = "own" => arrived[act'[x].event] \in {"own", "missed"}
      BY <2>5 DEF Placed, Kept, Same
    <3>3. \A e \in DOMAIN arrived : Settled(e) => Settled(e)'
      BY <1>7, <2>3 DEF Settled
    <3> QED BY <2>3, <2>7, <3>1, <3>2, <3>3 DEF Placed, Kept
  <2>9. Once'
    <3>1. \A i \in DOMAIN q : q[i].id # f /\ q[i].id # 0
      BY <1>1, <2>1, QueueIds DEF Placed, Once
    <3>2. \A i, j \in DOMAIN queue' : queue'[i].id = queue'[j].id => i = j
      <4>1. \A i, j \in DOMAIN queue' : i # 1 /\ j # 1 /\ queue'[i].id = queue'[j].id => i - 1 = j - 1
        BY <2>1, <2>4 DEF Placed, Once
      <4>2. \A i \in DOMAIN queue' : i # 1 => queue'[i].id # queue'[1].id
        BY <2>2, <2>4, <3>1
      <4>3. \A i \in DOMAIN queue' : i \in Int
        BY <2>3, <2>1, LenProperties, ProcessShape DEF RowShape
      <4>4. \A i, j \in DOMAIN queue' : i - 1 = j - 1 => i = j
        BY <4>3
      <4> QED BY <4>1, <4>2, <4>4
    <3>3. \A x, y \in Workers : act'[x].event # 0 /\ act'[x].event = act'[y].event => x = y
      BY <2>5 DEF Placed, Once, Same
    <3>4. \A x \in Workers \ {w} : act[x].event # f
      <4>1. f # 0  BY <1>2
      <4> QED BY <1>1, <4>1 DEF Placed, Once
    <3>5. \A x \in Workers : \A i \in DOMAIN queue' : queue'[i].id # act'[x].event
      <4> SUFFICES ASSUME NEW x \in Workers, NEW i \in DOMAIN queue' PROVE queue'[i].id # act'[x].event
        OBVIOUS
      <4>1. f # 0  BY <1>2
      <4>2. CASE x = w
        <5>1. i = 1 \/ (i - 1 \in DOMAIN q /\ queue'[i] = q[i - 1])
          BY <2>4
        <5>2. queue'[i].id # 0
          BY <2>2, <2>4, <3>1, <4>1, <5>1
        <5> QED BY <2>5, <4>2, <5>2
      <4>3. CASE x # w
        <5>1. act'[x].event = act[x].event /\ act[x].event # f
          BY <2>5, <3>4, <4>3 DEF Same
        <5>2. \A j \in DOMAIN q : q[j].id # act[x].event
          BY <2>1 DEF Placed, Once
        <5>3. i = 1 \/ (i - 1 \in DOMAIN q /\ queue'[i] = q[i - 1])
          BY <2>4
        <5>4. queue'[i].id # act[x].event
          BY <2>2, <2>4, <5>1, <5>2, <5>3
        <5> QED BY <5>1, <5>4
      <4> QED BY <4>2, <4>3
    <3>6. \A e \in DOMAIN arrived' : /\ Cardinality(RowsOf(e)') <= 1 + redone'
                                     /\ Queued(e)' \/ Held(e)' => Cardinality(RowsOf(e)') <= redone'
      <4> SUFFICES ASSUME NEW e \in DOMAIN arrived'
                   PROVE  /\ Cardinality(RowsOf(e)') <= 1 + redone'
                          /\ Queued(e)' \/ Held(e)' => Cardinality(RowsOf(e)') <= redone'
        OBVIOUS
      <4>1. e \in DOMAIN arrived  BY <2>3
      <4>2. (Queued(e)' \/ Held(e)') <=> (Queued(e) \/ Held(e))  BY <2>7, <4>1
      <4>3. PICK k, k2 : k = Cardinality(RowsOf(e)) /\ k2 = Cardinality(RowsOf(e)')
        OBVIOUS
      <4>4. PICK d, d2 : d = redone /\ d2 = redone'
        OBVIOUS
      <4>5. k \in Nat /\ k2 \in Nat /\ d \in Nat /\ d2 \in Nat /\ k2 + d <= k + d2
        BY <1>7, <4>1, <4>3, <4>4, RowsOfFinite
      <4>6. k <= 1 + d /\ (Queued(e) \/ Held(e) => k <= d)
        BY <4>1, <4>3, <4>4 DEF Placed, Once
      <4>7. k2 <= 1 + d2 /\ (Queued(e) \/ Held(e) => k2 <= d2)
        BY <4>5, <4>6
      <4> QED BY <4>2, <4>3, <4>4, <4>7
    <3> QED BY <3>2, <3>3, <3>5, <3>6 DEF Once
  <2> QED BY <2>8, <2>9 DEF Placed
<1>8. redone \in Nat
  BY DEF RowShape, Limits
<1>9. CASE Requeues(w)
  <2>1. UNCHANGED <<rows, arrived, redone>> /\ Leaves(w) /\ queue' = <<InHand(w)>> \o queue
    BY <1>9 DEF Requeues, Failing
  <2>2. \A e : RowsOf(e)' = RowsOf(e)
    BY <2>1 DEF RowsOf
  <2>3. \A e : /\ Cardinality(RowsOf(e)') \in Nat
               /\ Cardinality(RowsOf(e)') + redone <= Cardinality(RowsOf(e)) + redone'
    <3> SUFFICES ASSUME NEW e PROVE /\ Cardinality(RowsOf(e)') \in Nat
                                    /\ Cardinality(RowsOf(e)') + redone <= Cardinality(RowsOf(e)) + redone'
      OBVIOUS
    <3>1. PICK k \in Nat : k = Cardinality(RowsOf(e))
      BY RowsOfFinite
    <3> QED BY <1>8, <2>1, <2>2, <3>1
  <2>4. redone' \in Nat /\ redone <= redone'
    BY <1>8, <2>1
  <2>5. \A e : RowsOf(e) # {} => RowsOf(e)' # {}
    BY <2>2
  <2> QED BY <1>7, <1>8, <2>1, <2>3, <2>4, <2>5
<1>10. CASE Repeats(w)
  <2>1. /\ act[w].job # "own" /\ Insert(act[w].job, f) /\ redone' = redone + 1
        /\ UNCHANGED arrived /\ Leaves(w) /\ queue' = <<InHand(w)>> \o queue
    BY <1>1, <1>10 DEF Repeats
  <2>2. PICK t \in (Kinds \ {"own"}) \cup Sends, g \in 0 .. Len(arrived) : t = act[w].job /\ g = f
    <3>1. Len(arrived) \in Nat  BY QueueIds
    <3> QED BY <1>2, <2>1, <3>1
  <2>3. \A e : RowsOf(e)' = IF e = f THEN RowsOf(e) \cup {Len(rows) + 1} ELSE RowsOf(e)
    BY <2>1, <2>2, RowsOfInsert
  <2>4. \A e : /\ Cardinality(RowsOf(e)') \in Nat
               /\ Cardinality(RowsOf(e)') + redone <= Cardinality(RowsOf(e)) + redone'
    <3> SUFFICES ASSUME NEW e PROVE /\ Cardinality(RowsOf(e)') \in Nat
                                    /\ Cardinality(RowsOf(e)') + redone <= Cardinality(RowsOf(e)) + redone'
      OBVIOUS
    <3>1. PICK R, n : R = RowsOf(e) /\ n = Len(rows) + 1
      OBVIOUS
    <3>2. IsFiniteSet(R) /\ Cardinality(R) \in Nat
      BY <3>1, RowsOfFinite
    <3>3. Cardinality(R \cup {n}) \in {Cardinality(R), Cardinality(R) + 1}
      BY <3>2, FS_AddElement
    <3>4. RowsOf(e)' \in {R, R \cup {n}}
      BY <2>3, <3>1
    <3>5. PICK k, k2 : k \in Nat /\ k = Cardinality(R) /\ k2 = Cardinality(RowsOf(e)')
      BY <3>2
    <3>6. k2 \in {k, k + 1}
      BY <3>3, <3>4, <3>5
    <3>7. k2 \in Nat /\ k2 + redone <= k + (redone + 1)
      BY <1>8, <3>5, <3>6
    <3> QED BY <2>1, <3>1, <3>5, <3>7
  <2>5. redone' \in Nat /\ redone <= redone'
    BY <1>8, <2>1
  <2>6. \A e : RowsOf(e) # {} => RowsOf(e)' # {}
    BY <2>3
  <2> QED BY <1>7, <1>8, <2>1, <2>4, <2>5, <2>6
<1> QED BY <1>4, <1>5, <1>6, <1>9, <1>10, ProcessMoves

LEMMA ArrivePlaced == ASSUME RowShape, HubShape, Placed, Arrive PROVE Placed'
<1>1. PICK m \in Event : /\ m.id = Len(arrived) + 1 /\ queue' = Append(queue, m)
                         /\ arrived' = Append(arrived, m.kind)
  BY ArriveShape
<1>2. UNCHANGED <<rows, act, redone>> /\ redone \in Nat
  BY ArriveShape DEF RowShape, Limits
<1>3. PICK n : n = Len(arrived) + 1
  OBVIOUS
<1>4. /\ DOMAIN arrived' = DOMAIN arrived \cup {n} /\ n \notin DOMAIN arrived /\ n # 0
      /\ \A e \in DOMAIN arrived : arrived'[e] = arrived[e] /\ e # n
  <2>1. PICK T, v : T = Kinds \cup {"missed"} /\ v = m.kind
    OBVIOUS
  <2>2. arrived \in Seq(T) /\ v \in T
    BY <1>1, <2>1 DEF RowShape, Limits, Event
  <2>3. /\ Len(arrived') = n /\ arrived' \in Seq(T) /\ Len(arrived) \in Nat
        /\ \A e \in 1 .. Len(arrived) : arrived'[e] = arrived[e]
    BY <1>1, <1>3, <2>1, <2>2, AppendProperties, LenProperties
  <2>4. DOMAIN arrived = 1 .. Len(arrived) /\ DOMAIN arrived' = 1 .. n
    BY <2>2, <2>3, LenProperties
  <2> QED BY <1>3, <2>3, <2>4
<1>5. PICK k : k = Len(queue) + 1
  OBVIOUS
<1>6. /\ DOMAIN queue' = DOMAIN queue \cup {k} /\ queue'[k] = m /\ m.id = n
      /\ \A i \in DOMAIN queue : queue'[i] = queue[i] /\ i # k
  <2>1. queue \in Seq(Event)
    BY DEF RowShape
  <2>2. /\ Len(queue') = k /\ queue' \in Seq(Event) /\ Len(queue) \in Nat /\ queue'[k] = m
        /\ \A i \in 1 .. Len(queue) : queue'[i] = queue[i]
    BY <1>1, <1>5, <2>1, AppendProperties, LenProperties
  <2>3. DOMAIN queue = 1 .. Len(queue) /\ DOMAIN queue' = 1 .. k
    BY <2>1, <2>2, LenProperties
  <2> QED BY <1>1, <1>3, <1>5, <2>2, <2>3
<1>7. \A i \in DOMAIN queue : queue[i].id \in DOMAIN arrived /\ queue[i].id # n
  BY <1>4, QueueIds
<1>8. \A w \in Workers : act[w].event = 0 \/ act[w].event \in DOMAIN arrived
  <2> SUFFICES ASSUME NEW w \in Workers PROVE act[w].event = 0 \/ act[w].event \in DOMAIN arrived
    OBVIOUS
  <2>1. CASE act[w].pc = "idle"
    BY <2>1, Actors DEF RowShape, Acting, Idle
  <2>2. CASE act[w].pc # "idle"
    BY <2>2, WorkerAt, QueueIds
  <2> QED BY <2>1, <2>2
<1>9. /\ \A e \in DOMAIN arrived : /\ Settled(e) => Settled(e)'
                                   /\ Queued(e)' <=> Queued(e)
                                   /\ Held(e)' <=> Held(e)
                                   /\ RowsOf(e)' = RowsOf(e)
      /\ Queued(n)'
  <2>1. Queued(n)'
    BY <1>6 DEF Queued
  <2>2. ASSUME NEW e \in DOMAIN arrived
        PROVE  /\ Settled(e) => Settled(e)'
               /\ Queued(e)' <=> Queued(e)
               /\ Held(e)' <=> Held(e)
               /\ RowsOf(e)' = RowsOf(e)
    <3>1. RowsOf(e)' = RowsOf(e) /\ (Held(e)' <=> Held(e))
      BY <1>2 DEF RowsOf, Held
    <3>2. Queued(e)' <=> Queued(e)
      BY <1>4, <1>6 DEF Queued
    <3> QED BY <1>4, <3>1, <3>2 DEF Settled
  <2> QED BY <2>1, <2>2
<1>10. RowsOf(n)' = {}
  <2>1. \A i \in DOMAIN rows : rows[i].event # n
    <3>1. Len(arrived) \in Nat
      BY QueueIds
    <3>2. \A i \in DOMAIN rows : rows[i].event \in Nat /\ rows[i].event <= Len(arrived)
      <4>1. \A i \in DOMAIN rows : rows[i] \in Row
        BY ElementOfSeq, LenProperties DEF RowShape
      <4>2. \A r \in Row : r.event \in Nat
        BY Actors DEF Row
      <4> QED BY <4>1, <4>2 DEF RowShape
    <3> QED BY <1>3, <3>1, <3>2
  <2> QED BY <1>2, <2>1 DEF RowsOf
<1>11. Kept'
  <2>1. \A i \in DOMAIN queue' : queue'[i].kind = "own" => arrived'[queue'[i].id] \in {"own", "missed"}
    <3>1. ASSUME NEW i \in DOMAIN queue, queue'[i].kind = "own"
          PROVE  arrived'[queue'[i].id] \in {"own", "missed"}
      BY <1>4, <1>6, <1>7, <3>1 DEF Placed, Kept
    <3>2. m.kind = "own" => arrived'[n] \in {"own", "missed"}
      <4>1. arrived'[n] = m.kind
        <5>1. PICK T, v : T = Kinds \cup {"missed"} /\ v = m.kind
          OBVIOUS
        <5>2. arrived \in Seq(T) /\ v \in T
          BY <1>1, <5>1 DEF RowShape, Limits, Event
        <5> QED BY <1>1, <1>3, <5>1, <5>2, AppendProperties
      <4> QED BY <4>1
    <3> QED BY <1>6, <3>1, <3>2
  <2>2. \A w \in Workers : act'[w].job = "own" => arrived'[act'[w].event] \in {"own", "missed"}
    <3> SUFFICES ASSUME NEW w \in Workers, act[w].job = "own"
                 PROVE  arrived'[act[w].event] \in {"own", "missed"}
      BY <1>2
    <3>1. act[w].pc # "idle"
      BY Actors DEF RowShape, Acting, Idle
    <3>2. act[w].event \in DOMAIN arrived
      BY <3>1, WorkerAt, QueueIds
    <3> QED BY <1>4, <3>2 DEF Placed, Kept
  <2>3. \A e \in DOMAIN arrived' : Settled(e)' \/ Queued(e)' \/ Held(e)'
    BY <1>4, <1>9 DEF Placed, Kept
  <2> QED BY <2>1, <2>2, <2>3 DEF Kept
<1>12. Once'
  <2>1. \A i, j \in DOMAIN queue' : queue'[i].id = queue'[j].id => i = j
    BY <1>6, <1>7 DEF Placed, Once
  <2>2. \A w \in Workers : \A i \in DOMAIN queue' : queue'[i].id # act'[w].event
    BY <1>2, <1>4, <1>6, <1>8 DEF Placed, Once
  <2>3. \A e \in DOMAIN arrived' : /\ Cardinality(RowsOf(e)') <= 1 + redone'
                                   /\ Queued(e)' \/ Held(e)' => Cardinality(RowsOf(e)') <= redone'
    <3>1. ASSUME NEW e \in DOMAIN arrived
          PROVE  /\ Cardinality(RowsOf(e)') <= 1 + redone'
                 /\ Queued(e)' \/ Held(e)' => Cardinality(RowsOf(e)') <= redone'
      BY <1>2, <1>9 DEF Placed, Once
    <3>2. Cardinality(RowsOf(n)') <= 1 + redone' /\ Cardinality(RowsOf(n)') <= redone'
      <4>1. Cardinality({}) = 0  BY FS_EmptySet
      <4>2. Cardinality(RowsOf(n)') = 0  BY <1>10, <4>1
      <4> QED BY <1>2, <4>2
    <3> QED BY <1>4, <3>1, <3>2
  <2> QED BY <1>2, <2>1, <2>2, <2>3 DEF Placed, Once
<1> QED BY <1>11, <1>12 DEF Placed

LEMMA CrashPlaced == ASSUME RowShape, HubShape, Placed, Crash PROVE Placed'
<1>1. /\ UNCHANGED <<rows, counter, arrived>> /\ redone' = redone + 1 /\ redone \in Nat
      /\ act' = [a \in Pushers |-> Idle]
  BY CrashShape DEF RowShape, Limits
<1>2. PICK back \in Seq(Event) :
         /\ {back[i] : i \in DOMAIN back} = Hands
         /\ \A i, j \in DOMAIN back : i < j => back[i].id < back[j].id
         /\ queue' = back \o queue
  BY CrashShape
<1>3. PICK n, q : n = Len(back) /\ q = queue /\ q \in Seq(Event)
  BY DEF RowShape
<1>4. /\ n \in Nat /\ DOMAIN back = 1 .. n /\ \A i \in DOMAIN q : i \in Nat \ {0}
      /\ \A i \in DOMAIN back : queue'[i] = back[i] /\ i \in DOMAIN queue'
      /\ \A i \in DOMAIN q : queue'[n + i] = q[i] /\ n + i \in DOMAIN queue'
      /\ \A i \in DOMAIN queue' : i \in Int /\ (i \in DOMAIN back \/ (i - n \in DOMAIN q /\ queue'[i] = q[i - n]))
  BY <1>2, <1>3, InFront
<1>5. \A w \in Workers : act'[w] = Idle /\ act'[w].event = 0 /\ act'[w].job = "none" /\ act'[w].pc = "idle"
  BY <1>1, Actors DEF Idle
<1>6. \A m \in Hands : \E w \in Workers : /\ act[w].event = m.id /\ act[w].job = m.kind
                                          /\ m.id \in DOMAIN arrived /\ m.id # 0
  <2> SUFFICES ASSUME NEW w \in Workers, act[w] # Idle
               PROVE  act[w].event \in DOMAIN arrived /\ act[w].event # 0
    BY DEF Hands, InHand
  <2>1. act[w].pc # "idle"
    BY Actors DEF RowShape, Acting
  <2>2. act[w].event \in 1 .. Len(arrived)
    BY <2>1, WorkerAt
  <2> QED BY <2>2, QueueIds
<1>7. \A i \in DOMAIN back : back[i] \in Hands
  BY <1>2
<1>8. \A i \in DOMAIN back : \A j \in DOMAIN q : back[i].id # q[j].id
  BY <1>3, <1>6, <1>7 DEF Placed, Once
<1>9. \A e : RowsOf(e)' = RowsOf(e)
  BY <1>1 DEF RowsOf
<1>10. \A e \in DOMAIN arrived : /\ Settled(e)' <=> Settled(e)
                                 /\ Queued(e) \/ Held(e) => Queued(e)'
  <2> SUFFICES ASSUME NEW e \in DOMAIN arrived
               PROVE  (Settled(e)' <=> Settled(e)) /\ (Queued(e) \/ Held(e) => Queued(e)')
    OBVIOUS
  <2>1. Settled(e)' <=> Settled(e)
    BY <1>1, <1>9 DEF Settled
  <2>2. CASE Queued(e)
    <3>1. PICK i \in DOMAIN q : q[i].id = e
      BY <1>3, <2>2 DEF Queued
    <3>2. n + i \in DOMAIN queue' /\ queue'[n + i].id = e
      BY <1>4, <3>1
    <3>3. \E j \in DOMAIN queue' : queue'[j].id = e
      BY <3>2
    <3>4. Queued(e)'
      BY <3>3 DEF Queued
    <3> QED BY <2>1, <3>4
  <2>3. CASE Held(e)
    <3>1. PICK w \in Workers : act[w].pc = "create" /\ act[w].event = e
      BY <2>3 DEF Held
    <3>2. act[w] # Idle
      BY <3>1 DEF Idle
    <3>3. InHand(w) \in Hands /\ InHand(w).id = e
      BY <3>1, <3>2 DEF Hands, InHand
    <3>4. PICK i \in DOMAIN back : back[i] = InHand(w)
      BY <1>2, <3>3
    <3>5. i \in DOMAIN queue' /\ queue'[i].id = e
      BY <1>4, <3>3, <3>4
    <3>6. Queued(e)'
      BY <3>5 DEF Queued
    <3> QED BY <2>1, <3>6
  <2> QED BY <2>1, <2>2, <2>3
<1>11. Kept'
  <2>1. ASSUME NEW i \in DOMAIN queue', queue'[i].kind = "own"
        PROVE  arrived'[queue'[i].id] \in {"own", "missed"}
    <3>1. CASE i \in DOMAIN back
      BY <1>1, <1>4, <1>6, <1>7, <2>1, <3>1 DEF Placed, Kept
    <3>2. CASE i - n \in DOMAIN q /\ queue'[i] = q[i - n]
      BY <1>1, <1>3, <2>1, <3>2 DEF Placed, Kept
    <3> QED BY <1>4, <3>1, <3>2
  <2>2. \A w \in Workers : act'[w].job # "own"
    BY <1>5
  <2> QED BY <1>1, <1>10, <2>1, <2>2 DEF Placed, Kept
<1>12. Once'
  <2>1. \A i, j \in DOMAIN queue' : queue'[i].id = queue'[j].id => i = j
    <3> SUFFICES ASSUME NEW i \in DOMAIN queue', NEW j \in DOMAIN queue', queue'[i].id = queue'[j].id
                 PROVE  i = j
      OBVIOUS
    <3>1. CASE i \in DOMAIN back /\ j \in DOMAIN back
      <4>1. back[i].id = back[j].id /\ i \in Int /\ j \in Int
        BY <1>4, <3>1
      <4>2. back[i].id \in Int /\ back[j].id \in Int
        <5>1. back[i] \in Event /\ back[j] \in Event
          BY <1>2, <3>1, ElementOfSeq, LenProperties
        <5> QED BY <5>1 DEF Event
      <4>3. ~(i < j) /\ ~(j < i)
        BY <1>2, <3>1, <4>1, <4>2
      <4> QED BY <4>1, <4>3
    <3>2. CASE i \in DOMAIN back /\ j \notin DOMAIN back
      BY <1>4, <1>8, <3>2
    <3>3. CASE i \notin DOMAIN back /\ j \in DOMAIN back
      BY <1>4, <1>8, <3>3
    <3>4. CASE i \notin DOMAIN back /\ j \notin DOMAIN back
      <4>1. i - n \in DOMAIN q /\ j - n \in DOMAIN q /\ q[i - n].id = q[j - n].id
        BY <1>4, <3>4
      <4>2. i - n = j - n
        BY <1>3, <4>1 DEF Placed, Once
      <4> QED BY <1>4, <4>2
    <3> QED BY <3>1, <3>2, <3>3, <3>4
  <2>2. \A i \in DOMAIN queue' : queue'[i].id # 0
    <3>1. \A i \in DOMAIN q : q[i].id # 0
      BY <1>3, QueueIds
    <3> QED BY <1>4, <1>6, <1>7, <3>1
  <2>3. ASSUME NEW e \in DOMAIN arrived
        PROVE  Cardinality(RowsOf(e)') <= redone' /\ Cardinality(RowsOf(e)') <= 1 + redone'
    <3>1. Cardinality(RowsOf(e)) <= 1 + redone /\ Cardinality(RowsOf(e)) \in Nat
      BY RowsOfFinite DEF Placed, Once
    <3>2. RowsOf(e)' = RowsOf(e)
      BY <1>9
    <3>3. PICK k : k = Cardinality(RowsOf(e)) /\ k = Cardinality(RowsOf(e)')
      BY <3>2
    <3> QED BY <1>1, <3>1, <3>3
  <2> QED BY <1>1, <1>5, <2>1, <2>2, <2>3 DEF Once
<1> QED BY <1>11, <1>12 DEF Placed

-----------------------------------------------------------------------------
(* The counter.                                                              *)

\* What a recount that ran alone has counted is still so.
Recounted ==
    \A c \in Pushers : act[c].pc \in {"count", "setcount"} /\ act[c].alone =>
        /\ \A y \in Pushers \ {c} : act[y].pc = "idle"
        /\ act[c].pc = "setcount" => act[c].n = Cardinality(Unread)

Exact == CounterExact /\ Recounted

LEMMA Sums ==
    ASSUME RowShape
    PROVE  /\ IsFiniteSet(Unread) /\ Cardinality(Unread) \in Nat
           /\ \A pc : IsFiniteSet(Doing(pc)) /\ Cardinality(Doing(pc)) \in Nat
           /\ IsFiniteSet(Owed) /\ Cardinality(Owed) \in Nat
<1>1. IsFiniteSet(Unread) /\ Cardinality(Unread) \in Nat
  <2>1. Unread \in SUBSET DOMAIN rows  BY DEF Unread
  <2> QED BY <2>1, RowsFinite
<1>2. \A pc : IsFiniteSet(Doing(pc)) /\ Cardinality(Doing(pc)) \in Nat
  <2>1. \A pc : Doing(pc) \subseteq Pushers  BY DEF Doing
  <2> QED BY <2>1, Actors, FS_Subset, FS_CardinalityType
<1>3. IsFiniteSet(Owed) /\ Cardinality(Owed) \in Nat
  <2>1. IsFiniteSet(1 .. Len(rows)) /\ Len(rows) \in Nat
    BY LenProperties, FS_Interval DEF RowShape
  <2>2. IsFiniteSet(Pushers \X (1 .. Len(rows)))
    BY <2>1, Actors, FS_Product
  <2>3. Owed \subseteq Pushers \X (1 .. Len(rows))
    <3>1. \A c \in Pushers : act[c].n \in Nat /\ act[c].n <= Len(rows)
      BY DEF RowShape, Acting, Acts
    <3>2. \A c \in Pushers : (1 .. act[c].n) \subseteq 1 .. Len(rows)
      BY <2>1, <3>1
    <3> QED BY <3>2 DEF Owed, Doing
  <2> QED BY <2>2, <2>3, FS_Subset, FS_CardinalityType
<1> QED BY <1>1, <1>2, <1>3

\* How the sets of the counter's account change with the activity of a.
LEMMA DoingStep ==
    ASSUME NEW a \in Pushers, NEW job, NEW pc, NEW n, NEW e, Becomes(a, job, pc, n, e), NEW p
    PROVE  /\ pc = p => Doing(p)' = Doing(p) \cup {a}
           /\ pc # p => Doing(p)' = Doing(p) \ {a}
           /\ a \in Doing(p) <=> act[a].pc = p
<1>1. \A x \in Pushers : act'[x].pc = IF x = a THEN pc ELSE act[x].pc
  BY DEF Becomes, Same
<1> QED BY <1>1 DEF Doing

LEMMA OwedStep ==
    ASSUME NEW a \in Pushers, NEW job, NEW pc, NEW n, NEW e, Becomes(a, job, pc, n, e)
    PROVE  /\ act[a].pc # "decr" /\ pc # "decr" => Owed' = Owed
           /\ act[a].pc # "decr" /\ pc = "decr" =>
                 /\ Owed' = Owed \cup ({a} \X (1 .. n)) /\ Owed \cap ({a} \X (1 .. n)) = {}
           /\ act[a].pc = "decr" /\ pc # "decr" =>
                 Owed' = Owed \ ({a} \X (1 .. act[a].n)) /\ ({a} \X (1 .. act[a].n)) \subseteq Owed
<1>1. /\ \A x \in Pushers \ {a} : act'[x].pc = act[x].pc /\ act'[x].n = act[x].n
      /\ act'[a].pc = pc /\ act'[a].n = n
  BY DEF Becomes, Same
<1>2. PICK D, D2 : D = Doing("decr") \ {a} /\ D2 = Doing("decr")' \ {a}
  OBVIOUS
<1>3. /\ D2 = D /\ D \subseteq Pushers \ {a}
      /\ Doing("decr") = (IF act[a].pc = "decr" THEN D \cup {a} ELSE D)
      /\ Doing("decr")' = IF pc = "decr" THEN D \cup {a} ELSE D
  BY <1>1, <1>2 DEF Doing
<1>4. PICK O : O = UNION {{c} \X (1 .. act[c].n) : c \in D}
  OBVIOUS
<1>5. O = UNION {{c} \X (1 .. act'[c].n) : c \in D}
  <2>1. \A c \in D : {c} \X (1 .. act'[c].n) = {c} \X (1 .. act[c].n)
    BY <1>1, <1>3
  <2> QED BY <1>4, <2>1
<1>6. \A m : O \cap ({a} \X (1 .. m)) = {}
  BY <1>3, <1>4
<1>7. Owed = IF act[a].pc = "decr" THEN O \cup ({a} \X (1 .. act[a].n)) ELSE O
  BY <1>3, <1>4 DEF Owed
<1>8. Owed' = IF pc = "decr" THEN O \cup ({a} \X (1 .. n)) ELSE O
  <2>1. Owed' = UNION {{c} \X (1 .. act'[c].n) : c \in Doing("decr")'}
    BY DEF Owed
  <2>2. CASE pc = "decr"
    <3>1. Owed' = UNION {{c} \X (1 .. act'[c].n) : c \in D \cup {a}}
      BY <1>3, <2>1, <2>2
    <3> QED BY <1>1, <1>5, <2>2, <3>1
  <2>3. CASE pc # "decr"
    <3>1. Owed' = UNION {{c} \X (1 .. act'[c].n) : c \in D}
      BY <1>3, <2>1, <2>3
    <3> QED BY <1>5, <2>3, <3>1
  <2> QED BY <2>2, <2>3
<1> QED BY <1>6, <1>7, <1>8

LEMMA Packet ==
    ASSUME NEW a, NEW n \in Nat
    PROVE  IsFiniteSet({a} \X (1 .. n)) /\ Cardinality({a} \X (1 .. n)) = n
<1>1. IsFiniteSet(1 .. n) /\ Cardinality(1 .. n) = n
  <2>1. 1 \in Int /\ n \in Int
    OBVIOUS
  <2>2. IsFiniteSet(1 .. n) /\ Cardinality(1 .. n) = IF 1 > n THEN 0 ELSE n - 1 + 1
    BY <2>1, FS_Interval
  <2> QED BY <2>2
<1>2. IsFiniteSet({a}) /\ Cardinality({a}) = 1
  BY FS_Singleton
<1>3. PICK A, N : A = {a} /\ N = 1 .. n
  OBVIOUS
<1>4. IsFiniteSet(A \X N) /\ Cardinality(A \X N) = Cardinality(A) * Cardinality(N)
  BY <1>1, <1>2, <1>3, FS_Product
<1>5. Cardinality(A) = 1 /\ Cardinality(N) = n
  BY <1>1, <1>2, <1>3
<1> QED BY <1>3, <1>4, <1>5

\* Sizes of a disjoint union and of a difference.
LEMMA Joined ==
    ASSUME NEW A, NEW B, IsFiniteSet(A), IsFiniteSet(B), A \cap B = {}
    PROVE  IsFiniteSet(A \cup B) /\ Cardinality(A \cup B) = Cardinality(A) + Cardinality(B)
<1>1. Cardinality(A) \in Nat /\ Cardinality(B) \in Nat /\ Cardinality(A \cap B) = 0
  BY FS_CardinalityType, FS_EmptySet
<1>2. IsFiniteSet(A \cup B) /\ Cardinality(A \cup B) = Cardinality(A) + Cardinality(B) - Cardinality(A \cap B)
  BY FS_Union
<1> QED BY <1>1, <1>2

LEMMA Parted ==
    ASSUME NEW A, NEW B, IsFiniteSet(A), B \subseteq A
    PROVE  IsFiniteSet(A \ B) /\ Cardinality(A \ B) = Cardinality(A) - Cardinality(B)
<1>1. A \cap B = B
  OBVIOUS
<1>2. IsFiniteSet(A \ B) /\ Cardinality(A \ B) = Cardinality(A) - Cardinality(A \cap B)
  BY FS_Difference
<1> QED BY <1>1, <1>2

LEMMA UnreadOfInsert ==
    ASSUME RowShape, NEW type \in (Kinds \ {"own"}) \cup Sends, NEW f \in 0 .. Len(arrived), Insert(type, f)
    PROVE  Cardinality(Unread') = IF Counted(type) THEN Cardinality(Unread) + 1 ELSE Cardinality(Unread)
<1>1. /\ DOMAIN rows' = DOMAIN rows \cup {Len(rows) + 1} /\ Len(rows) + 1 \notin DOMAIN rows
      /\ \A i \in DOMAIN rows : rows'[i] = rows[i]
      /\ rows'[Len(rows) + 1] = [type |-> type, event |-> f, read |-> FALSE]
  BY Inserted
<1>2. PICK n, U : n = Len(rows) + 1 /\ U = Unread
  OBVIOUS
<1>3. rows'[n].type = type /\ ~rows'[n].read
  BY <1>1, <1>2
<1>4. Unread' = IF Counted(type) THEN U \cup {n} ELSE U
  BY <1>1, <1>2, <1>3 DEF Unread
<1>5. Cardinality(U \cup {n}) = Cardinality(U) + 1
  <2>1. IsFiniteSet(U) /\ n \notin U
    BY <1>1, <1>2, Sums DEF Unread
  <2> QED BY <2>1, FS_AddElement
<1>6. CASE Counted(type)
  BY <1>2, <1>4, <1>5, <1>6
<1>7. CASE ~Counted(type)
  BY <1>2, <1>4, <1>7
<1> QED BY <1>6, <1>7

\* No recount has run alone up to here once another activity has moved.
LEMMA RecountedStep ==
    ASSUME RowShape, Recounted, NEW a \in Pushers, NEW job, NEW pc, NEW n, NEW e,
           Becomes(a, job, pc, n, e), pc \notin {"count", "setcount"}
    PROVE  Recounted'
<1> SUFFICES ASSUME NEW c \in Pushers, act'[c].pc \in {"count", "setcount"}, act'[c].alone PROVE FALSE
  BY DEF Recounted
<1>1. c # a /\ act[c].pc \in {"count", "setcount"} /\ act[c].alone
  BY DEF Becomes, Same
<1>2. act[a].pc = "idle"
  BY <1>1 DEF Recounted
<1> QED BY <1>1, <1>2 DEF Becomes

\* A step that neither writes rows nor adds to or takes off the counter.
LEMMA ExactQuiet ==
    ASSUME RowShape, Exact, NEW a \in Pushers, NEW job, NEW pc, NEW n, NEW e, Becomes(a, job, pc, n, e),
           act[a].pc \notin {"incr", "decr"}, pc \notin {"incr", "decr", "count", "setcount"},
           Cardinality(Unread') = Cardinality(Unread),
           disturbed' = TRUE \/ UNCHANGED <<count, disturbed>>
    PROVE  Exact'
<1>1. Doing("incr")' = Doing("incr")
  <2>1. a \notin Doing("incr") /\ Doing("incr")' = Doing("incr") \ {a}
    BY DoingStep
  <2> QED BY <2>1
<1>2. Owed' = Owed
  BY OwedStep
<1>3. CounterExact'
  BY <1>1, <1>2 DEF Exact, CounterExact
<1> QED BY <1>3, RecountedStep DEF Exact

\* A row that counts is written, and its increment is still to come.
LEMMA ExactWrites ==
    ASSUME RowShape, Exact, NEW a \in Pushers, NEW job, NEW n, NEW e, Becomes(a, job, "incr", n, e),
           act[a].pc \notin {"incr", "decr"}, Cardinality(Unread') = Cardinality(Unread) + 1,
           UNCHANGED <<count, disturbed>>
    PROVE  Exact'
<1>1. PICK D, D2 : D = Doing("incr") /\ D2 = Doing("incr")'
  OBVIOUS
<1>2. Cardinality(D2) = Cardinality(D) + 1
  <2>1. a \notin D /\ D2 = D \cup {a} /\ IsFiniteSet(D)
    BY <1>1, DoingStep, Sums
  <2>2. Cardinality(D \cup {a}) = Cardinality(D) + 1
    BY <2>1, FS_AddElement
  <2> QED BY <2>1, <2>2
<1>3. Owed' = Owed
  BY OwedStep
<1>4. PICK u \in Nat, i \in Nat, d \in Nat : u = Cardinality(Unread) /\ i = Cardinality(D) /\ d = Cardinality(Owed)
  BY <1>1, Sums
<1>5. CounterExact'
  <2>1. ~disturbed => count = u - i + d
    BY <1>1, <1>4 DEF Exact, CounterExact
  <2>2. Cardinality(Unread') = u + 1 /\ Cardinality(Doing("incr")') = i + 1 /\ Cardinality(Owed') = d
    BY <1>1, <1>2, <1>3, <1>4
  <2>3. ~disturbed' => count' = (u + 1) - (i + 1) + d
    BY <2>1
  <2> QED BY <2>2, <2>3 DEF CounterExact
<1> QED BY <1>5, RecountedStep DEF Exact

LEMMA ExactIncrement ==
    ASSUME RowShape, HubShape, Exact, NEW a \in Pushers, Increment(a)
    PROVE  Exact'
<1>1. act[a].pc = "incr" /\ (Keeps(a, "push") \/ Leaves(a))
  BY IncrementShape
<1>2. PICK job, pc, n, e : Becomes(a, job, pc, n, e) /\ pc \notin {"incr", "decr", "count", "setcount"}
  BY <1>1 DEF Keeps, Leaves
<1>3. PICK D, D2 : D = Doing("incr") /\ D2 = Doing("incr")'
  OBVIOUS
<1>4. Cardinality(D2) = Cardinality(D) - 1
  <2>1. a \in D /\ D2 = D \ {a} /\ IsFiniteSet(D)
    BY <1>1, <1>2, <1>3, DoingStep, Sums
  <2>2. Cardinality(D \ {a}) = Cardinality(D) - 1
    BY <2>1, FS_RemoveElement
  <2> QED BY <2>1, <2>2
<1>5. Owed' = Owed /\ Unread' = Unread
  BY <1>1, <1>2, OwedStep DEF Increment, Unread
<1>6. PICK u \in Nat, i \in Nat, d \in Nat : u = Cardinality(Unread) /\ i = Cardinality(D) /\ d = Cardinality(Owed)
  BY <1>3, Sums
<1>7. CounterExact'
  <2>1. ~disturbed => count = u - i + d
    BY <1>3, <1>6 DEF Exact, CounterExact
  <2>2. Cardinality(Unread') = u /\ Cardinality(Doing("incr")') = i - 1 /\ Cardinality(Owed') = d
    BY <1>3, <1>4, <1>5, <1>6
  <2>3. disturbed' = TRUE \/ (disturbed' = disturbed /\ count' = count + 1)
    BY DEF Increment, AddTo
  <2>4. ~disturbed' => count' = u - (i - 1) + d
    BY <2>1, <2>3
  <2> QED BY <2>2, <2>4 DEF CounterExact
<1> QED BY <1>2, <1>7, RecountedStep DEF Exact

LEMMA ExactMarkRead ==
    ASSUME RowShape, HubShape, Exact, NEW c \in Callers, MarkRead(c)
    PROVE  Exact'
<1>1. PICK S \in SUBSET {j \in DOMAIN rows : ~rows[j].read} :
        /\ rows' = Marked(S) /\ disturbed' = (disturbed \/ ~(S \subseteq Unread))
        /\ IF S = {} THEN UNCHANGED act ELSE Becomes(c, "mark", "decr", Cardinality(S), 0)
  BY MarkReadShape
<1>2. act[c].pc = "idle" /\ c \in Pushers /\ UNCHANGED count
  BY MarkReadShape DEF MarkRead, counter
<1>3. PICK U, O : U = Unread /\ O = Owed
  OBVIOUS
<1>4. Unread' = U \ S
  <2>1. rows' = [i \in DOMAIN rows |-> IF i \in S THEN [rows[i] EXCEPT !.read = TRUE] ELSE rows[i]]
    BY <1>1 DEF Marked
  <2>2. DOMAIN rows' = DOMAIN rows
    BY <2>1
  <2>3. \A i \in DOMAIN rows : rows[i] \in Row
    BY ElementOfSeq, LenProperties DEF RowShape
  <2>4. \A r \in Row : [r EXCEPT !.read = TRUE].read = TRUE /\ [r EXCEPT !.read = TRUE].type = r.type
    BY DEF Row
  <2>5. \A i \in DOMAIN rows : /\ rows'[i].type = rows[i].type
                               /\ i \in S => rows'[i].read = TRUE
                               /\ i \notin S => rows'[i] = rows[i]
    BY <2>1, <2>3, <2>4
  <2> QED BY <1>3, <2>2, <2>5 DEF Unread
<1>5. CASE S = {}
  <2>1. UNCHANGED <<act, disturbed>>
    <3>1. disturbed \in BOOLEAN /\ disturbed' = (disturbed \/ FALSE)
      BY <1>1, <1>5 DEF RowShape, Counters
    <3> QED BY <1>1, <1>5, <3>1
  <2>2. Unread' = Unread /\ Doing("incr")' = Doing("incr") /\ Owed' = Owed
    BY <1>3, <1>4, <1>5, <2>1 DEF Doing, Owed
  <2>3. CounterExact' /\ Recounted'
    BY <1>2, <2>1, <2>2 DEF Exact, CounterExact, Recounted
  <2> QED BY <2>3 DEF Exact
<1>6. CASE S # {}
  <2>1. Becomes(c, "mark", "decr", Cardinality(S), 0)
    BY <1>1, <1>6
  <2>2. Doing("incr")' = Doing("incr")
    <3>1. c \notin Doing("incr") /\ Doing("incr")' = Doing("incr") \ {c}
      BY <1>2, <2>1, DoingStep
    <3> QED BY <3>1
  <2>3. PICK m \in Nat : m = Cardinality(S)
    <3>1. S \in SUBSET DOMAIN rows
      BY <1>1
    <3> QED BY <3>1, RowsFinite
  <2>4. Cardinality(Owed') = Cardinality(O) + m
    <3>1. PICK P : P = {c} \X (1 .. m)
      OBVIOUS
    <3>2. Owed' = O \cup P /\ O \cap P = {} /\ IsFiniteSet(O)
      BY <1>2, <1>3, <2>1, <2>3, <3>1, OwedStep, Sums
    <3>3. IsFiniteSet(P) /\ Cardinality(P) = m
      BY <3>1, Packet
    <3>4. Cardinality(O \cup P) = Cardinality(O) + Cardinality(P)
      BY <3>2, <3>3, Joined
    <3> QED BY <3>2, <3>3, <3>4
  <2>5. S \subseteq Unread => Cardinality(Unread') = Cardinality(U) - m
    <3> SUFFICES ASSUME S \subseteq U PROVE Cardinality(Unread') = Cardinality(U) - m
      BY <1>3
    <3>1. IsFiniteSet(U)
      BY <1>3, Sums
    <3>2. Cardinality(U \ S) = Cardinality(U) - Cardinality(S)
      BY <3>1, Parted
    <3> QED BY <1>4, <2>3, <3>2
  <2>6. PICK u \in Nat, i \in Nat, d \in Nat : u = Cardinality(U) /\ i = Cardinality(Doing("incr")) /\ d = Cardinality(O)
    BY <1>3, Sums
  <2>7. CounterExact'
    <3>1. ~disturbed => count = u - i + d
      BY <1>3, <2>6 DEF Exact, CounterExact
    <3>2. Cardinality(Doing("incr")') = i /\ Cardinality(Owed') = d + m
      BY <2>2, <2>4, <2>6
    <3>3. ~disturbed' => ~disturbed /\ Cardinality(Unread') = u - m
      BY <1>1, <2>5, <2>6
    <3>4. ~disturbed' => count' = (u - m) - i + (d + m)
      BY <1>2, <3>1, <3>3
    <3> QED BY <3>2, <3>3, <3>4 DEF CounterExact
  <2> QED BY <1>2, <2>1, <2>7, RecountedStep DEF Exact
<1> QED BY <1>5, <1>6

LEMMA ExactDecrement ==
    ASSUME RowShape, HubShape, Exact, NEW c \in Callers, Decrement(c)
    PROVE  Exact'
<1>1. /\ act[c].pc = "decr" /\ c \in Pushers
      /\ \/ AddTo(-act[c].n) /\ Keeps(c, "clamp") /\ UNCHANGED <<bounds, disturbed>>
         \/ /\ Failing /\ Leaves(c)
            /\ \/ AddTo(-act[c].n) /\ UNCHANGED disturbed
               \/ disturbed' = TRUE /\ UNCHANGED counter
  BY DecrementShape
<1>2. PICK job, pc, n, e : Becomes(c, job, pc, n, e) /\ pc \notin {"incr", "decr", "count", "setcount"}
  BY <1>1 DEF Keeps, Leaves
<1>3. Doing("incr")' = Doing("incr") /\ Unread' = Unread
  <2>1. c \notin Doing("incr") /\ Doing("incr")' = Doing("incr") \ {c}
    BY <1>1, <1>2, DoingStep
  <2> QED BY <2>1 DEF Decrement, Unread
<1>4. PICK m \in Nat : m = act[c].n
  BY <1>1 DEF RowShape, Acting, Acts
<1>5. PICK O : O = Owed
  OBVIOUS
<1>6. Cardinality(Owed') = Cardinality(O) - m
  <2>1. PICK P : P = {c} \X (1 .. m)
    OBVIOUS
  <2>2. Owed' = O \ P /\ P \subseteq O /\ IsFiniteSet(O)
    BY <1>1, <1>2, <1>4, <1>5, <2>1, OwedStep, Sums
  <2>3. Cardinality(P) = m
    BY <2>1, Packet
  <2>4. Cardinality(O \ P) = Cardinality(O) - Cardinality(P)
    BY <2>2, Parted
  <2> QED BY <2>2, <2>3, <2>4
<1>7. PICK u \in Nat, i \in Nat, d \in Nat :
        u = Cardinality(Unread) /\ i = Cardinality(Doing("incr")) /\ d = Cardinality(O)
  BY <1>5, Sums
<1>8. CounterExact'
  <2>1. ~disturbed => count = u - i + d
    BY <1>5, <1>7 DEF Exact, CounterExact
  <2>2. Cardinality(Unread') = u /\ Cardinality(Doing("incr")') = i /\ Cardinality(Owed') = d - m
    BY <1>3, <1>6, <1>7
  <2>3. disturbed' = TRUE \/ (disturbed' = disturbed /\ count' = count + (-m))
    BY <1>1, <1>4 DEF AddTo
  <2>4. ~disturbed' => count' = u - i + (d - m)
    BY <2>1, <2>3
  <2> QED BY <2>2, <2>4 DEF CounterExact
<1> QED BY <1>1, <1>2, <1>8, RecountedStep DEF Exact

LEMMA ExactRecount ==
    ASSUME RowShape, HubShape, Exact, NEW c \in Callers, Recount(c)
    PROVE  Exact'
<1>1. /\ act[c].pc = "idle" /\ c \in Pushers
      /\ Becomes(c, "count", "count", 0, 0)
      /\ act'[c].alone => \A y \in Pushers \ {c} : act[y] = Idle
      /\ \A x \in Pushers \ {c} : ~act'[x].alone
  BY RecountShape
<1>2. UNCHANGED <<rows, counter, disturbed>> /\ Unread' = Unread
  BY DEF Recount, Unread
<1>3. Doing("incr")' = Doing("incr") /\ Owed' = Owed
  <2>1. c \notin Doing("incr") /\ Doing("incr")' = Doing("incr") \ {c}
    BY <1>1, DoingStep
  <2>2. Owed' = Owed
    BY <1>1, OwedStep
  <2> QED BY <2>1, <2>2
<1>4. CounterExact'
  BY <1>2, <1>3 DEF Exact, CounterExact, counter
<1>5. Recounted'
  <2> SUFFICES ASSUME NEW x \in Pushers, act'[x].pc \in {"count", "setcount"}, act'[x].alone
               PROVE  /\ \A y \in Pushers \ {x} : act'[y].pc = "idle"
                      /\ act'[x].pc = "setcount" => act'[x].n = Cardinality(Unread')
    BY DEF Recounted
  <2>1. x = c
    BY <1>1
  <2>2. \A y \in Pushers \ {x} : act'[y].pc = "idle"
    BY <1>1, <2>1 DEF Becomes, Same, Idle
  <2> QED BY <1>1, <1>2, <2>1, <2>2 DEF Becomes
<1> QED BY <1>4, <1>5 DEF Exact

LEMMA ExactRecountReads ==
    ASSUME RowShape, HubShape, Exact, NEW c \in Callers, RecountReads(c)
    PROVE  Exact'
<1>1. act[c].pc = "count" /\ c \in Pushers
  BY RecountReadsShape
<1>2. PICK n : /\ Becomes(c, "count", "setcount", n, 0)
               /\ act'[c].alone => act[c].alone /\ n = Cardinality(Unread)
  BY RecountReadsShape
<1>3. UNCHANGED <<rows, counter, disturbed>> /\ Unread' = Unread
  BY DEF RecountReads, Unread
<1>4. Doing("incr")' = Doing("incr") /\ Owed' = Owed
  <2>1. c \notin Doing("incr") /\ Doing("incr")' = Doing("incr") \ {c}
    BY <1>1, <1>2, DoingStep
  <2>2. Owed' = Owed
    BY <1>1, <1>2, OwedStep
  <2> QED BY <2>1, <2>2
<1>5. CounterExact'
  BY <1>3, <1>4 DEF Exact, CounterExact, counter
<1>6. Recounted'
  <2> SUFFICES ASSUME NEW x \in Pushers, act'[x].pc \in {"count", "setcount"}, act'[x].alone
               PROVE  /\ \A y \in Pushers \ {x} : act'[y].pc = "idle"
                      /\ act'[x].pc = "setcount" => act'[x].n = Cardinality(Unread')
    BY DEF Recounted
  <2>1. x = c
    <3> SUFFICES ASSUME x # c PROVE FALSE
      OBVIOUS
    <3>1. act[x].pc \in {"count", "setcount"} /\ act[x].alone
      BY <1>2 DEF Becomes, Same
    <3>2. act[c].pc = "idle"
      BY <1>1, <3>1 DEF Exact, Recounted
    <3> QED BY <1>1, <3>2
  <2>2. \A y \in Pushers \ {c} : act[y].pc = "idle"
    BY <1>1, <1>2, <2>1 DEF Exact, Recounted
  <2>3. \A y \in Pushers \ {c} : act'[y].pc = "idle"
    BY <1>2, <2>2 DEF Becomes, Same
  <2>4. act'[c].n = n
    BY <1>2 DEF Becomes
  <2> QED BY <1>2, <1>3, <2>1, <2>3, <2>4
<1> QED BY <1>5, <1>6 DEF Exact

LEMMA ExactRecountSets ==
    ASSUME RowShape, HubShape, Exact, NEW c \in Callers, RecountSets(c)
    PROVE  Exact'
<1>1. act[c].pc = "setcount" /\ c \in Pushers /\ Leaves(c)
  BY RecountSetsShape
<1>2. Becomes(c, "none", "idle", 0, 0)
  BY <1>1 DEF Leaves
<1>3. Unread' = Unread
  BY DEF RecountSets, Unread
<1>4. CASE UNCHANGED <<counter, disturbed>>
  BY <1>1, <1>2, <1>3, <1>4, ExactQuiet DEF counter
<1>5. CASE count' = act[c].n /\ disturbed' = ~act[c].alone
  <2>1. CASE act[c].alone
    <3>1. act[c].n = Cardinality(Unread) /\ \A y \in Pushers \ {c} : act'[y].pc = "idle"
      BY <1>1, <1>2, <2>1 DEF Exact, Recounted, Becomes, Same
    <3>2. Doing("incr")' = {} /\ Doing("decr")' = {}
      BY <1>2, <3>1 DEF Becomes, Doing
    <3>3. Owed' = {}
      BY <3>2 DEF Owed
    <3>4. PICK u \in Nat : u = Cardinality(Unread)
      BY Sums
    <3>5. Cardinality(Doing("incr")') = 0 /\ Cardinality(Owed') = 0
      <4>1. Cardinality({}) = 0  BY FS_EmptySet
      <4> QED BY <3>2, <3>3, <4>1
    <3>6. count' = u - 0 + 0 /\ Cardinality(Unread') = u
      BY <1>3, <1>5, <3>1, <3>4
    <3>7. CounterExact'
      BY <3>5, <3>6 DEF CounterExact
    <3> QED BY <1>1, <1>2, <3>7, RecountedStep DEF Exact
  <2>2. CASE ~act[c].alone
    <3>1. disturbed' = TRUE
      BY <1>5, <2>2
    <3> QED BY <1>1, <1>2, <1>3, <3>1, ExactQuiet
  <2> QED BY <2>1, <2>2
<1> QED BY <1>4, <1>5 DEF RecountSets

LEMMA ExactProcess ==
    ASSUME RowShape, HubShape, Exact, NEW w \in Workers, Process(w)
    PROVE  Exact'
<1>1. /\ w \in Pushers /\ act[w].pc = "create" /\ act[w].job \in Kinds /\ UNCHANGED count
      /\ act[w].event \in 0 .. Len(arrived)
  <2>1. w \in Pushers /\ act[w].pc = "create" /\ act[w].job \in Kinds /\ act[w].event \in 1 .. Len(arrived)
    BY WorkerAt DEF Process, Worked
  <2> QED BY <2>1 DEF Process, counter
<1>2. UNCHANGED rows => Cardinality(Unread') = Cardinality(Unread)
  BY DEF Unread
<1>3. CASE Ignores(w)
  BY <1>1, <1>2, <1>3, ExactQuiet DEF Ignores, Keeps
<1>4. CASE Misses(w)
  BY <1>1, <1>2, <1>4, ExactQuiet DEF Misses, Keeps
<1>5. CASE Requeues(w)
  BY <1>1, <1>2, <1>5, ExactQuiet DEF Requeues, Leaves
<1>6. CASE Writes(w)
  <2>1. PICK t \in (Kinds \ {"own"}) \cup Sends, f \in 0 .. Len(arrived) : t = act[w].job /\ f = act[w].event
    BY <1>1, <1>6 DEF Writes
  <2>2. Cardinality(Unread') = IF Counted(t) THEN Cardinality(Unread) + 1 ELSE Cardinality(Unread)
    BY <1>6, <2>1, UnreadOfInsert DEF Writes
  <2>3. /\ Becomes(w, t, IF Counted(t) THEN "incr" ELSE "push", Len(rows) + 1, f)
        /\ UNCHANGED <<count, disturbed>>
    BY <1>1, <1>6, <2>1 DEF Writes
  <2>4. CASE Counted(t)
    BY <1>1, <2>2, <2>3, <2>4, ExactWrites
  <2>5. CASE ~Counted(t)
    BY <1>1, <2>2, <2>3, <2>5, ExactQuiet
  <2> QED BY <2>4, <2>5
<1>7. CASE Repeats(w)
  <2>1. PICK t \in (Kinds \ {"own"}) \cup Sends, f \in 0 .. Len(arrived) : t = act[w].job /\ f = act[w].event
    BY <1>1, <1>7 DEF Repeats
  <2>2. Becomes(w, "none", "idle", 0, 0) /\ disturbed' = (disturbed \/ Counted(t)) /\ Insert(t, f)
    BY <1>7, <2>1 DEF Repeats, Leaves
  <2>3. Cardinality(Unread') = IF Counted(t) THEN Cardinality(Unread) + 1 ELSE Cardinality(Unread)
    BY <2>1, <2>2, UnreadOfInsert
  <2>4. CASE ~Counted(t)
    <3>1. disturbed \in BOOLEAN
      BY DEF RowShape, Counters
    <3>2. disturbed' = disturbed
      BY <2>2, <2>4, <3>1
    <3>3. UNCHANGED <<count, disturbed>>
      BY <1>1, <3>2
    <3>4. act[w].pc \notin {"incr", "decr"} /\ "idle" \notin {"incr", "decr", "count", "setcount"}
      BY <1>1
    <3>5. Cardinality(Unread') = Cardinality(Unread)
      BY <2>3, <2>4
    <3> QED BY <1>1, <2>2, <3>3, <3>4, <3>5, ExactQuiet
  <2>5. CASE Counted(t)
    <3>1. disturbed' = TRUE
      BY <2>2, <2>5
    <3>2. CounterExact'
      BY <3>1 DEF CounterExact
    <3>3. "idle" \notin {"count", "setcount"} /\ Recounted
      BY DEF Exact
    <3>4. Recounted'
      BY <1>1, <2>2, <3>3, RecountedStep
    <3> QED BY <3>2, <3>4 DEF Exact
  <2> QED BY <2>4, <2>5
<1> QED BY <1>3, <1>4, <1>5, <1>6, <1>7, ProcessMoves

LEMMA ExactSend ==
    ASSUME RowShape, HubShape, Exact, NEW c \in Callers, Send(c)
    PROVE  Exact'
<1>1. PICK t \in Sends : Insert(t, 0) /\ Becomes(c, t, "incr", Len(rows) + 1, 0)
  BY SendShape
<1>2. act[c].pc = "idle" /\ c \in Pushers /\ UNCHANGED <<count, disturbed>>
  BY SendShape DEF Send, counter
<1>3. t \in (Kinds \ {"own"}) \cup Sends /\ 0 \in 0 .. Len(arrived) /\ Counted(t)
  BY QueueIds, Actors DEF Counted
<1>4. Cardinality(Unread') = Cardinality(Unread) + 1
  BY <1>1, <1>3, UnreadOfInsert
<1> QED BY <1>1, <1>2, <1>4, ExactWrites

\* Steps that leave activities and rows alone.
LEMMA ExactSame ==
    ASSUME Exact, UNCHANGED <<act, rows>>, disturbed' = TRUE \/ UNCHANGED <<count, disturbed>>
    PROVE  Exact'
<1>1. Unread' = Unread /\ Doing("incr")' = Doing("incr") /\ Owed' = Owed
  BY DEF Unread, Doing, Owed
<1> QED BY <1>1 DEF Exact, CounterExact, Recounted

LEMMA ExactCrash == ASSUME RowShape, HubShape, Exact, Crash PROVE Exact'
<1>1. /\ UNCHANGED <<rows, counter>> /\ act' = [a \in Pushers |-> Idle]
      /\ disturbed' = (disturbed \/ Doing("incr") \cup Doing("decr") # {})
  BY CrashShape
<1>2. /\ Doing("incr")' = {} /\ Doing("decr")' = {} /\ Unread' = Unread
  BY <1>1 DEF Doing, Idle, Unread
<1>3. Owed' = {}
  BY <1>2 DEF Owed
<1>4. ~disturbed' => ~disturbed /\ Doing("incr") = {} /\ Owed = {}
  <2>1. Doing("decr") = {} => Owed = {}
    BY DEF Owed
  <2> QED BY <1>1, <2>1
<1>5. CounterExact'
  BY <1>1, <1>2, <1>3, <1>4 DEF Exact, CounterExact, counter
<1>6. Recounted'
  BY <1>1 DEF Recounted, Idle
<1> QED BY <1>5, <1>6 DEF Exact

-----------------------------------------------------------------------------
(* The inductive invariant of rows, queue and counter.                       *)

RowInv == RowShape /\ Placed /\ Exact /\ NeverLeftNegative

\* The clamp is done after the decrement, and nothing else makes the counter
\* negative.
LEMMA NegativeStep ==
    ASSUME RowShape, NeverLeftNegative, NEW a \in Pushers, NEW job, NEW pc, NEW n, NEW e,
           Becomes(a, job, pc, n, e), count' \in Int, failures' \in Nat, failures' >= failures, UNCHANGED redone,
           \/ failures' > failures
           \/ count' >= 0
           \/ pc \in {"clamp", "zero"}
           \/ (count' < 0 => count < 0) /\ act[a].pc \notin {"clamp", "zero"}
    PROVE  NeverLeftNegative'
<1>1. failures \in Nat /\ redone \in Nat
  BY DEF RowShape, Limits
<1> SUFFICES ASSUME count' < 0, ~(failures' > 0), ~(redone' > 0)
             PROVE  Doing("clamp")' \cup Doing("zero")' # {}
  BY DEF NeverLeftNegative
<1>2. ~(failures > 0) /\ ~(redone > 0) /\ ~(failures' > failures)
  BY <1>1
<1>3. CASE pc \in {"clamp", "zero"}
  <2>1. a \in Doing("clamp")' \cup Doing("zero")'
    BY <1>3 DEF Becomes, Doing
  <2> QED BY <2>1
<1>4. CASE count < 0 /\ act[a].pc \notin {"clamp", "zero"}
  <2>1. PICK x \in Pushers : act[x].pc \in {"clamp", "zero"}
    BY <1>2, <1>4 DEF NeverLeftNegative, Doing
  <2>2. act'[x].pc = act[x].pc
    BY <1>4, <2>1 DEF Becomes, Same
  <2>3. x \in Doing("clamp")' \cup Doing("zero")'
    BY <2>1, <2>2 DEF Doing
  <2> QED BY <2>3
<1>5. ~(count' >= 0)
  OBVIOUS
<1> QED BY <1>2, <1>3, <1>4, <1>5

LEMMA NegativeSame ==
    ASSUME RowShape, NeverLeftNegative, UNCHANGED act, count' < 0 => count < 0,
           failures' \in Nat, failures' >= failures, UNCHANGED redone
    PROVE  NeverLeftNegative'
<1>1. failures \in Nat /\ \A pc : Doing(pc)' = Doing(pc)
  BY DEF RowShape, Limits, Doing
<1> QED BY <1>1 DEF NeverLeftNegative

\* What a step may do to the bounds.
LEMMA FailuresGrow ==
    ASSUME RowShape, RowShape', UNCHANGED bounds \/ Failing \/ (\E c \in Pushers : Call(c))
    PROVE  /\ failures' \in Nat /\ failures' >= failures /\ UNCHANGED redone /\ count' \in Int
           /\ Failing => failures' > failures
<1>1. failures \in Nat /\ failures' \in Nat /\ count' \in Int
  BY DEF RowShape, Limits, Counters
<1> QED BY <1>1 DEF bounds, Failing, Call

LEMMA RowInvInit == ASSUME Init PROVE RowInv
<1> USE DEF Init, HubInit
<1>1. /\ rows = <<>> /\ queue = <<>> /\ arrived = <<>> /\ Len(<<>>) = 0 /\ DOMAIN rows = {}
      /\ DOMAIN queue = {} /\ DOMAIN arrived = {} /\ act = [a \in Pushers |-> Idle]
  OBVIOUS
<1>2. Idle \in Acts /\ Idle.n = 0 /\ Idle.pc = "idle" /\ Idle.event = 0 /\ Idle.job = "none"
  BY DEF Idle, Acts, Jobs, Pcs
<1>3. RowShape
  <2>1. Acting(act) /\ Working(act, Len(arrived)) /\ \A a \in Pushers : act[a].n <= Len(rows)
    BY <1>1, <1>2, Actors DEF Acting, Working
  <2>2. Counters
    <3>1. count = 0 /\ hasKey = FALSE /\ disturbed = FALSE  OBVIOUS
    <3>2. hasKey \in BOOLEAN /\ disturbed \in BOOLEAN  BY <3>1
    <3>3. count \in Int /\ (~hasKey => count = 0)  BY <3>1
    <3> QED BY <3>2, <3>3 DEF Counters
  <2>4. Limits
    BY <1>1, Actors DEF Limits
  <2>3. \A p \in Pushers : push[p].at = "idle"
    BY DEF Quiet
  <2> QED BY <1>1, <2>1, <2>2, <2>3, <2>4 DEF RowShape
<1>4. Placed
  BY <1>1, <1>2, Actors DEF Placed, Kept, Once
<1>5. Unread = {} /\ Doing("incr") = {} /\ Owed = {}
  <2>1. Unread = {} /\ Doing("incr") = {} /\ Doing("decr") = {}
    BY <1>1, <1>2 DEF Unread, Doing
  <2> QED BY <2>1 DEF Owed
<1>6. Exact
  <2>1. Cardinality({}) = 0  BY FS_EmptySet
  <2>2. CounterExact
    <3>1. /\ Cardinality(Unread) = 0 /\ Cardinality(Doing("incr")) = 0 /\ Cardinality(Owed) = 0
          /\ count = 0
      BY <1>5, <2>1
    <3> QED BY <3>1 DEF CounterExact
  <2> QED BY <1>1, <1>2, <2>2 DEF Exact, Recounted
<1>7. NeverLeftNegative
  BY DEF NeverLeftNegative
<1> QED BY <1>3, <1>4, <1>6, <1>7 DEF RowInv

LEMMA WorkerKeeps ==
    ASSUME RowInv, HubShape, NEW w \in Workers, Worker(w) PROVE RowInv'
<1> USE DEF RowInv
<1>1. CASE Deliver(w)
  <2>1. /\ RowShape' /\ Becomes(w, Head(queue).kind, "create", 0, Head(queue).id) /\ w \in Pushers
        /\ UNCHANGED <<rows, counter, bounds, disturbed>> /\ act[w].pc = "idle"
    BY <1>1, DeliverShape, Actors DEF Deliver, Idle
  <2>2. Placed'
    BY <1>1, DeliverPlaced
  <2>3. Exact'
    BY <2>1, ExactQuiet DEF counter, Unread
  <2>4. NeverLeftNegative'
    <3>1. /\ failures' \in Nat /\ failures' >= failures /\ UNCHANGED redone /\ count' \in Int
          /\ count' = count
      BY <2>1, FailuresGrow DEF counter
    <3> QED BY <2>1, <3>1, NegativeStep
  <2> QED BY <2>1, <2>2, <2>3, <2>4
<1>2. CASE Process(w)
  <2>1. RowShape' /\ Placed' /\ Exact'
    BY <1>2, ProcessShape, ProcessPlaced, ExactProcess
  <2>2. /\ w \in Pushers /\ act[w].pc = "create" /\ count' = count /\ failures \in Nat
        /\ failures' \in Nat /\ count' \in Int
    BY <1>2, <2>1, WorkerAt DEF Process, counter, RowShape, Limits, Counters
  <2>3. CASE Repeats(w)
    BY <2>1, <2>2, <2>3 DEF Repeats, NeverLeftNegative
  <2>4. CASE Ignores(w) \/ Writes(w) \/ Requeues(w) \/ Misses(w)
    <3>1. UNCHANGED redone /\ failures' >= failures
      BY <2>2, <2>4 DEF Ignores, Writes, Requeues, Misses, bounds, Failing
    <3>2. PICK job, pc, n, e : Becomes(w, job, pc, n, e)
      BY <2>4 DEF Ignores, Writes, Requeues, Misses, Keeps, Leaves
    <3>3. NeverLeftNegative'
      BY <2>2, <3>1, <3>2, NegativeStep
    <3> QED BY <2>1, <3>3
  <2> QED BY <1>2, <2>3, <2>4, ProcessMoves
<1>3. CASE Ack(w)
  <2>1. /\ RowShape' /\ Becomes(w, "none", "idle", 0, 0) /\ act[w].pc = "ack" /\ w \in Pushers
        /\ UNCHANGED <<rows, counter, queue, bounds, disturbed>>
    BY <1>3, AckShape DEF Ack, Leaves
  <2>2. Placed'
    <3>1. \A x \in Workers : Calm(x)
      BY <2>1, CalmOf
    <3> QED BY <2>1, <3>1, PlacedSame DEF RowsOf, bounds
  <2>3. Exact'
    BY <2>1, ExactQuiet DEF counter, Unread
  <2>4. NeverLeftNegative'
    <3>1. /\ failures' \in Nat /\ failures' >= failures /\ UNCHANGED redone /\ count' \in Int
          /\ count' = count
      BY <2>1, FailuresGrow DEF counter
    <3> QED BY <2>1, <3>1, NegativeStep
  <2> QED BY <2>1, <2>2, <2>3, <2>4
<1> QED BY <1>1, <1>2, <1>3 DEF Worker

LEMMA NotifyKeeps ==
    ASSUME RowInv, HubShape, NEW a \in Pushers, Notify(a) PROVE RowInv'
<1> USE DEF RowInv
<1>1. CASE Increment(a)
  <2>1. RowShape' /\ act[a].pc = "incr" /\ (Keeps(a, "push") \/ Leaves(a)) /\ UNCHANGED <<rows, queue>>
    BY <1>1, IncrementShape DEF Increment
  <2>2. PICK job, pc, n, e :
          /\ Becomes(a, job, pc, n, e) /\ pc \in {"push", "idle"}
          /\ \/ job = act[a].job /\ e = act[a].event
             \/ job = "none" /\ e = 0
    BY <2>1 DEF Keeps, Leaves
  <2>3. /\ failures' \in Nat /\ failures' >= failures /\ UNCHANGED <<redone, arrived>> /\ count' \in Int
    BY <1>1, <2>1, FailuresGrow DEF Increment, bounds, Failing
  <2>4. Placed'
    <3>1. \A x \in Workers : Calm(x)
      BY <2>1, <2>2, CalmOf
    <3> QED BY <2>1, <2>3, <3>1, PlacedSame DEF RowsOf
  <2>5. NeverLeftNegative'
    <3>1. count' < 0 => count < 0
      <4>1. count \in Int  BY DEF RowShape, Counters
      <4> QED BY <1>1, <4>1 DEF Increment, AddTo, counter
    <3> QED BY <2>1, <2>2, <2>3, <3>1, NegativeStep
  <2> QED BY <1>1, <2>1, <2>4, <2>5, ExactIncrement
<1>2. CASE PushStarts(a) \/ PushEnds(a)
  <2>1. /\ RowShape' /\ act[a].pc \in {"push", "push2", "pushing", "pushing2"}
        /\ Leaves(a) \/ (\E pc \in {"pushing", "pushing2", "ack", "push2"} : Keeps(a, pc))
        /\ UNCHANGED <<rows, counter, queue, bounds, disturbed>>
    BY <1>2, PushStartsShape, PushEndsShape DEF PushStarts, PushEnds
  <2>2. PICK job, pc, n, e :
          /\ Becomes(a, job, pc, n, e) /\ pc \in {"pushing", "pushing2", "ack", "push2", "idle"}
          /\ \/ job = act[a].job /\ e = act[a].event
             \/ job = "none" /\ e = 0
    BY <2>1 DEF Keeps, Leaves
  <2>3. Placed'
    <3>1. \A x \in Workers : Calm(x)
      BY <2>1, <2>2, CalmOf
    <3> QED BY <2>1, <3>1, PlacedSame DEF RowsOf, bounds
  <2>4. Exact'
    BY <2>1, <2>2, ExactQuiet DEF counter, Unread
  <2>5. NeverLeftNegative'
    <3>1. /\ failures' \in Nat /\ failures' >= failures /\ UNCHANGED redone /\ count' \in Int
          /\ count' = count
      BY <2>1, FailuresGrow DEF counter
    <3> QED BY <2>1, <2>2, <3>1, NegativeStep
  <2> QED BY <2>1, <2>3, <2>4, <2>5
<1>3. CASE PushGoesOn(a)
  <2>1. RowShape' /\ UNCHANGED <<rows, counter, queue, act, bounds, disturbed>>
    BY <1>3, PushGoesOnShape DEF PushGoesOn
  <2>2. Placed'
    BY <2>1, PlacedSame DEF RowsOf, bounds, Calm
  <2>3. Exact'
    BY <2>1, ExactSame DEF counter
  <2>4. NeverLeftNegative'
    BY <2>1, FailuresGrow, NegativeSame DEF counter
  <2> QED BY <2>1, <2>2, <2>3, <2>4
<1> QED BY <1>1, <1>2, <1>3 DEF Notify

LEMMA ReaderKeeps ==
    ASSUME RowInv, HubShape, NEW c \in Callers, Reader(c) PROVE RowInv'
<1> USE DEF RowInv
<1>0. c \in Pushers /\ c \notin Workers
  BY Actors
<1>1. CASE MarkRead(c)
  <2>1. /\ RowShape' /\ Exact' /\ UNCHANGED <<queue, arrived, counter>> /\ Call(c)
        /\ DOMAIN rows' = DOMAIN rows /\ \A i \in DOMAIN rows : rows'[i].event = rows[i].event
    BY <1>1, MarkReadShape, ExactMarkRead DEF MarkRead, Call
  <2>2. PICK S : IF S = {} THEN UNCHANGED act ELSE Becomes(c, "mark", "decr", Cardinality(S), 0)
    BY <1>1, MarkReadShape
  <2>3. act[c].pc = "idle" /\ \A e : RowsOf(e)' = RowsOf(e)
    BY <1>1, <2>1, MarkReadShape DEF RowsOf
  <2>4. /\ failures' \in Nat /\ failures' >= failures /\ UNCHANGED redone /\ count' \in Int
        /\ count' = count
    BY <1>0, <2>1, FailuresGrow DEF counter
  <2>5. CASE S = {}
    <3>1. UNCHANGED act
      BY <2>2, <2>5
    <3>2. Placed'
      BY <2>1, <2>3, <2>4, <3>1, PlacedSame DEF Calm
    <3>3. NeverLeftNegative'
      BY <2>4, <3>1, NegativeSame
    <3> QED BY <2>1, <3>2, <3>3
  <2>6. CASE S # {}
    <3>1. Becomes(c, "mark", "decr", Cardinality(S), 0)
      BY <2>2, <2>6
    <3>2. \A w \in Workers : Calm(w)
      BY <1>0, <3>1, CalmOf
    <3>3. Placed'
      BY <2>1, <2>3, <2>4, <3>2, PlacedSame
    <3>4. NeverLeftNegative'
      BY <1>0, <2>3, <2>4, <3>1, NegativeStep
    <3> QED BY <2>1, <3>3, <3>4
  <2> QED BY <2>5, <2>6
<1>2. CASE Decrement(c)
  <2>1. /\ RowShape' /\ Exact' /\ UNCHANGED <<rows, queue>> /\ act[c].pc = "decr"
        /\ \/ Becomes(c, act[c].job, "clamp", act[c].n, act[c].event) /\ UNCHANGED bounds
           \/ Becomes(c, "none", "idle", 0, 0) /\ Failing
    BY <1>2, DecrementShape, ExactDecrement DEF Decrement, Keeps, Leaves
  <2>2. PICK job, pc, n, e : Becomes(c, job, pc, n, e) /\ (pc = "clamp" \/ Failing)
    BY <2>1
  <2>3. /\ failures' \in Nat /\ failures' >= failures /\ UNCHANGED <<redone, arrived>> /\ count' \in Int
        /\ Failing => failures' > failures
    BY <2>1, FailuresGrow DEF bounds, Failing
  <2>4. Placed'
    <3>1. \A w \in Workers : Calm(w)
      BY <1>0, <2>2, CalmOf
    <3> QED BY <2>1, <2>3, <3>1, PlacedSame DEF RowsOf
  <2>5. NeverLeftNegative'
    BY <1>0, <2>2, <2>3, NegativeStep
  <2> QED BY <2>1, <2>4, <2>5
<1>3. CASE ClampReads(c)
  <2>1. /\ RowShape' /\ UNCHANGED <<rows, counter, queue, disturbed>> /\ act[c].pc = "clamp"
        /\ UNCHANGED bounds \/ Failing
        /\ \/ Keeps(c, "zero")
           \/ Leaves(c) /\ (~(hasKey /\ count < 0) \/ Failing)
    BY <1>3, ClampReadsShape DEF ClampReads
  <2>2. PICK job, pc, n, e :
          /\ Becomes(c, job, pc, n, e) /\ pc \in {"zero", "idle"}
          /\ pc = "zero" \/ ~(hasKey /\ count < 0) \/ Failing
    BY <2>1 DEF Keeps, Leaves
  <2>3. /\ failures' \in Nat /\ failures' >= failures /\ UNCHANGED <<redone, arrived>> /\ count' \in Int
        /\ Failing => failures' > failures
    BY <2>1, FailuresGrow DEF bounds, Failing
  <2>4. Placed'
    <3>1. \A w \in Workers : Calm(w)
      BY <1>0, <2>2, CalmOf
    <3> QED BY <2>1, <2>3, <3>1, PlacedSame DEF RowsOf
  <2>5. NeverLeftNegative'
    <3>1. ~(hasKey /\ count < 0) => count' >= 0
      BY <2>1 DEF counter, RowShape, Counters
    <3> QED BY <1>0, <2>2, <2>3, <3>1, NegativeStep
  <2>6. Exact'
    BY <1>0, <2>1, <2>2, ExactQuiet DEF counter, Unread
  <2> QED BY <2>1, <2>4, <2>5, <2>6
<1>4. CASE ClampSets(c)
  <2>1. /\ RowShape' /\ UNCHANGED <<rows, queue>> /\ act[c].pc = "zero" /\ Becomes(c, "none", "idle", 0, 0)
        /\ UNCHANGED bounds \/ Failing
        /\ \/ count' = 0 /\ disturbed' = TRUE
           \/ Failing /\ UNCHANGED <<counter, disturbed>>
    BY <1>4, ClampSetsShape DEF ClampSets, Leaves
  <2>2. /\ failures' \in Nat /\ failures' >= failures /\ UNCHANGED <<redone, arrived>> /\ count' \in Int
        /\ Failing => failures' > failures
    BY <2>1, FailuresGrow DEF bounds, Failing
  <2>3. Placed'
    <3>1. \A w \in Workers : Calm(w)
      BY <1>0, <2>1, CalmOf
    <3> QED BY <2>1, <2>2, <3>1, PlacedSame DEF RowsOf
  <2>4. NeverLeftNegative'
    <3>1. count' = 0 => count' >= 0
      OBVIOUS
    <3> QED BY <1>0, <2>1, <2>2, <3>1, NegativeStep
  <2>5. Exact'
    BY <1>0, <2>1, ExactQuiet DEF counter, Unread
  <2> QED BY <2>1, <2>3, <2>4, <2>5
<1>5. CASE Recount(c)
  <2>1. /\ RowShape' /\ Exact' /\ UNCHANGED <<rows, counter, queue, arrived, redone>> /\ act[c].pc = "idle"
        /\ Becomes(c, "count", "count", 0, 0)
    BY <1>5, RecountShape, ExactRecount DEF Recount
  <2>2. failures \in Nat /\ failures' \in Nat /\ failures' >= failures /\ count' \in Int /\ count' = count
    <3>1. failures \in Nat /\ failures' \in Nat /\ count' \in Int
      BY <2>1 DEF RowShape, Limits, Counters
    <3> QED BY <1>5, <2>1, <3>1 DEF Recount, counter
  <2>3. Placed'
    <3>1. \A w \in Workers : Calm(w)
      BY <1>0, <2>1, CalmOf
    <3> QED BY <2>1, <3>1, PlacedSame DEF RowsOf
  <2>4. NeverLeftNegative'
    BY <1>0, <2>1, <2>2, NegativeStep
  <2> QED BY <2>1, <2>3, <2>4
<1>6. CASE RecountSets(c)
  <2>1. /\ RowShape' /\ Exact' /\ UNCHANGED <<rows, queue>> /\ act[c].pc = "setcount"
        /\ Becomes(c, "none", "idle", 0, 0) /\ (UNCHANGED bounds \/ Failing)
        /\ count' = act[c].n \/ Failing
    BY <1>6, RecountSetsShape, ExactRecountSets DEF RecountSets, Leaves
  <2>2. /\ failures' \in Nat /\ failures' >= failures /\ UNCHANGED <<redone, arrived>> /\ count' \in Int
        /\ Failing => failures' > failures
    BY <2>1, FailuresGrow DEF bounds, Failing
  <2>3. Placed'
    <3>1. \A w \in Workers : Calm(w)
      BY <1>0, <2>1, CalmOf
    <3> QED BY <2>1, <2>2, <3>1, PlacedSame DEF RowsOf
  <2>4. NeverLeftNegative'
    <3>1. act[c].n \in Nat
      BY <1>0 DEF RowShape, Acting, Acts
    <3>2. count' = act[c].n => count' >= 0
      BY <3>1
    <3> QED BY <1>0, <2>1, <2>2, <3>2, NegativeStep
  <2> QED BY <2>1, <2>3, <2>4
<1>7. CASE RecountReads(c)
  <2>1. /\ RowShape' /\ Exact' /\ UNCHANGED <<rows, counter, queue, disturbed>> /\ act[c].pc = "count"
        /\ UNCHANGED bounds \/ Failing
    BY <1>7, RecountReadsShape, ExactRecountReads DEF RecountReads
  <2>2. PICK n : Becomes(c, "count", "setcount", n, 0)
    BY <1>7, RecountReadsShape
  <2>3. /\ failures' \in Nat /\ failures' >= failures /\ UNCHANGED <<redone, arrived>> /\ count' \in Int
        /\ count' = count
    BY <2>1, FailuresGrow DEF bounds, Failing, counter
  <2>4. Placed'
    <3>1. \A w \in Workers : Calm(w)
      BY <1>0, <2>2, CalmOf
    <3> QED BY <2>1, <2>3, <3>1, PlacedSame DEF RowsOf
  <2>5. NeverLeftNegative'
    BY <1>0, <2>1, <2>2, <2>3, NegativeStep
  <2> QED BY <2>1, <2>4, <2>5
<1> QED BY <1>1, <1>2, <1>3, <1>4, <1>5, <1>6, <1>7 DEF Reader

LEMMA SendKeeps == ASSUME RowInv, HubShape, NEW c \in Callers, Send(c) PROVE RowInv'
<1> USE DEF RowInv
<1>1. /\ RowShape' /\ Exact' /\ act[c].pc = "idle" /\ c \in Pushers /\ c \notin Workers
      /\ UNCHANGED <<queue, arrived, counter>> /\ Call(c)
  BY SendShape, ExactSend, Actors DEF Send, Call
<1>2. PICK t \in Sends : Insert(t, 0) /\ Becomes(c, t, "incr", Len(rows) + 1, 0)
  BY SendShape
<1>3. /\ failures' \in Nat /\ failures' >= failures /\ UNCHANGED redone /\ count' \in Int /\ count' = count
  BY <1>1, FailuresGrow DEF counter
<1>4. \A e \in DOMAIN arrived : RowsOf(e)' = RowsOf(e)
  <2>1. t \in (Kinds \ {"own"}) \cup Sends /\ 0 \in 0 .. Len(arrived) /\ \A e \in DOMAIN arrived : e # 0
    BY QueueIds
  <2> QED BY <1>2, <2>1, RowsOfInsert
<1>5. Placed'
  <2>1. \A w \in Workers : Calm(w)
    BY <1>1, <1>2, CalmOf
  <2> QED BY <1>1, <1>3, <1>4, <2>1, PlacedSame
<1>6. NeverLeftNegative'
  BY <1>1, <1>2, <1>3, NegativeStep
<1> QED BY <1>1, <1>5, <1>6

LEMMA RecoverKeeps == ASSUME RowInv, HubShape, NEW c \in Callers, Recover(c) PROVE RowInv'
<1> USE DEF RowInv
<1>1. /\ RowShape' /\ act[c].pc \in {"pushing", "pushing2"} /\ c \in Pushers /\ c \notin Workers
      /\ Becomes(c, "none", "idle", 0, 0) /\ UNCHANGED <<rows, counter, queue, bounds, disturbed>>
  BY RecoverShape, Actors DEF Recover, Leaves
<1>2. Placed'
  <2>1. \A w \in Workers : Calm(w)
    BY <1>1, CalmOf
  <2> QED BY <1>1, <2>1, PlacedSame DEF RowsOf, bounds
<1>3. Exact'
  BY <1>1, ExactQuiet DEF counter, Unread
<1>4. NeverLeftNegative'
  <2>1. /\ failures' \in Nat /\ failures' >= failures /\ UNCHANGED redone /\ count' \in Int
        /\ count' = count
    BY <1>1, FailuresGrow DEF counter
  <2> QED BY <1>1, <2>1, NegativeStep
<1> QED BY <1>1, <1>2, <1>3, <1>4

LEMMA RowInvStep == ASSUME RowInv, HubShape, [Next]_vars PROVE RowInv'
<1> USE DEF RowInv
<1>1. CASE Arrive
  <2>1. RowShape' /\ Placed' /\ UNCHANGED <<rows, act, counter, failures, redone, disturbed>>
    BY <1>1, ArriveShape, ArrivePlaced DEF Arrive
  <2>2. Exact'
    BY <2>1, ExactSame DEF counter
  <2>3. NeverLeftNegative'
    BY <2>1 DEF NeverLeftNegative, Doing, counter
  <2> QED BY <2>1, <2>2, <2>3
<1>2. CASE Crash
  <2>1. RowShape' /\ Placed' /\ Exact' /\ redone' = redone + 1 /\ redone \in Nat
    BY <1>2, CrashShape, CrashPlaced, ExactCrash DEF RowShape, Limits
  <2>2. NeverLeftNegative'
    BY <2>1 DEF NeverLeftNegative
  <2> QED BY <2>1, <2>2
<1>3. CASE LoseKey
  <2>1. /\ RowShape' /\ UNCHANGED <<rows, queue, act>> /\ Failing /\ disturbed' = TRUE /\ count' = 0
    BY <1>3, LoseKeyShape DEF LoseKey
  <2>2. Placed'
    BY <2>1, PlacedSame DEF RowsOf, Failing, Calm
  <2>3. Exact'
    BY <2>1, ExactSame
  <2>4. NeverLeftNegative'
    BY <2>1 DEF NeverLeftNegative
  <2> QED BY <2>1, <2>2, <2>3, <2>4
<1>4. CASE (\E s \in Streams : Connect(s)) \/ UNCHANGED vars
  <2>1. UNCHANGED <<rows, counter, queue, act, bounds, disturbed>>
    BY <1>4 DEF Connect, vars
  <2>2. RowShape'
    <3>1. CASE UNCHANGED vars
      BY <3>1, PushSame DEF vars, hubVars
    <3> QED BY <1>4, <3>1, ConnectShape
  <2>3. Placed'
    BY <2>1, PlacedSame DEF RowsOf, bounds, Calm
  <2>4. Exact'
    BY <2>1, ExactSame DEF counter
  <2>5. NeverLeftNegative'
    BY <2>1 DEF NeverLeftNegative, Doing, counter, bounds
  <2> QED BY <2>2, <2>3, <2>4, <2>5
<1>5. ASSUME NEW w \in Workers, Worker(w) PROVE RowInv'
  BY <1>5, WorkerKeeps
<1>6. ASSUME NEW a \in Pushers, Notify(a) PROVE RowInv'
  BY <1>6, NotifyKeeps
<1>7. ASSUME NEW c \in Callers, Send(c) \/ Reader(c) \/ Recover(c) PROVE RowInv'
  BY <1>7, SendKeeps, ReaderKeeps, RecoverKeeps
<1> QED BY <1>1, <1>2, <1>3, <1>4, <1>5, <1>6, <1>7 DEF Next

-----------------------------------------------------------------------------
(* The theorems.                                                             *)

\* The inductive invariant of the rows, the queue, the activities and the counter.
THEOREM RowInvariant == Spec => []RowInv
<1>1. Init => RowInv
  BY RowInvInit
<1>2. RowInv /\ HubInv /\ [Next]_vars => RowInv'
  BY RowInvStep DEF HubInv
<1> QED BY <1>1, <1>2, HubInvariant, PTL DEF Spec

\* Every variable has its type: of the hubs, the rows, the counter, the queue
\* and the bounds.
THEOREM TypeCorrect == Spec => []TypeOK
<1>1. HubInv => HubTypeOK
  <2> SUFFICES ASSUME HubInv PROVE HubTypeOK
    OBVIOUS
  <2>1. /\ clients \in [Hubs -> Slice]
        /\ \A h \in Hubs : clients[h].array \in 0 .. Len(arrays[h])
        /\ \A s \in Streams : /\ stream[s].state \in {"new", "open", "closed"}
                              /\ stream[s].hub \in Hubs \cup {NoHub}
                              /\ buffer[s] \in 0 .. Cap
        /\ \A p \in Pushers : /\ push[p].at \in {"idle", "send", "done", "panic"}
                              /\ push[p].due \subseteq Streams
    BY DEF HubInv, HubShape, Backed, Ends, Calling
  <2>2. \A h \in Hubs : \A k \in DOMAIN arrays[h] : \A i \in DOMAIN arrays[h][k] :
           arrays[h][k][i] \in Streams \cup {Free}
    BY ElementOfSeq, LenProperties DEF HubInv, HubShape, Arrays, Slots
  <2> QED BY <2>1, <2>2 DEF HubTypeOK
<1>2. HubInv /\ RowInv => TypeOK
  <2> SUFFICES ASSUME HubInv, RowInv PROVE TypeOK
    OBVIOUS
  <2>1. \A i \in DOMAIN rows : /\ rows[i].type \in (Kinds \ {"own"}) \cup Sends
                               /\ rows[i].event \in 0 .. MaxEvents
                               /\ rows[i].read \in BOOLEAN
    <3>1. \A i \in DOMAIN rows : rows[i] \in Row
      BY ElementOfSeq, LenProperties DEF RowInv, RowShape
    <3> QED BY <3>1 DEF Row
  <2>2. \A a \in Pushers : act[a].n \in 0 .. Len(rows)
    <3>1. Len(rows) \in Nat
      BY LenProperties DEF RowInv, RowShape
    <3>2. \A a \in Pushers : act[a].n \in Nat /\ act[a].n <= Len(rows)
      BY DEF RowInv, RowShape, Acting, Acts
    <3> QED BY <3>1, <3>2
  <2> QED BY <1>1, <2>1, <2>2 DEF TypeOK, RowInv, RowShape, Counters, Limits
<1> QED BY <1>2, HubInvariant, RowInvariant, PTL

\* An event that has arrived is queued, in a worker's hands or settled, through
\* requeued deliveries and processes that end (NotificationWorker).
THEOREM EventsKept == Spec => []NoEventDropped
<1>1. RowInv => NoEventDropped
  BY DEF RowInv, Placed, Kept, Settled, Queued, Held, RowsOf, NoEventDropped
<1> QED BY <1>1, RowInvariant, PTL

\* Only the end of the process can have an event notified twice
\* (NotificationWorker, processed before it is acknowledged).
THEOREM RowsOnce == Spec => []OneRowPerEvent
<1>1. RowInv => OneRowPerEvent
  BY DEF RowInv, Placed, Once, RowsOf, OneRowPerEvent
<1> QED BY <1>1, RowInvariant, PTL

\* The counter is the unread rows that count, less the increments and plus the
\* decrements under way (IncrementUnread, DecrementUnread, UnreadCount).
THEOREM CounterHolds == Spec => []CounterExact
<1>1. RowInv => CounterExact
  BY DEF RowInv, Exact
<1> QED BY <1>1, RowInvariant, PTL

\* The counter is negative only between a decrement and its clamp
\* (ClampUnreadNonNegative).
THEOREM ClampHolds == Spec => []NeverLeftNegative
<1>1. RowInv => NeverLeftNegative
  BY DEF RowInv
<1> QED BY <1>1, RowInvariant, PTL

=============================================================================
