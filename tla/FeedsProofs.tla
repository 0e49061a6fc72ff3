----------------------------- MODULE FeedsProofs -----------------------------
(***************************************************************************)
(* Proofs about FeedPages, for every set of videos and their times, every   *)
(* size of a page and of the timeline, and every number of faults; about    *)
(* HotRank, for every number of minutes, events, clients and faults; and    *)
(* about MCFeeds, whose behaviours are about one of the two.                *)
(*                                                                         *)
(* The feeds: both invariants say how the cursor stands to the videos.      *)
(* Down: what was shown is not below the cursor, and the page being put     *)
(* together lies between the cursor and the next one.  Reach: what was      *)
(* neither shown nor passed over for a stated reason is below the cursor,   *)
(* and once a page is read, on it or below the next cursor.  That the       *)
(* timeline passes over nothing else rests on Trimmed: a video trimmed from *)
(* it has Cap newer ones in it, for as long as Redis does not lose the set. *)
(*                                                                         *)
(* The ranking: Lasting says that a window has all its changes until        *)
(* WindowTTL after its minute, so that a ranking of a recent minute misses  *)
(* none; Paged that a client has seen the first offset videos of its        *)
(* ranking; Counts that what a process holds is not counted yet, or is      *)
(* counted or spoilt.                                                       *)
(***************************************************************************)
EXTENDS MCFeeds, FiniteSetTheorems, WellFoundedInduction, TLAPS

Keys == Nat \X Nat

\* The type of the variables, and what each place of the request implies.
Shape ==
    /\ stored \in SUBSET Videos /\ timeline \in SUBSET stored /\ relayed \in SUBSET stored
    /\ seen \in SUBSET stored /\ initial \in SUBSET stored /\ page \in SUBSET stored
    /\ touched \in SUBSET Videos /\ skipped \in SUBSET Videos
    /\ changes \in 0 .. MaxLikes /\ likes \in [Videos -> 0 .. changes]
    /\ kind \in Kinds /\ cut \in BOOLEAN /\ flushes \in Nat
    /\ at \in {"new", "ask", "hot", "cold", "stitch", "rows", "read", "rebuild", "reply", "end"}
    /\ cursor \in Keys /\ next \in Keys
    /\ at # "rebuild" => Cardinality(page) <= Limit
    /\ at = "stitch" => Cardinality(page) < Limit
    /\ at \in {"ask", "hot", "cold", "stitch", "rebuild"} => kind = "latest"
    /\ at \notin {"stitch", "rebuild", "reply"} => page = {}
    /\ at = "new" => seen = {} /\ initial = {} /\ cursor = None
    /\ kind # "likes" => touched = {}

\* While Redis keeps the set, a video no longer in it has Cap newer ones there.
Newer(v) == {w \in timeline : At[v] <= At[w]}
Trimmed  == flushes = 0 => \A v \in relayed \ timeline : Cap <= Cardinality(Newer(v))

\* What was shown is at or above the cursor; the page lies below it and at or
\* above the next one.
Down ==
    /\ \A v \in seen \ touched : ~Below(Key(v), cursor)
    /\ at \in {"stitch", "reply"} =>
          /\ \A v \in page \ touched : Below(Key(v), cursor) /\ ~Below(Key(v), next)
          /\ page \cup seen # {} => ~Below(cursor, next)

\* Videos the client is still to be shown, and where they are: below the
\* cursor; while a page is filled up, on it or not above its last video; once
\* it is complete, on it, or below the next cursor, or tied with its last
\* video.
Lost == initial \ (seen \cup skipped \cup touched)

Filling ==
    /\ next = IF page = {} THEN cursor ELSE Last(page)
    /\ \A v \in Lost \ page : page # {} => ~Below(Last(page), Key(v))

Complete ==
    /\ kind # "likes" /\ page # {} => next = Last(page)
    /\ \A v \in Lost \ page : Below(Key(v), next) \/ (kind # "likes" /\ page # {} /\ Key(v) = next)
    /\ Cardinality(page) < Limit /\ ~cut => Lost \subseteq page

Reach ==
    /\ at \notin {"new", "end"} => \A v \in Lost : Below(Key(v), cursor)
    /\ at = "stitch" => Filling
    /\ at = "reply" => Complete
    /\ at = "end" /\ ~cut => Lost = {}

\* A cached page, or one to be cached, is what a request selected below its
\* cursor, of rows all of which are still there.
KeyOf(l, k, v)  == IF k = "likes" THEN <<l[v], v>> ELSE <<At[v], 0>>
LastOf(l, k, K) == CHOOSE x \in {KeyOf(l, k, v) : v \in K} : \A v \in K : ~Below(KeyOf(l, k, v), x)

Selection(p, k, S) ==
    /\ S = {v \in p.rows : Below(KeyOf(p.scores, k, v), p.key)}
    /\ p.page \subseteq S /\ Cardinality(p.page) \in 0 .. Limit
    /\ Cardinality(p.page) < Limit => p.page = S
    /\ \A v \in p.page, w \in S \ p.page : ~Below(KeyOf(p.scores, k, v), KeyOf(p.scores, k, w))

Ending(p, k) ==
    /\ p.key \in Keys /\ p.next \in Keys
    /\ p.page = {} => p.next = p.key
    /\ p.page # {} => /\ p.next = LastOf(p.scores, k, p.page)
                      /\ \E x \in p.page : p.next = KeyOf(p.scores, k, x)
                      /\ \A v \in p.page : ~Below(KeyOf(p.scores, k, v), p.next)

Cached(p, k) == Ending(p, k) /\ \E S : Selection(p, k, S)

Copies == \A p \in reads \cup copies : p.rows \subseteq stored /\ Cached(p, kind)

\* The inductive invariant: of the client, and of the cache.
IInv  == Shape /\ Trimmed /\ Down /\ Reach
Whole == IInv /\ Copies


-----------------------------------------------------------------------------
(* The order of the keys.                                                    *)

LEMMA BelowOrder ==
    /\ \A a \in Keys : ~Below(a, a)
    /\ \A a, b \in Keys : Below(a, b) \/ Below(b, a) \/ a = b
    /\ \A a, b \in Keys : Below(a, b) => ~Below(b, a)
    /\ \A a, b, c \in Keys : Below(a, b) /\ ~Below(c, b) => Below(a, c)
    /\ \A a, b, c \in Keys : ~Below(b, a) /\ Below(b, c) => Below(a, c)
    /\ \A a, b, c \in Keys : ~Below(a, b) /\ ~Below(b, c) => ~Below(a, c)
<1>1. ASSUME NEW a \in Keys  PROVE a[1] \in Nat /\ a[2] \in Nat /\ ~Below(a, a)
  BY DEF Keys, Below
<1>2. ASSUME NEW a \in Keys, NEW b \in Keys
      PROVE  (Below(a, b) \/ Below(b, a) \/ a = b) /\ (Below(a, b) => ~Below(b, a))
  BY DEF Keys, Below
<1>3. ASSUME NEW a \in Keys, NEW b \in Keys, NEW c \in Keys
      PROVE  /\ Below(a, b) /\ ~Below(c, b) => Below(a, c)
             /\ ~Below(b, a) /\ Below(b, c) => Below(a, c)
             /\ ~Below(a, b) /\ ~Below(b, c) => ~Below(a, c)
  BY <1>1 DEF Below
<1> QED BY <1>1, <1>2, <1>3

LEMMA KeyType ==
    ASSUME Shape, NEW v \in Videos
    PROVE  /\ Key(v) \in Keys /\ Below(Key(v), None) /\ None \in Keys
           /\ kind # "likes" => Key(v) = <<At[v], 0>>
<1>1. v \in Nat /\ At[v] \in Nat /\ At[v] < Top /\ Top \in Nat /\ MaxLikes \in 0 .. Top - 1
  BY PageSizes, TopIsAbove
<1>2. likes[v] \in 0 .. MaxLikes
  BY <1>1 DEF Shape
<1>3. likes[v] \in Nat /\ likes[v] < Top
  BY <1>1, <1>2
<1> QED BY <1>1, <1>3 DEF Key, Keys, Below, None

\* Two videos have one key only where the order does not tell them apart.
LEMMA LikesApart ==
    ASSUME kind = "likes", NEW v, NEW w, Key(v) = Key(w)
    PROVE  v = w
BY DEF Key

LEMMA Least ==
    ASSUME NEW S \in SUBSET Nat, S # {}
    PROVE  \E n \in S : \A m \in S : n <= m
<1>1. PICK R : R = OpToRel(<, Nat)
  OBVIOUS
<1>2. IsWellFoundedOn(R, Nat)
  BY <1>1, NatLessThanWellFounded
<1>3. PICK n \in S : \A m \in S : ~(<<m, n>> \in R)
  BY <1>2, WFMin
<1>4. \A m, k \in Nat : <<m, k>> \in R <=> m < k
  BY <1>1 DEF OpToRel
<1>5. \A m \in S : m \in Nat /\ ~(m < n)
  BY <1>3, <1>4
<1> QED BY <1>5

LEMMA LowestKey ==
    ASSUME NEW T \in SUBSET Keys, T # {}
    PROVE  \E k \in T : \A j \in T : ~Below(j, k)
<1>1. PICK A : A = {k[1] : k \in T}
  OBVIOUS
<1>2. A \in SUBSET Nat /\ A # {}
  BY <1>1 DEF Keys
<1>3. PICK a \in A : \A b \in A : a <= b
  BY <1>2, Least
<1>4. PICK B : B = {k[2] : k \in {j \in T : j[1] = a}}
  OBVIOUS
<1>5. B \in SUBSET Nat /\ B # {}
  BY <1>1, <1>4 DEF Keys
<1>6. PICK b \in B : \A c \in B : b <= c
  BY <1>5, Least
<1>7. PICK k \in T : k[1] = a /\ k[2] = b
  BY <1>4
<1>8. ASSUME NEW j \in T  PROVE ~Below(j, k)
  <2>1. j[1] \in A /\ j[1] \in Nat /\ a \in Nat /\ a <= j[1]
    BY <1>1, <1>2, <1>3
  <2>2. j[1] = a => j[2] \in B /\ j[2] \in Nat /\ b \in Nat /\ b <= j[2]
    BY <1>4, <1>5, <1>6
  <2> QED BY <1>7, <2>1, <2>2 DEF Below
<1> QED BY <1>8

\* The key of a page's last video: no video of the page is below it.
LEMMA LastIs ==
    ASSUME Shape, NEW K \in SUBSET Videos, K # {}
    PROVE  /\ Last(K) \in Keys
           /\ \E v \in K : Last(K) = Key(v)
           /\ \A v \in K : ~Below(Key(v), Last(K))
<1>1. PICK T : T = {Key(v) : v \in K}
  OBVIOUS
<1>2. T \in SUBSET Keys /\ T # {}
  BY <1>1, KeyType
<1>3. \E k \in T : \A j \in T : ~Below(j, k)
  BY <1>2, LowestKey
<1>4. \E k \in T : \A v \in K : ~Below(Key(v), k)
  BY <1>1, <1>3
<1>5. Last(K) \in T /\ \A v \in K : ~Below(Key(v), Last(K))
  BY <1>1, <1>4 DEF Last
<1> QED BY <1>1, <1>2, <1>5

\* A cursor in whole seconds is not above the exact one.
LEMMA FloorBelow ==
    ASSUME NEW k \in Keys
    PROVE  <<Floor(k[1]), 0>> \in Keys /\ ~Below(k, <<Floor(k[1]), 0>>)
<1>1. k[1] \in Nat /\ k[2] \in Nat /\ Second \in Nat \ {0}
  BY PageSizes DEF Keys
<1>2. PICK r : r = k[1] % Second
  OBVIOUS
<1>3. r \in 0 .. Second - 1 /\ r <= k[1]
  <2>1. r \in 0 .. Second - 1
    BY <1>1, <1>2
  <2>2. r <= k[1]
    BY <1>1, <1>2
  <2> QED BY <2>1, <2>2
<1>4. Floor(k[1]) = k[1] - r /\ k[1] - r \in Nat /\ k[1] - r <= k[1]
  BY <1>1, <1>2, <1>3 DEF Floor
<1> QED BY <1>1, <1>4 DEF Keys, Below

\* What ORDER BY and LIMIT select.
LEMMA Selected ==
    ASSUME Shape, NEW n \in Nat, NEW S \in SUBSET stored, NEW K \in SUBSET S, FirstOf(n, K, S)
    PROVE  /\ IsFiniteSet(K) /\ Cardinality(K) \in 0 .. n
           /\ Cardinality(K) < n => K = S
           /\ \A v \in K, w \in S \ K : ~Below(Key(v), Key(w))
<1>1. IsFiniteSet(S) /\ IsFiniteSet(K)
  BY PageSizes, FS_Subset DEF Shape
<1>2. Cardinality(S) \in Nat /\ Cardinality(K) \in Nat
  BY <1>1, FS_CardinalityType
<1> QED BY <1>1, <1>2 DEF FirstOf


-----------------------------------------------------------------------------
(* Steps that leave the client's side alone.                                 *)

LEMMA SameKeys ==
    ASSUME UNCHANGED <<likes, kind>>, NEW K
    PROVE  /\ Last(K)' = Last(K)
           /\ \A v \in K : Key(v)' = Key(v)
<1>1. Last(K) = LastOf(likes, kind, K) /\ Last(K)' = LastOf(likes', kind', K)
  BY DEF Last, LastOf, Key, KeyOf
<1>2. \A v \in K : Key(v) = KeyOf(likes, kind, v) /\ Key(v)' = KeyOf(likes', kind', v)
  BY DEF Key, KeyOf
<1> QED BY <1>1, <1>2

\* The invariants about the client survive what leaves it and its keys alone.
LEMMA DownQuiet ==
    ASSUME Shape, Down, UNCHANGED <<likes, kind, cursor, next, seen, touched>>,
           at' \in {"stitch", "reply"} => at' = at /\ page' = page
    PROVE  Down'
<1>1. \A v \in Videos : Key(v)' = Key(v)
  BY SameKeys
<1>2. seen \subseteq Videos /\ page \subseteq Videos
  BY DEF Shape
<1> QED BY <1>1, <1>2 DEF Down

LEMMA ReachQuiet ==
    ASSUME Shape, Reach, UNCHANGED <<likes, kind, cursor, next, seen, initial, skipped, touched, cut>>,
           at' \in {"stitch", "reply"} => at' = at /\ page' = page,
           at' # "new" /\ at' # at => at \notin {"new", "end"} /\ at' # "end"
    PROVE  Reach'
<1>1. \A v \in Videos : Key(v)' = Key(v)
  BY SameKeys
<1>2. Lost' = Lost /\ Lost \subseteq Videos
  BY DEF Lost, Shape
<1>3. at' = "stitch" => Filling'
  <2>1. SUFFICES ASSUME at' = "stitch" PROVE Filling'
    OBVIOUS
  <2>2. Filling /\ page' = page
    BY <2>1 DEF Reach
  <2>3. Last(page)' = Last(page)
    <3>1. PICK K : K = page  OBVIOUS
    <3>2. Last(K)' = Last(K)  BY SameKeys
    <3> QED BY <2>2, <3>1, <3>2 DEF Last, Key
  <2> QED BY <1>1, <1>2, <2>2, <2>3 DEF Filling
<1>4. at' = "reply" => Complete'
  <2>1. SUFFICES ASSUME at' = "reply" PROVE Complete'
    OBVIOUS
  <2>2. Complete /\ page' = page
    BY <2>1 DEF Reach
  <2>3. Last(page)' = Last(page)
    <3>1. PICK K : K = page  OBVIOUS
    <3>2. Last(K)' = Last(K)  BY SameKeys
    <3> QED BY <2>2, <3>1, <3>2 DEF Last, Key
  <2> QED BY <1>1, <1>2, <2>2, <2>3 DEF Complete
<1>5. at' \notin {"new", "end"} => \A v \in Lost' : Below(Key(v), cursor)'
  BY <1>1, <1>2 DEF Reach
<1> QED BY <1>2, <1>3, <1>4, <1>5 DEF Reach

\* The set keeps its promise when nothing leaves it.
LEMMA TrimmedGrows ==
    ASSUME Shape, Trimmed, timeline \subseteq timeline', timeline' \subseteq Videos, flushes' = flushes,
           relayed' \ timeline' \subseteq relayed \ timeline
    PROVE  Trimmed'
<1>1. SUFFICES ASSUME flushes = 0, NEW v \in relayed \ timeline, v \in relayed' \ timeline'
               PROVE  Cap <= Cardinality(Newer(v)')
  BY DEF Trimmed
<1>2. IsFiniteSet(Newer(v)') /\ Newer(v) \subseteq Newer(v)'
  <2>1. Newer(v)' \subseteq Videos /\ Newer(v) \subseteq Newer(v)'
    BY DEF Newer
  <2> QED BY <2>1, PageSizes, FS_Subset
<1>3. /\ Cardinality(Newer(v)) \in Nat /\ Cardinality(Newer(v)') \in Nat
      /\ Cardinality(Newer(v)) <= Cardinality(Newer(v)')
  BY <1>2, FS_Subset, FS_CardinalityType
<1>4. Cap <= Cardinality(Newer(v)) /\ Cap \in Nat
  BY <1>1, PageSizes DEF Trimmed
<1> QED BY <1>3, <1>4

LEMMA PublishKeeps ==
    ASSUME IInv, NEW v \in Videos, PublishVideo(v)
    PROVE  IInv'
<1>1. /\ stored' = stored \cup {v}
      /\ UNCHANGED <<likes, timeline, relayed, flushes, changes, touched,
                     kind, at, cursor, page, next, seen, initial, skipped, cut>>
  BY DEF PublishVideo, client
<1>2. Shape'
  BY <1>1 DEF IInv, Shape, None
<1>3. Trimmed'
  BY <1>1 DEF IInv, Trimmed, Newer
<1>4. Down' /\ Reach'
  BY <1>1, DownQuiet, ReachQuiet DEF IInv
<1> QED BY <1>2, <1>3, <1>4 DEF IInv

LEMMA RelayKeeps ==
    ASSUME IInv, NEW v \in Videos, Relay(v)
    PROVE  IInv'
<1>1. /\ v \in stored /\ timeline' = timeline \cup {v} /\ relayed' = relayed \cup {v}
      /\ UNCHANGED <<stored, likes, flushes, changes, touched,
                     kind, at, cursor, page, next, seen, initial, skipped, cut>>
  BY DEF Relay, client
<1>2. Shape'
  BY <1>1 DEF IInv, Shape, None
<1>3. Trimmed'
  BY <1>1, TrimmedGrows DEF IInv, Shape
<1>4. Down' /\ Reach'
  BY <1>1, DownQuiet, ReachQuiet DEF IInv
<1> QED BY <1>2, <1>3, <1>4 DEF IInv

LEMMA FlushKeeps ==
    ASSUME IInv, Flush
    PROVE  IInv'
<1>1. /\ timeline' = {} /\ flushes' = flushes + 1
      /\ UNCHANGED <<stored, likes, relayed, changes, touched,
                     kind, at, cursor, page, next, seen, initial, skipped, cut>>
  BY DEF Flush, client
<1>2. Shape'
  BY <1>1 DEF IInv, Shape, None
<1>3. Trimmed'
  BY <1>1 DEF IInv, Shape, Trimmed
<1>4. Down' /\ Reach'
  BY <1>1, DownQuiet, ReachQuiet DEF IInv
<1> QED BY <1>2, <1>3, <1>4 DEF IInv

\* What is trimmed has Cap newer videos in the set, and what was trimmed
\* before too: were one of those that stay older than it, all that leave would
\* be, and the set would have fewer than Cap newer ones.
LEMMA TrimKeeps ==
    ASSUME IInv, TrimTimeline
    PROVE  IInv'
<1>1. PICK K \in SUBSET timeline :
          /\ Cardinality(K) = Cap /\ \A v \in K, w \in timeline \ K : At[w] <= At[v]
          /\ timeline' = K
  BY DEF TrimTimeline
<1>2. UNCHANGED <<stored, likes, relayed, flushes, changes, touched,
                  kind, at, cursor, page, next, seen, initial, skipped, cut>>
  BY DEF TrimTimeline, client
<1>3. Shape'
  BY <1>1, <1>2 DEF IInv, Shape, None
<1>4. timeline \subseteq Videos /\ relayed \subseteq Videos /\ IsFiniteSet(timeline) /\ IsFiniteSet(K)
      /\ \A v \in Videos : At[v] \in Nat
  BY <1>1, PageSizes, FS_Subset DEF IInv, Shape
<1>5. Trimmed'
  <2>1. SUFFICES ASSUME flushes = 0, NEW v \in relayed, v \notin K
                 PROVE  Cap <= Cardinality(Newer(v)')
    BY <1>1, <1>2 DEF Trimmed
  <2>2. \A k \in K : At[v] <= At[k]
    <3>1. CASE v \in timeline
      BY <1>1, <2>1, <3>1
    <3>2. CASE v \notin timeline
      <4>1. Cap <= Cardinality(Newer(v)) /\ Cap \in Nat
        BY <2>1, <3>2, PageSizes DEF IInv, Trimmed
      <4>2. SUFFICES ASSUME NEW k \in K, At[k] < At[v]  PROVE FALSE
        BY <1>1, <1>4
      <4>3. ASSUME NEW w \in Newer(v)  PROVE w \in K \ {k}
        <5>1. w \in timeline /\ At[v] <= At[w] /\ w \in Videos
          BY <1>4 DEF Newer
        <5>2. k \in Videos /\ v \in Videos
          BY <1>1, <1>4
        <5>3. At[k] < At[w]
          BY <1>4, <4>2, <5>1, <5>2
        <5>4. w \in K
          BY <1>1, <1>4, <5>1, <5>2, <5>3
        <5>5. w # k
          BY <1>4, <5>2, <5>3
        <5> QED BY <5>4, <5>5
      <4>4. Cardinality(K \ {k}) = Cap - 1 /\ IsFiniteSet(K \ {k})
        BY <1>1, <1>4, <4>1, FS_RemoveElement
      <4>5. Cardinality(Newer(v)) \in Nat /\ Cardinality(Newer(v)) <= Cardinality(K \ {k})
        <5>1. Newer(v) \subseteq K \ {k}
          BY <4>3
        <5> QED BY <4>4, <5>1, FS_Subset, FS_CardinalityType
      <4> QED BY <4>1, <4>4, <4>5
    <3> QED BY <3>1, <3>2
  <2>3. Newer(v)' = K
    BY <1>1, <2>2 DEF Newer
  <2> QED BY <1>1, <2>3, PageSizes
<1>6. Down' /\ Reach'
  BY <1>2, DownQuiet, ReachQuiet DEF IInv
<1> QED BY <1>3, <1>5, <1>6 DEF IInv

-----------------------------------------------------------------------------
(* Changes of likes.                                                         *)

\* They disturb only a feed ordered by likes, and there only the video they
\* are about, which the history touched names once the client has begun.
LEMMA LikesKeep ==
    ASSUME IInv, NEW u \in Videos, ChangeLikes(u)
    PROVE  IInv'
<1>1. /\ kind = "likes" /\ changes < MaxLikes /\ changes' = changes + 1
      /\ \/ likes' = [likes EXCEPT ![u] = @ + 1]
         \/ likes[u] > 0 /\ likes' = [likes EXCEPT ![u] = @ - 1]
      /\ touched' = IF at = "new" THEN touched ELSE touched \cup {u}
      /\ UNCHANGED <<stored, timeline, relayed, flushes,
                     kind, at, cursor, page, next, seen, initial, skipped, cut>>
  BY DEF ChangeLikes, client
<1>2. changes' \in 0 .. MaxLikes /\ likes' \in [Videos -> 0 .. changes']
  <2>1. changes \in 0 .. MaxLikes /\ MaxLikes \in Nat /\ likes \in [Videos -> 0 .. changes]
    BY TopIsAbove DEF IInv, Shape
  <2>2. changes' \in 0 .. MaxLikes /\ \A v \in Videos : likes[v] \in 0 .. changes' /\ likes[v] + 1 \in 0 .. changes'
                                          /\ (likes[v] > 0 => likes[v] - 1 \in 0 .. changes')
    BY <1>1, <2>1
  <2>3. PICK n : n \in 0 .. changes' /\ likes' = [likes EXCEPT ![u] = n]
    BY <1>1, <2>2
  <2>4. likes' \in [Videos -> 0 .. changes']
    BY <2>1, <2>2, <2>3
  <2> QED BY <2>2, <2>4
<1>3. Shape'
  BY <1>1, <1>2 DEF IInv, Shape, None
<1>4. Trimmed'
  BY <1>1 DEF IInv, Trimmed, Newer
<1>5. \A v \in Videos : v # u => Key(v)' = Key(v)
  BY <1>1 DEF Key, IInv, Shape
<1>6. seen \subseteq Videos /\ page \subseteq Videos /\ initial \subseteq Videos
  BY DEF IInv, Shape
<1>7. CASE at = "new"
  <2>1. seen' = {} /\ Lost' = {}
    BY <1>1, <1>7 DEF IInv, Shape, Lost
  <2> QED BY <1>1, <1>3, <1>4, <1>7, <2>1 DEF IInv, Down, Reach
<1>8. CASE at # "new"
  <2>1. touched' = touched \cup {u} /\ Lost' = Lost \ {u} /\ Lost \subseteq Videos
    BY <1>1, <1>6, <1>8 DEF Lost
  <2>2. Down'
    BY <1>1, <1>5, <1>6, <2>1 DEF IInv, Down
  <2>3. at # "stitch"
    BY <1>1 DEF IInv, Shape
  <2>4. at = "reply" => Complete'
    BY <1>1, <1>5, <2>1 DEF IInv, Reach, Complete
  <2>5. Reach'
    BY <1>1, <1>5, <2>1, <2>3, <2>4 DEF IInv, Reach
  <2> QED BY <1>3, <1>4, <2>2, <2>5 DEF IInv
<1> QED BY <1>7, <1>8


-----------------------------------------------------------------------------
(* Requests: before a page is read.                                          *)

LEMMA StartKeeps ==
    ASSUME IInv, Start
    PROVE  IInv'
<1>1. /\ at = "new" /\ initial' = stored /\ at' = IF kind = "latest" THEN "ask" ELSE "rows"
      /\ UNCHANGED <<stored, likes, timeline, relayed, flushes, changes, touched,
                     kind, cursor, page, next, seen, skipped, cut>>
  BY DEF Start, shared
<1>2. Shape'
  BY <1>1 DEF IInv, Shape
<1>3. Trimmed'
  BY <1>1 DEF IInv, Trimmed, Newer
<1>4. Down'
  BY <1>1, DownQuiet DEF IInv
<1>5. Reach'
  <2>1. \A v \in Videos : Key(v)' = Key(v) /\ Below(Key(v), cursor')
    BY <1>1, SameKeys, KeyType DEF IInv, Shape
  <2>2. Lost' \subseteq Videos /\ at' \in {"ask", "rows"}
    BY <1>1 DEF Lost, IInv, Shape
  <2> QED BY <2>1, <2>2 DEF Reach
<1> QED BY <1>2, <1>3, <1>4, <1>5 DEF IInv

LEMMA AskKeeps ==
    ASSUME IInv, Ask
    PROVE  IInv'
<1>1. /\ at = "ask" /\ at' \in {"cold", "hot"}
      /\ UNCHANGED <<stored, likes, timeline, relayed, flushes, changes, touched,
                     kind, cursor, page, next, seen, initial, skipped, cut>>
  BY DEF Ask, shared
<1>2. Shape'
  BY <1>1 DEF IInv, Shape
<1>3. Trimmed'
  BY <1>1 DEF IInv, Trimmed, Newer
<1>4. Down' /\ Reach'
  BY <1>1, DownQuiet, ReachQuiet DEF IInv
<1> QED BY <1>2, <1>3, <1>4 DEF IInv

\* With an empty table there is nothing to show.
LEMMA RebuildReadsKeeps ==
    ASSUME IInv, RebuildReads
    PROVE  IInv'
<1>1. /\ at = "ask" /\ page' \in SUBSET stored
      /\ at' = IF stored = {} THEN "reply" ELSE "rebuild"
      /\ UNCHANGED <<stored, likes, timeline, relayed, flushes, changes, touched,
                     kind, cursor, next, seen, initial, skipped, cut>>
  BY DEF RebuildReads, shared
<1>2. Shape'
  <2>1. at' = "reply" => Cardinality(page') <= Limit
    BY <1>1, FS_EmptySet, PageSizes
  <2> QED BY <1>1, <2>1 DEF IInv, Shape
<1>3. Trimmed'
  BY <1>1 DEF IInv, Trimmed, Newer
<1>4. CASE stored = {}
  <2>1. at' = "reply" /\ page' = {} /\ seen' = {} /\ Lost' = {}
    BY <1>1, <1>4 DEF IInv, Shape, Lost
  <2> QED BY <1>2, <1>3, <2>1 DEF IInv, Down, Reach, Complete
<1>5. CASE stored # {}
  BY <1>1, <1>2, <1>3, <1>5, DownQuiet, ReachQuiet DEF IInv
<1> QED BY <1>4, <1>5

LEMMA RebuildSavesKeeps ==
    ASSUME IInv, RebuildSaves
    PROVE  IInv'
<1>1. /\ at = "rebuild" /\ at' = "ask" /\ page' = {}
      /\ timeline' = timeline \cup page /\ relayed' = relayed \cup page
      /\ UNCHANGED <<stored, likes, flushes, changes, touched,
                     kind, cursor, next, seen, initial, skipped, cut>>
  BY DEF RebuildSaves
<1>2. Shape'
  BY <1>1, FS_EmptySet, PageSizes DEF IInv, Shape
<1>3. Trimmed'
  BY <1>1, TrimmedGrows DEF IInv, Shape
<1>4. Down' /\ Reach'
  BY <1>1, DownQuiet, ReachQuiet DEF IInv
<1> QED BY <1>2, <1>3, <1>4 DEF IInv

-----------------------------------------------------------------------------
(* Requests: a page is read.                                                 *)

\* A page of videos below the cursor is above the cursor it makes.
LEMMA PageDown ==
    ASSUME Shape, Down, UNCHANGED <<likes, kind, cursor, seen, touched>>,
           NEW K \in SUBSET Videos, SetPage(K), \A v \in K : Below(Key(v), cursor)
    PROVE  Down' /\ next' \in Keys
<1>1. \A v \in Videos : Key(v)' = Key(v)
  BY SameKeys
<1>2. seen \subseteq Videos /\ cursor \in Keys /\ page' = K
      /\ next' = IF K = {} THEN cursor ELSE Last(K)
  BY DEF Shape, SetPage
<1>3. next' \in Keys /\ (\A v \in K : ~Below(Key(v), next')) /\ ~Below(cursor, next')
  <2>1. CASE K = {}
    BY <1>2, <2>1, BelowOrder
  <2>2. CASE K # {}
    <3>1. PICK x \in K : Last(K) = Key(x)
      BY <2>2, LastIs
    <3>2. ~Below(cursor, Key(x))
      <4>1. Key(x) \in Keys
        BY KeyType
      <4>2. Below(Key(x), cursor)
        OBVIOUS
      <4> QED BY <1>2, <4>1, <4>2, BelowOrder
    <3> QED BY <1>2, <2>2, <3>1, <3>2, LastIs
  <2> QED BY <2>1, <2>2
<1>4. \A v \in seen \ touched : ~Below(Key(v), cursor)
  BY DEF Down
<1> QED BY <1>1, <1>2, <1>3, <1>4 DEF Down

\* A page K is complete if whoever is still to be shown is on it or not above
\* any of it, and if it is short, on it.
LEMMA PageComplete ==
    ASSUME Shape, UNCHANGED <<likes, kind, cursor>>,
           NEW K \in SUBSET Videos, SetPage(K),
           Lost' \subseteq Videos,
           \A v \in Lost' : Below(Key(v), cursor),
           \A v \in Lost' \ K, k \in K : ~Below(Key(k), Key(v)),
           Cardinality(K) < Limit /\ ~cut' => Lost' \subseteq K
    PROVE  Complete'
<1>1. /\ page' = K /\ next' = IF K = {} THEN cursor ELSE Last(K)
      /\ Last(K)' = Last(K) /\ \A v \in Videos : Key(v)' = Key(v)
  BY SameKeys DEF SetPage
<1>2. Last(page)' = Last(K)'
  BY <1>1 DEF Last, Key
<1>3. ASSUME NEW v \in Lost' \ K
      PROVE  Below(Key(v), next') \/ (kind # "likes" /\ K # {} /\ Key(v) = next')
  <2>1. CASE K = {}
    BY <1>1, <2>1
  <2>2. CASE K # {}
    <3>1. PICK x \in K : Last(K) = Key(x)
      BY <2>2, LastIs
    <3>2. Key(v) \in Keys /\ Key(x) \in Keys /\ ~Below(Key(x), Key(v))
      BY <1>3, <3>1, KeyType
    <3>3. Below(Key(v), Key(x)) \/ Key(v) = Key(x)
      BY <3>2, BelowOrder
    <3>4. kind = "likes" => Key(v) # Key(x)
      BY LikesApart
    <3> QED BY <1>1, <2>2, <3>1, <3>3, <3>4
  <2> QED BY <2>1, <2>2
<1> QED BY <1>1, <1>2, <1>3 DEF Complete

LEMMA ReadRowsKeeps ==
    ASSUME IInv, ReadRows
    PROVE  IInv'
<1>1. PICK K \in SUBSET stored : Rows(Limit, cursor, K) /\ SetPage(K)
  BY DEF ReadRows
<1>2. /\ at \in {"cold", "read"} /\ at' = "reply" /\ page' = K
      /\ UNCHANGED <<stored, likes, timeline, relayed, flushes, changes, touched,
                     kind, cursor, seen, initial, skipped, cut>>
  BY <1>1 DEF ReadRows, SetPage, shared
<1>3. PICK S : S = {v \in stored : Below(Key(v), cursor)}
  OBVIOUS
<1>4. S \in SUBSET stored /\ K \in SUBSET S /\ FirstOf(Limit, K, S) /\ S \subseteq Videos
  BY <1>1, <1>3 DEF Rows, IInv, Shape
<1>5. /\ Cardinality(K) \in 0 .. Limit /\ Limit \in Nat
      /\ Cardinality(K) < Limit => K = S
      /\ \A v \in K, w \in S \ K : ~Below(Key(v), Key(w))
  BY <1>4, Selected, PageSizes DEF IInv
<1>6. Down' /\ next' \in Keys
  BY <1>1, <1>2, <1>3, <1>4, PageDown DEF IInv
<1>7. Shape'
  BY <1>2, <1>5, <1>6 DEF IInv, Shape
<1>8. Trimmed'
  BY <1>2 DEF IInv, Trimmed, Newer
<1>9. Lost' = Lost /\ Lost \subseteq S
  BY <1>2, <1>3 DEF Lost, IInv, Shape, Reach
<1>10. Complete'
  <2>1. /\ Lost' \subseteq Videos /\ \A v \in Lost' : Below(Key(v), cursor)
        /\ \A v \in Lost' \ K, k \in K : ~Below(Key(k), Key(v))
        /\ Cardinality(K) < Limit => Lost' \subseteq K
    BY <1>3, <1>4, <1>5, <1>9
  <2> QED BY <1>1, <1>2, <1>4, <2>1, PageComplete DEF IInv
<1>11. Reach'
  BY <1>2, <1>3, <1>9, <1>10, SameKeys, <1>4 DEF Reach
<1> QED BY <1>6, <1>7, <1>8, <1>11 DEF IInv

\* A request that finds no cached page goes on to the table.
LEMMA MissKeeps ==
    ASSUME IInv, Miss
    PROVE  IInv'
<1>1. /\ at = "rows" /\ at' = "read"
      /\ UNCHANGED <<stored, likes, timeline, relayed, flushes, changes, touched,
                     kind, cursor, page, next, seen, initial, skipped, cut>>
  BY DEF Miss, shared
<1>2. Shape'
  BY <1>1 DEF IInv, Shape
<1>3. Trimmed'
  BY <1>1 DEF IInv, Trimmed, Newer
<1>4. Down' /\ Reach'
  BY <1>1, DownQuiet, ReachQuiet DEF IInv
<1> QED BY <1>2, <1>3, <1>4 DEF IInv

\* A cached page shows what was there when it was read: what has come since is
\* passed over, and what was liked since is touched.
LEMMA FromCacheKeeps ==
    ASSUME Whole, FromCache
    PROVE  IInv'
<1>1. PICK p \in copies :
          /\ p.key = cursor /\ page' = p.page /\ next' = p.next
          /\ skipped' = skipped \cup Late(p) /\ touched' = touched \cup Moved(p)
  BY DEF FromCache
<1>2. /\ at \in {"rows", "read"} /\ at' = "reply"
      /\ UNCHANGED <<stored, likes, timeline, relayed, flushes, changes,
                     kind, cursor, seen, initial, cut>>
  BY DEF FromCache, shared
<1>3. /\ Shape /\ Down /\ Reach /\ p.rows \subseteq stored /\ Ending(p, kind) /\ \E S : Selection(p, kind, S)
  BY DEF Whole, IInv, Copies, Cached
<1>4. PICK S : Selection(p, kind, S)
  BY <1>3
<1>5. PICK K : K = p.page
  OBVIOUS
<1>6. /\ S = {v \in p.rows : Below(KeyOf(p.scores, kind, v), cursor)}
      /\ K \subseteq S /\ Cardinality(K) \in 0 .. Limit /\ (Cardinality(K) < Limit => K = S)
      /\ \A v \in K, w \in S \ K : ~Below(KeyOf(p.scores, kind, v), KeyOf(p.scores, kind, w))
  BY <1>1, <1>4, <1>5 DEF Selection
<1>7. /\ cursor \in Keys /\ next' \in Keys /\ (K = {} => next' = cursor)
      /\ K # {} => /\ next' = LastOf(p.scores, kind, K)
                   /\ \E x \in K : next' = KeyOf(p.scores, kind, x)
                   /\ \A v \in K : ~Below(KeyOf(p.scores, kind, v), next')
  BY <1>1, <1>3, <1>5 DEF Ending
<1>8. stored \subseteq Videos /\ K \in SUBSET stored /\ seen \subseteq Videos /\ initial \subseteq Videos
  BY <1>3, <1>6 DEF Shape
<1>9. \A v \in Videos : v \notin touched' => KeyOf(p.scores, kind, v) = Key(v)
  <2>1. ASSUME NEW v \in Videos, v \notin touched'  PROVE KeyOf(p.scores, kind, v) = Key(v)
    BY <1>1, <2>1 DEF Moved, KeyOf, Key
  <2> QED BY <2>1
<1>23. \A v \in Videos : Key(v)' = Key(v)
  BY <1>2, SameKeys
<1>24. \A v \in Videos : Key(v) \in Keys
  BY <1>3, KeyType
<1>10. touched' \in SUBSET Videos /\ skipped' \in SUBSET Videos /\ touched \subseteq touched'
       /\ (kind # "likes" => touched' = {})
  BY <1>1, <1>3, <1>8 DEF Shape, Moved, Late
<1>11. ~Below(cursor, next')
  <2>1. CASE K = {}
    BY <1>7, <2>1, BelowOrder
  <2>2. CASE K # {}
    <3>1. PICK x \in K : next' = KeyOf(p.scores, kind, x)
      BY <1>7, <2>2
    <3>2. Below(KeyOf(p.scores, kind, x), cursor)
      BY <1>6
    <3> QED BY <1>7, <3>1, <3>2, BelowOrder
  <2> QED BY <2>1, <2>2
<1>12. Down'
  <2>1. \A v \in seen' \ touched' : ~Below(Key(v)', cursor')
    <3>1. SUFFICES ASSUME NEW v \in seen' \ touched'  PROVE ~Below(Key(v)', cursor')
      OBVIOUS
    <3>2. v \in Videos /\ v \in seen \ touched
      BY <1>2, <1>8, <1>10
    <3>3. ~Below(Key(v), cursor)
      BY <1>3, <3>2 DEF Down
    <3>4. Key(v)' = Key(v)
      BY <1>23, <3>2
    <3> QED BY <1>2, <3>3, <3>4
  <2>2. ASSUME NEW v \in page' \ touched'  PROVE Below(Key(v)', cursor') /\ ~Below(Key(v)', next')
    <3>1. v \in K /\ v \in Videos /\ Key(v)' = KeyOf(p.scores, kind, v)
      <4>1. v \in K /\ v \in Videos /\ v \notin touched'
        BY <1>1, <1>5, <1>8, <2>2
      <4>2. Key(v)' = Key(v)
        BY <1>23, <4>1
      <4>3. KeyOf(p.scores, kind, v) = Key(v)
        BY <1>9, <4>1
      <4> QED BY <4>1, <4>2, <4>3
    <3> QED BY <1>2, <1>6, <1>7, <3>1
  <2> QED BY <1>2, <1>11, <2>1, <2>2 DEF Down
<1>13. Shape'
  BY <1>1, <1>2, <1>3, <1>5, <1>6, <1>7, <1>8, <1>10 DEF Shape
<1>14. Trimmed'
  BY <1>2 DEF Whole, IInv, Trimmed, Newer
<1>15. /\ Lost' \subseteq Lost /\ Lost' \subseteq stored /\ Lost' \cap touched' = {} /\ Lost' \cap skipped' = {}
       /\ \A v \in Lost' : Below(Key(v), cursor)
  <2>1. Lost' \subseteq Lost /\ Lost' \subseteq stored /\ Lost' \cap touched' = {} /\ Lost' \cap skipped' = {}
    BY <1>1, <1>2, <1>3, <1>10 DEF Lost, Shape
  <2>2. \A v \in Lost : Below(Key(v), cursor)
    BY <1>2, <1>3 DEF Reach
  <2> QED BY <2>1, <2>2
<1>16. ASSUME NEW v \in Lost', v \notin p.rows  PROVE Cardinality(K) = Limit /\ Below(Key(v), next')
  <2>1. v \notin Late(p) /\ v \in stored \ p.rows /\ Below(Key(v), cursor)
    BY <1>1, <1>15, <1>16
  <2>2. ~(Cardinality(K) < Limit) /\ Below(Key(v), next')
    BY <1>1, <1>5, <2>1 DEF Late
  <2> QED BY <1>6, <2>2, PageSizes
<1>17. ASSUME NEW v \in Lost', v \in p.rows  PROVE v \in S /\ KeyOf(p.scores, kind, v) = Key(v) /\ v \in Videos
  <2>1. v \notin touched' /\ v \in Videos /\ Below(Key(v), cursor)
    BY <1>8, <1>15, <1>17
  <2>2. KeyOf(p.scores, kind, v) = Key(v)
    BY <1>9, <2>1
  <2> QED BY <1>6, <1>17, <2>1, <2>2
<1>18. ASSUME NEW v \in Lost' \ K
       PROVE  Below(Key(v), next') \/ (kind # "likes" /\ K # {} /\ Key(v) = next')
  <2>1. CASE v \notin p.rows
    BY <1>16, <1>18, <2>1
  <2>2. CASE v \in p.rows /\ K = {}
    BY <1>7, <1>15, <1>18, <2>2
  <2>3. CASE v \in p.rows /\ K # {}
    <3>1. PICK x \in K : next' = KeyOf(p.scores, kind, x)
      BY <1>7, <2>3
    <3>2. v \in S \ K /\ Key(v) = KeyOf(p.scores, kind, v) /\ Key(v) \in Keys
      <4>1. v \in S /\ KeyOf(p.scores, kind, v) = Key(v) /\ v \in Videos
        BY <1>17, <1>18, <2>3
      <4> QED BY <1>18, <1>24, <4>1
    <3>3. ~Below(next', Key(v))
      BY <1>6, <3>1, <3>2
    <3>4. Below(Key(v), next') \/ Key(v) = next'
      BY <1>7, <3>2, <3>3, BelowOrder
    <3>5. kind = "likes" => Key(v) # next'
      BY <3>1, <3>2 DEF KeyOf
    <3> QED BY <2>3, <3>4, <3>5
  <2> QED BY <2>1, <2>2, <2>3
<1>19. Cardinality(K) < Limit => Lost' \subseteq K
  <2>1. SUFFICES ASSUME Cardinality(K) < Limit, NEW v \in Lost'  PROVE v \in K
    OBVIOUS
  <2>2. v \in p.rows
    BY <1>16, <2>1, PageSizes
  <2> QED BY <1>6, <1>17, <2>1, <2>2
<1>20. kind # "likes" /\ K # {} => next' = Last(page)'
  <2>1. SUFFICES ASSUME kind # "likes", K # {}  PROVE next' = Last(page)'
    OBVIOUS
  <2>2. Last(page)' = LastOf(likes', kind', page')
    BY DEF Last, LastOf, Key, KeyOf
  <2>3. Last(page)' = LastOf(likes, kind, K)
    BY <1>1, <1>2, <1>5, <2>2
  <2>4. LastOf(likes, kind, K) = LastOf(p.scores, kind, K)
    BY <2>1 DEF LastOf, KeyOf
  <2> QED BY <1>7, <2>1, <2>3, <2>4
<1>21. Complete'
  <2>1. page' = K /\ kind' = kind
    BY <1>1, <1>2, <1>5
  <2>2. \A v \in Lost' : v \in Videos
    BY <1>8, <1>15
  <2>3. \A v \in Lost' \ page' : Below(Key(v)', next') \/ (kind' # "likes" /\ page' # {} /\ Key(v)' = next')
    <3>1. SUFFICES ASSUME NEW v \in Lost' \ page'
                   PROVE  Below(Key(v)', next') \/ (kind' # "likes" /\ page' # {} /\ Key(v)' = next')
      OBVIOUS
    <3>2. Key(v)' = Key(v)
      BY <1>23, <2>2
    <3>3. Below(Key(v), next') \/ (kind # "likes" /\ K # {} /\ Key(v) = next')
      BY <1>18, <2>1
    <3> QED BY <2>1, <3>2, <3>3
  <2> QED BY <1>19, <1>20, <2>1, <2>3 DEF Complete
<1>22. Reach'
  <2>1. \A v \in Lost' : Below(Key(v)', cursor')
    <3>1. SUFFICES ASSUME NEW v \in Lost'  PROVE Below(Key(v)', cursor')
      OBVIOUS
    <3>2. v \in Videos /\ Below(Key(v), cursor)
      BY <1>8, <1>15
    <3>3. Key(v)' = Key(v)
      BY <1>23, <3>2
    <3> QED BY <1>2, <3>2, <3>3
  <2> QED BY <1>2, <1>21, <2>1 DEF Reach
<1> QED BY <1>12, <1>13, <1>14, <1>22 DEF IInv

\* What a request reads to be cached.
LEMMA CopyIs ==
    ASSUME IInv, NEW c \in Keys, NEW K \in SUBSET stored, Rows(Limit, c, K)
    PROVE  Cached(Copy(c, K), kind) /\ Copy(c, K).rows \subseteq stored
<1>1. PICK p : p = Copy(c, K)
  OBVIOUS
<1>2. p.key = c /\ p.page = K /\ p.next = (IF K = {} THEN c ELSE Last(K)) /\ p.rows = stored /\ p.scores = likes
  BY <1>1 DEF Copy
<1>3. PICK S : S = {v \in stored : Below(Key(v), c)}
  OBVIOUS
<1>4. Shape /\ S \in SUBSET stored /\ K \in SUBSET S /\ FirstOf(Limit, K, S) /\ K \in SUBSET Videos
  BY <1>3 DEF Rows, IInv, Shape
<1>5. /\ Cardinality(K) \in 0 .. Limit /\ Limit \in Nat
      /\ Cardinality(K) < Limit => K = S
      /\ \A v \in K, w \in S \ K : ~Below(Key(v), Key(w))
  BY <1>4, Selected, PageSizes
<1>6. \A v : KeyOf(p.scores, kind, v) = Key(v)
  BY <1>2 DEF KeyOf, Key
<1>7. LastOf(p.scores, kind, K) = Last(K)
  BY <1>2 DEF LastOf, Last, KeyOf, Key
<1>8. Selection(p, kind, S)
  BY <1>2, <1>3, <1>4, <1>5, <1>6 DEF Selection
<1>9. Ending(p, kind)
  <2>1. CASE K = {}
    BY <1>2, <2>1 DEF Ending
  <2>2. CASE K # {}
    BY <1>2, <1>4, <1>6, <1>7, <2>2, LastIs DEF Ending
  <2> QED BY <2>1, <2>2
<1> QED BY <1>1, <1>2, <1>8, <1>9 DEF Cached

LEMMA CopiesKeep ==
    ASSUME Whole, [PagesNext]_pageVars
    PROVE  Copies'
<1>0. Shape /\ IInv /\ Copies
  BY DEF Whole, IInv
<1>1. ASSUME reads' \cup copies' \subseteq reads \cup copies, kind' = kind, stored \subseteq stored'
      PROVE  Copies'
  BY <1>0, <1>1 DEF Copies
<1>2. ASSUME NEW c \in Keys, NEW K \in SUBSET stored, Rows(Limit, c, K), reads' = reads \cup {Copy(c, K)},
             UNCHANGED <<copies, kind, stored>>
      PROVE  Copies'
  BY <1>0, <1>2, CopyIs DEF Copies
<1>3. ASSUME UNCHANGED <<caches, kind>>, stored \subseteq stored'  PROVE Copies'
  BY <1>1, <1>3 DEF caches
<1>4. CASE UNCHANGED pageVars
  BY <1>3, <1>4 DEF pageVars, shared, client
<1>5. ASSUME NEW v \in Videos, PublishVideo(v) \/ Relay(v) \/ ChangeLikes(v)  PROVE Copies'
  BY <1>3, <1>5 DEF PublishVideo, Relay, ChangeLikes, client
<1>6. CASE TrimTimeline \/ Flush
  BY <1>3, <1>6 DEF TrimTimeline, Flush, client
<1>7. CASE Start \/ Ask \/ RebuildReads \/ RebuildSaves
  BY <1>3, <1>7 DEF Start, Ask, RebuildReads, RebuildSaves, shared
<1>8. CASE ReadHot \/ Stitch \/ FromCache \/ Miss \/ Reply
  BY <1>3, <1>8 DEF ReadHot, Stitch, FromCache, Miss, Reply, shared
<1>9. CASE ReadRows
  <2>1. PICK K \in SUBSET stored :
            /\ Rows(Limit, cursor, K)
            /\ reads' = IF Kept(cursor) THEN reads \cup {Copy(cursor, K)} ELSE reads
    BY <1>9 DEF ReadRows
  <2>2. UNCHANGED <<copies, kind, stored>> /\ cursor \in Keys
    BY <1>0, <1>9 DEF ReadRows, shared, Shape
  <2>3. CASE reads' = reads
    BY <1>1, <2>2, <2>3
  <2>4. CASE reads' = reads \cup {Copy(cursor, K)}
    BY <1>2, <2>1, <2>2, <2>4
  <2> QED BY <2>1, <2>3, <2>4
<1>10. CASE OtherReads
  <2>1. PICK c \in Cursors, K \in SUBSET stored :
            Kept(c) /\ Rows(Limit, c, K) /\ reads' = reads \cup {Copy(c, K)}
    BY <1>10 DEF OtherReads
  <2>2. UNCHANGED <<copies, kind, stored>>
    BY <1>10 DEF OtherReads, shared, client
  <2>3. c \in Keys
    <3>1. CASE c = None
      BY <3>1, TopIsAbove DEF None, Keys
    <3>2. ASSUME NEW v \in Videos, c = <<Floor(At[v]), 0>>  PROVE c \in Keys
      <4>1. PICK k : k = <<At[v], 0>>
        OBVIOUS
      <4>2. k \in Keys /\ k[1] = At[v]
        BY <4>1, PageSizes DEF Keys
      <4> QED BY <3>2, <4>2, FloorBelow
    <3> QED BY <3>1, <3>2 DEF Cursors
  <2> QED BY <1>2, <2>1, <2>2, <2>3
<1>11. ASSUME NEW p \in reads, SavePage(p)  PROVE Copies'
  BY <1>1, <1>11 DEF SavePage, shared, client
<1>12. ASSUME NEW p \in copies, Lapse(p)  PROVE Copies'
  BY <1>1, <1>12 DEF Lapse, shared, client
<1> QED BY <1>4, <1>5, <1>6, <1>7, <1>8, <1>9, <1>10, <1>11, <1>12 DEF PagesNext


\* A video below the watermark's page that the set does not have: its event is
\* to come, Redis lost the set, the set has outgrown Cap, or it was trimmed,
\* and then all of the set is newer.
LEMMA TimelineHoles ==
    ASSUME Shape, Trimmed, NEW K \in SUBSET timeline, K # {},
           NEW v \in stored \ timeline, Below(Key(v), cursor), v \notin HotHoles(K),
           kind # "likes"
    PROVE  \A k \in K : ~Below(Key(k), Key(v))
<1>1. K \in SUBSET Videos /\ timeline \in SUBSET Videos /\ v \in Videos /\ flushes \in Nat
  BY DEF Shape
<1>2. CASE Below(Key(v), Last(K))
  <2>1. ASSUME NEW k \in K  PROVE ~Below(Key(k), Key(v))
    <3>1. Key(k) \in Keys /\ Key(v) \in Keys /\ Last(K) \in Keys /\ ~Below(Key(k), Last(K))
      BY <1>1, KeyType, LastIs
    <3>2. ~Below(Last(K), Key(v))
      BY <1>2, <3>1, BelowOrder
    <3> QED BY <3>1, <3>2, BelowOrder
  <2> QED BY <2>1
<1>3. CASE ~Below(Key(v), Last(K))
  <2>1. v \in relayed /\ flushes = 0 /\ ~(Cardinality(timeline) > Cap)
    BY <1>1, <1>3 DEF HotHoles
  <2>2. Cap <= Cardinality(Newer(v)) /\ Cap \in Nat
    BY <2>1, PageSizes DEF Trimmed
  <2>3. IsFiniteSet(timeline) /\ Newer(v) \subseteq timeline
    BY <1>1, PageSizes, FS_Subset DEF Newer
  <2>4. /\ Cardinality(timeline) \in Nat /\ Cardinality(Newer(v)) \in Nat
        /\ Cardinality(Newer(v)) <= Cardinality(timeline)
        /\ Cardinality(Newer(v)) = Cardinality(timeline) => Newer(v) = timeline
    BY <2>3, FS_Subset, FS_CardinalityType
  <2>5. Newer(v) = timeline
    BY <2>1, <2>2, <2>4
  <2>6. ASSUME NEW k \in K  PROVE ~Below(Key(k), Key(v))
    <3>1. At[v] <= At[k] /\ At[v] \in Nat /\ At[k] \in Nat
      BY <1>1, <2>5, PageSizes DEF Newer
    <3>2. Key(k) = <<At[k], 0>> /\ Key(v) = <<At[v], 0>>
      BY <1>1, KeyType
    <3> QED BY <3>1, <3>2 DEF Below
  <2> QED BY <2>6
<1> QED BY <1>2, <1>3

LEMMA ReadHotKeeps ==
    ASSUME IInv, ReadHot
    PROVE  IInv'
<1>1. PICK S : S = {v \in timeline : Below(Key(v), cursor)}
  OBVIOUS
<1>2. PICK K \in SUBSET S :
          /\ FirstOf(Limit, K, S) /\ SetPage(K)
          /\ at' = IF Cardinality(K) < Limit THEN "stitch" ELSE "reply"
          /\ skipped' = skipped \cup HotHoles(K)
  BY <1>1 DEF ReadHot
<1>3. /\ at = "hot" /\ page' = K /\ next' = IF K = {} THEN cursor ELSE Last(K)
      /\ UNCHANGED <<stored, likes, timeline, relayed, flushes, changes, touched,
                     kind, cursor, seen, initial, cut>>
  BY <1>2 DEF ReadHot, SetPage, shared
<1>4. /\ S \in SUBSET stored /\ K \in SUBSET stored /\ K \in SUBSET Videos /\ K \in SUBSET timeline
      /\ stored \subseteq Videos /\ kind = "latest"
  BY <1>1, <1>3 DEF IInv, Shape
<1>5. /\ Cardinality(K) \in 0 .. Limit /\ Limit \in Nat
      /\ Cardinality(K) < Limit => K = S
      /\ \A v \in K, w \in S \ K : ~Below(Key(v), Key(w))
  BY <1>2, <1>4, Selected, PageSizes DEF IInv
<1>6. Down' /\ next' \in Keys
  BY <1>1, <1>2, <1>3, <1>4, PageDown DEF IInv
<1>7. skipped' \in SUBSET Videos
  BY <1>2, <1>4 DEF HotHoles, IInv, Shape
<1>8. Shape'
  BY <1>3, <1>4, <1>5, <1>6, <1>7, <1>2 DEF IInv, Shape
<1>9. Trimmed'
  BY <1>3 DEF IInv, Trimmed, Newer
<1>10. Lost' \subseteq Lost \ HotHoles(K) /\ Lost' \subseteq stored
  BY <1>2, <1>3 DEF Lost, IInv, Shape
<1>11. \A v \in Lost' : Below(Key(v), cursor)
  BY <1>3, <1>10 DEF IInv, Reach
<1>12. \A v \in Lost' \ K, k \in K : ~Below(Key(k), Key(v))
  <2>1. ASSUME NEW v \in Lost' \ K, NEW k \in K  PROVE ~Below(Key(k), Key(v))
    <3>1. CASE v \in timeline
      BY <1>1, <1>5, <1>11, <3>1
    <3>2. CASE v \notin timeline
      <4>1. v \in stored \ timeline /\ v \notin HotHoles(K) /\ Below(Key(v), cursor)
        BY <1>10, <1>11, <3>2
      <4> QED BY <1>4, <4>1, TimelineHoles DEF IInv
    <3> QED BY <3>1, <3>2
  <2> QED BY <2>1
<1>13. at' = "reply" => Complete'
  BY <1>2, <1>3, <1>4, <1>5, <1>10, <1>11, <1>12, PageComplete DEF IInv
<1>14. at' = "stitch" => Filling'
  <2>1. Last(K)' = Last(K) /\ Last(page)' = Last(K)' /\ \A v \in Videos : Key(v)' = Key(v)
    BY <1>3, SameKeys DEF Last, Key
  <2>2. ASSUME NEW v \in Lost' \ K, K # {}  PROVE ~Below(Last(K), Key(v))
    BY <1>4, <1>12, <2>2, LastIs DEF IInv
  <2> QED BY <1>3, <1>4, <1>10, <2>1, <2>2 DEF Filling
<1>15. Reach'
  <2>1. \A v \in Videos : Key(v)' = Key(v)
    BY <1>3, SameKeys
  <2>2. at' \in {"stitch", "reply"}
    BY <1>2
  <2> QED BY <1>3, <1>4, <1>10, <1>11, <1>13, <1>14, <2>1, <2>2 DEF Reach
<1> QED BY <1>6, <1>8, <1>9, <1>15 DEF IInv


-----------------------------------------------------------------------------
(* Requests: a short page is filled up.                                      *)

LEMMA Filled ==
    ASSUME IInv, at = "stitch", at' = "reply",
           UNCHANGED <<stored, likes, timeline, relayed, flushes, changes, touched,
                       kind, cursor, seen, initial, cut>>,
           NEW from \in Keys, ~Below(next, from),
           NEW K \in SUBSET stored, Rows(Limit - Cardinality(page), from, K), SetPage(page \cup K),
           skipped' \in SUBSET Videos, skipped \subseteq skipped',
           \A v \in Lost' \ page : Below(Key(v), from)
    PROVE  IInv'
<1>1. PICK P, S, n : /\ P = page \cup K
                     /\ S = {v \in stored : Below(Key(v), from)}
                     /\ n = Limit - Cardinality(page)
  OBVIOUS
<1>2. /\ stored \subseteq Videos /\ page \subseteq stored /\ kind # "likes" /\ touched = {}
      /\ P \in SUBSET Videos /\ S \in SUBSET stored /\ cursor \in Keys /\ next \in Keys
  BY <1>1 DEF IInv, Shape
<1>3. IsFiniteSet(page) /\ IsFiniteSet(K) /\ Cardinality(page) \in Nat /\ n \in Nat /\ Limit \in Nat
      /\ Cardinality(page) < Limit
  <2>1. IsFiniteSet(page) /\ IsFiniteSet(K)
    BY <1>2, PageSizes, FS_Subset
  <2>2. Cardinality(page) \in Nat
    BY <2>1, FS_CardinalityType
  <2>3. Cardinality(page) < Limit /\ Limit \in Nat
    BY PageSizes DEF IInv, Shape
  <2> QED BY <1>1, <2>1, <2>2, <2>3
<1>4. K \in SUBSET S /\ FirstOf(n, K, S)
  BY <1>1 DEF Rows
<1>5. /\ Cardinality(K) \in 0 .. n /\ (Cardinality(K) < n => K = S)
      /\ \A v \in K, w \in S \ K : ~Below(Key(v), Key(w))
  BY <1>2, <1>3, <1>4, Selected DEF IInv
<1>6. /\ Filling /\ Down /\ Shape /\ (\A v \in Lost : Below(Key(v), cursor))
  BY DEF IInv, Reach
<1>7. ~Below(cursor, from)
  <2>1. CASE page = {}
    BY <1>6, <2>1 DEF Filling
  <2>2. CASE page # {}
    <3>1. ~Below(cursor, next)
      BY <1>6, <2>2 DEF Down
    <3> QED BY <1>2, <3>1, BelowOrder
  <2> QED BY <2>1, <2>2
<1>8. \A v \in P : Below(Key(v), cursor)
  <2>1. ASSUME NEW v \in K  PROVE Below(Key(v), cursor)
    <3>1. Below(Key(v), from) /\ Key(v) \in Keys
      BY <1>1, <1>2, <1>4, <1>6, KeyType
    <3> QED BY <1>2, <1>7, <3>1, BelowOrder
  <2>2. \A v \in page : Below(Key(v), cursor)
    BY <1>2, <1>6 DEF Down
  <2> QED BY <1>1, <2>1, <2>2
<1>9. Down' /\ next' \in Keys
  BY <1>1, <1>2, <1>6, <1>8, PageDown
<1>10. page \cap K = {}
  <2>1. SUFFICES ASSUME NEW v \in page, v \in K  PROVE FALSE
    OBVIOUS
  <2>2. Below(Key(v), from) /\ Key(v) \in Keys
    BY <1>1, <1>2, <1>4, <1>6, <2>1, KeyType
  <2>3. next = Last(page) /\ ~Below(Key(v), next)
    BY <1>2, <1>6, LastIs DEF Filling
  <2>4. Below(Key(v), next)
    BY <1>2, <2>2, BelowOrder
  <2> QED BY <2>3, <2>4
<1>11. Cardinality(P) = Cardinality(page) + Cardinality(K)
  <2>1. Cardinality(P) = Cardinality(page) + Cardinality(K) - Cardinality(page \cap K)
    BY <1>1, <1>3, FS_Union
  <2>2. Cardinality(page \cap K) = 0 /\ Cardinality(K) \in Nat
    BY <1>3, <1>10, FS_EmptySet, FS_CardinalityType
  <2> QED BY <1>3, <2>1, <2>2
<1>12. Cardinality(P) \in 0 .. Limit /\ (Cardinality(P) < Limit => K = S)
  <2>1. PICK i, j : i = Cardinality(page) /\ j = Cardinality(K)
    OBVIOUS
  <2>2. i \in Nat /\ j \in Nat /\ n = Limit - i /\ j <= n
    BY <1>1, <1>3, <1>5, <2>1
  <2>3. i + j \in 0 .. Limit /\ (i + j < Limit => j < n)
    BY <1>3, <2>2
  <2> QED BY <1>5, <1>11, <2>1, <2>3
<1>13. page' = P
  BY <1>1 DEF SetPage
<1>14. Shape'
  <2>1. Cardinality(page') <= Limit /\ page' \in SUBSET stored
    BY <1>1, <1>2, <1>3, <1>12, <1>13
  <2> QED BY <1>2, <1>9, <2>1 DEF IInv, Shape
<1>15. Trimmed'
  BY DEF IInv, Trimmed, Newer
<1>16. Lost' \subseteq Lost /\ Lost' \subseteq stored
  BY <1>6 DEF Lost, Shape
<1>17. \A v \in Lost' : Below(Key(v), cursor)
  BY <1>6, <1>16
<1>18. ASSUME NEW v \in Lost' \ P, NEW k \in P  PROVE ~Below(Key(k), Key(v))
  <2>1. v \in Lost' \ page /\ v \in Lost \ page /\ v \in S /\ v \in Videos
    BY <1>1, <1>2, <1>16, <1>18
  <2>2. CASE k \in K
    BY <1>1, <1>5, <1>18, <2>1, <2>2
  <2>3. CASE k \in page
    <3>1. ~Below(Last(page), Key(v))
      BY <1>6, <2>1, <2>3 DEF Filling
    <3>2. ~Below(Key(k), Last(page)) /\ Last(page) \in Keys /\ Key(k) \in Keys /\ Key(v) \in Keys
      BY <1>2, <1>6, <2>1, <2>3, LastIs, KeyType
    <3> QED BY <3>1, <3>2, BelowOrder
  <2> QED BY <1>1, <2>2, <2>3
<1>19. Cardinality(P) < Limit => Lost' \subseteq P
  BY <1>1, <1>12, <1>16
<1>20. Complete'
  <2>1. SetPage(P) /\ Lost' \subseteq Videos
    BY <1>1, <1>2, <1>16
  <2> QED BY <1>2, <1>6, <1>17, <1>18, <1>19, <2>1, PageComplete
<1>21. Reach'
  <2>1. \A v \in Videos : Key(v)' = Key(v)
    BY SameKeys
  <2> QED BY <1>2, <1>16, <1>17, <1>20, <2>1 DEF Reach
<1> QED BY <1>9, <1>14, <1>15, <1>21 DEF IInv

LEMMA StitchKeeps ==
    ASSUME IInv, Stitch
    PROVE  IInv'
<1>1. /\ at = "stitch" /\ at' = "reply"
      /\ UNCHANGED <<stored, likes, timeline, relayed, flushes, changes, touched,
                     kind, cursor, seen, initial>>
  BY DEF Stitch, shared
<1>2. /\ Shape /\ Filling /\ Down /\ kind # "likes" /\ (\A v \in Lost : Below(Key(v), cursor))
      /\ stored \subseteq Videos /\ page \subseteq Videos /\ cursor \in Keys /\ next \in Keys
  BY <1>1 DEF IInv, Reach, Shape
<1>3. \A v \in Lost' : v \in Videos /\ v \in stored /\ v \notin skipped'
  BY <1>1, <1>2 DEF Lost, Shape
<1>4. skipped \subseteq skipped' => Lost' \subseteq Lost
  BY <1>1 DEF Lost
<1>5. ASSUME NEW K \in SUBSET stored,
             Rows(Limit - Cardinality(page), IF page = {} THEN cursor ELSE Last(page), K),
             SetPage(page \cup K), UNCHANGED cut,
             skipped' = IF page = {} THEN skipped ELSE skipped \cup Tied(page)
      PROVE  IInv'
  <2>1. Rows(Limit - Cardinality(page), next, K)
    BY <1>2, <1>5 DEF Filling
  <2>2. skipped' \in SUBSET Videos /\ skipped \subseteq skipped'
    BY <1>2, <1>5 DEF Shape, Tied
  <2>3. ASSUME NEW v \in Lost' \ page  PROVE Below(Key(v), next)
    <3>1. v \in Lost /\ v \in Videos /\ v \in stored
      BY <1>3, <1>4, <2>2, <2>3
    <3>2. CASE page = {}
      BY <1>2, <3>1, <3>2 DEF Filling
    <3>3. CASE page # {}
      <4>1. ~Below(next, Key(v)) /\ next = Last(page)
        BY <1>2, <2>3, <3>1, <3>3 DEF Filling
      <4>2. Key(v) # next
        BY <1>2, <1>3, <1>5, <2>3, <3>3, <4>1 DEF Tied
      <4>3. Key(v) \in Keys
        BY <1>2, <3>1, KeyType
      <4> QED BY <1>2, <4>1, <4>2, <4>3, BelowOrder
    <3> QED BY <3>2, <3>3
  <2>4. ~Below(next, next)
    BY <1>2, BelowOrder
  <2> QED BY <1>1, <1>2, <1>5, <2>1, <2>2, <2>3, <2>4, Filled
<1>6. ASSUME page # {}, NEW K \in SUBSET stored,
             Rows(Limit - Cardinality(page), <<Floor(Last(page)[1]), 0>>, K),
             SetPage(page \cup K), UNCHANGED cut,
             skipped' = skipped \cup Tied(page) \cup Blurred(page)
      PROVE  IInv'
  <2>1. PICK from : from = <<Floor(Last(page)[1]), 0>>
    OBVIOUS
  <2>2. next = Last(page)
    BY <1>2, <1>6 DEF Filling
  <2>3. from \in Keys /\ ~Below(next, from)
    BY <1>2, <2>1, <2>2, FloorBelow
  <2>4. skipped' \in SUBSET Videos /\ skipped \subseteq skipped'
    BY <1>2, <1>6 DEF Shape, Tied, Blurred
  <2>5. ASSUME NEW v \in Lost' \ page  PROVE Below(Key(v), from)
    <3>1. v \in Lost /\ v \in Videos /\ v \in stored /\ v \notin Tied(page) /\ v \notin Blurred(page)
      BY <1>3, <1>4, <1>6, <2>4, <2>5
    <3>2. ~Below(next, Key(v)) /\ Key(v) # next /\ Key(v) \in Keys
      BY <1>2, <1>6, <2>2, <2>5, <3>1, KeyType DEF Filling, Tied
    <3>3. Below(Key(v), next)
      BY <1>2, <3>2, BelowOrder
    <3>4. ~(At[v] >= Floor(Last(page)[1]))
      BY <2>2, <2>5, <3>1, <3>3 DEF Blurred
    <3>5. Key(v) = <<At[v], 0>> /\ At[v] \in Nat /\ Floor(Last(page)[1]) \in Nat
      BY <1>2, <2>1, <2>3, <3>1, KeyType, PageSizes DEF Keys
    <3> QED BY <2>1, <3>4, <3>5 DEF Below
  <2> QED BY <1>1, <1>6, <2>1, <2>3, <2>4, <2>5, Filled
<1>7. ASSUME cut' = TRUE, UNCHANGED <<page, next, skipped>>
      PROVE  IInv'
  <2>1. Shape' /\ Trimmed'
    BY <1>1, <1>2, <1>7 DEF IInv, Shape, Trimmed, Newer
  <2>2. (\A v \in Videos : Key(v)' = Key(v)) /\ Lost' = Lost /\ Lost \subseteq Videos
    BY <1>1, <1>2, <1>7, SameKeys DEF Lost, Shape
  <2>3. Down'
    BY <1>1, <1>2, <1>7, <2>2 DEF Down, Shape
  <2>4. Last(page)' = Last(page)
    <3>1. Last(page) = LastOf(likes, kind, page) /\ Last(page)' = LastOf(likes', kind', page')
      BY DEF Last, LastOf, Key, KeyOf
    <3>2. page' = page /\ likes' = likes /\ kind' = kind
      BY <1>1, <1>7
    <3> QED BY <3>1, <3>2
  <2>5. ASSUME NEW v \in Lost \ page
        PROVE  Below(Key(v), next) \/ (page # {} /\ Key(v) = next)
    <3>1. CASE page = {}
      BY <1>2, <3>1 DEF Filling
    <3>2. CASE page # {}
      <4>1. ~Below(next, Key(v)) /\ Key(v) \in Keys
        BY <1>2, <2>2, <3>2, KeyType DEF Filling
      <4> QED BY <1>2, <3>2, <4>1, BelowOrder
    <3> QED BY <3>1, <3>2
  <2>6. Complete'
    BY <1>1, <1>2, <1>7, <2>2, <2>4, <2>5 DEF Complete, Filling
  <2>7. Reach'
    BY <1>1, <1>2, <2>2, <2>6 DEF Reach
  <2> QED BY <2>1, <2>3, <2>7 DEF IInv
<1> QED BY <1>5, <1>6, <1>7 DEF Stitch


-----------------------------------------------------------------------------
(* Requests: the client takes the page.                                      *)

\* The cursor taken is the next one, or below it, and what lies between is
\* passed over for a stated reason.
LEMMA Taken ==
    ASSUME IInv, at = "reply", NEW blunt \in BOOLEAN, Take(blunt), blunt => kind # "likes",
           UNCHANGED <<stored, likes, kind, initial, touched>>, seen' = seen \cup page
    PROVE  /\ cursor' \in Keys /\ ~Below(next, cursor') /\ skipped' \in SUBSET Videos
           /\ \A v \in Lost' : Below(Key(v), cursor')
           /\ Lost' \subseteq Lost \ page
<1>1. /\ Shape /\ Complete /\ next \in Keys /\ stored \subseteq Videos /\ page \in SUBSET Videos
  BY DEF IInv, Reach, Shape
<1>2. /\ cursor' = IF blunt /\ page # {} THEN <<Floor(next[1]), 0>> ELSE next
      /\ skipped' = IF page = {} THEN skipped
                    ELSE skipped \cup Tied(page) \cup (IF blunt THEN Blurred(page) ELSE {})
  BY DEF Take
<1>3. cursor' \in Keys /\ ~Below(next, cursor')
  BY <1>1, <1>2, FloorBelow, BelowOrder
<1>4. skipped' \in SUBSET Videos /\ skipped \subseteq skipped'
  BY <1>1, <1>2 DEF Shape, Tied, Blurred
<1>5. Lost' \subseteq Lost \ page /\ Lost' \subseteq stored /\ Lost' \cap skipped' = {}
  BY <1>1, <1>4 DEF Lost, Shape
<1>6. ASSUME NEW v \in Lost'  PROVE Below(Key(v), cursor')
  <2>1. /\ v \in Lost \ page /\ v \in Videos /\ v \in stored /\ v \notin skipped'
        /\ Key(v) \in Keys
    BY <1>1, <1>5, KeyType
  <2>2. Below(Key(v), next) \/ (kind # "likes" /\ page # {} /\ Key(v) = next)
    BY <1>1, <2>1 DEF Complete
  <2>3. CASE page = {}
    BY <1>2, <2>2, <2>3
  <2>4. CASE page # {} /\ kind = "likes"
    BY <1>2, <2>2, <2>4
  <2>5. CASE page # {} /\ kind # "likes"
    <3>1. next = Last(page) /\ v \notin Tied(page)
      BY <1>1, <1>2, <2>1, <2>5 DEF Complete
    <3>2. Below(Key(v), next)
      BY <2>1, <2>2, <2>5, <3>1 DEF Tied
    <3>3. CASE ~blunt
      BY <1>2, <3>2, <3>3
    <3>4. CASE blunt
      <4>1. v \notin Blurred(page) /\ cursor' = <<Floor(next[1]), 0>>
        BY <1>2, <2>1, <2>5, <3>4
      <4>2. ~(At[v] >= Floor(next[1]))
        BY <2>1, <3>1, <3>2, <4>1 DEF Blurred
      <4>3. Key(v) = <<At[v], 0>> /\ At[v] \in Nat /\ Floor(next[1]) \in Nat
        BY <1>1, <1>3, <2>1, <2>5, <4>1, KeyType, PageSizes DEF Keys
      <4> QED BY <4>1, <4>2, <4>3 DEF Below
    <3> QED BY <3>3, <3>4
  <2> QED BY <2>3, <2>4, <2>5
<1> QED BY <1>3, <1>4, <1>5, <1>6

LEMMA ReplyKeeps ==
    ASSUME IInv, Reply
    PROVE  IInv'
<1>1. /\ at = "reply" /\ seen' = seen \cup page /\ page' = {}
      /\ at' = IF Cardinality(page) < Limit THEN "end"
               ELSE IF kind = "latest" THEN "ask" ELSE "rows"
      /\ UNCHANGED <<stored, likes, timeline, relayed, flushes, changes, touched,
                     kind, next, initial, cut>>
  BY DEF Reply, shared
<1>2. PICK blunt \in BOOLEAN : Take(blunt) /\ (blunt => kind # "likes")
  <2>1. CASE Take(kind = "following")
    BY <2>1
  <2>2. CASE kind = "latest" /\ Take(TRUE)
    BY <2>2
  <2> QED BY <2>1, <2>2 DEF Reply
<1>3. /\ cursor' \in Keys /\ ~Below(next, cursor') /\ skipped' \in SUBSET Videos
      /\ \A v \in Lost' : Below(Key(v), cursor')
      /\ Lost' \subseteq Lost \ page
  BY <1>1, <1>2, Taken
<1>4. /\ Shape /\ Down /\ Complete /\ next \in Keys /\ cursor \in Keys
      /\ page \subseteq Videos /\ seen \subseteq Videos /\ initial \subseteq Videos
  BY <1>1 DEF IInv, Reach, Shape
<1>5. Shape'
  BY <1>1, <1>3, <1>4, FS_EmptySet, PageSizes DEF Shape
<1>6. Trimmed'
  BY <1>1 DEF IInv, Trimmed, Newer
<1>7. \A v \in Videos : Key(v)' = Key(v) /\ Key(v) \in Keys
  BY <1>1, <1>4, SameKeys, KeyType
<1>8. ASSUME NEW v \in seen' \ touched'  PROVE ~Below(Key(v), cursor')
  <2>1. v \in Videos /\ v \notin touched /\ v \in seen \cup page
    BY <1>1, <1>4, <1>8
  <2>2. ~Below(cursor, next)
    BY <1>1, <1>4, <2>1 DEF Down
  <2>3. CASE v \in seen
    <3>1. ~Below(Key(v), cursor)
      BY <1>4, <2>1, <2>3 DEF Down
    <3>2. ~Below(Key(v), next)
      BY <1>4, <1>7, <2>1, <2>2, <3>1, BelowOrder
    <3> QED BY <1>3, <1>4, <1>7, <2>1, <3>2, BelowOrder
  <2>4. CASE v \in page
    <3>1. ~Below(Key(v), next)
      BY <1>1, <1>4, <2>1, <2>4 DEF Down
    <3> QED BY <1>3, <1>4, <1>7, <2>1, <3>1, BelowOrder
  <2> QED BY <2>1, <2>3, <2>4
<1>9. Down'
  <2>1. \A v \in seen' \ touched' : v \in Videos
    BY <1>1, <1>4
  <2> QED BY <1>1, <1>7, <1>8, <2>1 DEF Down
<1>10. Reach'
  <2>1. Lost' \subseteq Videos
    BY <1>3, <1>4 DEF Lost
  <2>2. at' = "end" /\ ~cut' => Lost' = {}
    <3>1. SUFFICES ASSUME at' = "end", ~cut'  PROVE Lost' = {}
      OBVIOUS
    <3>2. Lost \subseteq page
      BY <1>1, <1>4, <3>1 DEF Complete
    <3> QED BY <1>3, <3>2
  <2>3. at' \in {"end", "ask", "rows"}
    BY <1>1
  <2> QED BY <1>3, <1>7, <2>1, <2>2, <2>3 DEF Reach
<1> QED BY <1>5, <1>6, <1>9, <1>10 DEF IInv

-----------------------------------------------------------------------------
(* The theorems.                                                             *)

LEMMA Begins == PagesInit => Whole
<1>1. SUFFICES ASSUME PagesInit PROVE Whole
  OBVIOUS
<1>2. None \in Keys /\ MaxLikes \in Nat /\ Limit \in Nat /\ Cardinality({}) = 0
  BY TopIsAbove, PageSizes, FS_EmptySet DEF None, Keys
<1>3. likes \in [Videos -> 0 .. changes] /\ changes \in 0 .. MaxLikes
  BY <1>1, <1>2 DEF PagesInit
<1>4. Shape
  <2>1. /\ stored = {} /\ timeline = {} /\ relayed = {} /\ seen = {} /\ initial = {} /\ page = {}
        /\ touched = {} /\ skipped = {} /\ kind \in Kinds /\ cut = FALSE /\ flushes = 0
        /\ at = "new" /\ cursor = None /\ next = None
    BY <1>1 DEF PagesInit
  <2>2. cursor \in Keys /\ next \in Keys /\ Cardinality(page) <= Limit
    BY <1>2, <2>1
  <2> QED BY <1>3, <2>1, <2>2 DEF Shape
<1>5. Trimmed /\ Down /\ Reach
  BY <1>1 DEF PagesInit, Trimmed, Down, Reach
<1>6. Copies
  BY <1>1 DEF PagesInit, Copies
<1> QED BY <1>4, <1>5, <1>6 DEF IInv, Whole

LEMMA Keeps == Whole /\ [PagesNext]_pageVars => IInv'
<1>1. SUFFICES ASSUME Whole, IInv, [PagesNext]_pageVars PROVE IInv'
  BY DEF Whole
<1>2. CASE UNCHANGED pageVars \/ OtherReads \/ (\E p \in reads : SavePage(p)) \/ (\E p \in copies : Lapse(p))
  <2>1. UNCHANGED <<stored, likes, timeline, relayed, flushes, changes, touched,
                    kind, at, cursor, page, next, seen, initial, skipped, cut>>
    BY <1>2 DEF pageVars, shared, client, OtherReads, SavePage, Lapse
  <2>2. Shape' /\ Trimmed'
    BY <1>1, <2>1 DEF IInv, Shape, Trimmed, Newer, None
  <2>3. Down' /\ Reach'
    BY <1>1, <2>1, DownQuiet, ReachQuiet DEF IInv
  <2> QED BY <2>2, <2>3 DEF IInv
<1>3. ASSUME NEW v \in Videos, PublishVideo(v) \/ Relay(v) \/ ChangeLikes(v)
      PROVE  IInv'
  BY <1>1, <1>3, PublishKeeps, RelayKeeps, LikesKeep
<1>4. CASE TrimTimeline \/ Flush
  BY <1>1, <1>4, TrimKeeps, FlushKeeps
<1>5. CASE Start \/ Ask \/ RebuildReads \/ RebuildSaves
  BY <1>1, <1>5, StartKeeps, AskKeeps, RebuildReadsKeeps, RebuildSavesKeeps
<1>6. CASE ReadHot \/ Stitch \/ FromCache \/ Miss \/ ReadRows \/ Reply
  BY <1>1, <1>6, ReadHotKeeps, StitchKeeps, FromCacheKeeps, MissKeeps, ReadRowsKeeps, ReplyKeeps
<1> QED BY <1>1, <1>2, <1>3, <1>4, <1>5, <1>6 DEF PagesNext

\* The cursor stands below what was shown and above what is still to come,
\* the timeline has Cap newer videos than any trimmed from it, and a cached
\* page is one that was selected at its cursor some time ago
\* (FeedService.ListLatest, ListLikesCount and ListByFollowing).
THEOREM PagesInvariant == PagesSpec => []Whole
<1>1. PagesInit => Whole
  BY Begins
<1>2. Whole /\ [PagesNext]_pageVars => Whole'
  BY Keeps, CopiesKeep DEF Whole
<1> QED BY <1>1, <1>2, PTL DEF PagesSpec

\* The variables keep their types, and a page is never longer than was asked
\* for.
THEOREM PagesTyped == PagesSpec => []PagesType
<1>1. IInv => PagesType
  <2>1. SUFFICES ASSUME IInv PROVE PagesType
    OBVIOUS
  <2>2. likes \in [Videos -> 0 .. MaxLikes]
    <3>1. changes \in 0 .. MaxLikes /\ MaxLikes \in Nat /\ likes \in [Videos -> 0 .. changes]
      BY <2>1, TopIsAbove DEF IInv, Shape
    <3>2. 0 .. changes \subseteq 0 .. MaxLikes
      BY <3>1
    <3> QED BY <3>1, <3>2
  <2> QED BY <2>1, <2>2 DEF IInv, Shape, PagesType
<1>2. Whole => IInv
  BY DEF Whole
<1> QED BY <1>1, <1>2, PagesInvariant, PTL

\* No page shows a video again that an earlier one showed, by whatever mixture
\* of the timeline and the table it is made, unless its likes changed under
\* way in the feed ordered by them.
THEOREM RepeatsNever == PagesSpec => []NoRepeats
<1>1. IInv => NoRepeats
  <2>1. SUFFICES ASSUME IInv, at = "reply", NEW v \in page \cap seen, v \notin touched
                 PROVE  FALSE
    BY DEF NoRepeats
  <2>2. Below(Key(v), cursor) /\ ~Below(Key(v), cursor)
    BY <2>1 DEF IInv, Down
  <2> QED BY <2>2
<1>2. Whole => IInv
  BY DEF Whole
<1> QED BY <1>1, <1>2, PagesInvariant, PTL

\* A client that reaches the end was shown all that was stored when it began,
\* but for what a cursor or the timeline passes over for a stated reason.
THEOREM GapsNever == PagesSpec => []NoGaps
<1>1. IInv => NoGaps
  BY DEF IInv, Reach, Lost, NoGaps
<1>2. Whole => IInv
  BY DEF Whole
<1> QED BY <1>1, <1>2, PagesInvariant, PTL

-----------------------------------------------------------------------------
(* Sums.  The fold of the community modules is a recursive function over    *)
(* the subsets of a domain; that such a function exists, and that it yields *)
(* integers, is shown by the least size at which it would not.              *)

AnyOf(s) == CHOOSE x \in s : TRUE
Others(s) == s \ {AnyOf(s)}
Partial(f, T, g) == g = [s \in T |-> IF s = {} THEN 0 ELSE f[AnyOf(s)] + g[Others(s)]]
UpTo(D, n) == {s \in SUBSET D : Cardinality(s) <= n}

LEMMA SumIs ==
    ASSUME NEW f
    PROVE  SumFunction(f) = (CHOOSE g : Partial(f, SUBSET DOMAIN f, g))[DOMAIN f]
BY DEF SumFunction, SumFunctionOnSet, FoldFunctionOnSet, MapThenFoldSet, Partial, AnyOf, Others

LEMMA Smaller ==
    ASSUME NEW s, IsFiniteSet(s), s # {}
    PROVE  AnyOf(s) \in s /\ Others(s) \subseteq s /\ Cardinality(Others(s)) = Cardinality(s) - 1
<1>1. AnyOf(s) \in s
  BY DEF AnyOf
<1> QED BY <1>1, FS_RemoveElement DEF Others

LEMMA SumUpTo ==
    ASSUME NEW D, IsFiniteSet(D), NEW f \in [D -> Int]
    PROVE  \A n \in Nat : \E g \in [UpTo(D, n) -> Int] : Partial(f, UpTo(D, n), g)
<1> DEFINE Bad == {n \in Nat : ~ \E g \in [UpTo(D, n) -> Int] : Partial(f, UpTo(D, n), g)}
<1>0. \A s \in SUBSET D : IsFiniteSet(s) /\ Cardinality(s) \in Nat
  BY FS_Subset, FS_CardinalityType
<1>1. ASSUME Bad # {} PROVE FALSE
  <2>1. PICK n \in Bad : \A m \in Bad : n <= m
    BY <1>1, Least
  <2>2. CASE n = 0
    <3>1. PICK g : g = [s \in UpTo(D, n) |-> 0]
      OBVIOUS
    <3>2. \A s \in UpTo(D, n) : s = {}
      BY <1>0, <2>2, FS_EmptySet DEF UpTo
    <3>3. Partial(f, UpTo(D, n), g)
      BY <3>1, <3>2 DEF Partial
    <3>4. g \in [UpTo(D, n) -> Int]
      BY <3>1
    <3> QED BY <3>3, <3>4
  <2>3. CASE n # 0
    <3>1. n - 1 \in Nat /\ n - 1 \notin Bad
      BY <2>1, <2>3
    <3>2. PICK m \in Nat : m = n - 1
      BY <3>1
    <3>3. PICK h \in [UpTo(D, m) -> Int] : Partial(f, UpTo(D, m), h)
      BY <3>1, <3>2
    <3>4. \A s \in UpTo(D, n) : s # {} => AnyOf(s) \in D /\ Others(s) \in UpTo(D, m)
      <4> SUFFICES ASSUME NEW s \in UpTo(D, n), s # {} PROVE AnyOf(s) \in D /\ Others(s) \in UpTo(D, m)
        OBVIOUS
      <4>1. s \in SUBSET D /\ Cardinality(s) <= n
        BY DEF UpTo
      <4>2. AnyOf(s) \in s /\ Others(s) \subseteq s /\ Cardinality(Others(s)) = Cardinality(s) - 1
        BY <1>0, <4>1, Smaller
      <4>3. Cardinality(s) \in Nat /\ n \in Nat
        BY <1>0, <4>1
      <4> QED BY <3>2, <4>1, <4>2, <4>3 DEF UpTo
    <3>5. UpTo(D, m) \subseteq UpTo(D, n)
      <4>1. \A k \in Nat : k <= m => k <= n
        BY <3>2
      <4> QED BY <1>0, <4>1 DEF UpTo
    <3>6. PICK g : g = [s \in UpTo(D, n) |-> IF s = {} THEN 0 ELSE f[AnyOf(s)] + h[Others(s)]]
      OBVIOUS
    <3>7. g \in [UpTo(D, n) -> Int]
      <4>1. \A s \in UpTo(D, n) : (IF s = {} THEN 0 ELSE f[AnyOf(s)] + h[Others(s)]) \in Int
        BY <3>4
      <4> QED BY <3>6, <4>1
    <3>8. \A s \in UpTo(D, m) : g[s] = h[s]
      BY <3>3, <3>5, <3>6 DEF Partial
    <3>9. \A s \in UpTo(D, n) : s # {} => g[Others(s)] = h[Others(s)]
      BY <3>4, <3>8
    <3>10. Partial(f, UpTo(D, n), g)
      BY <3>6, <3>9, Zenon DEF Partial
    <3> QED BY <3>7, <3>10
  <2> QED BY <2>2, <2>3
<1> QED BY <1>1

\* The sum of finitely many integers is one.
LEMMA SumType ==
    ASSUME NEW f, IsFiniteSet(DOMAIN f), f \in [DOMAIN f -> Int]
    PROVE  SumFunction(f) \in Int
<1>1. PICK D : D = DOMAIN f
  OBVIOUS
<1>2. \A s \in SUBSET D : IsFiniteSet(s) /\ Cardinality(s) \in Nat /\ Cardinality(s) <= Cardinality(D)
  BY <1>1, FS_Subset, FS_CardinalityType
<1>3. UpTo(D, Cardinality(D)) = SUBSET D
  BY <1>2 DEF UpTo
<1>4. \E g : Partial(f, SUBSET D, g)
  <2>1. Cardinality(D) \in Nat /\ IsFiniteSet(D) /\ f \in [D -> Int]
    BY <1>1, <1>2
  <2>2. \E g \in [UpTo(D, Cardinality(D)) -> Int] : Partial(f, UpTo(D, Cardinality(D)), g)
    BY <2>1, SumUpTo
  <2> QED BY <1>3, <2>2
<1>5. PICK g : g = CHOOSE h : Partial(f, SUBSET D, h)
  OBVIOUS
<1>6. Partial(f, SUBSET D, g)
  BY <1>4, <1>5
<1> DEFINE Bad == {n \in Nat : \E s \in SUBSET D : Cardinality(s) = n /\ g[s] \notin Int}
<1>7. ASSUME Bad # {} PROVE FALSE
  <2>1. PICK n \in Bad : \A m \in Bad : n <= m
    BY <1>7, Least
  <2>2. PICK s \in SUBSET D : Cardinality(s) = n /\ g[s] \notin Int
    BY <2>1
  <2>3. g[s] = IF s = {} THEN 0 ELSE f[AnyOf(s)] + g[Others(s)]
    BY <1>6 DEF Partial
  <2>4. s # {}
    BY <2>2, <2>3
  <2>5. AnyOf(s) \in s /\ Others(s) \subseteq s /\ Cardinality(Others(s)) = n - 1
    BY <1>2, <2>2, <2>4, Smaller
  <2>6. f[AnyOf(s)] \in Int
    BY <1>1, <2>5
  <2>7. Others(s) \in SUBSET D /\ n - 1 \in Nat /\ ~(n <= n - 1)
    BY <1>2, <2>5
  <2>8. g[Others(s)] \in Int
    BY <2>1, <2>5, <2>7
  <2> QED BY <2>2, <2>3, <2>6, <2>8
<1>8. g[D] \in Int
  BY <1>2, <1>7
<1> QED BY <1>1, <1>5, <1>8, SumIs

-----------------------------------------------------------------------------
(* The hot ranking.                                                          *)

\* A sorted set: finitely many videos with integer scores.
Board(z) ==
    /\ z = [v \in DOMAIN z |-> z[v]] /\ IsFiniteSet(DOMAIN z)
    /\ DOMAIN z \subseteq Ranked /\ \A v \in DOMAIN z : z[v] \in Int

\* Windows outlive every ranking of them: until WindowTTL after its minute a
\* window has had no change, or has them all.
Lasting ==
    /\ windows = [m \in Times |-> windows[m]] /\ total = [m \in Times |-> total[m]]
    /\ expires \in [Times -> Nat]
    /\ \A m \in Times :
          /\ Board(windows[m]) /\ Board(total[m]) /\ DOMAIN windows[m] \subseteq DOMAIN total[m]
          /\ \/ expires[m] = 0 /\ windows[m] = Empty /\ total[m] = Empty
             \/ expires[m] >= m + WindowTTL /\ (minute < m + WindowTTL => windows[m] = total[m])

\* A process at work has an event that is neither queued nor another's, and
\* writes to the window of a minute that has begun.
Working ==
    /\ minute \in Times
    /\ \E n \in 0 .. MaxHeat : events \in [1 .. n -> Ranked \X Changes]
    /\ ready \subseteq DOMAIN events
    /\ job \in [Processes -> [e : Nat, key : Times, pc : {"idle", "incr", "expire"}]]
    /\ \A p \in Processes : \/ job[p] = Idle
                            \/ /\ job[p].pc # "idle" /\ job[p].e \in DOMAIN events \ ready
                               /\ job[p].key <= minute
    /\ job["api"].e = job["worker"].e => job["api"] = Idle /\ job["worker"] = Idle

\* What a process is about to count has been counted less often than given,
\* and what it has tried to count is counted or spoilt.
Counts ==
    /\ counted \in [Ids -> Nat] /\ given \in [Ids -> Nat]
    /\ \A e \in Ids : counted[e] <= given[e]
    /\ \A e \in DOMAIN events :
          /\ \A p \in Processes : job[p].e = e =>
                /\ job[p].pc = "incr" => counted[e] < given[e]
                /\ job[p].pc = "expire" => counted[e] >= 1 \/ e \in spoilt
          /\ e \notin ready /\ (\A p \in Processes : job[p].e # e) => counted[e] >= 1 \/ e \in spoilt

\* A snapshot is missing, or ranks videos for as long as it lives.
Snapshot(s) ==
    \/ s = NoRank
    \/ \E l \in 1 .. MaxMinute + SnapshotTTL + 1, k \in Times : \E z, y :
          s = [there |-> TRUE, left |-> l, made |-> k, scores |-> z, truth |-> y] /\ Board(z)

Views == [pc : {"new", "ask", "union", "range", "end"}, asOf : Times, offset : Nat,
          seen : SUBSET Ranked, pages : Nat, intact : BOOLEAN, again : BOOLEAN]

ReadShape ==
    /\ snapshots = [m \in Times |-> snapshots[m]] /\ \A m \in Times : Snapshot(snapshots[m])
    /\ view \in [Clients -> Views]

\* A client that pages through one ranking has seen its first offset videos,
\* and in the end all of them.
Leading(z, n) == {v \in DOMAIN z : Rank(z, v) < n}
Shows(r) == snapshots[r.asOf].scores

Page(r, z) ==
    /\ r.pages = 0 => r.seen = {} /\ r.offset = 0 /\ r.pc # "end"
    /\ r.intact => /\ r.pc = "new" => r.pages = 0
                   /\ ~r.again
                   /\ r.seen = IF r.pc = "end" THEN DOMAIN z ELSE Leading(z, r.offset)

Paged(c) == Page(view[c], Shows(view[c]))

RankInv == /\ Working /\ Counts /\ Lasting /\ ReadShape /\ RankingComplete
           /\ \A c \in Clients : Paged(c)

\* The positions in a sorted set number its members from 0.
Above(z, v) == {w \in DOMAIN z : z[w] > z[v] \/ (z[w] = z[v] /\ w > v)}

LEMMA RankNumbers ==
    ASSUME NEW z, Board(z), NEW N, N = Cardinality(DOMAIN z)
    PROVE  /\ N \in Nat
           /\ \A v \in DOMAIN z : Rank(z, v) \in 0 .. N - 1
           /\ \A v, w \in DOMAIN z : Rank(z, v) = Rank(z, w) => v = w
           /\ \A k \in 0 .. N - 1 : \E v \in DOMAIN z : Rank(z, v) = k
<1> DEFINE D == DOMAIN z
<1>1. IsFiniteSet(D) /\ N \in Nat /\ D \subseteq Nat /\ \A v \in D : z[v] \in Int
  BY FS_CardinalityType, Minutes DEF Board
<1>2. \A v \in D : Above(z, v) \subseteq D /\ v \notin Above(z, v)
  BY <1>1 DEF Above
<1>3. ASSUME NEW v \in D PROVE Rank(z, v) = Cardinality(Above(z, v)) /\ Rank(z, v) \in 0 .. N - 1
  <2>1. Rank(z, v) = Cardinality(Above(z, v))
    BY DEF Rank, Above
  <2>2. IsFiniteSet(Above(z, v)) /\ Cardinality(Above(z, v)) \in Nat
        /\ Cardinality(Above(z, v)) <= N /\ Cardinality(Above(z, v)) # N
    BY <1>1, <1>2, FS_Subset, FS_CardinalityType
  <2> QED BY <1>1, <2>1, <2>2
<1>4. ASSUME NEW v \in D, NEW w \in D, w \in Above(z, v) PROVE Rank(z, w) < Rank(z, v)
  <2>1. Above(z, w) \subseteq Above(z, v)
    <3> SUFFICES ASSUME NEW x \in Above(z, w) PROVE x \in Above(z, v)
      OBVIOUS
    <3>1. x \in D /\ (z[x] > z[w] \/ (z[x] = z[w] /\ x > w))
      BY DEF Above
    <3>2. z[w] > z[v] \/ (z[w] = z[v] /\ w > v)
      BY <1>4 DEF Above
    <3>3. x \in Nat /\ w \in Nat /\ v \in Nat /\ z[x] \in Int /\ z[w] \in Int /\ z[v] \in Int
      BY <1>1, <3>1
    <3>4. z[x] > z[v] \/ (z[x] = z[v] /\ x > v)
      BY ONLY <3>1, <3>2, <3>3
    <3> QED BY <3>1, <3>4 DEF Above
  <2>2. Above(z, w) # Above(z, v)
    BY <1>2, <1>4
  <2>3. IsFiniteSet(Above(z, v))
    BY <1>1, <1>2, FS_Subset
  <2>4. Cardinality(Above(z, w)) <= Cardinality(Above(z, v)) /\ Cardinality(Above(z, w)) # Cardinality(Above(z, v))
    BY <2>1, <2>2, <2>3, FS_Subset
  <2>5. Rank(z, w) \in Nat /\ Rank(z, v) \in Nat
    BY <1>1, <1>3
  <2> QED BY <1>3, <2>4, <2>5
<1>5. ASSUME NEW v \in D, NEW w \in D, Rank(z, v) = Rank(z, w), v # w PROVE FALSE
  <2>1. v \in Above(z, w) \/ w \in Above(z, v)
    <3>1. v \in Nat /\ w \in Nat /\ z[v] \in Int /\ z[w] \in Int
      BY <1>1
    <3> QED BY <1>5, <3>1 DEF Above
  <2>2. Rank(z, v) \in Nat /\ Rank(z, w) \in Nat
    BY <1>1, <1>3
  <2> QED BY <1>4, <1>5, <2>1, <2>2
<1>6. \A k \in 0 .. N - 1 : \E v \in D : Rank(z, v) = k
  <2>1. PICK f : f = [v \in D |-> Rank(z, v)]
    OBVIOUS
  <2>2. f \in [D -> 0 .. N - 1] /\ \A v, w \in D : f[v] = f[w] => v = w
    BY <1>3, <1>5, <2>1
  <2>3. f \in Injection(D, 0 .. N - 1)
    BY <2>2 DEF Injection, IsInjective
  <2>4. IsFiniteSet(0 .. N - 1) /\ Cardinality(0 .. N - 1) = N
    <3>1. 0 \in Int /\ N - 1 \in Int /\ (IF 0 > N - 1 THEN 0 ELSE N - 1 - 0 + 1) = N
      BY <1>1
    <3> QED BY <3>1, FS_Interval
  <2>5. f \in Surjection(D, 0 .. N - 1)
    BY <2>3, <2>4, FS_Injection
  <2> QED BY <2>1, <2>5 DEF Surjection
<1> QED BY <1>1, <1>3, <1>5, <1>6

\* What ZREVRANGE answers.
PageAt(z, n, s) == {v \in DOMAIN z : Rank(z, v) \in n .. n + s - 1}

\* A page goes on where the last one ended, and is short only at the end.
LEMMA NextPage ==
    ASSUME NEW z, Board(z), NEW n \in Nat, NEW s \in Nat \ {0},
           NEW K, K = PageAt(z, n, s)
    PROVE  /\ IsFiniteSet(K) /\ Cardinality(K) \in Nat
           /\ Leading(z, n) \cup K = Leading(z, n + s) /\ Leading(z, n) \cap K = {}
           /\ Cardinality(K) # s => Leading(z, n + s) = DOMAIN z
           /\ K = {} => Leading(z, n) = DOMAIN z
<1>1. PICK N \in Nat : N = Cardinality(DOMAIN z)
  BY FS_CardinalityType DEF Board
<1>2. /\ \A v \in DOMAIN z : Rank(z, v) \in 0 .. N - 1
      /\ \A v, w \in DOMAIN z : Rank(z, v) = Rank(z, w) => v = w
      /\ \A k \in 0 .. N - 1 : \E v \in DOMAIN z : Rank(z, v) = k
  BY <1>1, RankNumbers
<1> USE DEF PageAt
<1>3. IsFiniteSet(K) /\ Cardinality(K) \in Nat
  BY FS_Subset, FS_CardinalityType DEF Board
<1>4. Leading(z, n) \cup K = Leading(z, n + s) /\ Leading(z, n) \cap K = {}
  <2>1. \A v \in DOMAIN z : Rank(z, v) < n + s <=> Rank(z, v) < n \/ Rank(z, v) \in n .. n + s - 1
    BY <1>2
  <2>2. \A v \in DOMAIN z : ~(Rank(z, v) < n /\ Rank(z, v) \in n .. n + s - 1)
    BY <1>2
  <2> QED BY <2>1, <2>2 DEF Leading
<1>5. ASSUME N > n + s - 1 PROVE Cardinality(K) = s
  <2>1. PICK f : f = [v \in K |-> Rank(z, v)]
    OBVIOUS
  <2>2. f \in [K -> n .. n + s - 1] /\ \A v, w \in K : f[v] = f[w] => v = w
    BY <1>2, <2>1
  <2>3. \A k \in n .. n + s - 1 : \E v \in K : f[v] = k
    <3> SUFFICES ASSUME NEW k \in n .. n + s - 1 PROVE \E v \in K : f[v] = k
      OBVIOUS
    <3>1. k \in 0 .. N - 1
      BY <1>5
    <3> QED BY <1>2, <2>1, <3>1
  <2>4. f \in Bijection(K, n .. n + s - 1)
    BY <2>2, <2>3 DEF Bijection, Injection, Surjection, IsInjective
  <2>5. Cardinality(n .. n + s - 1) = s
    BY FS_Interval
  <2>6. Cardinality(n .. n + s - 1) = Cardinality(K)
    BY <1>3, <2>4, FS_Bijection DEF ExistsBijection
  <2> QED BY <2>5, <2>6
<1>6. ASSUME ~(N > n + s - 1) PROVE Leading(z, n + s) = DOMAIN z
  <2>1. \A v \in DOMAIN z : Rank(z, v) < n + s
    BY <1>2, <1>6
  <2> QED BY <2>1 DEF Leading
<1>7. ASSUME K = {} PROVE Leading(z, n) = DOMAIN z
  <2>1. ASSUME NEW v \in DOMAIN z, ~(Rank(z, v) < n) PROVE FALSE
    <3>1. n \in 0 .. N - 1
      BY <1>2, <2>1
    <3>2. PICK w \in DOMAIN z : Rank(z, w) = n
      BY <1>2, <3>1
    <3> QED BY <1>7, <3>2
  <2> QED BY <2>1 DEF Leading
<1> QED BY <1>3, <1>4, <1>5, <1>6, <1>7

\* Sorted sets are made by adding to one, and by summing several.
LEMMA EmptyBoard == Board(Empty)
BY FS_EmptySet DEF Board, Empty

LEMMA Added ==
    ASSUME NEW z, Board(z), NEW v \in Ranked, NEW d \in Int
    PROVE  Board(ZIncrBy(z, v, d)) /\ DOMAIN ZIncrBy(z, v, d) = DOMAIN z \cup {v}
<1>1. IsFiniteSet(DOMAIN z \cup {v})
  BY FS_AddElement DEF Board
<1>2. \A w \in DOMAIN z \cup {v} : Score(z, w) \in Int
  BY DEF Score, Board
<1> QED BY <1>1, <1>2 DEF ZIncrBy, Board

Over(m) == {w \in Times : m - Span < w /\ w <= m}

LEMMA UnionBoard ==
    ASSUME NEW m \in Times, NEW z, \A w \in Times : Board(z[w])
    PROVE  Board(Union(m, z))
<1> DEFINE W == Over(m)
           D == UNION {DOMAIN z[w] : w \in W}
<1>1. IsFiniteSet(W) /\ W \subseteq Times
  <2>1. IsFiniteSet(Times)
    BY Minutes, FS_Interval DEF Times
  <2> QED BY <2>1, FS_Subset DEF Over
<1>2. IsFiniteSet(D)
  <2>1. PICK f : f = [w \in W |-> DOMAIN z[w]]
    OBVIOUS
  <2>2. f \in Surjection(W, {DOMAIN z[w] : w \in W})
    BY <2>1 DEF Surjection
  <2>3. IsFiniteSet({DOMAIN z[w] : w \in W})
    BY <1>1, <2>2, FS_Surjection
  <2> QED BY <1>1, <2>3, FS_UNION DEF Board
<1>3. D \subseteq Ranked
  BY <1>1 DEF Board
<1>4. ASSUME NEW v \in D PROVE SumFunction([w \in W |-> Score(z[w], v)]) \in Int
  <2>1. ASSUME NEW w \in W PROVE Score(z[w], v) \in Int
    <3>1. Board(z[w])
      BY <1>1
    <3> QED BY <3>1 DEF Score, Board
  <2>2. PICK f : f = [w \in W |-> Score(z[w], v)]
    OBVIOUS
  <2>3. DOMAIN f = W /\ f \in [W -> Int]
    BY <2>1, <2>2
  <2> QED BY <1>1, <2>2, <2>3, SumType
<1>5. Union(m, z) = [v \in D |-> SumFunction([w \in W |-> Score(z[w], v)])]
  BY DEF Union, Over
<1> HIDE DEF W, D
<1> QED BY <1>2, <1>3, <1>4, <1>5 DEF Board

LEMMA UnionSame ==
    ASSUME NEW m \in Times, NEW y, NEW z, \A w \in Over(m) : y[w] = z[w]
    PROVE  Union(m, y) = Union(m, z)
<1> DEFINE W == Over(m)
<1>1. {DOMAIN y[w] : w \in W} = {DOMAIN z[w] : w \in W}
  OBVIOUS
<1>2. \A v : [w \in W |-> Score(y[w], v)] = [w \in W |-> Score(z[w], v)]
  OBVIOUS
<1> QED BY <1>1, <1>2 DEF Union, Over

\* Steps that leave either half alone.
LEMMA HeatStill ==
    ASSUME Working, Counts, Lasting, UNCHANGED <<minute, heatVars>>
    PROVE  Working' /\ Counts' /\ Lasting'
<1> USE DEF heatVars
<1>1. Working'
  BY DEF Working
<1>2. Counts'
  BY DEF Counts
<1>3. Lasting'
  BY DEF Lasting
<1> QED BY <1>1, <1>2, <1>3

LEMMA ReadStill ==
    ASSUME ReadShape, RankingComplete, \A c \in Clients : Paged(c), UNCHANGED readVars
    PROVE  ReadShape' /\ RankingComplete' /\ \A c \in Clients : Paged(c)'
BY DEF readVars, ReadShape, RankingComplete, Paged, Page, Shows

LEMMA LastingStill ==
    ASSUME Lasting, UNCHANGED <<minute, windows, expires, total>>
    PROVE  Lasting'
BY DEF Lasting

\* What a process at work has.
LEMMA AtWork ==
    ASSUME Working, NEW p \in Processes, job[p] # Idle
    PROVE  /\ job[p].e \in DOMAIN events /\ job[p].e \notin ready /\ job[p].pc # "idle"
           /\ job[p].key \in Times /\ job[p].key <= minute
           /\ \A q \in Processes : q # p => job[q].e # job[p].e
<1>1. job[p].e \in DOMAIN events \ ready /\ job[p].pc # "idle" /\ job[p].key <= minute
  BY DEF Working
<1>2. job[p].key \in Times
  BY DEF Working
<1>3. ASSUME NEW q \in Processes, q # p PROVE job[q].e # job[p].e
  BY <1>3 DEF Working, Processes
<1> QED BY <1>1, <1>2, <1>3

LEMMA Known ==
    ASSUME Working
    PROVE  /\ \E n \in 0 .. MaxHeat : DOMAIN events = 1 .. n /\ Cardinality(DOMAIN events) = n
           /\ DOMAIN events \subseteq Ids /\ 0 \notin DOMAIN events
           /\ \A p \in Processes : job[p].e \in {0} \cup DOMAIN events
<1>1. PICK n \in 0 .. MaxHeat : events \in [1 .. n -> Ranked \X Changes]
  BY DEF Working
<1>2. MaxHeat \in Nat /\ n \in Nat
  BY Minutes
<1>3. Cardinality(1 .. n) = n
  <2>1. 1 \in Int /\ n \in Int /\ (IF 1 > n THEN 0 ELSE n - 1 + 1) = n
    BY <1>2
  <2> QED BY <2>1, FS_Interval
<1>4. \A p \in Processes : job[p].e \in {0} \cup DOMAIN events
  BY DEF Working, Idle
<1>5. DOMAIN events \subseteq Ids /\ 0 \notin DOMAIN events
  BY <1>1, <1>2 DEF Ids
<1> QED BY <1>1, <1>3, <1>4, <1>5

LEMMA NewHeatKeeps ==
    ASSUME Working, Counts, NEW v \in Ranked, NEW d \in Changes, NewHeat(v, d)
    PROVE  Working' /\ Counts'
<1>1. PICK n \in 0 .. MaxHeat : DOMAIN events = 1 .. n /\ Cardinality(DOMAIN events) = n
  BY Known
<1>2. PICK e : e = n + 1
  OBVIOUS
<1>3. /\ e \in Ids /\ e \notin DOMAIN events /\ n \in Nat
      /\ events' = [i \in 1 .. e |-> IF i = e THEN <<v, d>> ELSE events[i]]
      /\ \/ ready' = ready \cup {e} /\ UNCHANGED <<job, given, spoilt>>
         \/ spoilt' = spoilt \cup {e} /\ UNCHANGED <<ready, job, given>>
         \/ /\ job["api"] = Idle /\ job' = [job EXCEPT !["api"] = [e |-> e, key |-> minute, pc |-> "incr"]]
            /\ given' = [given EXCEPT ![e] = @ + 1] /\ ready' = ready /\ spoilt' = spoilt
      /\ UNCHANGED <<minute, counted>>
  BY <1>1, <1>2, Minutes DEF NewHeat, Ids
<1>4. e \in 0 .. MaxHeat /\ 1 .. e = (1 .. n) \cup {e} /\ \A i \in 1 .. n : i # e
  BY <1>2, <1>3 DEF Ids
<1>5. events' \in [1 .. e -> Ranked \X Changes] /\ DOMAIN events' = DOMAIN events \cup {e}
      /\ \A i \in DOMAIN events : events'[i] = events[i]
  <2>1. \A i \in 1 .. n : events[i] \in Ranked \X Changes
    BY <1>1 DEF Working
  <2> QED BY <1>1, <1>3, <1>4, <2>1
<1>6. \A p \in Processes : job[p].e # e
  BY <1>3, Known DEF Ids
<1>7. Working'
  <2>1. CASE ready' = ready \cup {e} /\ UNCHANGED job
    BY <1>3, <1>4, <1>5, <1>6, <2>1 DEF Working
  <2>2. CASE job["api"] = Idle /\ job' = [job EXCEPT !["api"] = [e |-> e, key |-> minute, pc |-> "incr"]] /\ ready' = ready
    <3>1. job'["api"] = [e |-> e, key |-> minute, pc |-> "incr"] /\ job'["worker"] = job["worker"]
      BY <2>2 DEF Working, Processes
    <3>2. minute \in Nat /\ minute <= minute /\ e \in Nat /\ minute \in Times
      BY <1>3, Minutes DEF Working, Times, Ids
    <3>3. job' \in [Processes -> [e : Nat, key : Times, pc : {"idle", "incr", "expire"}]]
      BY <2>2, <3>2 DEF Working
    <3>4. e \notin ready
      BY <1>3 DEF Working
    <3>5. \A p \in Processes : \/ job'[p] = Idle
                               \/ /\ job'[p].pc # "idle" /\ job'[p].e \in DOMAIN events' \ ready'
                                  /\ job'[p].key <= minute'
      BY <1>3, <1>5, <2>2, <3>1, <3>2, <3>4 DEF Working, Processes
    <3>6. job'["api"].e # job'["worker"].e
      BY <1>6, <3>1 DEF Processes
    <3> QED BY <1>3, <1>4, <1>5, <2>2, <3>3, <3>5, <3>6 DEF Working
  <2>3. CASE UNCHANGED <<ready, job>>
    BY <1>3, <1>4, <1>5, <2>3 DEF Working
  <2> QED BY <1>3, <2>1, <2>2, <2>3
<1>8. Counts'
  <2>1. CASE ready' = ready \cup {e} /\ UNCHANGED <<job, given, spoilt>>
    BY <1>3, <1>5, <1>6, <2>1 DEF Counts
  <2>4. CASE spoilt' = spoilt \cup {e} /\ UNCHANGED <<ready, job, given>>
    BY <1>3, <1>5, <1>6, <2>4 DEF Counts
  <2>2. CASE /\ job["api"] = Idle /\ job' = [job EXCEPT !["api"] = [e |-> e, key |-> minute, pc |-> "incr"]]
             /\ given' = [given EXCEPT ![e] = @ + 1] /\ ready' = ready /\ spoilt' = spoilt
    <3>1. job'["api"] = [e |-> e, key |-> minute, pc |-> "incr"] /\ job'["worker"] = job["worker"] /\ job["api"].e = 0
      BY <2>2 DEF Working, Processes, Idle
    <3>2. /\ given' \in [Ids -> Nat] /\ given'[e] = given[e] + 1 /\ \A i \in Ids : i # e => given'[i] = given[i]
          /\ \A i \in Ids : counted[i] \in Nat /\ given[i] \in Nat
      BY <1>3, <2>2 DEF Counts
    <3>3. \A i \in Ids : counted'[i] <= given'[i]
      BY <1>3, <3>2 DEF Counts
    <3>4. ASSUME NEW i \in DOMAIN events
          PROVE /\ i \in Ids /\ i # e /\ i # 0
                /\ \A p \in Processes : job'[p].e = i => job[p] = job'[p]
                /\ (\A p \in Processes : job'[p].e # i) => (\A p \in Processes : job[p].e # i)
      BY <1>3, <3>1, Known DEF Processes
    <3>5. \A i \in DOMAIN events :
          /\ \A p \in Processes : job'[p].e = i =>
                /\ job'[p].pc = "incr" => counted'[i] < given'[i]
                /\ job'[p].pc = "expire" => counted'[i] >= 1 \/ i \in spoilt'
          /\ i \notin ready' /\ (\A p \in Processes : job'[p].e # i) => counted'[i] >= 1 \/ i \in spoilt'
      <4> SUFFICES ASSUME NEW i \in DOMAIN events
                   PROVE  /\ \A p \in Processes : job'[p].e = i =>
                                /\ job'[p].pc = "incr" => counted'[i] < given'[i]
                                /\ job'[p].pc = "expire" => counted'[i] >= 1 \/ i \in spoilt'
                          /\ i \notin ready' /\ (\A p \in Processes : job'[p].e # i)
                                => counted'[i] >= 1 \/ i \in spoilt'
        OBVIOUS
      <4>1. counted'[i] = counted[i] /\ given'[i] = given[i] /\ spoilt' = spoilt /\ ready' = ready
        BY <1>3, <2>2, <3>2, <3>4
      <4>2. \A p \in Processes : job'[p].e = i => job[p] = job'[p]
        BY <3>4
      <4> QED BY <3>4, <4>1, <4>2 DEF Counts
    <3>6. counted[e] < given'[e] /\ job'["worker"].e # e
      BY <1>3, <1>6, <3>1, <3>2 DEF Counts, Processes
    <3> QED BY <1>3, <1>5, <3>1, <3>2, <3>3, <3>5, <3>6 DEF Counts, Processes
  <2> QED BY <1>3, <2>1, <2>2, <2>4
<1> QED BY <1>7, <1>8

\* A process takes up an event, goes on with it, or is done with it.
JobTypes == [e : Nat, key : Times, pc : {"idle", "incr", "expire"}]

LEMMA JobMoves ==
    ASSUME Working, NEW p \in Processes, NEW r \in JobTypes, job' = [job EXCEPT ![p] = r],
           minute' = minute, events' = events, ready' \subseteq DOMAIN events,
           \A q \in Processes : q # p /\ job[q] # Idle => job[q].e \notin ready' /\ job[q].e # r.e,
           r = Idle \/ (r.pc # "idle" /\ r.e \in DOMAIN events \ ready' /\ r.key <= minute)
    PROVE  Working' /\ job'[p] = r /\ \A q \in Processes : q # p => job'[q] = job[q]
<1>1. /\ job' \in [Processes -> JobTypes] /\ job'[p] = r
      /\ \A q \in Processes : q # p => job'[q] = job[q]
  BY DEF Working, JobTypes
<1>2. \A q \in Processes : \/ job'[q] = Idle
                           \/ /\ job'[q].pc # "idle" /\ job'[q].e \in DOMAIN events' \ ready'
                              /\ job'[q].key <= minute'
  <2> SUFFICES ASSUME NEW q \in Processes, job'[q] # Idle
               PROVE  /\ job'[q].pc # "idle" /\ job'[q].e \in DOMAIN events' \ ready'
                      /\ job'[q].key <= minute'
    OBVIOUS
  <2>1. CASE q = p
    BY <1>1, <2>1
  <2>2. CASE q # p
    BY <1>1, <2>2, AtWork
  <2> QED BY <2>1, <2>2
<1>3. \A q \in Processes : job'[q].e = 0 => job'[q] = Idle
  BY <1>2, Known
<1>4. job'["api"].e = job'["worker"].e => job'["api"] = Idle /\ job'["worker"] = Idle
  <2>1. PICK q \in Processes : q # p /\ {"api", "worker"} = {p, q}
    BY DEF Processes
  <2>2. ASSUME job'[p].e = job'[q].e PROVE job'[p] = Idle /\ job'[q] = Idle
    <3>1. job'[q] = job[q] /\ job'[p] = r
      BY <1>1, <2>1
    <3>2. job[q] = Idle
      BY <2>1, <2>2, <3>1
    <3>3. job'[p].e = 0
      BY <2>2, <3>1, <3>2 DEF Idle
    <3> QED BY <1>3, <3>1, <3>2, <3>3
  <2> QED BY <2>1, <2>2
<1> QED BY <1>1, <1>2, <1>4 DEF Working, JobTypes

\* An event is handed to the worker, and counted as given.
LEMMA TakeHeatKeeps ==
    ASSUME Working, Counts, TakeHeat
    PROVE  Working' /\ Counts'
<1>1. PICK e \in ready :
          /\ job["worker"] = Idle
          /\ ready' = ready \ {e} /\ given' = [given EXCEPT ![e] = @ + 1]
          /\ job' = [job EXCEPT !["worker"] = [e |-> e, key |-> minute, pc |-> "incr"]]
  BY DEF TakeHeat
<1>2. UNCHANGED <<minute, events, counted, spoilt>>
  BY DEF TakeHeat
<1>3. PICK r : r = [e |-> e, key |-> minute, pc |-> "incr"]
  OBVIOUS
<1>4. e \in DOMAIN events /\ e \in Ids /\ e \in Nat /\ e # 0
  BY Known DEF Working, Ids
<1>5. r \in JobTypes /\ r.pc = "incr" /\ r.e = e /\ r.key = minute /\ minute \in Nat
  BY <1>3, <1>4 DEF Working, JobTypes, Times
<1>6. \A q \in Processes : q # "worker" /\ job[q] # Idle => job[q].e \notin ready' /\ job[q].e # e
  BY <1>1, AtWork
<1>7. Working' /\ job'["worker"] = r /\ \A q \in Processes : q # "worker" => job'[q] = job[q]
  <2>1. "worker" \in Processes /\ job' = [job EXCEPT !["worker"] = r] /\ ready' \subseteq DOMAIN events
        /\ e \notin ready' /\ minute <= minute
    BY <1>1, <1>3, <1>5 DEF Processes, Working
  <2>2. minute' = minute /\ events' = events
    BY <1>2
  <2>3. r.pc # "idle" /\ r.e \in DOMAIN events \ ready' /\ r.key <= minute
    BY <1>4, <1>5, <2>1
  <2>4. \A q \in Processes : q # "worker" /\ job[q] # Idle => job[q].e \notin ready' /\ job[q].e # r.e
    BY <1>5, <1>6
  <2>5. PICK p \in Processes : p = "worker"
    BY <2>1
  <2>6. job' = [job EXCEPT ![p] = r] /\ \A q \in Processes : q # p /\ job[q] # Idle => job[q].e \notin ready' /\ job[q].e # r.e
    BY <2>1, <2>4, <2>5
  <2>7. Working' /\ job'[p] = r /\ \A q \in Processes : q # p => job'[q] = job[q]
    <3>1. r \in JobTypes /\ ready' \subseteq DOMAIN events
      BY <1>5, <2>1
    <3> QED BY ZenonT(30), <2>2, <2>3, <2>6, <3>1, JobMoves
  <2> QED BY <2>5, <2>7
<1>8. /\ given' \in [Ids -> Nat] /\ given'[e] = given[e] + 1 /\ \A i \in Ids : i # e => given'[i] = given[i]
      /\ \A i \in Ids : counted[i] \in Nat /\ given[i] \in Nat /\ counted[i] <= given[i]
  BY <1>1, <1>4 DEF Counts
<1>9. ASSUME NEW i \in DOMAIN events
      PROVE  /\ \A p \in Processes : job'[p].e = i =>
                   /\ job'[p].pc = "incr" => counted'[i] < given'[i]
                   /\ job'[p].pc = "expire" => counted'[i] >= 1 \/ i \in spoilt'
             /\ i \notin ready' /\ (\A p \in Processes : job'[p].e # i) => counted'[i] >= 1 \/ i \in spoilt'
  <2>0. i \in Ids /\ i # 0 /\ counted' = counted /\ spoilt' = spoilt
    BY <1>2, Known
  <2>1. CASE i = e
    <3>1. \A p \in Processes : job'[p].e = e => job'[p] = r
      BY <1>1, <1>4, <1>6, <1>7 DEF Idle
    <3> QED BY <1>5, <1>7, <1>8, <2>0, <2>1, <3>1 DEF Processes
  <2>2. CASE i # e
    <3>1. \A p \in Processes : job'[p].e = i => job'[p] = job[p]
      BY <1>5, <1>7, <2>2
    <3>2. (\A p \in Processes : job'[p].e # i) => (\A p \in Processes : job[p].e # i)
      BY <1>1, <1>7, <2>0 DEF Idle
    <3>3. given'[i] = given[i] /\ (i \notin ready' => i \notin ready)
      BY <1>1, <1>8, <2>0, <2>2
    <3> QED BY <2>0, <3>1, <3>2, <3>3 DEF Counts
  <2> QED BY <2>1, <2>2
<1>10. Counts'
  <2>1. \A i \in Ids : counted'[i] <= given'[i]
    BY <1>2, <1>8
  <2> QED BY <1>2, <1>8, <1>9, <2>1 DEF Counts
<1> QED BY <1>7, <1>10

LEMMA AddHeatKeeps ==
    ASSUME Working, Counts, NEW p \in Processes, AddHeat(p)
    PROVE  Working' /\ Counts'
<1>1. job[p].pc = "incr" /\ job[p] # Idle /\ job' = [job EXCEPT ![p].pc = "expire"]
      /\ UNCHANGED <<minute, events, ready, given>>
  BY DEF AddHeat, Idle
<1>2. PICK e : e = job[p].e
  OBVIOUS
<1>3. e \in DOMAIN events /\ e \in Ids /\ e \in Nat /\ e # 0 /\ e \notin ready /\ job[p].key <= minute
      /\ \A q \in Processes : q # p => job[q].e # e
  BY <1>1, <1>2, AtWork, Known DEF Ids
<1>4. PICK r : r = [job[p] EXCEPT !.pc = "expire"]
  OBVIOUS
<1>5. r \in JobTypes /\ r.pc = "expire" /\ r.e = e /\ r.key = job[p].key /\ r # Idle
  BY <1>2, <1>4 DEF Working, JobTypes, Idle
<1>6. Working' /\ job'[p] = r /\ \A q \in Processes : q # p => job'[q] = job[q]
  <2>1. job' = [job EXCEPT ![p] = r]
    BY <1>1, <1>4
  <2>2. ready' \subseteq DOMAIN events /\ \A q \in Processes : q # p /\ job[q] # Idle => job[q].e \notin ready' /\ job[q].e # r.e
    BY <1>1, <1>3, <1>5, AtWork DEF Working
  <2>3. minute' = minute /\ events' = events
    BY <1>1
  <2>4. r.pc # "idle" /\ r.e \in DOMAIN events \ ready' /\ r.key <= minute
    BY <1>1, <1>3, <1>5
  <2> QED BY ZenonT(30), <1>5, <2>1, <2>2, <2>3, <2>4, JobMoves
<1>7. counted[e] < given[e] /\ counted \in [Ids -> Nat] /\ given \in [Ids -> Nat]
  BY <1>1, <1>2, <1>3 DEF Counts
<1>8. \/ counted' = [counted EXCEPT ![e] = @ + 1] /\ spoilt' = spoilt
      \/ counted' = counted /\ spoilt' = spoilt \cup {e}
  BY <1>2 DEF AddHeat
<1>9. /\ counted' \in [Ids -> Nat] /\ (\A i \in Ids : i # e => counted'[i] = counted[i])
      /\ counted'[e] <= given[e] /\ (counted'[e] >= 1 \/ e \in spoilt')
      /\ \A i : i # e => (i \in spoilt' <=> i \in spoilt)
  BY <1>3, <1>7, <1>8
<1>10. ASSUME NEW i \in DOMAIN events
       PROVE  /\ \A q \in Processes : job'[q].e = i =>
                    /\ job'[q].pc = "incr" => counted'[i] < given'[i]
                    /\ job'[q].pc = "expire" => counted'[i] >= 1 \/ i \in spoilt'
              /\ i \notin ready' /\ (\A q \in Processes : job'[q].e # i) => counted'[i] >= 1 \/ i \in spoilt'
  <2>0. i \in Ids
    BY Known
  <2>1. CASE i = e
    <3>1. \A q \in Processes : job'[q].e = e => job'[q].pc = "expire"
      BY <1>3, <1>5, <1>6
    <3> QED BY <1>9, <2>1, <3>1
  <2>2. CASE i # e
    <3>1. \A q \in Processes : job'[q].e = i => job'[q] = job[q]
      BY <1>5, <1>6, <2>2
    <3>2. (\A q \in Processes : job'[q].e # i) => (\A q \in Processes : job[q].e # i)
      BY <1>2, <1>6, <2>2
    <3>3. given' = given /\ ready' = ready /\ counted'[i] = counted[i] /\ (i \in spoilt' <=> i \in spoilt)
      BY <1>1, <1>9, <2>0, <2>2
    <3> QED BY <3>1, <3>2, <3>3 DEF Counts
  <2> QED BY <2>1, <2>2
<1>11. Counts'
  <2>1. \A i \in Ids : counted'[i] <= given'[i]
    BY <1>1, <1>9 DEF Counts
  <2> QED BY <1>1, <1>7, <1>9, <1>10, <2>1 DEF Counts
<1> QED BY <1>6, <1>11

\* A process is done with its event, because EXPIRE has answered or because it
\* ended.
LEMMA WorkEnds ==
    ASSUME Working, Counts, NEW p \in Processes, KeepWindow(p) \/ EndProcess(p)
    PROVE  Working' /\ Counts'
<1>1. job[p] # Idle /\ job' = [job EXCEPT ![p] = Idle] /\ UNCHANGED <<minute, events, counted, given>>
  BY DEF KeepWindow, EndProcess, Idle
<1>2. PICK e : e = job[p].e
  OBVIOUS
<1>3. e \in DOMAIN events /\ e \in Ids /\ e \in Nat /\ e # 0 /\ e \notin ready
      /\ \A q \in Processes : q # p => job[q].e # e
  BY <1>1, <1>2, AtWork, Known DEF Ids
<1>4. \/ job[p].pc = "expire" /\ ready' = ready /\ spoilt' = spoilt
      \/ ready' = ready \cup {e} /\ spoilt' = spoilt
      \/ ready' = ready /\ spoilt' = spoilt \cup {e}
  BY <1>2 DEF KeepWindow, EndProcess, Processes
<1>5. Working' /\ job'[p] = Idle /\ \A q \in Processes : q # p => job'[q] = job[q]
  <2>1. ready' \subseteq DOMAIN events
    BY <1>3, <1>4 DEF Working
  <2>2. Idle \in JobTypes /\ Idle.e = 0
    BY Minutes DEF JobTypes, Idle, Times
  <2>3. \A q \in Processes : q # p /\ job[q] # Idle => job[q].e \notin ready' /\ job[q].e # 0
    BY <1>3, <1>4, AtWork, Known
  <2>4. PICK r : r = Idle
    OBVIOUS
  <2>5. minute' = minute /\ events' = events /\ job' = [job EXCEPT ![p] = r]
    BY <1>1, <2>4
  <2>6. r \in JobTypes /\ \A q \in Processes : q # p /\ job[q] # Idle => job[q].e \notin ready' /\ job[q].e # r.e
    BY <2>2, <2>3, <2>4
  <2>7. Working' /\ job'[p] = r /\ \A q \in Processes : q # p => job'[q] = job[q]
    BY ZenonT(30), <2>1, <2>4, <2>5, <2>6, JobMoves
  <2> QED BY <2>4, <2>7
<1>6. ASSUME NEW i \in DOMAIN events
      PROVE  /\ \A q \in Processes : job'[q].e = i =>
                    /\ job'[q].pc = "incr" => counted'[i] < given'[i]
                    /\ job'[q].pc = "expire" => counted'[i] >= 1 \/ i \in spoilt'
             /\ i \notin ready' /\ (\A q \in Processes : job'[q].e # i) => counted'[i] >= 1 \/ i \in spoilt'
  <2>0. i # 0
    BY Known
  <2>1. \A q \in Processes : job'[q].e = i => q # p /\ job'[q] = job[q]
    BY <1>5, <2>0 DEF Idle
  <2>2. i \in spoilt => i \in spoilt'
    BY <1>4
  <2>3. i \notin ready' /\ (\A q \in Processes : job'[q].e # i) => counted[i] >= 1 \/ i \in spoilt'
    <3>1. CASE i = e
      <4>1. job[p].pc = "expire" => counted[e] >= 1 \/ e \in spoilt
        BY <1>2, <1>3 DEF Counts
      <4> QED BY <1>4, <2>2, <3>1, <4>1
    <3>2. CASE i # e
      <4>1. (\A q \in Processes : job'[q].e # i) => (\A q \in Processes : job[q].e # i)
        BY <1>2, <1>5, <3>2
      <4>2. i \notin ready' => i \notin ready
        BY <1>4
      <4> QED BY <2>2, <4>1, <4>2 DEF Counts
    <3> QED BY <3>1, <3>2
  <2> QED BY <1>1, <2>1, <2>2, <2>3 DEF Counts
<1>7. Counts'
  BY <1>1, <1>6 DEF Counts
<1> QED BY <1>5, <1>7

\* Adding to a window and keeping it.
LEMMA LastingAdded ==
    ASSUME Working, Lasting, NEW p \in Processes, AddHeat(p)
    PROVE  Lasting'
<1>1. CASE UNCHANGED <<windows, expires, total>>
  <2>1. minute' = minute
    BY DEF AddHeat
  <2> QED BY <1>1, <2>1, LastingStill
<1>2. CASE ~UNCHANGED <<windows, expires, total>>
  <2>1. PICK m, v, d : m = job[p].key /\ v = events[job[p].e][1] /\ d = events[job[p].e][2]
    OBVIOUS
  <2>2. /\ windows' = [windows EXCEPT ![m] = ZIncrBy(Window(m), v, d)]
        /\ expires' = [expires EXCEPT ![m] = IF Alive(m) THEN @ ELSE Never]
        /\ total' = [total EXCEPT ![m] = ZIncrBy(@, v, d)]
        /\ minute' = minute
    BY <1>2, <2>1 DEF AddHeat
  <2>3. m \in Times /\ m <= minute /\ v \in Ranked /\ d \in Int /\ m \in Nat /\ minute \in Nat
    <3>1. job[p] # Idle
      BY DEF AddHeat, Idle
    <3>2. m \in Times /\ m <= minute /\ job[p].e \in DOMAIN events
      BY <2>1, <3>1, AtWork
    <3>3. events[job[p].e] \in Ranked \X Changes
      BY <3>2 DEF Working
    <3> QED BY SMTT(30), <2>1, <3>2, <3>3, Minutes DEF Working, Times
  <2>4. Board(Window(m)) /\ DOMAIN Window(m) \subseteq DOMAIN windows[m]
    BY <2>3, EmptyBoard DEF Window, Lasting, Empty
  <2>5. /\ Board(ZIncrBy(Window(m), v, d)) /\ Board(ZIncrBy(total[m], v, d))
        /\ DOMAIN ZIncrBy(Window(m), v, d) \subseteq DOMAIN ZIncrBy(total[m], v, d)
    <3>1. Board(total[m]) /\ DOMAIN windows[m] \subseteq DOMAIN total[m]
      BY <2>3 DEF Lasting
    <3>2. Board(ZIncrBy(Window(m), v, d)) /\ DOMAIN ZIncrBy(Window(m), v, d) = DOMAIN Window(m) \cup {v}
      BY <2>3, <2>4, Added
    <3>3. Board(ZIncrBy(total[m], v, d)) /\ DOMAIN ZIncrBy(total[m], v, d) = DOMAIN total[m] \cup {v}
      BY <2>3, <3>1, Added
    <3> QED BY <2>4, <3>1, <3>2, <3>3
  <2>6. /\ windows'[m] = ZIncrBy(Window(m), v, d) /\ total'[m] = ZIncrBy(total[m], v, d)
        /\ expires'[m] = IF Alive(m) THEN expires[m] ELSE Never
        /\ \A k \in Times : k # m => windows'[k] = windows[k] /\ total'[k] = total[k] /\ expires'[k] = expires[k]
        /\ windows' = [k \in Times |-> windows'[k]] /\ total' = [k \in Times |-> total'[k]]
        /\ expires' \in [Times -> Nat]
    <3>1. Never \in Nat
      BY Minutes DEF Never
    <3> QED BY <2>2, <2>3, <3>1 DEF Lasting
  <2>7. expires'[m] >= m + WindowTTL /\ (minute < m + WindowTTL => windows'[m] = total'[m])
    <3>1. \/ expires[m] = 0 /\ windows[m] = Empty /\ total[m] = Empty
          \/ expires[m] >= m + WindowTTL /\ (minute < m + WindowTTL => windows[m] = total[m])
      BY <2>3 DEF Lasting
    <3>2. Never >= m + WindowTTL /\ WindowTTL \in Nat \ {0} /\ expires[m] \in Nat
      BY <2>3, Minutes DEF Never, Times, Lasting
    <3>3. CASE Alive(m)
      <4>1. Window(m) = windows[m] /\ expires'[m] = expires[m] /\ expires[m] > minute
        BY <2>6, <3>3 DEF Window, Alive
      <4>2. expires[m] # 0
        BY <2>3, <4>1
      <4> QED BY <2>6, <3>1, <4>1, <4>2
    <3>4. CASE ~Alive(m)
      <4>1. Window(m) = Empty /\ expires'[m] = Never /\ ~(expires[m] > minute)
        BY <2>6, <3>4 DEF Window, Alive
      <4>2. ASSUME minute < m + WindowTTL PROVE total[m] = Empty
        BY <2>3, <3>1, <3>2, <4>1, <4>2
      <4> QED BY <2>6, <3>2, <4>1, <4>2
    <3> QED BY <3>3, <3>4
  <2> QED BY <2>2, <2>5, <2>6, <2>7 DEF Lasting
<1> QED BY <1>1, <1>2

LEMMA LastingKept ==
    ASSUME Working, Lasting, NEW p \in Processes, KeepWindow(p)
    PROVE  Lasting'
<1>1. PICK m : m = job[p].key
  OBVIOUS
<1>2. m \in Times /\ m <= minute /\ m \in Nat /\ minute \in Nat /\ WindowTTL \in Nat
  <2>1. job[p] # Idle
    BY DEF KeepWindow, Idle
  <2> QED BY <1>1, <2>1, AtWork, Minutes DEF Working, Times
<1>3. UNCHANGED <<minute, windows, total>>
  BY DEF KeepWindow
<1>4. \/ expires' = expires
      \/ expires' = [expires EXCEPT ![m] = IF Alive(m) THEN minute + WindowTTL ELSE @]
  BY <1>1 DEF KeepWindow
<1>5. expires' \in [Times -> Nat]
  BY <1>2, <1>4 DEF Lasting
<1>6. \A k \in Times : expires'[k] = expires[k] \/ (k = m /\ expires[m] > minute /\ expires'[m] = minute + WindowTTL)
  BY <1>2, <1>4 DEF Lasting, Alive
<1>7. ASSUME NEW k \in Times
      PROVE  \/ expires'[k] = 0 /\ windows[k] = Empty /\ total[k] = Empty
             \/ expires'[k] >= k + WindowTTL /\ (minute < k + WindowTTL => windows[k] = total[k])
  <2>1. CASE expires'[k] = expires[k]
    BY <2>1 DEF Lasting
  <2>2. CASE k = m /\ expires[m] > minute /\ expires'[m] = minute + WindowTTL
    <3>1. expires[m] # 0 /\ expires'[m] >= m + WindowTTL
      BY <1>2, <2>2
    <3> QED BY <2>2, <3>1 DEF Lasting
  <2> QED BY <1>6, <2>1, <2>2
<1> QED BY <1>3, <1>5, <1>7 DEF Lasting

-----------------------------------------------------------------------------
(* Reading: what a page shows next is what the ranking has next.             *)

LEMMA SnapshotBoard ==
    ASSUME NEW s, Snapshot(s)
    PROVE  Board(s.scores) /\ Leading(s.scores, 0) = {}
<1>1. PICK z : z = s.scores
  OBVIOUS
<1>2. Board(z)
  BY <1>1, EmptyBoard DEF Snapshot, NoRank
<1>3. \A v \in DOMAIN z : ~(Rank(z, v) < 0)
  BY <1>2, RankNumbers
<1> QED BY <1>1, <1>2, <1>3 DEF Leading

LEMMA Ranks ==
    ASSUME ReadShape, NEW m \in Times
    PROVE  Board(snapshots[m].scores) /\ Leading(snapshots[m].scores, 0) = {}
BY SnapshotBoard DEF ReadShape

\* One client's step, and the snapshots stay.
LEMMA ViewSet ==
    ASSUME ReadShape, RankingComplete, \A d \in Clients : Paged(d), NEW c \in Clients, NEW r \in Views,
           view' = [view EXCEPT ![c] = r], snapshots' = snapshots, Page(r, Shows(r))
    PROVE  ReadShape' /\ RankingComplete' /\ \A d \in Clients : Paged(d)'
<1>1. view' \in [Clients -> Views] /\ view'[c] = r /\ \A d \in Clients : d # c => view'[d] = view[d]
  BY DEF ReadShape
<1>2. ReadShape'
  BY <1>1 DEF ReadShape
<1>3. RankingComplete'
  BY DEF RankingComplete
<1>4. ASSUME NEW d \in Clients PROVE Page(view'[d], snapshots'[view'[d].asOf].scores)
  <2>1. CASE d = c
    BY <1>1, <2>1 DEF Shows
  <2>2. CASE d # c
    BY <1>1, <2>2 DEF Paged, Shows
  <2> QED BY <2>1, <2>2
<1>5. \A d \in Clients : Paged(d)'
  BY <1>4 DEF Paged, Page, Shows
<1> QED BY <1>2, <1>3, <1>5

LEMMA AskPageKeeps ==
    ASSUME Working, ReadShape, RankingComplete, \A d \in Clients : Paged(d), NEW c \in Clients, AskPage(c)
    PROVE  ReadShape' /\ RankingComplete' /\ \A d \in Clients : Paged(d)'
<1>1. PICK m : m = IF view[c].pc = "new" THEN minute ELSE view[c].asOf
  OBVIOUS
<1>2. view[c] \in Views /\ m \in Times
  BY <1>1 DEF ReadShape, Views, Working
<1>3. PICK x \in {"range", "union"} : view' = [view EXCEPT ![c].asOf = m, ![c].pc = x]
  BY <1>1 DEF AskPage
<1>4. snapshots' = snapshots /\ view[c].pc \in {"new", "ask"}
  BY DEF AskPage
<1>5. PICK r : r = [view[c] EXCEPT !.asOf = m, !.pc = x]
  OBVIOUS
<1>6. /\ r \in Views /\ r.pc = x /\ r.asOf = m /\ r.seen = view[c].seen /\ r.offset = view[c].offset
      /\ r.pages = view[c].pages /\ r.intact = view[c].intact /\ r.again = view[c].again
  BY <1>2, <1>5 DEF Views
<1>7. view' = [view EXCEPT ![c] = r]
  BY <1>2, <1>3, <1>5 DEF ReadShape
<1>8. Page(view[c], Shows(view[c]))
  BY DEF Paged
<1>9. Page(r, Shows(r))
  <2>1. CASE view[c].pc = "new"
    <3>1. view[c].intact => view[c].pages = 0
      BY <1>8, <2>1 DEF Page
    <3>2. Leading(Shows(r), 0) = {}
      BY <1>2, <1>6, Ranks DEF Shows
    <3> QED BY <1>6, <1>8, <3>1, <3>2 DEF Page
  <2>2. CASE view[c].pc = "ask"
    <3>1. Shows(r) = Shows(view[c])
      BY <1>1, <1>6, <2>2 DEF Shows
    <3> QED BY <1>6, <1>8, <2>2, <3>1 DEF Page
  <2> QED BY <1>4, <2>1, <2>2
<1> QED BY <1>4, <1>6, <1>7, <1>9, ViewSet

\* A page is read.
LEMMA ReadRangeKeeps ==
    ASSUME ReadShape, RankingComplete, \A d \in Clients : Paged(d), NEW c \in Clients, ReadRange(c)
    PROVE  ReadShape' /\ RankingComplete' /\ \A d \in Clients : Paged(d)'
<1>1. PICK v : v = view[c]
  OBVIOUS
<1>2. PICK z : z = Shows(v)
  OBVIOUS
<1>3. PICK K : K = {w \in DOMAIN z : Rank(z, w) \in v.offset .. v.offset + PageSize - 1}
  OBVIOUS
<1>4. /\ snapshots' = snapshots /\ v.pc = "range"
      /\ \/ K # {} /\ view' = [view EXCEPT ![c] = Shown(v, K)]
         \/ K = {} /\ v.offset > 0 /\ view' = [view EXCEPT ![c] = [v EXCEPT !.pc = "end"]]
         \/ view' = [view EXCEPT ![c] = [NewView EXCEPT !.pages = v.pages + 1, !.intact = FALSE]]
  <2>1. v \in Views /\ view[c] = v /\ z = snapshots[view[c].asOf].scores
    BY <1>1, <1>2 DEF ReadShape, Shows
  <2> QED BY <1>1, <1>3, <2>1 DEF ReadRange
<1>5. v \in Views /\ Board(z) /\ Page(v, z) /\ v.offset \in Nat /\ PageSize \in Nat \ {0}
  <2>1. v \in Views
    BY <1>1 DEF ReadShape
  <2>2. v.asOf \in Times /\ v.offset \in Nat
    BY <2>1 DEF Views
  <2> QED BY <1>1, <1>2, <2>1, <2>2, Ranks, Minutes DEF Shows, Paged
<1>6. /\ Cardinality(K) \in Nat
      /\ Leading(z, v.offset) \cup K = Leading(z, v.offset + PageSize) /\ Leading(z, v.offset) \cap K = {}
      /\ Cardinality(K) # PageSize => Leading(z, v.offset + PageSize) = DOMAIN z
      /\ K = {} => Leading(z, v.offset) = DOMAIN z
  <2>1. PICK n \in Nat : n = v.offset
    BY <1>5
  <2>2. PICK s \in Nat \ {0} : s = PageSize
    BY <1>5
  <2>3. K = PageAt(z, n, s)
    BY <1>3, <2>1, <2>2 DEF PageAt
  <2>4. /\ IsFiniteSet(K) /\ Cardinality(K) \in Nat
        /\ Leading(z, n) \cup K = Leading(z, n + s) /\ Leading(z, n) \cap K = {}
        /\ Cardinality(K) # s => Leading(z, n + s) = DOMAIN z
        /\ K = {} => Leading(z, n) = DOMAIN z
    BY <1>5, <2>3, NextPage
  <2> QED BY <2>1, <2>2, <2>4
<1>7. K \subseteq Ranked
  BY <1>3, <1>5 DEF Board
<1>8. CASE view' = [view EXCEPT ![c] = Shown(v, K)]
  <2>1. PICK r : r = Shown(v, K)
    OBVIOUS
  <2>2. /\ r.seen = (IF v.intact THEN v.seen \cup K ELSE {}) /\ r.again = (v.again \/ v.seen \cap K # {})
        /\ r.offset = v.offset + Cardinality(K) /\ r.pages = v.pages + 1 /\ r.asOf = v.asOf
        /\ r.pc = (IF Cardinality(K) = PageSize THEN "ask" ELSE "end") /\ r.intact = v.intact
        /\ r = [pc |-> r.pc, asOf |-> r.asOf, offset |-> r.offset, seen |-> r.seen, pages |-> r.pages,
                intact |-> r.intact, again |-> r.again]
    BY <1>5, <2>1 DEF Shown, Views
  <2>3. v.pages \in Nat /\ v.again \in BOOLEAN /\ v.intact \in BOOLEAN /\ v.seen \subseteq Ranked /\ v.asOf \in Times
    BY <1>5 DEF Views
  <2>4. r.offset \in Nat /\ r.pages \in Nat /\ r.pages # 0 /\ r.seen \subseteq Ranked /\ r.again \in BOOLEAN
    BY <1>5, <1>6, <1>7, <2>2, <2>3
  <2>5. r.pc \in {"ask", "end"}
    BY <2>2
  <2>6. r \in Views
    BY <2>2, <2>3, <2>4, <2>5 DEF Views
  <2>7. Shows(r) = z
    BY <1>2, <2>2 DEF Shows
  <2>8. ASSUME r.intact
        PROVE  /\ r.pc # "new" /\ ~r.again
               /\ r.seen = IF r.pc = "end" THEN DOMAIN z ELSE Leading(z, r.offset)
    <3>1. v.seen = Leading(z, v.offset) /\ ~v.again /\ v.intact
      BY <1>4, <1>5, <2>2, <2>8 DEF Page
    <3>2. r.seen = Leading(z, v.offset + PageSize) /\ ~r.again
      BY <1>6, <2>2, <3>1
    <3>3. CASE Cardinality(K) = PageSize
      BY <2>2, <3>2, <3>3
    <3>4. CASE Cardinality(K) # PageSize
      BY <1>6, <2>2, <3>2, <3>4
    <3> QED BY <3>3, <3>4
  <2>9. Page(r, Shows(r))
    BY <2>4, <2>7, <2>8 DEF Page
  <2> QED BY <1>4, <1>8, <2>1, <2>6, <2>9, ViewSet
<1>9. CASE K = {} /\ v.offset > 0 /\ view' = [view EXCEPT ![c] = [v EXCEPT !.pc = "end"]]
  <2>1. PICK r : r = [v EXCEPT !.pc = "end"]
    OBVIOUS
  <2>2. /\ r \in Views /\ r.seen = v.seen /\ r.again = v.again /\ r.offset = v.offset /\ r.pages = v.pages
        /\ r.pc = "end" /\ r.intact = v.intact /\ r.asOf = v.asOf
    BY <1>5, <2>1 DEF Views
  <2>3. r.pages # 0
    <3>1. v.offset # 0
      BY <1>5, <1>9
    <3> QED BY <1>5, <2>2, <3>1 DEF Page
  <2>4. Page(r, Shows(r))
    BY <1>2, <1>4, <1>5, <1>6, <1>9, <2>2, <2>3 DEF Page, Shows
  <2> QED BY <1>4, <1>9, <2>1, <2>2, <2>4, ViewSet
<1>10. CASE view' = [view EXCEPT ![c] = [NewView EXCEPT !.pages = v.pages + 1, !.intact = FALSE]]
  <2>1. PICK n : n = v.pages + 1
    OBVIOUS
  <2>2. n \in Nat /\ n # 0
    BY <1>5, <2>1 DEF Views
  <2>3. PICK r : r = [NewView EXCEPT !.pages = n, !.intact = FALSE]
    OBVIOUS
  <2>4. r = [pc |-> "new", asOf |-> 0, offset |-> 0, seen |-> {}, pages |-> n, intact |-> FALSE, again |-> FALSE]
    BY <2>3 DEF NewView
  <2>5. r \in Views
    BY <2>2, <2>4, Minutes DEF Views, Times
  <2>6. Page(r, Shows(r))
    BY <2>2, <2>4 DEF Page
  <2> QED BY <1>4, <1>10, <2>1, <2>3, <2>5, <2>6, ViewSet
<1> QED BY <1>4, <1>8, <1>9, <1>10

\* Disturb for one client's view, and a view at another place.
Disturbed(v, S) == IF v.asOf \in S /\ v.pages > 0
                   THEN [v EXCEPT !.intact = FALSE, !.seen = {}, !.again = FALSE] ELSE v

Paced(u, x) == [u EXCEPT !.pc = x]

\* A ranking that is made again, or vanishes, is no longer the one whose pages
\* a client has read.
LEMMA DisturbPages ==
    ASSUME NEW v \in Views, NEW S,
           NEW x, x = v.pc \/ (v.pc = "union" /\ x = "range"),
           NEW r, r = Paced(Disturbed(v, S), x),
           NEW y, Page(v, y), NEW z, v.asOf \notin S => z = y, Leading(z, 0) = {}
    PROVE  r \in Views /\ r.asOf = v.asOf /\ Page(r, z)
<1>1. v \in Views
  OBVIOUS
<1>0. PICK u : u = Disturbed(v, S) /\ r = [u EXCEPT !.pc = x]
  BY DEF Paced
<1>2. CASE v.asOf \in S /\ v.pages > 0
  <2>1. u = [v EXCEPT !.intact = FALSE, !.seen = {}, !.again = FALSE]
    BY <1>0, <1>2 DEF Disturbed
  <2>2. r = [v EXCEPT !.intact = FALSE, !.seen = {}, !.again = FALSE, !.pc = x]
    BY <1>0, <1>1, <2>1 DEF Views
  <2>3. /\ r.pages = v.pages /\ r.seen = {} /\ r.offset = v.offset /\ r.pc = x
        /\ r.intact = FALSE /\ r.asOf = v.asOf /\ r.again = FALSE
        /\ r = [pc |-> r.pc, asOf |-> r.asOf, offset |-> r.offset, seen |-> r.seen, pages |-> r.pages,
                intact |-> r.intact, again |-> r.again]
    BY <1>1, <2>2 DEF Views
  <2>4. x \in {"new", "ask", "union", "range", "end"} /\ (x = "end" => v.pc = "end")
    BY <1>1 DEF Views
  <2>5. r \in Views
    BY <1>1, <2>3, <2>4 DEF Views
  <2> QED BY <2>3, <2>4, <2>5 DEF Page
<1>3. CASE ~ (v.asOf \in S /\ v.pages > 0)
  <2>1. u = v
    BY <1>0, <1>3 DEF Disturbed
  <2>2. /\ r.pages = v.pages /\ r.seen = v.seen /\ r.offset = v.offset /\ r.pc = x
        /\ r.intact = v.intact /\ r.asOf = v.asOf /\ r.again = v.again
        /\ r = [pc |-> r.pc, asOf |-> r.asOf, offset |-> r.offset, seen |-> r.seen, pages |-> r.pages,
                intact |-> r.intact, again |-> r.again]
    BY <1>0, <1>1, <2>1 DEF Views
  <2>3. x \in {"new", "ask", "union", "range", "end"} /\ (x = "end" <=> v.pc = "end") /\ (x = "new" => v.pc = "new")
    BY <1>1 DEF Views
  <2>4. r \in Views
    BY <1>1, <2>2, <2>3 DEF Views
  <2>5. v.asOf \in S => v.pages = 0
    <3>1. v.asOf \in S => ~(v.pages > 0)
      BY <1>3
    <3>2. v.pages \in Nat
      BY <1>1 DEF Views
    <3> QED BY <3>1, <3>2
  <2>6. Page(r, z)
    <3>1. CASE v.asOf \notin S
      BY <2>2, <2>3, <3>1 DEF Page
    <3>2. CASE v.asOf \in S
      BY <2>2, <2>3, <2>5, <3>2 DEF Page
    <3> QED BY <3>1, <3>2
  <2> QED BY <2>2, <2>4, <2>6
<1> QED BY <1>2, <1>3

\* A window that the ranking of a minute that recent sums has all its changes.
LEMMA Summed ==
    ASSUME Lasting, minute \in Times, NEW m \in Times, m >= minute - (WindowTTL - Span)
    PROVE  Union(m, Windows) = Union(m, total)
<1>1. ASSUME NEW w \in Over(m) PROVE Windows[w] = total[w]
  <2>1. w \in Times /\ m - Span < w /\ w \in Nat /\ m \in Nat /\ minute \in Nat
        /\ Span \in Nat /\ WindowTTL \in Nat
    BY Minutes DEF Over, Times
  <2>2. minute < w + WindowTTL
    BY <2>1
  <2>3. \/ expires[w] = 0 /\ windows[w] = Empty /\ total[w] = Empty
        \/ expires[w] >= w + WindowTTL /\ windows[w] = total[w]
    BY <2>1, <2>2 DEF Lasting
  <2>4. expires[w] \in Nat
    BY <2>1 DEF Lasting
  <2>5. Windows[w] = IF expires[w] > minute THEN windows[w] ELSE Empty
    BY <2>1 DEF Windows, Window, Alive
  <2>6. expires[w] >= w + WindowTTL => expires[w] > minute
    BY <2>1, <2>2, <2>4
  <2> QED BY <2>3, <2>5, <2>6
<1>2. PICK y : y = Windows
  OBVIOUS
<1>3. PICK t : t = total
  OBVIOUS
<1>4. Union(m, y) = Union(m, t)
  BY <1>1, <1>2, <1>3, UnionSame
<1> QED BY <1>2, <1>3, <1>4

LEMMA RankingSnapshot ==
    ASSUME Working, Lasting, NEW m \in Times, NEW l \in 1 .. MaxMinute + SnapshotTTL + 1
    PROVE  Snapshot(Ranking(m, l))
<1>1. PICK y : y = Windows
  OBVIOUS
<1>2. \A w \in Times : Board(y[w])
  BY <1>1, EmptyBoard DEF Windows, Window, Lasting
<1>3. Board(Union(m, y))
  BY <1>2, UnionBoard
<1>4. minute \in Times
  BY DEF Working
<1>5. PICK k, z, t : k = minute /\ z = Union(m, Windows) /\ t = Union(m, total)
  OBVIOUS
<1>6. Ranking(m, l) = [there |-> TRUE, left |-> l, made |-> k, scores |-> z, truth |-> t]
  BY <1>5 DEF Ranking
<1>7. Board(z)
  BY <1>1, <1>3, <1>5
<1>8. k \in Times
  BY <1>4, <1>5
<1> QED BY <1>6, <1>7, <1>8 DEF Snapshot

LEMMA MakeSnapshotKeeps ==
    ASSUME Working, Lasting, ReadShape, RankingComplete, \A d \in Clients : Paged(d),
           NEW c \in Clients, MakeSnapshot(c)
    PROVE  ReadShape' /\ RankingComplete' /\ \A d \in Clients : Paged(d)'
<1>1. PICK m \in Times : m = view[c].asOf
  BY DEF ReadShape, Views
<1>2. view[c].pc = "union" /\ minute' = minute
  BY DEF MakeSnapshot
<1>3. CASE UNCHANGED snapshots /\ view' = [view EXCEPT ![c].pc = "range"]
  <2>1. PICK r : r = [view[c] EXCEPT !.pc = "range"]
    OBVIOUS
  <2>2. /\ r \in Views /\ r.pc = "range" /\ r.asOf = view[c].asOf /\ r.seen = view[c].seen
        /\ r.offset = view[c].offset /\ r.pages = view[c].pages /\ r.intact = view[c].intact
        /\ r.again = view[c].again
    BY <2>1 DEF ReadShape, Views
  <2>3. Page(r, Shows(r))
    BY <1>2, <2>2 DEF Paged, Page, Shows
  <2>4. view' = [view EXCEPT ![c] = r] /\ snapshots' = snapshots
    BY <1>3, <2>1
  <2> QED BY <2>2, <2>3, <2>4, ViewSet
<1>4. CASE ~(UNCHANGED snapshots /\ view' = [view EXCEPT ![c].pc = "range"])
  <2>1. PICK l \in {SnapshotTTL, MaxMinute + 1} :
            /\ snapshots' = [snapshots EXCEPT ![m] = IF Union(m, Windows) = Empty THEN NoRank ELSE Ranking(m, l)]
            /\ view' = [Disturb({m}) EXCEPT ![c].pc = "range"]
    BY <1>1, <1>4 DEF MakeSnapshot
  <2>2. l \in 1 .. MaxMinute + SnapshotTTL + 1
    BY Minutes
  <2>3. PICK s : s = IF Union(m, Windows) = Empty THEN NoRank ELSE Ranking(m, l)
    OBVIOUS
  <2>4. Snapshot(s)
    <3>1. Snapshot(Ranking(m, l)) /\ Snapshot(NoRank)
      BY <2>2, RankingSnapshot DEF Snapshot
    <3> QED BY <2>3, <3>1
  <2>5. /\ snapshots' = [k \in Times |-> snapshots'[k]] /\ snapshots'[m] = s
        /\ \A k \in Times : k # m => snapshots'[k] = snapshots[k]
    BY <2>1, <2>3 DEF ReadShape
  <2>6. \A k \in Times : Snapshot(snapshots'[k])
    BY <2>4, <2>5 DEF ReadShape
  <2>7. ASSUME NEW k \in Times, snapshots'[k].there, k >= snapshots'[k].made - (WindowTTL - Span)
        PROVE  snapshots'[k].scores = snapshots'[k].truth
    <3>1. CASE k # m
      BY <2>5, <2>7, <3>1 DEF RankingComplete
    <3>2. CASE k = m
      <4>1. s.there
        BY <2>5, <2>7, <3>2
      <4>2. s = Ranking(m, l)
        BY <2>3, <4>1 DEF NoRank
      <4>3. s.made = minute /\ s.scores = Union(m, Windows) /\ s.truth = Union(m, total)
        BY <4>2 DEF Ranking
      <4>4. Union(m, Windows) = Union(m, total)
        BY <2>5, <2>7, <3>2, <4>3, Summed DEF Working
      <4> QED BY <2>5, <3>2, <4>3, <4>4
    <3> QED BY <3>1, <3>2
  <2>8. ASSUME NEW d \in Clients
        PROVE  view'[d] \in Views /\ Page(view'[d], snapshots'[view'[d].asOf].scores)
    <3>1. PICK x : x = IF d = c THEN "range" ELSE view[d].pc
      OBVIOUS
    <3>2. PICK r : r = [Disturb({m})[d] EXCEPT !.pc = x]
      OBVIOUS
    <3>3. PICK v : v = view[d]
      OBVIOUS
    <3>4. v \in Views /\ v.asOf \in Times /\ Page(v, Shows(v))
      BY <3>3 DEF ReadShape, Views, Paged
    <3>5. view'[d] = r
      <4>1. view'[d] = [Disturb({m})[d] EXCEPT !.pc = x] \/ (d # c /\ view'[d] = Disturb({m})[d])
        BY <2>1, <3>1 DEF Disturb
      <4>2. d # c => Disturb({m})[d].pc = x /\ Disturb({m})[d] \in Views
        <5>1. Disturb({m})[d] = [v EXCEPT !.intact = FALSE, !.seen = {}, !.again = FALSE] \/ Disturb({m})[d] = v
          BY <3>3 DEF Disturb
        <5> QED BY <3>1, <3>3, <3>4, <5>1 DEF Views
      <4>3. d # c => r = Disturb({m})[d]
        BY <3>2, <4>2 DEF Views
      <4> QED BY <3>2, <4>1, <4>3
    <3>6. PICK z : z = snapshots'[v.asOf].scores
      OBVIOUS
    <3>7. PICK t : t = snapshots'[v.asOf]
      OBVIOUS
    <3>8. Leading(z, 0) = {}
      <4>1. Snapshot(t)
        BY <2>6, <3>4, <3>7
      <4> QED BY <3>6, <3>7, <4>1, SnapshotBoard
    <3>9. v.asOf \notin {m} => z = Shows(v)
      BY <2>5, <3>4, <3>6 DEF Shows
    <3>10. x = v.pc \/ (v.pc = "union" /\ x = "range")
      BY <1>2, <3>1, <3>3
    <3>11. r \in Views /\ r.asOf = v.asOf /\ Page(r, z)
      <4>1. PICK S : S = {m}
        OBVIOUS
      <4>2. Disturbed(v, S) = Disturb({m})[d]
        BY <3>3, <4>1 DEF Disturbed, Disturb, HasRead
      <4>3. r = Paced(Disturbed(v, S), x)
        BY <3>2, <4>2 DEF Paced
      <4>4. PICK y : y = Shows(v)
        OBVIOUS
      <4>5. v.asOf \notin S => z = y
        BY <3>9, <4>1, <4>4
      <4>6. v \in Views /\ Page(v, y)
        BY <3>4, <4>4
      <4> QED BY <3>8, <3>10, <4>3, <4>5, <4>6, DisturbPages
    <3> QED BY <3>5, <3>6, <3>11
  <2>9. ReadShape'
    <3>1. view' = [d \in Clients |-> view'[d]]
      BY <2>1 DEF Disturb
    <3> QED BY <2>5, <2>6, <2>8, <3>1 DEF ReadShape, Snapshot
  <2>10. RankingComplete'
    BY <2>7 DEF RankingComplete
  <2>11. \A d \in Clients : Paged(d)'
    BY <2>8 DEF Paged, Page, Shows
  <2> QED BY <2>9, <2>10, <2>11
<1> QED BY <1>3, <1>4

\* A minute passes.
LEMMA NextMinuteKeeps ==
    ASSUME RankInv, NextMinute
    PROVE  RankInv'
<1>1. Working /\ Counts /\ Lasting /\ ReadShape /\ RankingComplete /\ \A d \in Clients : Paged(d)
  BY DEF RankInv
<1>2. /\ minute < MaxMinute /\ minute' = minute + 1 /\ view' = Disturb(Vanishing)
      /\ snapshots' = [m \in Times |-> IF snapshots[m].left <= 1 THEN NoRank
                                       ELSE [snapshots[m] EXCEPT !.left = @ - 1]]
      /\ UNCHANGED heatVars
  BY DEF NextMinute
<1>3. minute \in Nat /\ minute' \in Times /\ \A m \in Times : m \in Nat /\ (m <= minute => m <= minute')
  <2>1. MaxMinute \in Nat /\ minute \in 0 .. MaxMinute /\ minute' = minute + 1 /\ minute < MaxMinute
    BY <1>1, <1>2, Minutes DEF Working, Times
  <2>2. minute \in Nat /\ minute' \in 0 .. MaxMinute
    BY <2>1
  <2>3. \A m \in 0 .. MaxMinute : m \in Nat /\ (m <= minute => m <= minute')
    BY <2>1
  <2> QED BY <2>2, <2>3 DEF Times
<1>4. UNCHANGED <<windows, expires, events, ready, job, total, counted, given, spoilt>>
  BY <1>2 DEF heatVars
<1>5. Working'
  <2>1. \A p \in Processes : job[p].key \in Times
    BY <1>1 DEF Working
  <2> QED BY <1>1, <1>3, <1>4, <2>1 DEF Working
<1>6. Counts'
  BY <1>1, <1>4 DEF Counts
<1>7. Lasting'
  <2>1. \A m \in Times : minute' < m + WindowTTL => minute < m + WindowTTL
    BY <1>2, <1>3, Minutes
  <2> QED BY <1>1, <1>4, <2>1 DEF Lasting
<1>8. ASSUME NEW m \in Times
      PROVE  /\ Snapshot(snapshots'[m])
             /\ snapshots'[m].there => /\ snapshots[m].there /\ snapshots'[m].made = snapshots[m].made
                                       /\ snapshots'[m].scores = snapshots[m].scores
                                       /\ snapshots'[m].truth = snapshots[m].truth
             /\ m \notin Vanishing => snapshots'[m].scores = snapshots[m].scores
  <2>1. PICK s : s = snapshots[m]
    OBVIOUS
  <2>2. PICK t : t = IF s.left <= 1 THEN NoRank ELSE [s EXCEPT !.left = @ - 1]
    OBVIOUS
  <2>3. Snapshot(s) /\ snapshots'[m] = t
    BY <1>1, <1>2, <2>1, <2>2 DEF ReadShape
  <2>4. m \notin Vanishing <=> s.left # 1
    BY <2>1 DEF Vanishing
  <2>5. CASE s = NoRank
    <3>1. t = NoRank
      BY <2>2, <2>5 DEF NoRank
    <3> QED BY <2>1, <2>3, <2>5, <3>1 DEF Snapshot
  <2>6. CASE s # NoRank
    <3>1. PICK l \in 1 .. MaxMinute + SnapshotTTL + 1, k \in Times : \E z, y :
              s = [there |-> TRUE, left |-> l, made |-> k, scores |-> z, truth |-> y] /\ Board(z)
      BY <2>3, <2>6 DEF Snapshot
    <3>0. PICK z, y : s = [there |-> TRUE, left |-> l, made |-> k, scores |-> z, truth |-> y] /\ Board(z)
      BY <3>1
    <3>2. CASE l = 1
      <4>1. t = NoRank /\ m \in Vanishing
        BY <2>2, <2>4, <3>0, <3>2
      <4>2. ~NoRank.there
        BY DEF NoRank
      <4> QED BY <2>3, <4>1, <4>2 DEF Snapshot
    <3>3. CASE l # 1
      <4>1. ~(l <= 1) /\ l - 1 \in 1 .. MaxMinute + SnapshotTTL + 1
        BY <3>3, Minutes
      <4>2. PICK n \in 1 .. MaxMinute + SnapshotTTL + 1 : n = l - 1
        BY <4>1
      <4>3. t = [there |-> TRUE, left |-> n, made |-> k, scores |-> z, truth |-> y]
        BY <2>2, <3>0, <4>1, <4>2
      <4>4. Snapshot(t)
        BY <3>0, <4>3 DEF Snapshot
      <4> QED BY <2>1, <2>3, <3>0, <4>3, <4>4
    <3> QED BY <3>2, <3>3
  <2> QED BY <2>5, <2>6
<1>9. ASSUME NEW d \in Clients
      PROVE  view'[d] \in Views /\ Page(view'[d], snapshots'[view'[d].asOf].scores)
  <2>1. PICK v : v = view[d]
    OBVIOUS
  <2>2. v \in Views /\ v.asOf \in Times /\ Page(v, Shows(v))
    BY <1>1, <2>1 DEF ReadShape, Views, Paged
  <2>3. PICK S, x, y, z : S = Vanishing /\ x = v.pc /\ y = Shows(v) /\ z = snapshots'[v.asOf].scores
    OBVIOUS
  <2>4. PICK r : r = Paced(Disturbed(v, S), x)
    OBVIOUS
  <2>5. view'[d] = r
    <3>1. view'[d] = Disturbed(v, S)
      BY <1>2, <2>1, <2>3 DEF Disturb, Disturbed, HasRead
    <3>2. Disturbed(v, S) = [v EXCEPT !.intact = FALSE, !.seen = {}, !.again = FALSE] \/ Disturbed(v, S) = v
      BY DEF Disturbed
    <3>3. r = Disturbed(v, S)
      BY <2>2, <2>3, <2>4, <3>2 DEF Paced, Views
    <3> QED BY <3>1, <3>3
  <2>6. v.asOf \notin S => z = y
    BY <1>8, <2>2, <2>3 DEF Shows
  <2>7. Leading(z, 0) = {}
    <3>1. PICK t : t = snapshots'[v.asOf]
      OBVIOUS
    <3>2. Snapshot(t)
      BY <1>8, <2>2, <3>1
    <3> QED BY <2>3, <3>1, <3>2, SnapshotBoard
  <2>8. x = v.pc \/ (v.pc = "union" /\ x = "range")
    BY <2>3
  <2>9. Page(v, y)
    BY <2>2, <2>3
  <2>10. r \in Views /\ r.asOf = v.asOf /\ Page(r, z)
    BY <2>2, <2>4, <2>6, <2>7, <2>8, <2>9, DisturbPages
  <2> QED BY <2>3, <2>5, <2>10
<1>10. ReadShape'
  <2>1. view' = [d \in Clients |-> view'[d]]
    BY <1>2 DEF Disturb
  <2>2. snapshots' = [m \in Times |-> snapshots'[m]]
    BY <1>2
  <2> QED BY <1>8, <1>9, <2>1, <2>2 DEF ReadShape, Snapshot
<1>11. RankingComplete'
  BY <1>1, <1>8 DEF RankingComplete
<1>12. \A d \in Clients : Paged(d)'
  BY <1>9 DEF Paged, Page, Shows
<1> QED BY <1>5, <1>6, <1>7, <1>10, <1>11, <1>12 DEF RankInv

-----------------------------------------------------------------------------
(* The ranking's invariant, and what follows from it.                        *)

LEMMA RankStarts ==
    ASSUME RankInit
    PROVE  RankInv
<1> USE DEF RankInit
<1>1. 0 \in Times /\ 0 \in 0 .. MaxHeat
  BY Minutes DEF Times
<1>2. Working
  <2>1. events \in [1 .. 0 -> Ranked \X Changes] /\ DOMAIN events = {}
    BY DEF Ids
  <2> QED BY <1>1, <2>1 DEF Working, Idle, Processes
<1>3. Counts
  <2>1. DOMAIN events = {}
    OBVIOUS
  <2> QED BY <2>1 DEF Counts
<1>4. Lasting
  BY EmptyBoard DEF Lasting
<1>5. ReadShape
  BY <1>1 DEF ReadShape, Snapshot, NewView, Views
<1>6. RankingComplete
  BY DEF RankingComplete, NoRank
<1>7. ASSUME NEW c \in Clients PROVE Paged(c)
  <2>1. view[c] = NewView
    OBVIOUS
  <2>2. Leading(Shows(view[c]), 0) = {}
    <3>1. snapshots[view[c].asOf] = NoRank
      BY <1>1, <2>1 DEF NewView
    <3> QED BY <3>1, SnapshotBoard DEF Shows, Snapshot
  <2> QED BY <2>1, <2>2 DEF Paged, Page, NewView
<1> QED BY <1>2, <1>3, <1>4, <1>5, <1>6, <1>7 DEF RankInv

LEMMA RankStep ==
    ASSUME RankInv, RankNext
    PROVE  RankInv'
<1>1. Working /\ Counts /\ Lasting /\ ReadShape /\ RankingComplete /\ \A d \in Clients : Paged(d)
  BY DEF RankInv
<1>2. ASSUME NEW v \in Ranked, NEW d \in Changes, NewHeat(v, d) PROVE RankInv'
  <2>1. UNCHANGED readVars /\ UNCHANGED <<minute, windows, expires, total>>
    BY <1>2 DEF NewHeat
  <2> QED BY <1>1, <1>2, <2>1, NewHeatKeeps, LastingStill, ReadStill DEF RankInv
<1>3. ASSUME TakeHeat PROVE RankInv'
  <2>1. UNCHANGED readVars /\ UNCHANGED <<minute, windows, expires, total>>
    BY <1>3 DEF TakeHeat
  <2> QED BY <1>1, <1>3, <2>1, TakeHeatKeeps, LastingStill, ReadStill DEF RankInv
<1>4. ASSUME NEW p \in Processes, AddHeat(p) PROVE RankInv'
  <2>1. UNCHANGED readVars
    BY <1>4 DEF AddHeat
  <2> QED BY <1>1, <1>4, <2>1, AddHeatKeeps, LastingAdded, ReadStill DEF RankInv
<1>5. ASSUME NEW p \in Processes, KeepWindow(p) PROVE RankInv'
  <2>1. UNCHANGED readVars
    BY <1>5 DEF KeepWindow
  <2> QED BY <1>1, <1>5, <2>1, WorkEnds, LastingKept, ReadStill DEF RankInv
<1>6. ASSUME NEW p \in Processes, EndProcess(p) PROVE RankInv'
  <2>1. UNCHANGED readVars /\ UNCHANGED <<minute, windows, expires, total>>
    BY <1>6 DEF EndProcess
  <2> QED BY <1>1, <1>6, <2>1, WorkEnds, LastingStill, ReadStill DEF RankInv
<1>7. ASSUME NEW c \in Clients, AskPage(c) PROVE RankInv'
  <2>1. UNCHANGED <<minute, heatVars>>
    BY <1>7 DEF AskPage
  <2> QED BY <1>1, <1>7, <2>1, AskPageKeeps, HeatStill DEF RankInv
<1>8. ASSUME NEW c \in Clients, MakeSnapshot(c) PROVE RankInv'
  <2>1. UNCHANGED <<minute, heatVars>>
    BY <1>8 DEF MakeSnapshot
  <2> QED BY <1>1, <1>8, <2>1, MakeSnapshotKeeps, HeatStill DEF RankInv
<1>9. ASSUME NEW c \in Clients, ReadRange(c) PROVE RankInv'
  <2>1. UNCHANGED <<minute, heatVars>>
    BY <1>9 DEF ReadRange
  <2> QED BY <1>1, <1>9, <2>1, ReadRangeKeeps, HeatStill DEF RankInv
<1> QED BY <1>2, <1>3, <1>4, <1>5, <1>6, <1>7, <1>8, <1>9, NextMinuteKeeps DEF RankNext

LEMMA RankStill ==
    ASSUME RankInv, UNCHANGED rankVars
    PROVE  RankInv'
<1>1. UNCHANGED <<minute, heatVars>> /\ UNCHANGED readVars
  BY DEF rankVars
<1> QED BY <1>1, HeatStill, ReadStill DEF RankInv

\* The queue and the processes hold different events.
LEMMA Ranges ==
    ASSUME RankInv
    PROVE  RankType /\ HeatCounted /\ RankPaged
<1>1. Working /\ Counts /\ Lasting /\ ReadShape /\ \A d \in Clients : Paged(d)
  BY DEF RankInv
<1>2. PICK n \in 0 .. MaxHeat : DOMAIN events = 1 .. n /\ Cardinality(DOMAIN events) = n
  BY <1>1, Known
<1>3. IsFiniteSet(DOMAIN events) /\ n \in Nat /\ MaxHeat \in Nat
  <2>1. MaxHeat \in Nat /\ n \in Nat
    BY Minutes
  <2>2. IsFiniteSet(1 .. n)
    BY <2>1, FS_Interval
  <2> QED BY <1>2, <2>1, <2>2
<1> DEFINE Busy == {p \in Processes : job[p] # Idle}
           Held == {job[p].e : p \in Busy}
<1>4. Held \subseteq DOMAIN events /\ Held \cap ready = {} /\ ready \subseteq DOMAIN events
  BY <1>1, AtWork DEF Working
<1>5. IsFiniteSet(Busy) /\ IsFiniteSet(Held) /\ IsFiniteSet(ready)
  <2>1. IsFiniteSet(Processes)
    <3>1. PICK w : w = {} \cup {"worker"}
      OBVIOUS
    <3>2. IsFiniteSet(w)
      BY <3>1, FS_EmptySet, FS_AddElement
    <3>3. Processes = w \cup {"api"}
      BY <3>1 DEF Processes
    <3> QED BY <3>2, <3>3, FS_AddElement
  <2>2. IsFiniteSet(Busy)
    BY <2>1, FS_Subset
  <2> QED BY <1>3, <1>4, <2>2, FS_Subset
<1>6. Cardinality(Busy) = Cardinality(Held)
  <2>1. PICK f : f = [p \in Busy |-> job[p].e]
    OBVIOUS
  <2>2. f \in [Busy -> Held] /\ \A h \in Held : \E p \in Busy : f[p] = h
    BY <2>1
  <2>3. \A p, q \in Busy : f[p] = f[q] => p = q
    BY <1>1, <2>1, AtWork
  <2>4. f \in Bijection(Busy, Held)
    BY <2>2, <2>3 DEF Bijection, Injection, Surjection, IsInjective
  <2> QED BY <1>5, <2>4, FS_Bijection DEF ExistsBijection
<1>7. Cardinality(ready) + Cardinality(Busy) <= Cardinality(DOMAIN events)
  <2>1. PICK H : H = Held
    OBVIOUS
  <2>2. IsFiniteSet(H) /\ IsFiniteSet(ready) /\ ready \cap H = {} /\ ready \cup H \subseteq DOMAIN events
    BY <1>4, <1>5, <2>1
  <2>3. Cardinality(ready \cup H) = Cardinality(ready) + Cardinality(H) - Cardinality(ready \cap H)
    BY <2>2, FS_Union
  <2>4. Cardinality(ready \cap H) = 0
    BY <2>2, FS_EmptySet
  <2>5. Cardinality(ready \cup H) <= Cardinality(DOMAIN events)
    BY <1>3, <2>2, FS_Subset
  <2>6. Cardinality(ready) \in Nat /\ Cardinality(H) \in Nat
    BY <2>2, FS_CardinalityType
  <2> QED BY <1>6, <2>1, <2>3, <2>4, <2>5, <2>6
<1>8. RankType
  <2>1. minute \in Times /\ \A m \in Times : DOMAIN windows[m] \subseteq DOMAIN total[m]
    BY <1>1 DEF Working, Lasting
  <2>2. \A e \in DOMAIN events : e \in Ids /\ events[e] \in Ranked \X Changes
    BY <1>1, Known DEF Working
  <2>3. ASSUME NEW m \in Times
        PROVE  /\ snapshots[m].left \in 0 .. MaxMinute + SnapshotTTL + 1
               /\ ~snapshots[m].there => snapshots[m] = NoRank
    <3>1. PICK s : s = snapshots[m]
      OBVIOUS
    <3>2. Snapshot(s)
      BY <1>1, <3>1 DEF ReadShape
    <3>3. CASE s = NoRank
      BY <3>1, <3>3, Minutes DEF NoRank
    <3>4. CASE s # NoRank
      <4>1. s.there /\ s.left \in 1 .. MaxMinute + SnapshotTTL + 1
        BY <3>2, <3>4 DEF Snapshot
      <4> QED BY <3>1, <4>1, Minutes
    <3> QED BY <3>3, <3>4
  <2>4. \A c \in Clients : /\ view[c].pc \in {"new", "ask", "union", "range", "end"}
                           /\ view[c].seen \subseteq Ranked
    BY <1>1 DEF ReadShape, Views
  <2> QED BY <1>4, <1>7, <2>1, <2>2, <2>3, <2>4 DEF RankType
<1>9. HeatCounted
  <2>1. DOMAIN events \subseteq Ids
    BY <1>1, Known
  <2> QED BY <1>1, <2>1 DEF Counts, HeatCounted
<1>10. RankPaged
  BY <1>1 DEF Paged, Page, Shows, RankPaged
<1> QED BY <1>8, <1>9, <1>10

\* What the ranking's theorems rest on: windows outlive their rankings, a
\* client has read a beginning of one, and no change is counted but by the
\* process that holds it (UpdatePopularityCache, FeedService.ListByPopularity).
THEOREM RankInvariant == RankSpec => []RankInv
<1>1. RankInit => RankInv
  BY RankStarts
<1>2. RankInv /\ [RankNext]_rankVars => RankInv'
  BY RankStep, RankStill
<1> QED BY <1>1, <1>2, PTL DEF RankSpec

\* A change is counted at most once for each time it was delivered, and once
\* when nothing is left to do, unless its ZINCRBY failed or an API ended
\* (PopularityWorker.process, UpdatePopularityCache).
THEOREM HeatCountedHolds == RankSpec => []HeatCounted
<1>1. RankInv => HeatCounted
  BY Ranges
<1> QED BY <1>1, RankInvariant, PTL

\* A ranking of a minute that is at most WindowTTL - Span old misses nothing
\* that was counted in its minutes (FeedService.ListByPopularity).
THEOREM RankingCompleteHolds == RankSpec => []RankingComplete
<1>1. RankInv => RankingComplete
  BY DEF RankInv
<1> QED BY <1>1, RankInvariant, PTL

\* Paging by offset through one snapshot shows each of its videos once, and all
\* of them (FeedService.ListByPopularity, HotView.tsx).
THEOREM RankPagedHolds == RankSpec => []RankPaged
<1>1. RankInv => RankPaged
  BY Ranges
<1> QED BY <1>1, RankInvariant, PTL

-----------------------------------------------------------------------------
(* The behaviours of a run are behaviours of the feeds and of the ranking.   *)

\* Each step of MCFeeds is a step of one of the two and leaves the other alone.
THEOREM FeedsCompose == Spec => PagesSpec /\ RankSpec
<1>1. Init => PagesInit /\ RankInit
  BY DEF Init
<1>2. [Next]_<<pageVars, rankVars, focus>> => [PagesNext]_pageVars /\ [RankNext]_rankVars
  BY DEF Next
<1> QED BY <1>1, <1>2, PTL DEF Spec, PagesSpec, RankSpec

\* The variables of the feeds and of the ranking keep their types; the queue
\* and the processes hold different events of the ranking.
THEOREM FeedsTyped == Spec => []TypeOK
<1>1. RankInv => RankType
  BY Ranges
<1>2. PagesType /\ RankType => TypeOK
  BY DEF TypeOK
<1> QED BY <1>1, <1>2, FeedsCompose, PagesTyped, RankInvariant, PTL
=============================================================================
