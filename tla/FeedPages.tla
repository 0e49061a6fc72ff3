----------------------------- MODULE FeedPages -----------------------------
(***************************************************************************)
(* A client pages through a feed while the feed changes.                    *)
(*                                                                         *)
(* ListLatest, ListLikesCount and ListByFollowing of FeedService            *)
(* (internal/feed/service.go) return a page and a cursor; the client sends  *)
(* the cursor back until a page is short.  ListLatest reads the sorted set  *)
(* feed:global_timeline down to its oldest member, the watermark, and       *)
(* videos below that; the relay (module Outbox) adds to the set and trims   *)
(* it between the pages and between the reads of one page.  Pages of the    *)
(* following feed are kept in Redis for 24 h, by account and cursor, and    *)
(* the first page by likes for two seconds in each process, for those who   *)
(* are not logged in: what a request finds there it returns.                *)
(***************************************************************************)
EXTENDS Integers, FiniteSets

CONSTANTS
    Videos,        \* ids
    At,            \* At[v]: when v was created, in milliseconds
    Second,        \* milliseconds in a second
    Top,           \* above every key: no cursor, from the first video on
    Kinds,         \* the feeds paged through: latest, likes, following
    Limit,         \* videos asked for
    Cap,           \* the sorted set is trimmed to the newest Cap (1000)
    MaxPageFaults, \* bound: failed reads, repeated events
    MaxFlushes,    \* bound: times Redis loses the set
    MaxOthers,     \* bound: pages read by other requests
    MaxLikes       \* bound: changes of likes

ASSUME PageSizes == /\ Limit \in Nat \ {0} /\ Cap \in Nat \ {0}
                    /\ Second \in Nat \ {0} /\ IsFiniteSet(Videos)
                    /\ At \in [Videos -> Nat] /\ Videos \subseteq Nat

ASSUME TopIsAbove == Top \in Nat /\ MaxLikes \in 0 .. Top - 1 /\ \A v \in Videos : At[v] < Top

VARIABLES
    stored,    \* rows of videos
    likes,     \* likes[v]: likes_count of v
    timeline,  \* members of feed:global_timeline
    kind,      \* the feed the client pages through
    at,        \* where its request is
    cursor,    \* the cursor it holds
    page,      \* the page being put together, or the rows of a rebuild
    next,      \* the cursor after that page
    seen,      \* history: videos shown
    initial,   \* history: videos stored when the first page was asked for
    relayed,   \* history: videos once written to the timeline
    skipped,   \* history: videos passed over, for a reason stated below
    touched,   \* history: videos whose likes changed under way
    cut,       \* history: a page is short because a read failed
    reads,     \* pages read from the table, to be cached
    copies,    \* cached pages, one for each cursor
    pageFaults, flushes, changes, others

shared  == <<stored, likes, timeline, relayed, flushes, changes>>
caches  == <<reads, copies, others>>
client  == <<kind, at, cursor, page, next, seen, initial, skipped, cut>>
pageVars == <<shared, caches, client, touched, pageFaults>>

None == <<Top, 0>>
Floor(t) == t - (t % Second)

PagesType ==
    /\ timeline \subseteq stored /\ relayed \subseteq stored
    /\ stored \subseteq Videos /\ seen \cup initial \cup page \subseteq stored
    /\ likes \in [Videos -> 0 .. MaxLikes]
    /\ kind \in Kinds
    /\ at \in {"new", "ask", "hot", "cold", "stitch", "rows", "read", "rebuild", "reply", "end"}
    /\ at # "rebuild" => Cardinality(page) <= Limit
    /\ touched \cup skipped \subseteq Videos /\ cut \in BOOLEAN

PagesInit ==
    /\ stored = {} /\ likes = [v \in Videos |-> 0] /\ timeline = {}
    /\ kind \in Kinds /\ at = "new" /\ cursor = None /\ page = {} /\ next = None
    /\ seen = {} /\ initial = {} /\ relayed = {} /\ skipped = {} /\ touched = {}
    /\ cut = FALSE /\ pageFaults = 0 /\ flushes = 0 /\ changes = 0
    /\ reads = {} /\ copies = {} /\ others = 0

PageFault == pageFaults < MaxPageFaults /\ pageFaults' = pageFaults + 1

\* The order of a feed: by likes and id, or by time alone.
Key(v) == IF kind = "likes" THEN <<likes[v], v>> ELSE <<At[v], 0>>
Below(k, c) == k[1] < c[1] \/ (k[1] = c[1] /\ k[2] < c[2])

\* K is what ORDER BY ... DESC LIMIT n may select of S, ties in any order.
FirstOf(n, K, S) ==
    /\ K \subseteq S
    /\ IF Cardinality(S) <= n THEN K = S ELSE Cardinality(K) = n
    /\ \A v \in K, w \in S \ K : ~Below(Key(v), Key(w))

\* The key of the page's last video.
Last(K) == CHOOSE k \in {Key(v) : v \in K} : \A v \in K : ~Below(Key(v), k)

\* What an exact cursor passes over: the videos tied with the last one, when
\* the order does not tell them apart.
Tied(K) == IF kind = "likes" THEN {} ELSE {v \in stored \ K : Key(v) = Last(K)}

\* What a cursor in whole seconds passes over besides: those created earlier
\* in the last one's second.
Blurred(K) == {v \in stored \ K : Below(Key(v), Last(K)) /\ At[v] >= Floor(Last(K)[1])}

SetPage(K) == page' = K /\ next' = IF K = {} THEN cursor ELSE Last(K)

-----------------------------------------------------------------------------
(* The feed changes: VideoService.Publish, the relay, likes, Redis.  What    *)
(* the feed paged through does not read stays as it is.                      *)

PublishVideo(v) ==
    /\ v \notin stored /\ stored' = stored \cup {v}
    /\ UNCHANGED <<likes, timeline, relayed, flushes, changes, caches, client, touched, pageFaults>>

\* An event reaches the consumer: in any order, and perhaps again.
Relay(v) ==
    /\ kind = "latest" /\ v \in stored /\ v \notin timeline
    /\ IF v \in relayed THEN PageFault ELSE UNCHANGED pageFaults
    /\ timeline' = timeline \cup {v} /\ relayed' = relayed \cup {v}
    /\ UNCHANGED <<stored, likes, flushes, changes, caches, client, touched>>

\* ZREMRANGEBYRANK, some time after the ZADD.
TrimTimeline ==
    /\ Cardinality(timeline) > Cap
    /\ \E K \in SUBSET timeline :
          /\ Cardinality(K) = Cap /\ \A v \in K, w \in timeline \ K : At[w] <= At[v]
          /\ timeline' = K
    /\ UNCHANGED <<stored, likes, relayed, flushes, changes, caches, client, touched, pageFaults>>

Flush ==
    /\ timeline # {} /\ flushes < MaxFlushes /\ flushes' = flushes + 1
    /\ timeline' = {}
    /\ UNCHANGED <<stored, likes, relayed, changes, caches, client, touched, pageFaults>>

\* LikeWorker, or a fallback.
ChangeLikes(v) ==
    /\ kind = "likes" /\ v \in stored /\ changes < MaxLikes /\ changes' = changes + 1
    /\ \/ likes' = [likes EXCEPT ![v] = @ + 1]
       \/ likes[v] > 0 /\ likes' = [likes EXCEPT ![v] = @ - 1]
    /\ touched' = IF at = "new" THEN touched ELSE touched \cup {v}
    /\ UNCHANGED <<stored, timeline, relayed, flushes, caches, client, pageFaults>>

-----------------------------------------------------------------------------
(* Requests for pages.                                                      *)

Start ==
    /\ at = "new" /\ initial' = stored
    /\ at' = IF kind = "latest" THEN "ask" ELSE "rows"
    /\ UNCHANGED <<shared, caches, kind, cursor, page, next, seen, skipped, cut, touched, pageFaults>>

\* ListLatest looks at the oldest member of the set.
Watermark(v) == v \in timeline /\ \A w \in timeline : At[v] <= At[w]

Ask ==
    /\ at = "ask" /\ timeline # {}
    /\ \E w \in timeline :
          /\ Watermark(w)
          /\ at' = IF cursor[1] <= At[w] THEN "cold" ELSE "hot"
    /\ UNCHANGED <<shared, caches, kind, cursor, page, next, seen, initial, skipped, cut, touched, pageFaults>>

\* The set is gone: the newest rows are read into it again, and the request
\* starts over; an empty table is an empty page.
RebuildReads ==
    /\ at = "ask" /\ timeline = {}
    /\ \E K \in SUBSET stored : FirstOf(Cap, K, stored) /\ page' = K
    /\ at' = IF stored = {} THEN "reply" ELSE "rebuild"
    /\ UNCHANGED <<shared, caches, kind, cursor, next, seen, initial, skipped, cut, touched, pageFaults>>

RebuildSaves ==
    /\ at = "rebuild" /\ at' = "ask" /\ page' = {}
    /\ timeline' = timeline \cup page /\ relayed' = relayed \cup page
    /\ UNCHANGED <<stored, likes, flushes, changes, caches, kind, cursor, next, seen, initial, skipped, cut, touched, pageFaults>>

\* A video of the page's range that the set does not have, with the reason:
\* its event is still to come, Redis lost the set, or the set has outgrown
\* Cap for a moment by an old event and reaches below videos trimmed earlier.
HotHoles(K) ==
    IF K = {} THEN {}
    ELSE {v \in stored \ timeline :
             /\ Below(Key(v), cursor) /\ ~Below(Key(v), Last(K))
             /\ v \notin relayed \/ flushes > 0 \/ Cardinality(timeline) > Cap}

\* Mutant: the cursor's own millisecond is asked for again.
ReadHot_Mut ==
    /\ at = "hot"
    /\ LET S == {v \in timeline : ~Below(cursor, Key(v))}
       IN  \E K \in SUBSET S :
              /\ FirstOf(Limit, K, S) /\ SetPage(K)
              /\ at' = IF Cardinality(K) < Limit THEN "stitch" ELSE "reply"
              /\ skipped' = skipped \cup HotHoles(K)
    /\ UNCHANGED <<shared, caches, kind, cursor, seen, initial, cut, touched, pageFaults>>

\* ZREVRANGEBYSCORE from one below the cursor on.
ReadHot ==
    /\ at = "hot"
    /\ LET S == {v \in timeline : Below(Key(v), cursor)}
       IN  \E K \in SUBSET S :
              /\ FirstOf(Limit, K, S) /\ SetPage(K)
              /\ at' = IF Cardinality(K) < Limit THEN "stitch" ELSE "reply"
              /\ skipped' = skipped \cup HotHoles(K)
    /\ UNCHANGED <<shared, caches, kind, cursor, seen, initial, cut, touched, pageFaults>>

Rows(n, c, K) == LET S == {v \in stored : Below(Key(v), c)}
                 IN  K \subseteq S /\ FirstOf(n, K, S)

\* Mutant: a whole page is fetched to fill up.
Stitch_Mut ==
    /\ at = "stitch" /\ at' = "reply"
    /\ LET from == IF page = {} THEN cursor ELSE Last(page)
       IN  \E K \in SUBSET stored : Rows(Limit, from, K) /\ SetPage(page \cup K)
    /\ skipped' = IF page = {} THEN skipped ELSE skipped \cup Tied(page)
    /\ UNCHANGED <<shared, caches, kind, cursor, seen, initial, cut, touched, pageFaults>>

\* The page is filled up with rows below its last video; a failed read leaves
\* it short.  A cursor of that video without its cached item is in seconds.
Stitch ==
    /\ at = "stitch" /\ at' = "reply"
    /\ \/ /\ LET from == IF page = {} THEN cursor ELSE Last(page)
             IN  \E K \in SUBSET stored :
                    Rows(Limit - Cardinality(page), from, K) /\ SetPage(page \cup K)
          /\ skipped' = IF page = {} THEN skipped ELSE skipped \cup Tied(page)
          /\ UNCHANGED <<cut, pageFaults>>
       \/ /\ page # {} /\ PageFault
          /\ \E K \in SUBSET stored :
                /\ Rows(Limit - Cardinality(page), <<Floor(Last(page)[1]), 0>>, K)
                /\ SetPage(page \cup K)
          /\ skipped' = skipped \cup Tied(page) \cup Blurred(page)
          /\ UNCHANGED cut
       \/ PageFault /\ cut' = TRUE /\ UNCHANGED <<page, next, skipped>>
    /\ UNCHANGED <<shared, caches, kind, cursor, seen, initial, touched>>

\* Which pages are cached: of the following feed all, by likes the first.
Kept(c) == kind = "following" \/ (kind = "likes" /\ c = None)

\* A page as it is cached; history: the rows and likes it was selected from.
Copy(c, K) == [key |-> c, page |-> K, next |-> IF K = {} THEN c ELSE Last(K),
               rows |-> stored, scores |-> likes]

\* Stored since p was read, and passed over by it.
Late(p) == {v \in stored \ p.rows :
               /\ Below(Key(v), p.key)
               /\ Cardinality(p.page) < Limit \/ ~Below(Key(v), p.next)}

\* Liked or unliked since p was read.
Moved(p) == IF kind = "likes" THEN {v \in Videos : p.scores[v] # likes[v]} ELSE {}

\* The request is answered from the cache: at once, or when it looks again
\* with the lock, or while another has it.
FromCache ==
    /\ at \in {"rows", "read"} /\ at' = "reply"
    /\ \E p \in copies :
          /\ p.key = cursor /\ page' = p.page /\ next' = p.next
          /\ skipped' = skipped \cup Late(p) /\ touched' = touched \cup Moved(p)
    /\ UNCHANGED <<shared, caches, kind, cursor, seen, initial, cut, pageFaults>>

\* There is none, or Redis fails, or who asks is logged in or at another
\* process.
Miss ==
    /\ at = "rows" /\ at' = "read"
    /\ \/ /\ kind = "likes" \/ \A p \in copies : p.key # cursor
          /\ UNCHANGED pageFaults
       \/ kind # "likes" /\ PageFault
    /\ UNCHANGED <<shared, caches, kind, cursor, page, next, seen, initial, skipped, cut, touched>>

\* Below the watermark, and after a miss: the page is read from MySQL.
ReadRows ==
    /\ at \in {"cold", "read"} /\ at' = "reply"
    /\ \E K \in SUBSET stored :
          /\ Rows(Limit, cursor, K) /\ SetPage(K)
          /\ reads' = IF Kept(cursor) THEN reads \cup {Copy(cursor, K)} ELSE reads
    /\ UNCHANGED <<shared, copies, others, kind, cursor, seen, initial, skipped, cut, touched, pageFaults>>

\* Another request, of the same account in the following feed, reads a page
\* it did not find cached.
Cursors == {None} \cup {<<Floor(At[v]), 0>> : v \in Videos}

OtherReads ==
    /\ others < MaxOthers /\ others' = others + 1
    /\ \E c \in Cursors, K \in SUBSET stored :
          Kept(c) /\ Rows(Limit, c, K) /\ reads' = reads \cup {Copy(c, K)}
    /\ UNCHANGED <<shared, copies, client, touched, pageFaults>>

\* A page read some time ago is cached, over whatever there is.
SavePage(p) ==
    /\ copies' = {q \in copies : q.key # p.key} \cup {p} /\ reads' = reads \ {p}
    /\ UNCHANGED <<shared, others, client, touched, pageFaults>>

\* Its time is over, or Redis loses it.
Lapse(p) ==
    /\ copies' = copies \ {p}
    /\ UNCHANGED <<shared, reads, others, client, touched, pageFaults>>

\* The client takes the page and the cursor of its last video: in seconds in
\* the following feed, and in ListLatest without the video's cached item.
Take(blunt) ==
    /\ cursor' = IF blunt /\ page # {} THEN <<Floor(next[1]), 0>> ELSE next
    /\ skipped' = IF page = {} THEN skipped
                  ELSE skipped \cup Tied(page) \cup (IF blunt THEN Blurred(page) ELSE {})

\* Mutant: has_more is false when the page is not overfull.
Reply_Mut ==
    /\ at = "reply" /\ seen' = seen \cup page /\ page' = {}
    /\ at' = IF Cardinality(page) <= Limit THEN "end" ELSE "ask"
    /\ Take(kind = "following") /\ UNCHANGED pageFaults
    /\ UNCHANGED <<shared, caches, kind, next, initial, cut, touched>>

\* has_more is whether the page is full.
Reply ==
    /\ at = "reply" /\ seen' = seen \cup page /\ page' = {}
    /\ at' = IF Cardinality(page) < Limit THEN "end"
             ELSE IF kind = "latest" THEN "ask" ELSE "rows"
    /\ \/ Take(kind = "following") /\ UNCHANGED pageFaults
       \/ kind = "latest" /\ PageFault /\ Take(TRUE)
    /\ UNCHANGED <<shared, caches, kind, next, initial, cut, touched>>

PagesNext ==
    \/ \E v \in Videos : PublishVideo(v) \/ Relay(v) \/ ChangeLikes(v)
    \/ TrimTimeline \/ Flush
    \/ Start \/ Ask \/ RebuildReads \/ RebuildSaves \/ ReadHot \/ Stitch
    \/ FromCache \/ Miss \/ ReadRows \/ Reply
    \/ OtherReads \/ \E p \in reads : SavePage(p)
    \/ \E p \in copies : Lapse(p)

PagesSpec == PagesInit /\ [][PagesNext]_pageVars

-----------------------------------------------------------------------------
\* A video is not shown twice on the way down, by whatever mixture of the
\* set, the table and cached pages its pages are made of, unless its likes
\* changed in a feed ordered by them, since the pages it shows were read.
NoRepeats == at = "reply" => page \cap seen \subseteq touched

\* A client that reaches the end has seen what was stored when it began, but
\* for videos tied with a page's last one, hidden by a cursor in seconds,
\* not in the timeline for a stated reason, stored after a cached page that
\* passes over them was read, or moved by likes.
NoGaps == at = "end" /\ ~cut => initial \subseteq seen \cup skipped \cup touched
=============================================================================
