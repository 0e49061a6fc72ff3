------------------------------ MODULE HotRank ------------------------------
(***************************************************************************)
(* The hot ranking: changes of popularity are summed in one sorted set per  *)
(* minute, and ListByPopularity pages through a snapshot of the last Span   *)
(* minutes.                                                                 *)
(*                                                                         *)
(* PopularityWorker (internal/worker/popularityworker.go) and, when the     *)
(* broker refuses the event, the API itself run UpdatePopularityCache       *)
(* (internal/video/popularity_cache.go).  ListByPopularity                  *)
(* (internal/feed/service.go) makes the snapshot of a minute when it finds  *)
(* none; a client sends back the minute and an offset                       *)
(* (frontend/src/views/HotView.tsx).                                        *)
(***************************************************************************)
EXTENDS Integers, FiniteSets, Functions

CONSTANTS
    Ranked,        \* videos
    Clients,
    Changes,       \* a like or comment is 1, an unlike -1
    Span,          \* minutes ranked (60)
    WindowTTL,     \* minutes a window lives after its last change (120)
    SnapshotTTL,   \* minutes a snapshot lives (2)
    PageSize,
    MaxMinute, MaxHeat, MaxPages, MaxRankFaults  \* bounds

ASSUME Minutes == /\ Ranked \subseteq Nat /\ Changes \subseteq {1, -1}
                  /\ {Span, WindowTTL, SnapshotTTL, PageSize} \subseteq Nat \ {0}
                  /\ {MaxMinute, MaxHeat, MaxPages, MaxRankFaults} \subseteq Nat

VARIABLES
    minute,
    windows,    \* windows[m]: the sorted set of minute m, as the score of
                \* each of its members
    expires,    \* expires[m]: when that set vanishes
    events,     \* events[e]: a change of popularity, and its video
    ready,      \* events in the queue
    job,        \* job[p]: the change p applies, to which minute, and where
    snapshots,  \* snapshots[m]: the ranking of minute m, while it lives
    view,       \* view[c]: the page c asks for; history: what it has seen,
                \* whether of one ranking (intact), and twice (again)
    rankFaults,
    total,      \* history: total[m]: the set of minute m, had it no TTL
    counted,    \* history: counted[e]: times e was added to a window
    given,      \* history: given[e]: times e was delivered, or applied directly
    spoilt      \* history: events that were published and never queued, and
                \* those whose ZINCRBY failed or was not reached by an API that
                \* ended

heatVars == <<windows, expires, events, ready, job, total, counted, given, spoilt>>
readVars == <<snapshots, view>>
rankVars == <<minute, heatVars, readVars, rankFaults>>

Processes == {"worker", "api"}
Times     == 0 .. MaxMinute
Ids       == 1 .. MaxHeat
Empty     == [v \in {} |-> 0]
Score(z, v) == IF v \in DOMAIN z THEN z[v] ELSE 0
ZIncrBy(z, v, d) == [w \in DOMAIN z \cup {v} |-> Score(z, w) + (IF w = v THEN d ELSE 0)]
Idle      == [e |-> 0, key |-> 0, pc |-> "idle"]
NoRank    == [there |-> FALSE, left |-> 0, scores |-> Empty, truth |-> Empty, made |-> 0]
NewView   == [pc |-> "new", asOf |-> 0, offset |-> 0, seen |-> {}, pages |-> 0,
              intact |-> TRUE, again |-> FALSE]

RankType ==
    /\ minute \in Times /\ \A m \in Times : DOMAIN windows[m] \subseteq DOMAIN total[m]
    /\ Cardinality(ready) + Cardinality({p \in Processes : job[p] # Idle}) <= Cardinality(DOMAIN events)
    /\ \A e \in DOMAIN events : e \in Ids /\ events[e] \in Ranked \X Changes
    /\ ready \subseteq DOMAIN events
    /\ \A m \in Times : /\ snapshots[m].left \in 0 .. MaxMinute + SnapshotTTL + 1
                        /\ ~snapshots[m].there => snapshots[m] = NoRank
    /\ \A c \in Clients : /\ view[c].pc \in {"new", "ask", "union", "range", "end"}
                          /\ view[c].seen \subseteq Ranked

RankInit ==
    /\ minute = 0 /\ windows = [m \in Times |-> Empty] /\ expires = [m \in Times |-> 0]
    /\ events = << >> /\ ready = {} /\ job = [p \in Processes |-> Idle]
    /\ snapshots = [m \in Times |-> NoRank] /\ view = [c \in Clients |-> NewView]
    /\ rankFaults \in 0 .. MaxRankFaults /\ total = [m \in Times |-> Empty]
    /\ counted = [e \in Ids |-> 0] /\ given = [e \in Ids |-> 0] /\ spoilt = {}

RankFault == rankFaults < MaxRankFaults /\ rankFaults' = rankFaults + 1
Never     == MaxMinute + WindowTTL + 1

-----------------------------------------------------------------------------
(* Changes of popularity.                                                   *)

\* popularityMQ.Update: queued; or sent and never queued, since nothing waits
\* for the broker's confirmation; or refused: then the API applies the change.
NewHeat(v, d) ==
    LET e == Cardinality(DOMAIN events) + 1
    IN  /\ e <= MaxHeat
        /\ events' = [i \in 1 .. e |-> IF i = e THEN <<v, d>> ELSE events[i]]
        /\ \/ ready' = ready \cup {e} /\ UNCHANGED <<job, given, rankFaults, spoilt>>
           \/ spoilt' = spoilt \cup {e} /\ UNCHANGED <<ready, job, given, rankFaults>>
           \/ /\ job["api"] = Idle /\ RankFault
              /\ job' = [job EXCEPT !["api"] = [e |-> e, key |-> minute, pc |-> "incr"]]
              /\ given' = [given EXCEPT ![e] = @ + 1] /\ UNCHANGED <<ready, spoilt>>
        /\ UNCHANGED <<minute, windows, expires, readVars, total, counted>>

\* The worker takes an event and names the window of this minute.
TakeHeat ==
    /\ job["worker"] = Idle
    /\ \E e \in ready :
          /\ ready' = ready \ {e} /\ given' = [given EXCEPT ![e] = @ + 1]
          /\ job' = [job EXCEPT !["worker"] = [e |-> e, key |-> minute, pc |-> "incr"]]
    /\ UNCHANGED <<minute, windows, expires, events, readVars, rankFaults, total, counted, spoilt>>

\* A key that has vanished begins anew, and has no TTL yet.
Alive(m)  == expires[m] > minute
Window(m) == IF Alive(m) THEN windows[m] ELSE Empty
Windows   == [m \in Times |-> Window(m)]

\* ZINCRBY; its error is ignored.
AddHeat(p) ==
    /\ job[p].pc = "incr" /\ job' = [job EXCEPT ![p].pc = "expire"]
    /\ LET m == job[p].key
           v == events[job[p].e][1]
           d == events[job[p].e][2]
       IN  \/ /\ windows' = [windows EXCEPT ![m] = ZIncrBy(Window(m), v, d)]
              /\ expires' = [expires EXCEPT ![m] = IF Alive(m) THEN @ ELSE Never]
              /\ total' = [total EXCEPT ![m] = ZIncrBy(@, v, d)]
              /\ counted' = [counted EXCEPT ![job[p].e] = @ + 1]
              /\ UNCHANGED <<spoilt, rankFaults>>
           \/ /\ RankFault /\ spoilt' = spoilt \cup {job[p].e}
              /\ UNCHANGED <<windows, expires, total, counted>>
    /\ UNCHANGED <<minute, events, ready, readVars, given>>

\* Mutant: the window lives for the span only.
KeepWindow_Mut(p) ==
    /\ job[p].pc = "expire" /\ job' = [job EXCEPT ![p] = Idle]
    /\ \/ /\ expires' = [expires EXCEPT ![job[p].key] = IF Alive(job[p].key) THEN minute + Span ELSE @]
          /\ UNCHANGED rankFaults
       \/ RankFault /\ UNCHANGED expires
    /\ UNCHANGED <<minute, windows, events, ready, readVars, total, counted, given, spoilt>>

\* EXPIRE, whose error is ignored, and the worker acknowledges the delivery.
KeepWindow(p) ==
    /\ job[p].pc = "expire" /\ job' = [job EXCEPT ![p] = Idle]
    /\ \/ /\ expires' = [expires EXCEPT ![job[p].key] =
                            IF Alive(job[p].key) THEN minute + WindowTTL ELSE @]
          /\ UNCHANGED rankFaults
       \/ RankFault /\ UNCHANGED expires
    /\ UNCHANGED <<minute, windows, events, ready, readVars, total, counted, given, spoilt>>

\* Mutant: the worker's delivery is acknowledged when it is taken.
EndProcess_Mut(p) ==
    /\ job[p] # Idle /\ RankFault /\ job' = [job EXCEPT ![p] = Idle]
    /\ spoilt' = IF p = "api" THEN spoilt \cup {job[p].e} ELSE spoilt
    /\ UNCHANGED <<minute, windows, expires, events, ready, readVars, total, counted, given>>

\* A process ends: the worker's delivery is queued again, the API's change is
\* not repeated.
EndProcess(p) ==
    /\ job[p] # Idle /\ RankFault /\ job' = [job EXCEPT ![p] = Idle]
    /\ ready' = IF p = "worker" THEN ready \cup {job[p].e} ELSE ready
    /\ spoilt' = IF p = "api" THEN spoilt \cup {job[p].e} ELSE spoilt
    /\ UNCHANGED <<minute, windows, expires, events, readVars, total, counted, given>>

-----------------------------------------------------------------------------
(* ListByPopularity.                                                        *)

\* Mutant: every page is of this minute.
AskPage_Mut(c) ==
    /\ view[c].pc \in {"new", "ask"} /\ view[c].pages < MaxPages
    /\ LET m == minute
       IN  \/ /\ view' = [view EXCEPT ![c].asOf = m,
                             ![c].pc = IF snapshots[m].there THEN "range" ELSE "union"]
              /\ UNCHANGED rankFaults
           \/ /\ snapshots[m].there /\ RankFault
              /\ view' = [view EXCEPT ![c].asOf = m, ![c].pc = "union"]
    /\ UNCHANGED <<minute, heatVars, snapshots>>

\* The first page is of this minute, the others of the same; then EXISTS,
\* whose error is a no.
AskPage(c) ==
    /\ view[c].pc \in {"new", "ask"} /\ view[c].pages < MaxPages
    /\ LET m == IF view[c].pc = "new" THEN minute ELSE view[c].asOf
       IN  \/ /\ view' = [view EXCEPT ![c].asOf = m,
                             ![c].pc = IF snapshots[m].there THEN "range" ELSE "union"]
              /\ UNCHANGED rankFaults
           \/ /\ snapshots[m].there /\ RankFault
              /\ view' = [view EXCEPT ![c].asOf = m, ![c].pc = "union"]
    /\ UNCHANGED <<minute, heatVars, snapshots>>

\* ZUNIONSTORE, of the sets z[w] of the minutes up to m.
Union(m, z) ==
    LET W == {w \in Times : m - Span < w /\ w <= m}
    IN  [v \in UNION {DOMAIN z[w] : w \in W} |-> SumFunction([w \in W |-> Score(z[w], v)])]

Ranking(m, ttl) == [there |-> TRUE, left |-> ttl, made |-> minute, scores |-> Union(m, Windows),
                    truth |-> Union(m, total)]

\* The pages c has read of the minute m are not of the ranking m has from now
\* on.
HasRead(c, m) == view[c].asOf = m /\ view[c].pages > 0
Disturb(S)    == [c \in Clients |-> IF \E m \in S : HasRead(c, m)
                                    THEN [view[c] EXCEPT !.intact = FALSE, !.seen = {}, !.again = FALSE]
                                    ELSE view[c]]

\* ZUNIONSTORE and EXPIRE, whose errors are ignored; an empty union removes
\* the key.
MakeSnapshot(c) ==
    /\ view[c].pc = "union"
    /\ LET m == view[c].asOf
       IN  \/ /\ \/ /\ snapshots' = [snapshots EXCEPT ![m] =
                            IF Union(m, Windows) = Empty THEN NoRank ELSE Ranking(m, SnapshotTTL)]
                    /\ UNCHANGED rankFaults
                 \/ RankFault /\ snapshots' = [snapshots EXCEPT ![m] =
                            IF Union(m, Windows) = Empty THEN NoRank ELSE Ranking(m, MaxMinute + 1)]
              /\ view' = [Disturb({m}) EXCEPT ![c].pc = "range"]
           \/ /\ RankFault /\ view' = [view EXCEPT ![c].pc = "range"] /\ UNCHANGED snapshots
    /\ UNCHANGED <<minute, heatVars>>

\* The position of v: by score, then by member.
Rank(z, v) == Cardinality({w \in DOMAIN z : z[w] > z[v] \/ (z[w] = z[v] /\ w > v)})

\* The client is shown the videos K, next_offset and has_more.
Shown(r, K) == [r EXCEPT !.seen = IF r.intact THEN @ \cup K ELSE {}, !.again = @ \/ r.seen \cap K # {},
                         !.offset = @ + Cardinality(K), !.pages = @ + 1,
                         !.pc = IF Cardinality(K) = PageSize THEN "ask" ELSE "end"]

\* ZREVRANGE.  An empty answer ends the ranking, or there is none: then, and
\* after an error, the page is the first of the table and the next request
\* starts over, since the client sends no cursor back.
ReadRange(c) ==
    /\ view[c].pc = "range"
    /\ LET z == snapshots[view[c].asOf].scores
           K == {v \in DOMAIN z : Rank(z, v) \in view[c].offset .. view[c].offset + PageSize - 1}
           table == [view EXCEPT ![c] = [NewView EXCEPT !.pages = view[c].pages + 1, !.intact = FALSE]]
       IN  \/ K # {} /\ view' = [view EXCEPT ![c] = Shown(@, K)] /\ UNCHANGED rankFaults
           \/ K = {} /\ view[c].offset > 0 /\ view' = [view EXCEPT ![c].pc = "end"] /\ UNCHANGED rankFaults
           \/ K = {} /\ view[c].offset = 0 /\ view' = table /\ UNCHANGED rankFaults
           \/ RankFault /\ view' = table
    /\ UNCHANGED <<minute, heatVars, snapshots>>

-----------------------------------------------------------------------------
\* A minute passes; snapshots vanish.
Vanishing == {m \in Times : snapshots[m].left = 1}

NextMinute ==
    /\ minute < MaxMinute /\ minute' = minute + 1
    /\ snapshots' = [m \in Times |-> IF snapshots[m].left <= 1 THEN NoRank
                                     ELSE [snapshots[m] EXCEPT !.left = @ - 1]]
    /\ view' = Disturb(Vanishing)
    /\ UNCHANGED <<heatVars, rankFaults>>

RankNext ==
    \/ \E v \in Ranked, d \in Changes : NewHeat(v, d)
    \/ TakeHeat
    \/ \E p \in Processes : AddHeat(p) \/ KeepWindow(p) \/ EndProcess(p)
    \/ \E c \in Clients : AskPage(c) \/ MakeSnapshot(c) \/ ReadRange(c)
    \/ NextMinute

RankSpec == RankInit /\ [][RankNext]_rankVars

-----------------------------------------------------------------------------
\* A change is not counted more often than it was delivered, and not less than
\* once when all is done: unless the broker never had it, its ZINCRBY failed,
\* or an API ended.
HeatCounted ==
    \A e \in DOMAIN events :
        /\ counted[e] <= given[e]
        /\ (e \notin ready /\ \A p \in Processes : job[p].e # e)
              => counted[e] >= 1 \/ e \in spoilt

\* A ranking of a minute that is at most WindowTTL - Span old misses nothing
\* that was counted in its minutes: windows outlive every ranking of them.
RankingComplete ==
    \A m \in Times :
        snapshots[m].there /\ m >= snapshots[m].made - (WindowTTL - Span)
            => snapshots[m].scores = snapshots[m].truth

\* Paging by offset shows each video of the ranking once, whatever is counted
\* and whoever asks in the meantime, unless the snapshot expired or was made
\* again under way.
RankPaged ==
    \A c \in Clients : view[c].intact =>
        /\ ~view[c].again
        /\ view[c].pc = "end" => view[c].seen = DOMAIN snapshots[view[c].asOf].scores
=============================================================================
