-------------------------- MODULE FollowingProofs --------------------------
(***************************************************************************)
(* Proofs about Following, for every number of callers and authors and      *)
(* every bound.                                                             *)
(*                                                                         *)
(* EdgeFollowsLast speaks of an author with nothing pending.  What is true  *)
(* on the way there is Single: as long as no two requests on the author     *)
(* overlapped, at most one request is under way, and every event still to   *)
(* be applied, however often it is delivered again, says what that request  *)
(* says, which is what the history variable want holds.                     *)
(*                                                                         *)
(* PageIsRecent follows from what each reader carries: edges the table held *)
(* when it read them or later, at a tick the clock has reached; and from    *)
(* the cached page's lifetime falling with every tick.                      *)
(***************************************************************************)
EXTENDS Following, SequenceTheorems, TLAPS

Events == [kind : {"follow", "unfollow"}, v : Vloggers]
Jobs   == [kind : {"follow", "unfollow"}, v : Vloggers, applied : BOOLEAN]
Acts   == [kind : {"none", "follow", "unfollow", "feed"},
           pc : {"idle", "event", "write", "lock", "again", "wait", "read", "fill", "unlock"},
           v : Vloggers \cup {"none"}, locked : BOOLEAN, page : SUBSET Vloggers,
           at : Nat]

\* The type of what the edge depends on; a caller names an author exactly
\* while it serves a request on the edge.
Shape ==
    /\ edges \in SUBSET Vloggers /\ want \in SUBSET Vloggers /\ mixed \in SUBSET Vloggers
    /\ queue \in Seq(Events) /\ job \in Jobs \cup {NoJob}
    /\ act \in [Callers -> Acts]
    /\ \A c \in Callers : /\ act[c].pc \in {"event", "write"} <=> act[c].v \in Vloggers
                          /\ act[c].v \in Vloggers => act[c].kind \in {"follow", "unfollow"}

\* The events of a queue, and those that are not done with.
Sent(q) == {q[i] : i \in 1 .. Len(q)}
InHand(j) == IF j = NoJob THEN {} ELSE {[kind |-> j.kind, v |-> j.v]}
Open    == Sent(queue) \cup InHand(job)

\* No author has two requests under way.
OneRequest(v) == \A c, d \in Callers : act[c].v = v /\ act[d].v = v => c = d

\* A request that has not announced itself finds no event of an earlier one,
\* and the event of one that has says what it says.
OneMind(v) ==
    \A c \in Callers : act[c].v = v =>
        \A e \in Open : e.v = v => act[c].pc = "write" /\ e.kind = act[c].kind

\* What the events still say is what is wanted.
Agreed(v) == \A e \in Open : e.v = v => (v \in want <=> e.kind = "follow")

\* Once every event is applied, the edge is what is wanted.
Settled(v) == /\ \A e \in Sent(queue) : e.v # v
              /\ job.v = v => job.applied
              => (v \in edges <=> v \in want)

Single(v) == OneRequest(v) /\ OneMind(v) /\ Agreed(v) /\ Settled(v)

\* The inductive invariant.
IInv == Shape /\ \A v \in Vloggers \ mixed : Single(v)


-----------------------------------------------------------------------------
(* What a queue holds.                                                       *)

LEMMA AppendSent ==
    ASSUME NEW q \in Seq(Events), NEW e \in Events
    PROVE  Append(q, e) \in Seq(Events) /\ Sent(Append(q, e)) = Sent(q) \cup {e}
<1>1. PICK b : b = Append(q, e)
  OBVIOUS
<1>2. /\ b \in Seq(Events) /\ Len(q) \in Nat /\ Len(b) = Len(q) + 1
      /\ \A i \in 1 .. Len(q) : b[i] = q[i]
      /\ b[Len(q) + 1] = e
  BY <1>1
<1>3. Sent(b) \subseteq Sent(q) \cup {e}
  <2>1. SUFFICES ASSUME NEW x \in Sent(b) PROVE x \in Sent(q) \cup {e}
    OBVIOUS
  <2>2. PICK i \in 1 .. Len(b) : x = b[i]
    BY DEF Sent
  <2>3. i \in 1 .. Len(q) \/ i = Len(q) + 1
    BY <1>2
  <2> QED BY <1>2, <2>2, <2>3 DEF Sent
<1>4. Sent(q) \cup {e} \subseteq Sent(b)
  <2>1. SUFFICES ASSUME NEW x \in Sent(q) \cup {e} PROVE x \in Sent(b)
    OBVIOUS
  <2>2. CASE x = e
    <3>1. Len(q) + 1 \in 1 .. Len(b)  BY <1>2
    <3> QED BY <1>2, <2>2, <3>1 DEF Sent
  <2>3. CASE x \in Sent(q)
    <3>1. PICK i \in 1 .. Len(q) : x = q[i]
      BY <2>3 DEF Sent
    <3>2. i \in 1 .. Len(b)  BY <1>2
    <3> QED BY <1>2, <3>1, <3>2 DEF Sent
  <2> QED BY <2>1, <2>2, <2>3
<1> QED BY <1>1, <1>2, <1>3, <1>4

LEMMA HeadSent ==
    ASSUME NEW q \in Seq(Events), q # <<>>
    PROVE  /\ Head(q) \in Events /\ Tail(q) \in Seq(Events)
           /\ Sent(q) = Sent(Tail(q)) \cup {Head(q)}
<1>1. PICK t : t = Tail(q)
  OBVIOUS
<1>2. Len(q) \in Nat /\ Len(q) > 0 /\ \A i \in 1 .. Len(q) : q[i] \in Events
  BY EmptySeq, LenProperties, ElementOfSeq
<1>3. t \in Seq(Events) /\ Len(t) = Len(q) - 1 /\ \A i \in 1 .. Len(t) : t[i] = q[i + 1]
  BY <1>1, <1>2, HeadTailProperties
<1>4. Head(q) = q[1] /\ 1 \in 1 .. Len(q)
  BY <1>2, HeadTailProperties
<1>5. Sent(q) \subseteq Sent(t) \cup {Head(q)}
  <2>1. SUFFICES ASSUME NEW x \in Sent(q) PROVE x \in Sent(t) \cup {Head(q)}
    OBVIOUS
  <2>2. PICK i \in 1 .. Len(q) : x = q[i]
    BY DEF Sent
  <2>3. CASE i = 1
    BY <1>4, <2>2, <2>3
  <2>4. CASE i # 1
    <3>1. i - 1 \in 1 .. Len(t) /\ (i - 1) + 1 = i
      BY <1>2, <1>3, <2>4
    <3>2. t[i - 1] = x
      BY <1>3, <2>2, <3>1
    <3> QED BY <3>1, <3>2 DEF Sent
  <2> QED BY <2>3, <2>4
<1>6. Sent(t) \cup {Head(q)} \subseteq Sent(q)
  <2>1. SUFFICES ASSUME NEW x \in Sent(t) \cup {Head(q)} PROVE x \in Sent(q)
    OBVIOUS
  <2>2. CASE x = Head(q)
    BY <1>4, <2>2 DEF Sent
  <2>3. CASE x \in Sent(t)
    <3>1. PICK i \in 1 .. Len(t) : x = t[i]
      BY <2>3 DEF Sent
    <3>2. i + 1 \in 1 .. Len(q)  BY <1>2, <1>3
    <3> QED BY <1>3, <3>1, <3>2 DEF Sent
  <2> QED BY <2>1, <2>2, <2>3
<1> QED BY <1>1, <1>2, <1>3, <1>4, <1>5, <1>6

LEMMA BackSent ==
    ASSUME NEW q \in Seq(Events), NEW e \in Events
    PROVE  <<e>> \o q \in Seq(Events) /\ Sent(<<e>> \o q) = Sent(q) \cup {e}
<1>1. PICK b : b = <<e>> \o q
  OBVIOUS
<1>2. /\ b \in Seq(Events) /\ Len(q) \in Nat /\ Len(b) = Len(q) + 1
      /\ b[1] = e
      /\ \A i \in 1 .. Len(q) : b[i + 1] = q[i]
  BY <1>1
<1>3. Sent(b) \subseteq Sent(q) \cup {e}
  <2>1. SUFFICES ASSUME NEW x \in Sent(b) PROVE x \in Sent(q) \cup {e}
    OBVIOUS
  <2>2. PICK i \in 1 .. Len(b) : x = b[i]
    BY DEF Sent
  <2>3. CASE i = 1
    BY <1>2, <2>2, <2>3
  <2>4. CASE i # 1
    <3>1. i - 1 \in 1 .. Len(q) /\ (i - 1) + 1 = i
      BY <1>2, <2>4
    <3>2. q[i - 1] = x
      BY <1>2, <2>2, <3>1
    <3> QED BY <3>1, <3>2 DEF Sent
  <2> QED BY <2>3, <2>4
<1>4. Sent(q) \cup {e} \subseteq Sent(b)
  <2>1. SUFFICES ASSUME NEW x \in Sent(q) \cup {e} PROVE x \in Sent(b)
    OBVIOUS
  <2>2. CASE x = e
    <3>1. 1 \in 1 .. Len(b)  BY <1>2
    <3> QED BY <1>2, <2>2, <3>1 DEF Sent
  <2>3. CASE x \in Sent(q)
    <3>1. PICK i \in 1 .. Len(q) : x = q[i]
      BY <2>3 DEF Sent
    <3>2. i + 1 \in 1 .. Len(b)  BY <1>2
    <3> QED BY <1>2, <3>1, <3>2 DEF Sent
  <2> QED BY <2>1, <2>2, <2>3
<1> QED BY <1>1, <1>2, <1>3, <1>4

\* An author with nothing pending has no event and no request.
LEMMA NothingPending ==
    ASSUME Shape, NEW v \in Vloggers
    PROVE  Pending(v) <=> job.v = v \/ (\E e \in Sent(queue) : e.v = v)
                          \/ (\E c \in Callers : act[c].v = v)
<1>1. DOMAIN queue = 1 .. Len(queue)
  BY LenProperties DEF Shape
<1> QED BY <1>1 DEF Pending, Sent


-----------------------------------------------------------------------------
(* Steps that leave the edge and its events alone.                           *)

\* A caller that reads the feed names no author, before and after.
LEMMA FeedKeeps ==
    ASSUME IInv, NEW c \in Callers, NEW r \in Acts,
           act' = [act EXCEPT ![c] = r], UNCHANGED social,
           act[c].pc \notin {"event", "write"},
           r.pc \notin {"event", "write"}, r.v = "none"
    PROVE  IInv'
<1>1. Shape /\ act[c].v \notin Vloggers /\ r.v \notin Vloggers
  BY Names DEF IInv, Shape
<1>2. /\ act' \in [Callers -> Acts]
      /\ \A d \in Callers : act'[d] = act[d] \/ (act[d].v \notin Vloggers /\ act'[d].v \notin Vloggers
                                                 /\ act'[d].pc \notin {"event", "write"})
  BY <1>1 DEF Shape
<1>3. Shape'
  BY <1>1, <1>2 DEF Shape, social, table
<1>4. Open' = Open
  BY DEF Open, social, table
<1>5. ASSUME NEW v \in Vloggers \ mixed'  PROVE Single(v)'
  <2>1. Single(v)
    BY DEF IInv, social, table
  <2>2. \A d \in Callers : act'[d].v = v => act'[d] = act[d]
    BY <1>2
  <2>3. OneRequest(v)' /\ OneMind(v)'
    BY <1>4, <2>1, <2>2 DEF Single, OneRequest, OneMind
  <2>4. Agreed(v)' /\ Settled(v)'
    BY <1>4, <2>1 DEF Single, Agreed, Settled, social, table
  <2> QED BY <2>3, <2>4 DEF Single
<1> QED BY <1>3, <1>5 DEF IInv

LEMMA CalmKeeps ==
    ASSUME IInv, UNCHANGED <<edges, queue, job, mixed, want, act>>
    PROVE  IInv'
BY DEF IInv, Shape, Single, OneRequest, OneMind, Agreed, Settled, Open, social, table

\* What a step of the feed makes of a caller.
LEMMA FeedGoto ==
    ASSUME IInv, now \in Nat, NEW c \in Callers, UNCHANGED social,
           NEW pc \in {"again", "wait", "read", "fill", "unlock"},
           act[c].pc \notin {"event", "write", "idle"},
           \/ Goto(c, pc)
           \/ act' = [act EXCEPT ![c].pc = pc, ![c].locked = TRUE]
           \/ act' = [act EXCEPT ![c].pc = pc, ![c].page = edges, ![c].at = now]
    PROVE  IInv'
<1>1. Shape /\ act[c] \in Acts /\ act[c].v = "none"
  BY DEF IInv, Shape, Acts
<1>2. edges \in SUBSET Vloggers
  BY <1>1 DEF Shape
<1>3. CASE Goto(c, pc)
  <2>1. PICK r : r = [act[c] EXCEPT !.pc = pc]  OBVIOUS
  <2>2. r \in Acts /\ r.pc = pc /\ r.v = "none"
    BY <1>1, <2>1 DEF Acts
  <2>3. act' = [act EXCEPT ![c] = r]
    BY <1>3, <2>1 DEF Goto
  <2> QED BY <2>2, <2>3, FeedKeeps
<1>4. CASE act' = [act EXCEPT ![c].pc = pc, ![c].locked = TRUE]
  <2>1. PICK r : r = [act[c] EXCEPT !.pc = pc, !.locked = TRUE]  OBVIOUS
  <2>2. r \in Acts /\ r.pc = pc /\ r.v = "none"
    BY <1>1, <2>1 DEF Acts
  <2>3. act' = [act EXCEPT ![c] = r]
    BY <1>1, <1>4, <2>1 DEF Shape
  <2> QED BY <2>2, <2>3, FeedKeeps
<1>5. CASE act' = [act EXCEPT ![c].pc = pc, ![c].page = edges, ![c].at = now]
  <2>1. PICK r : r = [act[c] EXCEPT !.pc = pc, !.page = edges, !.at = now]  OBVIOUS
  <2>2. r \in Acts /\ r.pc = pc /\ r.v = "none"
    BY <1>1, <1>2, <2>1 DEF Acts
  <2>3. act' = [act EXCEPT ![c] = r]
    BY <1>1, <1>5, <2>1 DEF Shape
  <2> QED BY <2>2, <2>3, FeedKeeps
<1> QED BY <1>3, <1>4, <1>5

LEMMA FeedDone ==
    ASSUME IInv, NEW c \in Callers, UNCHANGED social,
           act[c].pc \notin {"event", "write"}, Done(c)
    PROVE  IInv'
<1>1. Quiet \in Acts /\ Quiet.pc = "idle" /\ Quiet.v = "none"
  BY DEF Quiet, Acts
<1> QED BY <1>1, FeedKeeps DEF Done

LEMMA FeedSteps ==
    ASSUME IInv, now \in Nat, NEW c \in Callers,
           \/ BeginFeed(c) \/ TryLock(c) \/ LookAgain(c) \/ WaitForPage(c)
           \/ ReadEdges(c) \/ FillPage(c) \/ Release(c)
    PROVE  IInv'
<1>1. CASE BeginFeed(c)
  <2>1. PICK pc \in {"lock", "read"} : act' = [act EXCEPT ![c] = [Quiet EXCEPT !.kind = "feed", !.pc = pc]]
    BY <1>1 DEF BeginFeed
  <2>2. PICK r : r = [Quiet EXCEPT !.kind = "feed", !.pc = pc]  OBVIOUS
  <2>3. r \in Acts /\ r.pc = pc /\ r.v = "none"
    BY <2>2 DEF Quiet, Acts
  <2>4. act[c].pc = "idle" /\ UNCHANGED social
    BY <1>1 DEF BeginFeed, Quiet
  <2> QED BY <2>1, <2>2, <2>3, <2>4, FeedKeeps
<1>2. CASE TryLock(c)
  BY <1>2, FeedGoto DEF TryLock
<1>3. CASE LookAgain(c)
  BY <1>3, FeedGoto DEF LookAgain
<1>4. CASE WaitForPage(c)
  BY <1>4, FeedGoto, FeedDone DEF WaitForPage
<1>5. CASE ReadEdges(c)
  BY <1>5, FeedGoto, FeedDone DEF ReadEdges
<1>6. CASE FillPage(c)
  BY <1>6, FeedGoto, FeedDone DEF FillPage
<1>7. CASE Release(c)
  BY <1>7, FeedDone DEF Release
<1> QED BY <1>1, <1>2, <1>3, <1>4, <1>5, <1>6, <1>7


-----------------------------------------------------------------------------
(* Requests on the edge.                                                     *)

\* What one change of a caller does to the callers.
LEMMA ActShape ==
    ASSUME Shape, NEW c \in Callers, NEW r \in Acts, act' = [act EXCEPT ![c] = r],
           r.pc \in {"event", "write"} <=> r.v \in Vloggers,
           r.v \in Vloggers => r.kind \in {"follow", "unfollow"}
    PROVE  /\ act' \in [Callers -> Acts] /\ act'[c] = r
           /\ \A d \in Callers : d # c => act'[d] = act[d]
           /\ \A d \in Callers : /\ act'[d].pc \in {"event", "write"} <=> act'[d].v \in Vloggers
                                 /\ act'[d].v \in Vloggers => act'[d].kind \in {"follow", "unfollow"}
BY DEF Shape

LEMMA BeginKeeps ==
    ASSUME IInv, NEW c \in Callers, NEW v \in Vloggers, NEW kind \in {"follow", "unfollow"},
           BeginEdge(c, kind, v)
    PROVE  IInv'
<1>1. PICK r : r = [Quiet EXCEPT !.kind = kind, !.pc = "event", !.v = v]
  OBVIOUS
<1>2. /\ Shape /\ act[c].v = "none" /\ act' = [act EXCEPT ![c] = r]
      /\ mixed' = IF Pending(v) THEN mixed \cup {v} ELSE mixed \ {v}
      /\ want' = IF v \notin mixed THEN want
                 ELSE IF v \in edges THEN want \cup {v} ELSE want \ {v}
      /\ UNCHANGED <<edges, queue, job>>
  BY <1>1 DEF IInv, BeginEdge, table, Quiet
<1>3. r \in Acts /\ r.pc = "event" /\ r.v = v /\ r.kind = kind
  BY <1>1 DEF Quiet, Acts
<1>4. /\ act' \in [Callers -> Acts] /\ act'[c] = r
      /\ \A d \in Callers : d # c => act'[d] = act[d]
      /\ \A d \in Callers : /\ act'[d].pc \in {"event", "write"} <=> act'[d].v \in Vloggers
                            /\ act'[d].v \in Vloggers => act'[d].kind \in {"follow", "unfollow"}
  BY <1>2, <1>3, ActShape
<1>5. Shape' /\ Open' = Open
  BY <1>2, <1>4 DEF Shape, Open
<1>6. ASSUME NEW u \in Vloggers \ mixed'  PROVE Single(u)'
  <2>1. CASE u # v
    <3>1. Single(u) /\ (u \in want' <=> u \in want)
      BY <1>2, <2>1 DEF IInv
    <3>2. \A d \in Callers : act'[d].v = u => d # c /\ act'[d] = act[d]
      BY <1>3, <1>4, <2>1
    <3>3. OneRequest(u)' /\ OneMind(u)'
      BY <1>5, <3>1, <3>2 DEF Single, OneRequest, OneMind
    <3>4. Agreed(u)' /\ Settled(u)'
      BY <1>2, <1>5, <3>1 DEF Single, Agreed, Settled
    <3> QED BY <3>3, <3>4 DEF Single
  <2>2. CASE u = v
    <3>1. ~Pending(v)
      BY <1>2, <2>2
    <3>2. /\ \A e \in Open : e.v # v
          /\ \A d \in Callers : act[d].v # v
      BY <1>2, <3>1, NothingPending DEF Open, InHand
    <3>3. v \in edges <=> v \in want'
      <4>1. CASE v \in mixed
        BY <1>2, <4>1
      <4>2. CASE v \notin mixed
        <5>1. Settled(v)
          BY <4>2 DEF IInv, Single
        <5>2. (\A e \in Sent(queue) : e.v # v) /\ job.v # v
          BY <1>2, <3>1, NothingPending
        <5> QED BY <1>2, <4>2, <5>1, <5>2 DEF Settled
      <4> QED BY <4>1, <4>2
    <3>4. OneRequest(v)' /\ OneMind(v)'
      BY <1>4, <1>5, <3>2 DEF OneRequest, OneMind
    <3>5. Agreed(v)' /\ Settled(v)'
      BY <1>2, <1>5, <3>2, <3>3 DEF Agreed, Settled
    <3> QED BY <2>2, <3>4, <3>5 DEF Single
  <2> QED BY <2>1, <2>2
<1> QED BY <1>5, <1>6 DEF IInv

LEMMA AnnounceKeeps ==
    ASSUME IInv, NEW c \in Callers, Announce(c)
    PROVE  IInv'
<1>1. PICK v, r : v = act[c].v /\ r = [act[c] EXCEPT !.pc = "write"]
  OBVIOUS
<1>2. /\ Shape /\ act[c] \in Acts /\ v \in Vloggers /\ act[c].pc = "event"
      /\ act[c].kind \in {"follow", "unfollow"}
  BY <1>1 DEF IInv, Shape, Announce, table
<1>3. r \in Acts /\ r.pc = "write" /\ r.v = v /\ r.kind = act[c].kind
  BY <1>1, <1>2 DEF Acts
<1>4. act' = [act EXCEPT ![c] = r] /\ UNCHANGED <<edges, job, mixed>>
  BY <1>1 DEF Announce, table, Goto
<1>5. /\ act' \in [Callers -> Acts] /\ act'[c] = r
      /\ \A d \in Callers : d # c => act'[d] = act[d]
      /\ \A d \in Callers : /\ act'[d].pc \in {"event", "write"} <=> act'[d].v \in Vloggers
                            /\ act'[d].v \in Vloggers => act'[d].kind \in {"follow", "unfollow"}
  BY <1>2, <1>3, <1>4, ActShape
<1>6. \A d \in Callers : act'[d].v = act[d].v /\ act'[d].kind = act[d].kind
                         /\ (d # c => act'[d] = act[d])
  BY <1>1, <1>3, <1>5
<1>7. CASE UNCHANGED <<queue, want>>
  <2>1. Shape' /\ Open' = Open
    BY <1>2, <1>4, <1>5, <1>7 DEF Shape, Open
  <2>2. ASSUME NEW u \in Vloggers \ mixed'  PROVE Single(u)'
    <3>1. Single(u)
      BY <1>4 DEF IInv
    <3>2. OneRequest(u)'
      BY <1>6, <3>1 DEF Single, OneRequest
    <3>3. OneMind(u)'
      BY <1>3, <1>5, <1>6, <2>1, <3>1 DEF Single, OneMind
    <3>4. Agreed(u)' /\ Settled(u)'
      BY <1>4, <1>7, <2>1, <3>1 DEF Single, Agreed, Settled
    <3> QED BY <3>2, <3>3, <3>4 DEF Single
  <2> QED BY <2>1, <2>2 DEF IInv
<1>8. CASE /\ queue' = Append(queue, [kind |-> act[c].kind, v |-> act[c].v])
           /\ want' = Wants(act[c].kind, act[c].v)
  <2>1. PICK e : e = [kind |-> act[c].kind, v |-> v]
    OBVIOUS
  <2>2. e \in Events /\ e.v = v /\ e.kind = act[c].kind
    BY <1>2, <2>1 DEF Events
  <2>3. queue \in Seq(Events) /\ queue' = Append(queue, e)
    BY <1>1, <1>2, <1>8, <2>1 DEF Shape
  <2>4. queue' \in Seq(Events) /\ Sent(queue)' = Sent(queue) \cup {e}
    BY <2>2, <2>3, AppendSent
  <2>5. Open' = Open \cup {e}
    BY <1>4, <2>4 DEF Open
  <2>6. want' = IF e.kind = "follow" THEN want \cup {v} ELSE want \ {v}
    BY <1>1, <1>8, <2>2 DEF Wants
  <2>7. Shape'
    BY <1>2, <1>4, <1>5, <2>4, <2>6 DEF Shape
  <2>8. ASSUME NEW u \in Vloggers \ mixed'  PROVE Single(u)'
    <3>1. Single(u)
      BY <1>4 DEF IInv
    <3>2. OneRequest(u)'
      BY <1>6, <3>1 DEF Single, OneRequest
    <3>3. CASE u # v
      <4>1. u \in want' <=> u \in want
        BY <2>6, <3>3
      <4>2. OneMind(u)'
        BY <1>1, <1>6, <2>2, <2>5, <3>1, <3>3 DEF Single, OneMind
      <4>3. Agreed(u)'
        BY <2>2, <2>5, <3>1, <3>3, <4>1 DEF Single, Agreed
      <4>4. Settled(u)'
        BY <1>4, <2>4, <3>1, <4>1 DEF Single, Settled
      <4> QED BY <3>2, <4>2, <4>3, <4>4 DEF Single
    <3>4. CASE u = v
      <4>1. \A f \in Open : f.v # v
        BY <1>1, <1>2, <3>1, <3>4 DEF Single, OneMind
      <4>2. \A d \in Callers : act'[d].v = v => d = c
        BY <1>1, <1>6, <3>1, <3>4 DEF Single, OneRequest
      <4>3. OneMind(v)'
        BY <1>3, <1>5, <2>2, <2>5, <4>1, <4>2 DEF OneMind
      <4>4. Agreed(v)'
        BY <2>2, <2>5, <2>6, <4>1 DEF Agreed
      <4>5. Settled(v)'
        BY <2>2, <2>4 DEF Settled
      <4> QED BY <3>2, <3>4, <4>3, <4>4, <4>5 DEF Single
    <3> QED BY <3>3, <3>4
  <2> QED BY <2>7, <2>8 DEF IInv
<1> QED BY <1>7, <1>8 DEF Announce, table

LEMMA WriteKeeps ==
    ASSUME IInv, NEW c \in Callers, WriteEdge(c)
    PROVE  IInv'
<1>1. PICK v, kind : v = act[c].v /\ kind = act[c].kind
  OBVIOUS
<1>2. Shape /\ act[c] \in Acts /\ v \in Vloggers /\ act[c].pc = "write" /\ kind \in {"follow", "unfollow"}
  BY <1>1 DEF IInv, Shape, WriteEdge, table
<1>3. Quiet \in Acts /\ Quiet.pc = "idle" /\ Quiet.v = "none" /\ Quiet.v \notin Vloggers
  BY Names DEF Quiet, Acts
<1>4. act' = [act EXCEPT ![c] = Quiet] /\ UNCHANGED <<queue, job, mixed>> /\ Open' = Open
  BY DEF WriteEdge, table, Done, Open
<1>5. /\ act' \in [Callers -> Acts] /\ act'[c] = Quiet
      /\ \A d \in Callers : d # c => act'[d] = act[d]
      /\ \A d \in Callers : /\ act'[d].pc \in {"event", "write"} <=> act'[d].v \in Vloggers
                            /\ act'[d].v \in Vloggers => act'[d].kind \in {"follow", "unfollow"}
  BY <1>2, <1>3, <1>4, ActShape
<1>6. \A u \in Vloggers : \A d \in Callers : act'[d].v = u => act'[d] = act[d]
  BY <1>3, <1>5
<1>7. \/ UNCHANGED <<edges, want>>
      \/ IF kind = "follow" THEN edges' = edges \cup {v} /\ want' = want \cup {v}
                            ELSE edges' = edges \ {v} /\ want' = want \ {v}
  BY <1>1, <1>2 DEF WriteEdge, table, Written, Wants
<1>8. Shape'
  BY <1>2, <1>4, <1>5, <1>7 DEF Shape
<1>9. ASSUME NEW u \in Vloggers \ mixed'  PROVE Single(u)'
  <2>1. Single(u)
    BY <1>4 DEF IInv
  <2>2. OneRequest(u)' /\ OneMind(u)'
    BY <1>4, <1>6, <2>1 DEF Single, OneRequest, OneMind
  <2>3. u = v => \A e \in Open : e.v = v => e.kind = kind
    BY <1>1, <1>2, <2>1 DEF Single, OneMind
  <2>4. Agreed(u)'
    BY <1>2, <1>4, <1>7, <2>1, <2>3 DEF Single, Agreed
  <2>5. Settled(u)'
    BY <1>2, <1>4, <1>7, <2>1 DEF Single, Settled
  <2> QED BY <2>2, <2>4, <2>5 DEF Single
<1> QED BY <1>8, <1>9 DEF IInv

-----------------------------------------------------------------------------
(* The worker.                                                               *)

\* A delivery, held or given back, is an event of the queue.
LEMMA DeliverKeeps ==
    ASSUME IInv, Deliver
    PROVE  IInv'
<1>1. PICK e : e = Head(queue)
  OBVIOUS
<1>2. Shape /\ queue \in Seq(Events) /\ queue # <<>> /\ job = NoJob
  BY DEF IInv, Shape, Deliver, table
<1>3. /\ e \in Events /\ queue' = Tail(queue) /\ queue' \in Seq(Events)
      /\ Sent(queue) = Sent(queue') \cup {e}
  BY <1>1, <1>2, HeadSent DEF Deliver, table
<1>4. e = [kind |-> e.kind, v |-> e.v] /\ e.kind \in {"follow", "unfollow"} /\ e.v \in Vloggers
  BY <1>3 DEF Events
<1>5. PICK j : j = [kind |-> e.kind, v |-> e.v, applied |-> FALSE]
  OBVIOUS
<1>6. j \in Jobs /\ j # NoJob /\ j.kind = e.kind /\ j.v = e.v /\ j.applied = FALSE
  BY <1>4, <1>5 DEF Jobs, NoJob
<1>7. job' = j /\ UNCHANGED <<edges, mixed, want, act>>
  BY <1>1, <1>5 DEF Deliver, table
<1>8. InHand(job) = {} /\ InHand(job') = {e}
  BY <1>2, <1>4, <1>6, <1>7 DEF InHand
<1>9. Open' = Open
  BY <1>3, <1>8 DEF Open
<1>10. Shape'
  BY <1>2, <1>3, <1>6, <1>7 DEF Shape
<1>11. ASSUME NEW u \in Vloggers \ mixed'  PROVE Single(u)'
  <2>1. Single(u)
    BY <1>7 DEF IInv
  <2>2. OneRequest(u)' /\ OneMind(u)' /\ Agreed(u)'
    BY <1>7, <1>9, <2>1 DEF Single, OneRequest, OneMind, Agreed
  <2>3. Settled(u)'
    <3>1. job.v # u
      BY <1>2, Names DEF NoJob
    <3>2. SUFFICES ASSUME \A f \in Sent(queue') : f.v # u, j.v # u
                   PROVE  u \in edges <=> u \in want
      BY <1>6, <1>7 DEF Settled
    <3>3. \A f \in Sent(queue) : f.v # u
      BY <1>3, <1>6, <3>2
    <3> QED BY <2>1, <3>1, <3>3 DEF Single, Settled
  <2> QED BY <2>2, <2>3 DEF Single
<1> QED BY <1>10, <1>11 DEF IInv

\* The last unapplied event of an author leaves the edge as wanted.
LEMMA ApplyKeeps ==
    ASSUME IInv, Apply
    PROVE  IInv'
<1>1. PICK j, v, kind : j = job /\ v = job.v /\ kind = job.kind
  OBVIOUS
<1>2. Shape /\ j \in Jobs /\ j # NoJob /\ v \in Vloggers /\ kind \in {"follow", "unfollow"}
      /\ j.v = v /\ j.kind = kind
  BY <1>1 DEF IInv, Shape, Apply, table, Jobs
<1>3. PICK b : b = [j EXCEPT !.applied = TRUE]
  OBVIOUS
<1>4. b \in Jobs /\ b.v = v /\ b.kind = kind /\ b # NoJob
  BY <1>2, <1>3 DEF Jobs, NoJob
<1>5. /\ job' = b /\ UNCHANGED <<queue, mixed, want, act>>
      /\ edges' = IF kind = "follow" THEN edges \cup {v} ELSE edges \ {v}
  BY <1>1, <1>3 DEF Apply, table, Written
<1>6. InHand(job) = {[kind |-> kind, v |-> v]} /\ InHand(job') = InHand(job)
  BY <1>1, <1>2, <1>4, <1>5 DEF InHand
<1>7. Open' = Open
  BY <1>5, <1>6 DEF Open
<1>8. Shape'
  BY <1>2, <1>4, <1>5 DEF Shape
<1>9. ASSUME NEW u \in Vloggers \ mixed'  PROVE Single(u)'
  <2>1. Single(u)
    BY <1>5 DEF IInv
  <2>2. OneRequest(u)' /\ OneMind(u)' /\ Agreed(u)'
    BY <1>5, <1>7, <2>1 DEF Single, OneRequest, OneMind, Agreed
  <2>3. Settled(u)'
    <3>1. CASE u = v
      <4>1. [kind |-> kind, v |-> v] \in Open
        BY <1>6 DEF Open
      <4>2. v \in want <=> kind = "follow"
        BY <2>1, <3>1, <4>1 DEF Single, Agreed
      <4>3. v \in edges' <=> v \in want'
        BY <1>5, <4>2
      <4> QED BY <3>1, <4>3 DEF Settled
    <3>2. CASE u # v
      <4>1. job.v # u /\ (u \in edges' <=> u \in edges)
        BY <1>1, <1>5, <3>2
      <4> QED BY <1>5, <2>1, <4>1 DEF Single, Settled
    <3> QED BY <3>1, <3>2
  <2> QED BY <2>2, <2>3 DEF Single
<1> QED BY <1>8, <1>9 DEF IInv

LEMMA AckKeeps ==
    ASSUME IInv, Ack
    PROVE  IInv'
<1>1. /\ Shape /\ job.applied /\ job' = NoJob
      /\ UNCHANGED <<edges, queue, mixed, want, act>>
  BY DEF IInv, Ack, table
<1>2. Open' \subseteq Open
  BY <1>1 DEF Open, InHand
<1>3. Shape'
  BY <1>1 DEF Shape
<1>4. ASSUME NEW u \in Vloggers \ mixed'  PROVE Single(u)'
  <2>1. Single(u)
    BY <1>1 DEF IInv
  <2>2. OneRequest(u)' /\ OneMind(u)' /\ Agreed(u)'
    BY <1>1, <1>2, <2>1 DEF Single, OneRequest, OneMind, Agreed
  <2>3. Settled(u)'
    BY <1>1, <2>1 DEF Single, Settled
  <2> QED BY <2>2, <2>3 DEF Single
<1> QED BY <1>3, <1>4 DEF IInv

LEMMA RequeueKeeps ==
    ASSUME IInv, Requeue
    PROVE  IInv'
<1>1. PICK e : e = [kind |-> job.kind, v |-> job.v]
  OBVIOUS
<1>2. Shape /\ job \in Jobs /\ job # NoJob /\ queue \in Seq(Events)
  BY DEF IInv, Shape, Requeue, table
<1>3. e \in Events /\ e.v = job.v
  BY <1>1, <1>2 DEF Jobs, Events
<1>4. queue' = <<e>> \o queue /\ job' = NoJob /\ UNCHANGED <<edges, mixed, want, act>>
  BY <1>1 DEF Requeue, table
<1>5. queue' \in Seq(Events) /\ Sent(queue)' = Sent(queue) \cup {e}
  BY <1>2, <1>3, <1>4, BackSent
<1>6. InHand(job) = {e} /\ InHand(job') = {}
  BY <1>1, <1>2, <1>4 DEF InHand
<1>7. Open' = Open
  BY <1>5, <1>6 DEF Open
<1>8. Shape'
  BY <1>2, <1>4, <1>5 DEF Shape
<1>9. ASSUME NEW u \in Vloggers \ mixed'  PROVE Single(u)'
  <2>1. Single(u)
    BY <1>4 DEF IInv
  <2>2. OneRequest(u)' /\ OneMind(u)' /\ Agreed(u)'
    BY <1>4, <1>7, <2>1 DEF Single, OneRequest, OneMind, Agreed
  <2>3. Settled(u)'
    BY <1>3, <1>4, <1>5, <2>1 DEF Single, Settled
  <2> QED BY <2>2, <2>3 DEF Single
<1> QED BY <1>8, <1>9 DEF IInv

-----------------------------------------------------------------------------
(* The theorems.                                                             *)

LEMMA Clock == Spec => [](now \in Nat)
<1>1. Init => now \in Nat
  BY DEF Init
<1>2. ASSUME now \in Nat, Next PROVE now' \in Nat
  <2>1. now' = now \/ now' = now + 1
    BY <1>2 DEF Next, Worker, Deliver, Apply, Ack, Requeue, Expire, Tick, ExpirePage,
                BeginEdge, BeginFeed, Request, Announce, WriteEdge, TryLock, LookAgain,
                WaitForPage, ReadEdges, FillPage, Release, bounds
  <2> QED BY <1>2, <2>1
<1>3. now \in Nat /\ [Next]_vars => (now \in Nat)'
  <2>1. UNCHANGED vars => now' = now
    BY DEF vars, bounds
  <2> QED BY <1>2, <2>1
<1> QED BY <1>1, <1>3, PTL DEF Spec

LEMMA Starts == Init => IInv
<1>1. SUFFICES ASSUME Init PROVE IInv
  OBVIOUS
<1>2. Quiet \in Acts /\ Quiet.pc = "idle" /\ Quiet.v = "none" /\ Quiet.v \notin Vloggers
  BY Names DEF Quiet, Acts
<1>3. queue \in Seq(Events) /\ Sent(queue) = {}
  <2>1. queue = <<>> /\ Len(queue) = 0
    BY <1>1, EmptySeq DEF Init
  <2> QED BY <2>1 DEF Sent
<1>4. Open = {} /\ \A c \in Callers : act[c] = Quiet
  BY <1>1, <1>3 DEF Init, Open, InHand
<1>5. Shape
  BY <1>1, <1>2, <1>3 DEF Init, Shape
<1>6. ASSUME NEW v \in Vloggers PROVE Single(v)
  BY <1>1, <1>2, <1>4 DEF Single, OneRequest, OneMind, Agreed, Settled, Init
<1> QED BY <1>5, <1>6 DEF IInv

LEMMA Steps == now \in Nat /\ IInv /\ [Next]_vars => IInv'
<1>1. SUFFICES ASSUME now \in Nat, IInv, [Next]_vars PROVE IInv'
  OBVIOUS
<1>2. CASE UNCHANGED vars
  BY <1>1, <1>2, CalmKeeps DEF vars, social, table
<1>3. CASE Deliver
  BY <1>1, <1>3, DeliverKeeps
<1>4. CASE Apply
  BY <1>1, <1>4, ApplyKeeps
<1>5. CASE Ack
  BY <1>1, <1>5, AckKeeps
<1>6. CASE Requeue
  BY <1>1, <1>6, RequeueKeeps
<1>7. CASE Expire
  <2>1. CASE Tick
    <3>1. UNCHANGED <<edges, queue, job, mixed, want, act>>
      BY <2>1 DEF Tick
    <3> QED BY <1>1, <3>1, CalmKeeps
  <2>2. CASE ExpirePage \/ (ExpireLock /\ UNCHANGED <<social, cached, act, bounds>>)
    <3>1. UNCHANGED <<edges, queue, job, mixed, want, act>>
      BY <2>2 DEF ExpirePage, social, table
    <3> QED BY <1>1, <3>1, CalmKeeps
  <2> QED BY <1>7, <2>1, <2>2 DEF Expire
<1>8. ASSUME NEW c \in Callers, NEW v \in Vloggers,
             BeginEdge(c, "follow", v) \/ BeginEdge(c, "unfollow", v)
      PROVE  IInv'
  BY <1>1, <1>8, BeginKeeps
<1>9. ASSUME NEW c \in Callers, BeginFeed(c) \/ Request(c)
      PROVE  IInv'
  BY <1>1, <1>9, AnnounceKeeps, WriteKeeps, FeedSteps DEF Request
<1> QED BY <1>1, <1>2, <1>3, <1>4, <1>5, <1>6, <1>7, <1>8, <1>9 DEF Next, Worker

LEMMA EndsAsWanted == IInv => EdgeFollowsLast
<1>1. SUFFICES ASSUME IInv, NEW v \in Vloggers \ mixed, ~Pending(v)
               PROVE  v \in edges <=> v \in want
  BY DEF EdgeFollowsLast
<1>2. (\A e \in Sent(queue) : e.v # v) /\ job.v # v
  BY <1>1, NothingPending DEF IInv
<1> QED BY <1>1, <1>2 DEF IInv, Single, Settled

\* While the requests on an author do not overlap, one request is under way
\* at a time and every event about it, first delivered or again, says what is
\* wanted (SocialService and SocialWorker).
THEOREM EdgeInvariant == Spec => []IInv
<1>1. Init => IInv
  BY Starts
<1>2. now \in Nat /\ IInv /\ [Next]_vars => IInv'
  BY Steps
<1> QED BY <1>1, <1>2, Clock, PTL DEF Spec

\* Follow and Unfollow write the edge beside the worker, and events are lost,
\* refused and repeated; yet requests that do not overlap leave the edge as
\* the last of them wanted it.
THEOREM EdgeHolds == Spec => []EdgeFollowsLast
<1>1. IInv => EdgeFollowsLast
  BY EndsAsWanted
<1> QED BY <1>1, EdgeInvariant, PTL

-----------------------------------------------------------------------------
(* The cached page.                                                          *)

\* The table's history ends at the present.
Recorded == /\ now \in Nat /\ edges \in DOMAIN last /\ last[edges] = now
            /\ \A F \in DOMAIN last : last[F] \in Nat /\ last[F] <= now

\* What a reader is about to store is what the table held when it read it.
Carries(a) == a.pc = "fill" => a.page \in DOMAIN last /\ a.at <= last[a.page]

Pages == [there : BOOLEAN, page : SUBSET Vloggers, left : Nat, late : Nat]

\* The page's lifetime ends before it is too old.
Fresh(k) == /\ k \in Pages
            /\ k.there => /\ k.page \in DOMAIN last
                          /\ now + k.left <= last[k.page] + PageTTL + k.late

PageInv == Recorded /\ (\A c \in Callers : Carries(act[c])) /\ Fresh(cached)

\* A step that fills nothing and leaves the table and the clock alone.
LEMMA PageKeeps ==
    ASSUME PageInv, UNCHANGED <<edges, last, now>>, cached' \in {cached, Absent},
           \A c \in Callers : act'[c] = act[c] \/ act'[c].pc # "fill"
    PROVE  PageInv'
<1>1. Recorded'
  BY DEF PageInv, Recorded
<1>2. \A c \in Callers : Carries(act[c])'
  BY DEF PageInv, Carries
<1>3. Absent \in Pages /\ Absent.there = FALSE
  BY DEF Absent, Pages
<1>4. Fresh(cached)'
  BY <1>3 DEF PageInv, Fresh
<1> QED BY <1>1, <1>2, <1>4 DEF PageInv

\* The table's history never forgets, and its dates only grow.
LEMMA HistoryGrows ==
    ASSUME PageInv, NEW t, t \in Nat, t >= now, now' = t, Remember(edges', t)
    PROVE  /\ Recorded'
           /\ \A F \in DOMAIN last : F \in DOMAIN last' /\ last'[F] \in Nat /\ last[F] <= last'[F]
<1>1. PICK E, n : E = edges' /\ n = last'
  OBVIOUS
<1>2. /\ DOMAIN n = DOMAIN last \cup {E} /\ n[E] = t
      /\ \A F \in DOMAIN last : n[F] = IF F = E THEN t ELSE last[F]
  BY <1>1 DEF Remember
<1>3. now \in Nat /\ \A F \in DOMAIN last : last[F] \in Nat /\ last[F] <= now
  BY DEF PageInv, Recorded
<1>4. \A F \in DOMAIN n : n[F] \in Nat /\ n[F] <= t
  BY <1>2, <1>3
<1>5. \A F \in DOMAIN last : F \in DOMAIN n /\ n[F] \in Nat /\ last[F] <= n[F]
  BY <1>2, <1>3
<1>6. Recorded'
  BY <1>1, <1>2, <1>4 DEF Recorded
<1> QED BY <1>1, <1>5, <1>6

\* A reader goes on carrying what it read.
LEMMA CarriesOn ==
    ASSUME PageInv, Shape,
           \A F \in DOMAIN last : F \in DOMAIN last' /\ last'[F] \in Nat /\ last[F] <= last'[F],
           \A c \in Callers : act'[c] = act[c] \/ act'[c].pc # "fill"
    PROVE  \A c \in Callers : Carries(act[c])'
<1>1. SUFFICES ASSUME NEW c \in Callers, act'[c].pc = "fill"
               PROVE  act'[c].page \in DOMAIN last' /\ act'[c].at <= last'[act'[c].page]
  BY DEF Carries
<1>2. PICK a, F : a = act[c] /\ F = act[c].page
  OBVIOUS
<1>3. act'[c] = a /\ a \in Acts /\ Carries(a) /\ a.pc = "fill" /\ F = a.page
  BY <1>1, <1>2 DEF PageInv, Shape
<1>4. F \in DOMAIN last /\ a.at <= last[F] /\ a.at \in Nat /\ last[F] \in Nat
  BY <1>3 DEF Carries, Acts, PageInv, Recorded
<1>5. F \in DOMAIN last' /\ last'[F] \in Nat /\ last[F] <= last'[F]
  BY <1>4
<1>6. a.at <= last'[F]
  BY <1>4, <1>5
<1> QED BY <1>3, <1>5, <1>6

\* A change of the table at one tick.
LEMMA ChangeKeeps ==
    ASSUME PageInv, Shape, now' = now, cached' = cached, Remember(edges', now),
           \A c \in Callers : act'[c] = act[c] \/ act'[c].pc # "fill"
    PROVE  PageInv'
<1>1. now \in Nat /\ now >= now
  BY DEF PageInv, Recorded
<1>2. /\ Recorded'
      /\ \A F \in DOMAIN last : F \in DOMAIN last' /\ last'[F] \in Nat /\ last[F] <= last'[F]
  BY <1>1, HistoryGrows
<1>3. \A c \in Callers : Carries(act[c])'
  BY <1>2, CarriesOn
<1>4. Fresh(cached)'
  <2>1. PICK k : k = cached
    OBVIOUS
  <2>2. k \in Pages /\ cached' = k /\ PageTTL \in Nat
    BY <2>1, Bounds DEF PageInv, Fresh
  <2>3. SUFFICES ASSUME k.there
                 PROVE  k.page \in DOMAIN last' /\ now + k.left <= last'[k.page] + PageTTL + k.late
    BY <2>2 DEF Fresh
  <2>4. /\ k.page \in DOMAIN last /\ now + k.left <= last[k.page] + PageTTL + k.late
        /\ k.left \in Nat /\ k.late \in Nat /\ last[k.page] \in Nat
    BY <2>1, <2>2, <2>3 DEF PageInv, Fresh, Pages, Recorded
  <2>5. k.page \in DOMAIN last' /\ last'[k.page] \in Nat /\ last[k.page] <= last'[k.page]
    BY <1>2, <2>4
  <2> QED BY <1>1, <2>2, <2>4, <2>5
<1> QED BY <1>2, <1>3, <1>4 DEF PageInv

LEMMA TickKeeps ==
    ASSUME PageInv, Shape, Tick
    PROVE  PageInv'
<1>1. PICK t : t = now + 1
  OBVIOUS
<1>2. now \in Nat /\ t \in Nat /\ t >= now /\ now' = t /\ edges' = edges /\ act' = act
  BY <1>1 DEF Tick, PageInv, Recorded
<1>3. Remember(edges', t)
  BY <1>2 DEF Tick
<1>4. /\ Recorded'
      /\ \A F \in DOMAIN last : F \in DOMAIN last' /\ last'[F] \in Nat /\ last[F] <= last'[F]
  BY <1>2, <1>3, HistoryGrows
<1>5. \A c \in Callers : Carries(act[c])'
  BY <1>2, <1>4, CarriesOn
<1>6. Fresh(cached)'
  <2>1. PICK k : k = cached
    OBVIOUS
  <2>2. k \in Pages /\ PageTTL \in Nat
    BY <2>1, Bounds DEF PageInv, Fresh
  <2>3. CASE k.left > 0
    <3>1. PICK m : m = [k EXCEPT !.left = k.left - 1]
      OBVIOUS
    <3>2. cached' = m /\ m \in Pages /\ m.there = k.there /\ m.page = k.page /\ m.late = k.late
          /\ m.left = k.left - 1 /\ k.left \in Nat /\ k.late \in Nat
      BY <2>1, <2>2, <2>3, <3>1 DEF Tick, Pages
    <3>3. SUFFICES ASSUME k.there
                   PROVE  k.page \in DOMAIN last' /\ t + m.left <= last'[k.page] + PageTTL + k.late
      BY <1>2, <3>2 DEF Fresh
    <3>4. /\ k.page \in DOMAIN last /\ now + k.left <= last[k.page] + PageTTL + k.late
          /\ last[k.page] \in Nat
      BY <2>1, <3>3 DEF PageInv, Fresh, Recorded
    <3>5. k.page \in DOMAIN last' /\ last'[k.page] \in Nat /\ last[k.page] <= last'[k.page]
      BY <1>4, <3>4
    <3> QED BY <1>1, <1>2, <2>2, <3>2, <3>4, <3>5
  <2>4. CASE ~(k.left > 0)
    <3>1. cached' = Absent
      BY <2>1, <2>4 DEF Tick
    <3> QED BY <3>1 DEF Fresh, Absent, Pages
  <2> QED BY <2>3, <2>4
<1> QED BY <1>4, <1>5, <1>6 DEF PageInv

LEMMA ReadKeeps ==
    ASSUME PageInv, Shape, NEW c \in Callers,
           act' = [act EXCEPT ![c].pc = "fill", ![c].page = edges, ![c].at = now],
           UNCHANGED <<edges, last, now, cached>>
    PROVE  PageInv'
<1>1. PICK a : a = [act[c] EXCEPT !.pc = "fill", !.page = edges, !.at = now]
  OBVIOUS
<1>2. act[c] \in Acts /\ act'[c] = a /\ \A d \in Callers : d # c => act'[d] = act[d]
  BY <1>1 DEF Shape
<1>3. a.page = edges /\ a.at = now
  BY <1>1, <1>2 DEF Acts
<1>4. now \in Nat /\ edges \in DOMAIN last /\ last[edges] = now
  BY DEF PageInv, Recorded
<1>5. ASSUME NEW d \in Callers  PROVE Carries(act[d])'
  <2>1. CASE d = c
    BY <1>2, <1>3, <1>4, <2>1 DEF Carries
  <2>2. CASE d # c
    BY <1>2, <2>2 DEF PageInv, Carries
  <2> QED BY <2>1, <2>2
<1>6. Recorded' /\ Fresh(cached)'
  BY DEF PageInv, Recorded, Fresh
<1> QED BY <1>5, <1>6 DEF PageInv

LEMMA FillKeeps ==
    ASSUME PageInv, Shape, NEW c \in Callers, act[c].pc = "fill",
           cached' = [there |-> TRUE, page |-> act[c].page, left |-> PageTTL,
                      late |-> now - act[c].at],
           \A d \in Callers : act'[d] = act[d] \/ act'[d].pc # "fill",
           UNCHANGED <<edges, last, now>>
    PROVE  PageInv'
<1>1. PICK a, F : a = act[c] /\ F = act[c].page
  OBVIOUS
<1>2. a \in Acts /\ a.at \in Nat /\ F \in SUBSET Vloggers /\ PageTTL \in Nat /\ now \in Nat
  BY <1>1, Bounds DEF Shape, Acts, PageInv, Recorded
<1>3. F \in DOMAIN last /\ a.at <= last[F] /\ last[F] \in Nat /\ last[F] <= now
  BY <1>1 DEF PageInv, Carries, Recorded
<1>4. PICK k : k = [there |-> TRUE, page |-> F, left |-> PageTTL, late |-> now - a.at]
  OBVIOUS
<1>5. now - a.at \in Nat
  BY <1>2, <1>3
<1>6. k \in Pages /\ k.page = F /\ k.left = PageTTL /\ k.late = now - a.at /\ cached' = k
  BY <1>1, <1>2, <1>4, <1>5 DEF Pages
<1>7. now + PageTTL <= last[F] + PageTTL + (now - a.at)
  BY <1>2, <1>3
<1>8. Fresh(cached)'
  BY <1>3, <1>6, <1>7 DEF Fresh
<1>9. \A d \in Callers : Carries(act[d])'
  <2>1. SUFFICES ASSUME NEW d \in Callers, act'[d].pc = "fill"
                 PROVE  act'[d].page \in DOMAIN last /\ act'[d].at <= last[act'[d].page]
    BY DEF Carries
  <2>2. act'[d] = act[d]
    BY <2>1
  <2> QED BY <2>1, <2>2 DEF PageInv, Carries
<1>10. Recorded'
  BY DEF PageInv, Recorded
<1> QED BY <1>8, <1>9, <1>10 DEF PageInv

\* A caller that goes elsewhere than to its fill.
LEMMA NoFill ==
    ASSUME Shape, NEW c \in Callers, NEW r, r.pc # "fill", act' = [act EXCEPT ![c] = r]
    PROVE  \A d \in Callers : act'[d] = act[d] \/ act'[d].pc # "fill"
<1>1. PICK b : b = act'
  OBVIOUS
<1>2. b = [act EXCEPT ![c] = r] /\ act \in [Callers -> Acts]
  BY <1>1 DEF Shape
<1>3. \A d \in Callers : b[d] = act[d] \/ b[d].pc # "fill"
  BY <1>2
<1> QED BY <1>1, <1>3

LEMMA NoFillGoto ==
    ASSUME Shape, NEW c \in Callers,
           \/ Goto(c, "wait") \/ Goto(c, "read") \/ Goto(c, "unlock") \/ Goto(c, "write")
           \/ Done(c)
           \/ act' = [act EXCEPT ![c].pc = "again", ![c].locked = TRUE]
    PROVE  \A d \in Callers : act'[d] = act[d] \/ act'[d].pc # "fill"
<1>1. act[c] \in Acts /\ Quiet.pc = "idle"
  BY DEF Shape, Quiet
<1>2. CASE Done(c)
  <2>1. act' = [act EXCEPT ![c] = Quiet]
    BY <1>2 DEF Done
  <2> QED BY <1>1, <2>1, NoFill
<1>3. CASE act' = [act EXCEPT ![c].pc = "again", ![c].locked = TRUE]
  <2>1. PICK r : r = [act[c] EXCEPT !.pc = "again", !.locked = TRUE]
    OBVIOUS
  <2>2. r.pc = "again" /\ act' = [act EXCEPT ![c] = r]
    BY <1>1, <1>3, <2>1 DEF Acts, Shape
  <2>3. r.pc # "fill"
    BY <2>2
  <2> QED BY <2>2, <2>3, NoFill
<1>4. ASSUME NEW pc \in {"wait", "read", "unlock", "write"}, Goto(c, pc)
      PROVE  \A d \in Callers : act'[d] = act[d] \/ act'[d].pc # "fill"
  <2>1. PICK r : r = [act[c] EXCEPT !.pc = pc]
    OBVIOUS
  <2>2. r.pc = pc /\ act' = [act EXCEPT ![c] = r]
    BY <1>1, <1>4, <2>1 DEF Acts, Goto
  <2>3. r.pc # "fill"
    BY <2>2
  <2> QED BY <2>2, <2>3, NoFill
<1> QED BY <1>2, <1>3, <1>4

LEMMA FeedPageKeeps ==
    ASSUME PageInv, Shape, NEW c \in Callers,
           \/ BeginFeed(c) \/ TryLock(c) \/ LookAgain(c) \/ WaitForPage(c)
           \/ ReadEdges(c) \/ FillPage(c) \/ Release(c)
    PROVE  PageInv'
<1>1. UNCHANGED <<edges, last, now>>
  BY DEF BeginFeed, TryLock, LookAgain, WaitForPage, ReadEdges, FillPage, Release,
         social, table, bounds
<1>2. CASE BeginFeed(c)
  <2>1. PICK pc \in {"lock", "read"} : act' = [act EXCEPT ![c] = [Quiet EXCEPT !.kind = "feed", !.pc = pc]]
    BY <1>2 DEF BeginFeed
  <2>2. PICK r : r = [Quiet EXCEPT !.kind = "feed", !.pc = pc]
    OBVIOUS
  <2>3. r.pc = pc /\ r.pc # "fill" /\ act' = [act EXCEPT ![c] = r]
    BY <2>1, <2>2 DEF Quiet
  <2>4. \A d \in Callers : act'[d] = act[d] \/ act'[d].pc # "fill"
    BY <2>3, NoFill
  <2> QED BY <1>1, <1>2, <2>4, PageKeeps DEF BeginFeed
<1>3. CASE TryLock(c)
  <2>1. \A d \in Callers : act'[d] = act[d] \/ act'[d].pc # "fill"
    <3>1. Goto(c, "wait") \/ act' = [act EXCEPT ![c].pc = "again", ![c].locked = TRUE]
      BY <1>3 DEF TryLock
    <3> QED BY <3>1, NoFillGoto
  <2> QED BY <1>1, <1>3, <2>1, PageKeeps DEF TryLock
<1>4. CASE LookAgain(c)
  <2>1. \A d \in Callers : act'[d] = act[d] \/ act'[d].pc # "fill"
    <3>1. Goto(c, "unlock") \/ Goto(c, "read")
      BY <1>4 DEF LookAgain
    <3> QED BY <3>1, NoFillGoto
  <2> QED BY <1>1, <1>4, <2>1, PageKeeps DEF LookAgain
<1>5. CASE WaitForPage(c)
  <2>1. \A d \in Callers : act'[d] = act[d] \/ act'[d].pc # "fill"
    <3>1. Done(c) \/ Goto(c, "read")
      BY <1>5 DEF WaitForPage
    <3> QED BY <3>1, NoFillGoto
  <2> QED BY <1>1, <1>5, <2>1, PageKeeps DEF WaitForPage
<1>6. CASE ReadEdges(c)
  <2>1. CASE act' = [act EXCEPT ![c].pc = "fill", ![c].page = edges, ![c].at = now]
    BY <1>1, <1>6, <2>1, ReadKeeps DEF ReadEdges
  <2>2. CASE Goto(c, "unlock") \/ Done(c)
    <3>1. \A d \in Callers : act'[d] = act[d] \/ act'[d].pc # "fill"
      BY <2>2, NoFillGoto
    <3> QED BY <1>1, <1>6, <3>1, PageKeeps DEF ReadEdges
  <2> QED BY <1>6, <2>1, <2>2 DEF ReadEdges
<1>7. CASE FillPage(c)
  <2>1. Goto(c, "unlock") \/ Done(c)
    BY <1>7 DEF FillPage
  <2>2. \A d \in Callers : act'[d] = act[d] \/ act'[d].pc # "fill"
    BY <2>1, NoFillGoto
  <2>3. act[c].pc = "fill"
    BY <1>7 DEF FillPage
  <2>4. CASE cached' = cached
    BY <1>1, <2>2, <2>4, PageKeeps
  <2>5. CASE cached' = [there |-> TRUE, page |-> act[c].page, left |-> PageTTL,
                        late |-> now - act[c].at]
    BY <1>1, <2>2, <2>3, <2>5, FillKeeps
  <2> QED BY <1>7, <2>4, <2>5 DEF FillPage
<1>8. CASE Release(c)
  <2>1. \A d \in Callers : act'[d] = act[d] \/ act'[d].pc # "fill"
    <3>1. Done(c)
      BY <1>8 DEF Release
    <3> QED BY <3>1, NoFillGoto
  <2> QED BY <1>1, <1>8, <2>1, PageKeeps DEF Release
<1> QED BY <1>2, <1>3, <1>4, <1>5, <1>6, <1>7, <1>8

LEMMA PageSteps == Shape /\ PageInv /\ [Next]_vars => PageInv'
<1>1. SUFFICES ASSUME Shape, PageInv, [Next]_vars PROVE PageInv'
  OBVIOUS
<1>2. CASE UNCHANGED vars
  BY <1>1, <1>2, PageKeeps DEF vars, social, table, bounds
<1>3. CASE Deliver \/ Ack \/ Requeue
  <2>1. UNCHANGED <<edges, last, now, cached, act>>
    BY <1>3 DEF Deliver, Ack, Requeue, table, bounds
  <2> QED BY <1>1, <2>1, PageKeeps
<1>4. CASE Apply
  <2>1. UNCHANGED <<now, cached, act>> /\ Remember(edges', now)
    BY <1>4 DEF Apply, bounds
  <2> QED BY <1>1, <2>1, ChangeKeeps
<1>5. CASE Expire
  <2>1. CASE Tick
    BY <1>1, <2>1, TickKeeps
  <2>2. CASE ExpirePage \/ (ExpireLock /\ UNCHANGED <<social, cached, act, bounds>>)
    <3>1. UNCHANGED <<edges, last, now, act>> /\ cached' \in {cached, Absent}
      BY <2>2 DEF ExpirePage, social, table, bounds
    <3> QED BY <1>1, <3>1, PageKeeps
  <2> QED BY <1>5, <2>1, <2>2 DEF Expire
<1>6. ASSUME NEW c \in Callers, NEW v \in Vloggers, NEW kind \in {"follow", "unfollow"},
             BeginEdge(c, kind, v)
      PROVE  PageInv'
  <2>1. \A d \in Callers : act'[d] = act[d] \/ act'[d].pc # "fill"
    <3>1. PICK r : r = [Quiet EXCEPT !.kind = kind, !.pc = "event", !.v = v]
      OBVIOUS
    <3>2. r.pc = "event" /\ act' = [act EXCEPT ![c] = r]
      BY <1>6, <3>1 DEF BeginEdge, Quiet
    <3>3. r.pc # "fill"
      BY <3>2
    <3> QED BY <1>1, <3>2, <3>3, NoFill
  <2>2. UNCHANGED <<edges, last, now, cached>>
    BY <1>6 DEF BeginEdge, table
  <2> QED BY <1>1, <2>1, <2>2, PageKeeps
<1>7. ASSUME NEW c \in Callers, Announce(c)  PROVE PageInv'
  <2>1. UNCHANGED <<edges, last, now, cached>> /\ Goto(c, "write")
    BY <1>7 DEF Announce, table, bounds
  <2>2. \A d \in Callers : act'[d] = act[d] \/ act'[d].pc # "fill"
    BY <1>1, <2>1, NoFillGoto
  <2> QED BY <1>1, <2>1, <2>2, PageKeeps
<1>8. ASSUME NEW c \in Callers, WriteEdge(c)  PROVE PageInv'
  <2>1. \A d \in Callers : act'[d] = act[d] \/ act'[d].pc # "fill"
    <3>1. Done(c)
      BY <1>8 DEF WriteEdge
    <3> QED BY <1>1, <3>1, NoFillGoto
  <2>2. UNCHANGED <<now, cached>>
    BY <1>8 DEF WriteEdge
  <2>3. CASE Remember(edges', now)
    BY <1>1, <2>1, <2>2, <2>3, ChangeKeeps
  <2>4. CASE UNCHANGED table
    BY <1>1, <2>1, <2>2, <2>4, PageKeeps DEF table
  <2> QED BY <1>8, <2>3, <2>4 DEF WriteEdge
<1>9. ASSUME NEW c \in Callers, BeginFeed(c) \/ Request(c)  PROVE PageInv'
  BY <1>1, <1>7, <1>8, <1>9, FeedPageKeeps DEF Request
<1> QED BY <1>1, <1>2, <1>3, <1>4, <1>5, <1>6, <1>9 DEF Next, Worker

LEMMA PageStarts == Init => PageInv
<1>1. SUFFICES ASSUME Init PROVE PageInv
  OBVIOUS
<1>2. DOMAIN last = {{}} /\ last[{}] = 0 /\ edges = {} /\ now = 0
  BY <1>1 DEF Init
<1>3. Recorded
  BY <1>2 DEF Recorded
<1>4. \A c \in Callers : Carries(act[c])
  BY <1>1 DEF Init, Carries, Quiet
<1>5. Fresh(cached)
  BY <1>1 DEF Init, Fresh, Absent, Pages
<1> QED BY <1>3, <1>4, <1>5 DEF PageInv

\* A page cached by ListByFollowing, through the lock or beside it, by however
\* slow a reader, is gone before it is older than its TTL and the time that
\* reader took.
THEOREM PageHolds == Spec => []PageIsRecent
<1>1. IInv => Shape
  BY DEF IInv
<1>2. PageInv => PageIsRecent
  <2>1. SUFFICES ASSUME PageInv, cached.there
                 PROVE  /\ cached.page \in DOMAIN last
                        /\ now <= last[cached.page] + PageTTL + cached.late
    BY DEF PageIsRecent
  <2>2. /\ cached.page \in DOMAIN last /\ now + cached.left <= last[cached.page] + PageTTL + cached.late
        /\ cached.left \in Nat /\ cached.late \in Nat /\ now \in Nat /\ PageTTL \in Nat
        /\ last[cached.page] \in Nat
    BY <2>1, Bounds DEF PageInv, Fresh, Recorded, Pages
  <2> QED BY <2>2
<1> QED BY <1>1, <1>2, PageStarts, PageSteps, EdgeInvariant, PTL DEF Spec

=============================================================================
